----------------------------- MODULE AnalyticsJob -----------------------------
(***************************************************************************)
(* The streaming job of analytics/flink_analytics_job.py: source subtasks  *)
(* read the partitions of the topic, enrich_event stamps each event, and   *)
(* WindowAccumulator collects the events of each label and window until    *)
(* the watermarks of all subtasks have passed the window's end; then its   *)
(* timer writes the window's totals to three stores, one after the other.  *)
(*                                                                         *)
(* Flink is modelled from how the job sets it up: a watermark per subtask, *)
(* the event-time clock as the least of them, checkpoints of the positions *)
(* with the windows and timers, and two ways to start: from the last       *)
(* checkpoint, or, when the job is submitted anew, from the end of every   *)
(* partition.  Reading an event and processing it is one step, which may   *)
(* come later than the stamp it gives; a checkpoint sees both or neither.  *)
(***************************************************************************)
EXTENDS Integers, Sequences, Functions

CONSTANTS Partitions, Payloads,
          Subtasks, Reader,  \* source subtasks, and which reads each partition
          Labels,            \* what events may be keyed by
          Width,             \* window_minutes
          MaxTime,           \* bound: time
          MaxRestarts,       \* bound: recoveries and submissions
          MaxEvents,         \* bound: events of a partition
          JobFaults          \* among "crash", "submit", "store"

VARIABLES topic,       \* product-images.processed
          position,    \* how many events of each partition were read
          clock,       \* when each subtask last looked at its clock
          latest,      \* the latest stamp each subtask has given since it started
          watermark,   \* the last watermark of each subtask
          windows,     \* MapState "windows": the events of each label and window
          timers,      \* event-time timers registered and not fired
          firing,      \* the window on_timer is persisting, and the next store
          checkpoint,  \* the last completed checkpoint
          records,     \* in each store, the events each window's record counts
          started,     \* history: where the job was submitted
          unwritten,   \* history: the events of writes that failed, per store
          recoveries,  \* history: recoveries from a checkpoint
          restarts     \* recoveries and submissions

stateVars == <<position, windows, timers>>
timeVars == <<clock, latest, watermark>>
storeVars == <<records, unwritten>>
runVars == <<checkpoint, started, recoveries, restarts>>
jobVars == <<stateVars, timeVars, firing, storeVars, runVars>>
vars == <<topic, jobVars>>

ASSUME AnalyticsJobAssumption ==
    /\ Reader \in [Partitions -> Subtasks]
    /\ \A k \in Subtasks : \E p \in Partitions : Reader[p] = k
    /\ Width \in Nat \ {0} /\ MaxTime \in Nat
    /\ MaxRestarts \in Nat /\ MaxEvents \in Nat
    /\ JobFaults \subseteq {"crash", "submit", "store"}

Times == 0..MaxTime
MutWindowEnd(t) == t - (t % Width)   \* mutant: the window's start
WindowEnd(t) == t - (t % Width) + Width
WindowKeys == Labels \X {WindowEnd(t) : t \in Times}

Stores == <<"sql", "firestore", "gcs">>
StoreIds == DOMAIN Stores

\* enrich_event: an event without size_label is labelled "default", and one
\* without timestamp is stamped with the time it is read.
SizeLabel(e) == IF "size_label" \in DOMAIN e THEN e.size_label ELSE "default"
Stamped(e) == "timestamp" \in DOMAIN e
Stamps(e, k) == IF Stamped(e) THEN {e.timestamp} ELSE clock[k]..MaxTime

ASSUME PayloadAssumption ==
    \A e \in Payloads : SizeLabel(e) \in Labels /\ (Stamped(e) => e.timestamp \in Times)

\* An event of the topic: its partition and offset.
EventIds == Partitions \X (Nat \ {0})
NotFiring == << >>
NoCheckpoint == << >>
NoEvents == [w \in WindowKeys |-> << >>]
Never == [k \in Subtasks |-> -1]

Init ==
    /\ topic = [p \in Partitions |-> << >>]
    /\ position = [p \in Partitions |-> 0]
    /\ clock = [k \in Subtasks |-> 0]
    /\ latest = Never /\ watermark = Never
    /\ windows = NoEvents /\ timers = {}
    /\ firing = NotFiring
    /\ checkpoint = NoCheckpoint
    /\ records = [i \in StoreIds |-> NoEvents]
    /\ started = [p \in Partitions |-> 0]
    /\ unwritten = [i \in StoreIds |-> {}]
    /\ recoveries = 0 /\ restarts = 0
-----------------------------------------------------------------------------
Later(s, t) == IF s > t THEN s ELSE t

\* The event-time clock has reached t: every subtask's watermark has.
Passed(t) == \A k \in Subtasks : watermark[k] >= t
Due == {w \in timers : Passed(w[2])}

\* The operator takes elements, watermarks and barriers when no timer is due.
Ready == firing = NotFiring /\ Due = {}

\* enrich_event, the timestamp assigner and process_element.
MutRead(p) ==   \* mutant: the list is replaced instead of extended
    LET k == Reader[p]
        j == position[p] + 1
        e == topic[p][j]
    IN  /\ Ready /\ j <= Len(topic[p])
        /\ \E t \in Stamps(e, k) :
              LET w == <<SizeLabel(e), WindowEnd(t)>>
              IN  /\ clock' = [clock EXCEPT ![k] = IF Stamped(e) THEN @ ELSE t]
                  /\ latest' = [latest EXCEPT ![k] = Later(@, t)]
                  /\ windows' = [windows EXCEPT ![w] = <<<<p, j>>>>]
                  /\ timers' = timers \cup {w}
        /\ position' = [position EXCEPT ![p] = j]
        /\ UNCHANGED <<topic, watermark, firing, storeVars, runVars>>
Read(p) ==
    LET k == Reader[p]
        j == position[p] + 1
        e == topic[p][j]
    IN  /\ Ready /\ j <= Len(topic[p])
        /\ \E t \in Stamps(e, k) :
              LET w == <<SizeLabel(e), WindowEnd(t)>>
              IN  /\ clock' = [clock EXCEPT ![k] = IF Stamped(e) THEN @ ELSE t]
                  /\ latest' = [latest EXCEPT ![k] = Later(@, t)]
                  /\ windows' = [windows EXCEPT ![w] = Append(@, <<p, j>>)]
                  /\ timers' = IF windows[w] = << >> THEN timers \cup {w} ELSE timers
        /\ position' = [position EXCEPT ![p] = j]
        /\ UNCHANGED <<topic, watermark, firing, storeVars, runVars>>

\* for_monotonous_timestamps: the latest stamp less one, now and then.
EmitWatermark(k) ==
    /\ Ready /\ latest[k] - 1 > watermark[k]
    /\ watermark' = [watermark EXCEPT ![k] = latest[k] - 1]
    /\ UNCHANGED <<topic, stateVars, clock, latest, firing, storeVars, runVars>>

\* on_timer, the earliest window first.
StartTimer(w) ==
    /\ firing = NotFiring
    /\ w \in Due /\ \A v \in Due : w[2] <= v[2]
    /\ timers' = timers \ {w}
    /\ firing' = IF windows[w] = << >> THEN NotFiring ELSE <<w, 1>>
    /\ UNCHANGED <<topic, position, windows, timeVars, storeVars, runVars>>

\* _persist: Cloud SQL, Firestore, GCS, each an upsert whose failure is logged
\* (without a connection the first always fails); after the last the window is
\* removed.
MutPersist ==   \* mutant: the window is not removed
    /\ firing # NotFiring
    /\ records' = [records EXCEPT ![firing[2]][firing[1]] = windows[firing[1]]]
    /\ firing' = IF firing[2] < Len(Stores) THEN <<firing[1], firing[2] + 1>> ELSE NotFiring
    /\ UNCHANGED <<topic, stateVars, timeVars, unwritten, runVars>>
Persist ==
    /\ firing # NotFiring
    /\ LET w == firing[1]
           i == firing[2]
       IN  /\ \/ /\ records' = [records EXCEPT ![i][w] = windows[w]]
                 /\ UNCHANGED unwritten
              \/ /\ "store" \in JobFaults
                 /\ unwritten' = [unwritten EXCEPT ![i] = @ \cup Range(windows[w])]
                 /\ UNCHANGED records
           /\ \/ /\ i < Len(Stores)
                 /\ firing' = <<w, i + 1>>
                 /\ UNCHANGED windows
              \/ /\ i = Len(Stores)
                 /\ firing' = NotFiring
                 /\ windows' = [windows EXCEPT ![w] = << >>]
    /\ UNCHANGED <<topic, position, timers, timeVars, runVars>>

\* enable_checkpointing.
TakeCheckpoint ==
    /\ Ready /\ "crash" \in JobFaults
    /\ checkpoint' = [position |-> position, windows |-> windows, timers |-> timers]
    /\ UNCHANGED <<topic, stateVars, timeVars, firing, storeVars,
                   started, recoveries, restarts>>

\* open() in a new run: nothing was stamped yet.
Reopen ==
    /\ restarts < MaxRestarts /\ restarts' = restarts + 1
    /\ latest' = Never /\ watermark' = Never
    /\ firing' = NotFiring
    /\ UNCHANGED <<topic, clock, storeVars>>

\* The job fails in any step and is restarted from its last checkpoint.
Recover ==
    /\ "crash" \in JobFaults /\ checkpoint # NoCheckpoint
    /\ position' = checkpoint.position
    /\ windows' = checkpoint.windows /\ timers' = checkpoint.timers
    /\ recoveries' = recoveries + 1
    /\ Reopen
    /\ UNCHANGED <<checkpoint, started>>

\* The job is submitted again (or failed before its first checkpoint):
\* set_start_from_latest.
MutSubmit ==   \* mutant: from the earliest event
    /\ "submit" \in JobFaults
    /\ position' = [p \in Partitions |-> 0]
    /\ windows' = NoEvents /\ timers' = {}
    /\ started' = position' /\ checkpoint' = NoCheckpoint
    /\ Reopen
    /\ UNCHANGED recoveries
MutLatest ==   \* mutant: one past the end
    /\ "submit" \in JobFaults
    /\ position' = [p \in Partitions |-> Len(topic[p]) + 1]
    /\ windows' = NoEvents /\ timers' = {}
    /\ started' = position' /\ checkpoint' = NoCheckpoint
    /\ Reopen
    /\ UNCHANGED recoveries
Submit ==
    /\ "submit" \in JobFaults
    /\ position' = [p \in Partitions |-> Len(topic[p])]
    /\ windows' = NoEvents /\ timers' = {}
    /\ started' = position' /\ checkpoint' = NoCheckpoint
    /\ Reopen
    /\ UNCHANGED recoveries

JobStep ==
    \/ \E p \in Partitions : Read(p)
    \/ \E k \in Subtasks : EmitWatermark(k)
    \/ \E w \in WindowKeys : StartTimer(w)
    \/ Persist \/ TakeCheckpoint \/ Recover \/ Submit

\* Somebody publishes an event.
Produce(p, e) ==
    /\ topic' = [topic EXCEPT ![p] = Append(@, e)]
    /\ UNCHANGED jobVars

\* The job and its topic, which any number of events may come to.
OpenNext == JobStep \/ \E p \in Partitions, e \in Payloads : Produce(p, e)
OpenSpec == Init /\ [][OpenNext]_vars

Next ==
    \/ JobStep
    \/ \E p \in Partitions, e \in Payloads : Len(topic[p]) < MaxEvents /\ Produce(p, e)

Spec == Init /\ [][Next]_vars

\* While the job runs, its periodic watermarks and its timers are not put off
\* for ever; nothing is said of events arriving.
JobFairness ==
    /\ \A k \in Subtasks : WF_vars(EmitWatermark(k))
    /\ WF_vars(\E w \in WindowKeys : StartTimer(w))
    /\ WF_vars(Persist)

FairSpec == Spec /\ JobFairness
-----------------------------------------------------------------------------
WindowsType == [WindowKeys -> Seq(EventIds)]

\* Every variable has its type, and the job has read no more than there is.
TypeOK ==
    /\ topic \in [Partitions -> Seq(Payloads)]
    /\ position \in [Partitions -> Nat]
    /\ clock \in [Subtasks -> Times]
    /\ latest \in [Subtasks -> Times \cup {-1}] /\ watermark \in [Subtasks -> Times \cup {-1}]
    /\ windows \in WindowsType /\ timers \subseteq WindowKeys
    /\ firing \in {NotFiring} \cup (WindowKeys \X StoreIds)
    /\ checkpoint \in {NoCheckpoint} \cup
          [position : [Partitions -> Nat], windows : WindowsType, timers : SUBSET WindowKeys]
    /\ records \in [StoreIds -> WindowsType]
    /\ started \in [Partitions -> Nat]
    /\ unwritten \in [StoreIds -> SUBSET EventIds]
    /\ recoveries \in Nat /\ restarts \in Nat
    /\ \A p \in Partitions : started[p] <= position[p] /\ position[p] <= Len(topic[p])

InWindow(id) == \E w \in WindowKeys : id \in Range(windows[w])
Recorded(i, id) == \E w \in WindowKeys : id \in Range(records[i][w])
Unread(id) == position[id[1]] < id[2]

\* An event the job has not lost sight of, as far as store i is concerned: it
\* is yet to be read, in a window, counted, or was in a write that failed.
Kept(i, id) == Unread(id) \/ InWindow(id) \/ Recorded(i, id) \/ id \in unwritten[i]

\* Every event published since the job was submitted is kept, whatever fails:
\* a recovery reads again what the checkpoint does not hold, and a window that
\* is persisted a second time, with fewer events, takes from its record only
\* events that are counted elsewhere or will be.
ReadIsKept ==
    \A p \in Partitions, i \in StoreIds :
        \A j \in started[p] + 1 .. Len(topic[p]) : Kept(i, <<p, j>>)

\* No upsert loses a count: what a store has counted once stays counted there
\* or is about to be counted again, also when the job is submitted anew and
\* the earlier run's events are none of its business.
NeverForgotten ==
    [][\A i \in StoreIds, p \in Partitions :
          \A j \in DOMAIN topic[p] : Recorded(i, <<p, j>>) => Kept(i, <<p, j>>)']_vars

\* As long as the job has not recovered from a failure, an event is counted
\* once per store, in one window's record and once in it, and no window still
\* collects an event that was counted elsewhere.
CountedOnce ==
    recoveries = 0 =>
        \A i \in StoreIds : \A T, U \in {records[i], windows} : \A v, w \in WindowKeys :
            \A m \in DOMAIN T[v], n \in DOMAIN U[w] :
                T[v][m] = U[w][n] => v = w /\ m = n

\* on_timer is reached: a window whose end every subtask's stamps have passed
\* does not stay unpersisted, unless a restart makes the stamps start again.
PassedIsPersisted ==
    \A w \in WindowKeys :
        ~ <>[](windows[w] # << >> /\ \A k \in Subtasks : latest[k] > w[2])
=============================================================================
