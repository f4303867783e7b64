-------------------------- MODULE AnalyticsJobProofs --------------------------
(***************************************************************************)
(* What the analytics job keeps, for any number of partitions, subtasks,   *)
(* events, stores that fail, recoveries and submissions, and any width of  *)
(* the windows: no event read is lost sight of, no count is forgotten, and *)
(* without a recovery no event is counted twice.                           *)
(*                                                                         *)
(* All but the type invariant need that the job stamps the events, as it   *)
(* does those of upload_image, which carry no timestamp: with stamps of    *)
(* their own, events may come after their window was persisted, and its    *)
(* record is then overwritten by theirs.                                   *)
(***************************************************************************)
EXTENDS AnalyticsJob, TLAPS

Unstamped == \A e \in Payloads : ~ Stamped(e)

-----------------------------------------------------------------------------
(* The invariants.                                                         *)

Checkpointed == checkpoint # NoCheckpoint

\* What is restored is what was there.
Restorable ==
    /\ Checkpointed => \A p \in Partitions :
           started[p] <= checkpoint.position[p] /\ checkpoint.position[p] <= Len(topic[p])
    /\ firing # NotFiring => windows[firing[1]] # << >>

Typed == TypeOK /\ Restorable

\* Watermarks follow the stamps, and these the clock.
Follows ==
    \A k \in Subtasks : watermark[k] <= latest[k] /\ latest[k] <= clock[k]

\* Every subtask's clock has reached the end of the window.
Closed(w) == \A k \in Subtasks : clock[k] >= w[2]

PersistedIsClosed ==
    /\ firing # NotFiring => Closed(firing[1])
    /\ \A i \in StoreIds, w \in WindowKeys : records[i][w] # << >> => Closed(w)

\* The windows hold events of this run of the job, read and no others.
Held(table, upto) ==
    \A w \in WindowKeys : \A id \in Range(table[w]) :
        started[id[1]] < id[2] /\ id[2] <= upto[id[1]]
WindowsHold ==
    /\ Held(windows, position)
    /\ Checkpointed => Held(checkpoint.windows, checkpoint.position)

\* Event id is in a table of windows; it was counted in store i, by the record
\* of a window with nothing in it, now or also at the checkpoint.
InTable(id, table) == \E w \in WindowKeys : id \in Range(table[w])
Settled(i, id) ==
    \/ id \in unwritten[i]
    \/ \E w \in WindowKeys : id \in Range(records[i][w]) /\ windows[w] = << >>
SettledAtCheckpoint(i, id) ==
    \/ id \in unwritten[i]
    \/ \E w \in WindowKeys :
          id \in Range(records[i][w]) /\ windows[w] = << >> /\ checkpoint.windows[w] = << >>

\* An event of this run that was read is in a window, or has been counted.
Accounted ==
    \A p \in Partitions : \A j \in started[p] + 1 .. position[p] :
        InTable(<<p, j>>, windows) \/ \A i \in StoreIds : Settled(i, <<p, j>>)

AccountedAtCheckpoint ==
    Checkpointed =>
        \A p \in Partitions : \A j \in started[p] + 1 .. checkpoint.position[p] :
            \/ InTable(<<p, j>>, checkpoint.windows)
            \/ \A i \in StoreIds : SettledAtCheckpoint(i, <<p, j>>)

\* The stores that come before the one on_timer is at have the window.
WrittenSoFar ==
    firing # NotFiring =>
        \A i \in 1 .. firing[2] - 1 :
            \/ records[i][firing[1]] = windows[firing[1]]
            \/ Range(windows[firing[1]]) \subseteq unwritten[i]

\* The records of an earlier run are of windows this run does not have.
EarlierRunsDone ==
    \A i \in StoreIds, w \in WindowKeys : \A id \in Range(records[i][w]) :
        id[2] <= started[id[1]] =>
            windows[w] = << >> /\ (Checkpointed => checkpoint.windows[w] = << >>)

\* Without a recovery, what is counted was read.
CountedWasRead ==
    recoveries = 0 =>
        \A i \in StoreIds, w \in WindowKeys : \A id \in Range(records[i][w]) :
            id[2] <= position[id[1]]

Sound ==
    /\ Typed /\ Follows /\ PersistedIsClosed /\ WindowsHold
    /\ Accounted /\ AccountedAtCheckpoint /\ WrittenSoFar /\ EarlierRunsDone
-----------------------------------------------------------------------------
(* Types.                                                                  *)

LEMMA StoreNumbers == StoreIds = 1 .. 3 /\ Len(Stores) = 3
BY DEF StoreIds, Stores

LEMMA WindowEnds ==
    ASSUME NEW t \in Times
    PROVE  WindowEnd(t) \in Int /\ WindowEnd(t) > t
<1>1. t \in Int /\ Width \in Nat \ {0}
  BY AnalyticsJobAssumption DEF Times
<1>2. t % Width \in 0 .. Width - 1
  BY <1>1
<1> QED BY <1>1, <1>2 DEF WindowEnd

LEMMA KeysAreTimed ==
    ASSUME NEW w \in WindowKeys
    PROVE  w[2] \in Int
BY WindowEnds DEF WindowKeys

\* What reading an event does, whatever the event: it goes to a window that
\* ends after its stamp.
LEMMA Reads ==
    ASSUME TypeOK, NEW p \in Partitions, Read(p)
    PROVE  \E t \in Times, w \in WindowKeys :
              /\ w[2] > t
              /\ position[p] + 1 <= Len(topic[p])
              /\ position' = [position EXCEPT ![p] = position[p] + 1]
              /\ clock' \in [Subtasks -> Times]
              /\ \A k \in Subtasks : clock[k] <= clock'[k]
              /\ latest' = [latest EXCEPT ![Reader[p]] = Later(@, t)]
              /\ windows' = [windows EXCEPT ![w] = Append(@, <<p, position[p] + 1>>)]
              /\ timers' \in {timers, timers \cup {w}}
              /\ Unstamped => clock[Reader[p]] <= t /\ clock'[Reader[p]] = t
<1> DEFINE k == Reader[p]
           e == topic[p][position[p] + 1]
<1>1. k \in Subtasks
  BY AnalyticsJobAssumption
<1>2. e \in Payloads /\ position[p] + 1 <= Len(topic[p])
  BY DEF TypeOK, Read
<1>3. PICK t \in Stamps(e, k) :
         /\ clock' = [clock EXCEPT ![k] = IF Stamped(e) THEN @ ELSE t]
         /\ latest' = [latest EXCEPT ![k] = Later(@, t)]
         /\ windows' = [windows EXCEPT ![<<SizeLabel(e), WindowEnd(t)>>]
                            = Append(@, <<p, position[p] + 1>>)]
         /\ timers' = IF windows[<<SizeLabel(e), WindowEnd(t)>>] = << >>
                       THEN timers \cup {<<SizeLabel(e), WindowEnd(t)>>} ELSE timers
  BY DEF Read
<1>4. /\ clock[k] \in Times /\ MaxTime \in Nat
      /\ SizeLabel(e) \in Labels /\ (Stamped(e) => e.timestamp \in Times)
  BY <1>1, <1>2, PayloadAssumption, AnalyticsJobAssumption DEF TypeOK
<1> HIDE DEF e, k
<1>5. t \in Times /\ (~ Stamped(e) => clock[k] <= t)
  BY <1>3, <1>4 DEF Stamps, Times
<1> DEFINE w == <<SizeLabel(e), WindowEnd(t)>>
<1>6. w \in WindowKeys /\ w[2] > t
  BY <1>4, <1>5, WindowEnds DEF WindowKeys
<1>7. /\ clock' \in [Subtasks -> Times]
      /\ \A c \in Subtasks : clock[c] <= clock'[c]
      /\ ~ Stamped(e) => clock'[k] = t
  BY <1>1, <1>3, <1>5 DEF TypeOK, Times
<1>8. Unstamped => ~ Stamped(e)
  BY <1>2 DEF Unstamped
<1>9. timers' \in {timers, timers \cup {w}}
  BY <1>3
<1>10. position' = [position EXCEPT ![p] = position[p] + 1]
  BY DEF Read
<1>11. latest' = [latest EXCEPT ![Reader[p]] = Later(@, t)]
  BY <1>3 DEF k
<1>12. windows' = [windows EXCEPT ![w] = Append(@, <<p, position[p] + 1>>)]
  BY <1>3
<1>13. Unstamped => clock[Reader[p]] <= t /\ clock'[Reader[p]] = t
  BY <1>5, <1>7, <1>8 DEF k
<1> HIDE DEF w
<1> QED BY <1>2, <1>5, <1>6, <1>7, <1>9, <1>10, <1>11, <1>12, <1>13

LEMMA AppendIsTyped ==
    ASSUME NEW S, NEW s \in Seq(S), NEW x \in S
    PROVE  /\ Append(s, x) \in Seq(S)
           /\ DOMAIN Append(s, x) = 1 .. Len(s) + 1
           /\ DOMAIN s = 1 .. Len(s) /\ Len(s) \in Nat
           /\ Append(s, x)[Len(s) + 1] = x
           /\ \A n \in 1 .. Len(s) : Append(s, x)[n] = s[n]
           /\ Append(s, x) # << >>
OBVIOUS

LEMMA InitTyped == Init => Typed
<1> SUFFICES ASSUME Init PROVE Typed
  OBVIOUS
<1>1. << >> \in Seq(EventIds) /\ << >> \in Seq(Payloads)
  OBVIOUS
<1>2. 0 \in Times /\ -1 \in Times \cup {-1}
  BY AnalyticsJobAssumption DEF Times
<1>3. NoEvents \in WindowsType
  BY <1>1 DEF NoEvents, WindowsType
<1>4. \A p \in Partitions : Len(topic[p]) = 0
  BY DEF Init
<1>5. TypeOK
  BY <1>1, <1>2, <1>3, <1>4 DEF TypeOK, Init, Never
<1>6. Restorable
  BY DEF Restorable, Checkpointed, Init
<1> QED BY <1>5, <1>6 DEF Typed

LEMMA ReadTyped ==
    ASSUME Typed, NEW p \in Partitions, Read(p)
    PROVE  Typed'
<1>1. TypeOK /\ Restorable
  BY DEF Typed
<1>2. PICK t \in Times, w \in WindowKeys :
              /\ position[p] + 1 <= Len(topic[p])
              /\ position' = [position EXCEPT ![p] = position[p] + 1]
              /\ clock' \in [Subtasks -> Times]
              /\ latest' = [latest EXCEPT ![Reader[p]] = Later(@, t)]
              /\ windows' = [windows EXCEPT ![w] = Append(@, <<p, position[p] + 1>>)]
              /\ timers' \in {timers, timers \cup {w}}
  BY <1>1, Reads
<1>3. /\ UNCHANGED <<topic, watermark, firing, checkpoint, records, started, unwritten,
                     recoveries, restarts>>
      /\ firing = NotFiring
  BY DEF Read, Ready, storeVars, runVars
<1>4. <<p, position[p] + 1>> \in EventIds
  BY <1>1 DEF EventIds, TypeOK
<1>5. windows' \in WindowsType
  <2>1. windows[w] \in Seq(EventIds)
    BY <1>1 DEF TypeOK, WindowsType
  <2>2. Append(windows[w], <<p, position[p] + 1>>) \in Seq(EventIds)
    BY <1>4, <2>1
  <2> QED BY <1>1, <1>2, <2>2 DEF TypeOK, WindowsType
<1>6. timers' \subseteq WindowKeys
  BY <1>1, <1>2 DEF TypeOK
<1>7. latest' \in [Subtasks -> Times \cup {-1}]
  BY <1>1, <1>2 DEF TypeOK, Later
<1>8. position' \in [Partitions -> Nat]
  BY <1>1, <1>2 DEF TypeOK
<1>9. \A q \in Partitions :
         /\ started[q] <= position'[q] /\ position'[q] <= Len(topic[q])
  BY <1>1, <1>2 DEF TypeOK
<1>10. TypeOK'
  BY <1>1, <1>2, <1>3, <1>5, <1>6, <1>7, <1>8, <1>9 DEF TypeOK
<1>11. Restorable'
  BY <1>1, <1>3 DEF Restorable, Checkpointed
<1> QED BY <1>10, <1>11 DEF Typed

LEMMA TypedInductive ==
    ASSUME Typed, [OpenNext]_vars
    PROVE  Typed'
<1>0. TypeOK /\ Restorable
  BY DEF Typed
<1> USE DEF storeVars, runVars, stateVars, timeVars
<1>1. ASSUME NEW p \in Partitions, Read(p) PROVE Typed'
  BY <1>1, ReadTyped
<1>2. ASSUME NEW k \in Subtasks, EmitWatermark(k) PROVE Typed'
  <2>1. latest[k] \in Times
    <3>1. latest[k] \in Times \cup {-1} /\ watermark[k] \in Times \cup {-1}
      BY <1>0 DEF TypeOK
    <3>2. latest[k] - 1 > watermark[k]
      BY <1>2 DEF EmitWatermark
    <3>3. latest[k] # -1
      BY <3>1, <3>2 DEF Times
    <3> QED BY <3>1, <3>3
  <2>2. latest[k] - 1 \in Times \cup {-1}
    BY <2>1, AnalyticsJobAssumption DEF Times
  <2>3. TypeOK'
    BY <1>0, <1>2, <2>2 DEF TypeOK, EmitWatermark
  <2>4. Restorable'
    BY <1>0, <1>2 DEF Restorable, Checkpointed, EmitWatermark
  <2> QED BY <2>3, <2>4 DEF Typed
<1>3. ASSUME NEW w \in WindowKeys, StartTimer(w) PROVE Typed'
  <2>1. 1 \in StoreIds
    BY StoreNumbers
  <2>2. TypeOK'
    BY <1>0, <1>3, <2>1 DEF TypeOK, StartTimer
  <2>3. Restorable'
    BY <1>0, <1>3 DEF Restorable, Checkpointed, StartTimer, NotFiring
  <2> QED BY <2>2, <2>3 DEF Typed
<1>4. ASSUME Persist PROVE Typed'
  <2>1. PICK w \in WindowKeys, i \in StoreIds : firing = <<w, i>>
    BY <1>0, <1>4 DEF TypeOK, Persist
  <2>2. /\ records' \in {records, [records EXCEPT ![i][w] = windows[w]]}
        /\ unwritten' \in {unwritten, [unwritten EXCEPT ![i] = @ \cup Range(windows[w])]}
        /\ \/ i < 3 /\ firing' = <<w, i + 1>> /\ windows' = windows
           \/ i = 3 /\ firing' = NotFiring /\ windows' = [windows EXCEPT ![w] = << >>]
        /\ UNCHANGED <<topic, position, timers, timeVars, runVars>>
    BY <1>4, <2>1, StoreNumbers DEF Persist
  <2>3. /\ records' \in [StoreIds -> WindowsType]
        /\ unwritten' \in [StoreIds -> SUBSET EventIds]
    <3>1. windows[w] \in Seq(EventIds) /\ Range(windows[w]) \subseteq EventIds
      BY <1>0 DEF TypeOK, WindowsType, Range
    <3>2. [records EXCEPT ![i][w] = windows[w]] \in [StoreIds -> WindowsType]
      BY <1>0, <3>1 DEF TypeOK, WindowsType
    <3> QED BY ZenonT(30), <1>0, <2>2, <3>1, <3>2 DEF TypeOK
  <2>4. windows' \in WindowsType
    <3>1. << >> \in Seq(EventIds)
      OBVIOUS
    <3> QED BY <1>0, <2>2, <3>1 DEF TypeOK, WindowsType
  <2>5. firing' \in {NotFiring} \cup (WindowKeys \X StoreIds)
    BY <2>2, StoreNumbers
  <2>6. TypeOK'
    BY <1>0, <2>2, <2>3, <2>4, <2>5 DEF TypeOK
  <2>7. Restorable'
    BY <1>0, <2>1, <2>2 DEF Restorable, Checkpointed, NotFiring
  <2> QED BY <2>6, <2>7 DEF Typed
<1>5. ASSUME TakeCheckpoint PROVE Typed'
  <2>1. checkpoint' = [position |-> position, windows |-> windows, timers |-> timers]
    BY <1>5 DEF TakeCheckpoint
  <2>2. TypeOK'
    BY <1>0, <1>5, <2>1 DEF TypeOK, TakeCheckpoint
  <2>3. Restorable'
    BY <1>0, <1>5, <2>1 DEF Restorable, Checkpointed, TypeOK, TakeCheckpoint
  <2> QED BY <2>2, <2>3 DEF Typed
<1>6. Never \in [Subtasks -> Times \cup {-1}] /\ (MaxRestarts \in Nat)
  BY AnalyticsJobAssumption DEF Never
<1>7. ASSUME Recover PROVE Typed'
  <2>1. checkpoint \in
          [position : [Partitions -> Nat], windows : WindowsType, timers : SUBSET WindowKeys]
    BY <1>0, <1>7 DEF TypeOK, Recover
  <2>2. TypeOK'
    BY <1>0, <1>6, <1>7, <2>1 DEF TypeOK, Restorable, Checkpointed, Recover, Reopen
  <2>3. Restorable'
    BY <1>0, <1>7, <2>1 DEF Restorable, Checkpointed, Recover, Reopen
  <2> QED BY <2>2, <2>3 DEF Typed
<1>8. ASSUME Submit PROVE Typed'
  <2>1. NoEvents \in WindowsType
    <3>1. << >> \in Seq(EventIds)
      OBVIOUS
    <3> QED BY <3>1 DEF NoEvents, WindowsType
  <2>2. \A p \in Partitions : Len(topic[p]) \in Nat
    BY <1>0 DEF TypeOK
  <2>3. TypeOK'
    BY <1>0, <1>6, <1>8, <2>1, <2>2 DEF TypeOK, Submit, Reopen
  <2>4. Restorable'
    BY <1>8 DEF Restorable, Checkpointed, Submit, Reopen
  <2> QED BY <2>3, <2>4 DEF Typed
<1>9. ASSUME NEW p \in Partitions, NEW e \in Payloads, Produce(p, e) PROVE Typed'
  <2>1. topic' = [topic EXCEPT ![p] = Append(@, e)] /\ UNCHANGED jobVars
    BY <1>9 DEF Produce
  <2>2. topic[p] \in Seq(Payloads)
    BY <1>0 DEF TypeOK
  <2>3. Append(topic[p], e) \in Seq(Payloads) /\ Len(Append(topic[p], e)) = Len(topic[p]) + 1
    BY <2>2
  <2>4. topic' \in [Partitions -> Seq(Payloads)]
    BY <1>0, <2>1, <2>3 DEF TypeOK
  <2>5. \A q \in Partitions :
           /\ Len(topic[q]) \in Nat /\ Len(topic'[q]) \in Nat /\ Len(topic[q]) <= Len(topic'[q])
    BY <1>0, <2>1, <2>3, <2>4 DEF TypeOK
  <2>6. TypeOK'
    BY <1>0, <2>1, <2>4, <2>5 DEF TypeOK, jobVars
  <2>7. Restorable'
    <3>1. Checkpointed => checkpoint.position \in [Partitions -> Nat]
      BY <1>0 DEF TypeOK, Checkpointed
    <3> QED BY <1>0, <2>1, <2>5, <3>1 DEF Restorable, Checkpointed, jobVars
  <2> QED BY <2>6, <2>7 DEF Typed
<1>10. ASSUME UNCHANGED vars PROVE Typed'
  BY <1>0, <1>10 DEF Typed, TypeOK, Restorable, Checkpointed, vars, jobVars
<1> QED
  BY <1>1, <1>2, <1>3, <1>4, <1>5, <1>7, <1>8, <1>9, <1>10 DEF OpenNext, JobStep
-----------------------------------------------------------------------------
(* The windows hold what was read.                                         *)

LEMMA Ranges ==
    /\ Range(<< >>) = {}
    /\ \A s \in Seq(EventIds), id \in EventIds :
          Range(Append(s, id)) = Range(s) \cup {id}
<1>1. Range(<< >>) = {}
  BY DEF Range
<1>2. ASSUME NEW s \in Seq(EventIds), NEW id \in EventIds
      PROVE  Range(Append(s, id)) = Range(s) \cup {id}
  <2>1. /\ DOMAIN Append(s, id) = 1 .. Len(s) + 1 /\ DOMAIN s = 1 .. Len(s)
        /\ Len(s) \in Nat /\ Append(s, id)[Len(s) + 1] = id
        /\ \A n \in 1 .. Len(s) : Append(s, id)[n] = s[n]
    BY AppendIsTyped
  <2> QED BY <2>1 DEF Range
<1> QED BY <1>1, <1>2

\* What persisting does to the record it writes, and to the others.
LEMMA Persists ==
    ASSUME Typed, Persist
    PROVE  \E w \in WindowKeys, i \in 1 .. 3 :
              /\ firing = <<w, i>> /\ windows[w] # << >>
              /\ \A s \in StoreIds, v \in WindowKeys :
                    s # i \/ v # w => records'[s][v] = records[s][v]
              /\ \A s \in StoreIds \ {i} : unwritten'[s] = unwritten[s]
              /\ \/ records'[i][w] = windows[w] /\ unwritten'[i] = unwritten[i]
                 \/ /\ records'[i][w] = records[i][w]
                    /\ unwritten'[i] = unwritten[i] \cup Range(windows[w])
              /\ \/ i < 3 /\ firing' = <<w, i + 1>> /\ windows' = windows
                 \/ i = 3 /\ firing' = NotFiring /\ windows'[w] = << >>
              /\ \A v \in WindowKeys \ {w} : windows'[v] = windows[v]
<1>1. PICK w \in WindowKeys, i \in 1 .. 3 : firing = <<w, i>>
  BY StoreNumbers DEF Typed, TypeOK, Persist
<1>2. windows[w] # << >>
  BY <1>1 DEF Typed, Restorable, NotFiring
<1>3. /\ \/ records' = [records EXCEPT ![i][w] = windows[w]] /\ unwritten' = unwritten
         \/ /\ records' = records
            /\ unwritten' = [unwritten EXCEPT ![i] = @ \cup Range(windows[w])]
      /\ \/ i < 3 /\ firing' = <<w, i + 1>> /\ windows' = windows
         \/ i = 3 /\ firing' = NotFiring /\ windows' = [windows EXCEPT ![w] = << >>]
  BY <1>1, StoreNumbers DEF Persist
<1>4. /\ \A s \in StoreIds, v \in WindowKeys :
            s # i \/ v # w => records'[s][v] = records[s][v]
      /\ \A s \in StoreIds \ {i} : unwritten'[s] = unwritten[s]
      /\ \/ records'[i][w] = windows[w] /\ unwritten'[i] = unwritten[i]
         \/ /\ records'[i][w] = records[i][w]
            /\ unwritten'[i] = unwritten[i] \cup Range(windows[w])
  <2>1. /\ i \in StoreIds
        /\ \A s \in StoreIds : records[s] \in [WindowKeys -> Seq(EventIds)]
        /\ DOMAIN records = StoreIds /\ DOMAIN unwritten = StoreIds
    BY StoreNumbers DEF Typed, TypeOK, WindowsType
  <2>2. CASE /\ records' = [records EXCEPT ![i][w] = windows[w]]
             /\ unwritten' = unwritten
    BY <2>1, <2>2
  <2>3. CASE /\ records' = records
             /\ unwritten' = [unwritten EXCEPT ![i] = @ \cup Range(windows[w])]
    BY <2>1, <2>3
  <2> QED BY <1>3, <2>2, <2>3
<1>5. /\ \/ i < 3 /\ firing' = <<w, i + 1>> /\ windows' = windows
         \/ i = 3 /\ firing' = NotFiring /\ windows'[w] = << >>
      /\ \A v \in WindowKeys \ {w} : windows'[v] = windows[v]
  BY <1>3 DEF Typed, TypeOK, WindowsType
<1> QED BY <1>1, <1>2, <1>4, <1>5

LEMMA ReadHolds ==
    ASSUME Typed, WindowsHold, NEW p \in Partitions, Read(p)
    PROVE  WindowsHold'
<1>0. WindowsHold /\ TypeOK
  BY DEF Typed
<1>1. PICK w \in WindowKeys :
              /\ position' = [position EXCEPT ![p] = position[p] + 1]
              /\ windows' = [windows EXCEPT ![w] = Append(@, <<p, position[p] + 1>>)]
  BY <1>0, Reads
<1>2. UNCHANGED <<checkpoint, started>>
  BY DEF Read, runVars
<1> DEFINE id == <<p, position[p] + 1>>
<1>4. id \in EventIds
  BY <1>0 DEF EventIds, TypeOK
<1>5. /\ Range(windows'[w]) = Range(windows[w]) \cup {id}
      /\ \A v \in WindowKeys \ {w} : windows'[v] = windows[v]
  BY <1>0, <1>1, <1>4, Ranges DEF TypeOK, WindowsType
<1>6. WindowsHold'
  <2>1. \A q \in Partitions :
           /\ started[q] \in Nat /\ position[q] \in Nat /\ started[q] <= position[q]
           /\ position'[q] = IF q = p THEN position[q] + 1 ELSE position[q]
    BY <1>0, <1>1 DEF TypeOK
  <2>2. \A v \in WindowKeys : Range(windows[v]) \subseteq EventIds
    BY <1>0 DEF TypeOK, WindowsType, Range
  <2>3. ASSUME NEW v \in WindowKeys, NEW x \in Range(windows'[v])
        PROVE  started[x[1]] < x[2] /\ x[2] <= position'[x[1]]
    <3>1. x = id \/ x \in Range(windows[v])
      BY <1>5
    <3>2. CASE x = id
      BY <2>1, <3>2
    <3>3. CASE x \in Range(windows[v])
      <4>1. x[1] \in Partitions /\ x[2] \in Nat
        BY <2>2, <3>3 DEF EventIds
      <4> QED BY <1>0, <2>1, <3>3, <4>1 DEF WindowsHold, Held
    <3> QED BY <3>1, <3>2, <3>3
  <2>4. Held(windows, position)'
    BY <1>2, <2>3 DEF Held
  <2> QED BY <1>0, <1>2, <2>4 DEF WindowsHold, Held, Checkpointed
<1> QED BY <1>6

LEMMA WindowsHoldInductive ==
    ASSUME Typed, WindowsHold, [OpenNext]_vars
    PROVE  WindowsHold'
<1> USE DEF storeVars, runVars, stateVars, timeVars
<1>1. ASSUME NEW p \in Partitions, Read(p) PROVE WindowsHold'
  BY <1>1, ReadHolds
<1>2. ASSUME UNCHANGED <<position, windows, checkpoint, started>> PROVE WindowsHold'
  BY <1>2 DEF WindowsHold, Held, Checkpointed
<1>3. ASSUME Persist PROVE WindowsHold'
  <2>1. \A w \in WindowKeys : windows'[w] = windows[w] \/ windows'[w] = << >>
    BY <1>3, Persists
  <2>2. \A w \in WindowKeys : Range(windows'[w]) \subseteq Range(windows[w])
    BY <2>1, Ranges
  <2>3. UNCHANGED <<position, checkpoint, started>>
    BY <1>3 DEF Persist
  <2> QED BY <2>2, <2>3 DEF WindowsHold, Held, Checkpointed
<1>4. ASSUME TakeCheckpoint PROVE WindowsHold'
  <2>1. /\ UNCHANGED <<position, windows, started>>
        /\ checkpoint'.position = position /\ checkpoint'.windows = windows
    BY <1>4 DEF TakeCheckpoint
  <2> QED BY <2>1 DEF WindowsHold, Held
<1>5. ASSUME Recover PROVE WindowsHold'
  <2>1. /\ UNCHANGED <<checkpoint, started>> /\ Checkpointed
        /\ position' = checkpoint.position /\ windows' = checkpoint.windows
    BY <1>5 DEF Recover, Checkpointed
  <2> QED BY <2>1 DEF WindowsHold, Held, Checkpointed
<1>6. ASSUME Submit PROVE WindowsHold'
  <2>1. windows' = NoEvents /\ checkpoint' = NoCheckpoint
    BY <1>6 DEF Submit
  <2>2. \A w \in WindowKeys : Range(windows'[w]) = {}
    BY <2>1, Ranges DEF NoEvents
  <2> QED BY <2>1, <2>2 DEF WindowsHold, Held, Checkpointed
<1> QED
  BY <1>1, <1>2, <1>3, <1>4, <1>5, <1>6
     DEF OpenNext, JobStep, EmitWatermark, StartTimer, Produce, vars, jobVars

-----------------------------------------------------------------------------
(* No event is lost sight of.                                              *)

LEMMA InitSound == Init => Sound
<1> SUFFICES ASSUME Init PROVE Sound
  OBVIOUS
<1>1. Typed
  BY InitTyped
<1>2. Follows
  BY <1>1 DEF Follows, Init, Never
<1>3. \A w \in WindowKeys : Range(windows[w]) = {}
  BY Ranges DEF Init, NoEvents
<1>4. \A i \in StoreIds, w \in WindowKeys : records[i][w] = << >>
  BY DEF Init, NoEvents
<1>5. PersistedIsClosed /\ WrittenSoFar
  BY <1>4 DEF PersistedIsClosed, WrittenSoFar, Init
<1>6. WindowsHold
  BY <1>3 DEF WindowsHold, Held, Checkpointed, Init
<1>7. Accounted /\ AccountedAtCheckpoint
  BY DEF Accounted, AccountedAtCheckpoint, Checkpointed, Init
<1>8. EarlierRunsDone
  BY <1>4, Ranges DEF EarlierRunsDone
<1> QED BY <1>1, <1>2, <1>5, <1>6, <1>7, <1>8 DEF Sound

LEMMA ReadSound ==
    ASSUME Unstamped, Sound, NEW p \in Partitions, Read(p)
    PROVE  Sound'
<1>0. /\ Typed /\ Follows /\ PersistedIsClosed /\ WindowsHold
      /\ Accounted /\ AccountedAtCheckpoint /\ WrittenSoFar /\ EarlierRunsDone
      /\ TypeOK
  BY DEF Sound, Typed
<1>1. PICK t \in Times, w \in WindowKeys :
              /\ w[2] > t
              /\ position' = [position EXCEPT ![p] = position[p] + 1]
              /\ clock' \in [Subtasks -> Times]
              /\ \A k \in Subtasks : clock[k] <= clock'[k]
              /\ latest' = [latest EXCEPT ![Reader[p]] = Later(@, t)]
              /\ windows' = [windows EXCEPT ![w] = Append(@, <<p, position[p] + 1>>)]
              /\ clock[Reader[p]] <= t /\ clock'[Reader[p]] = t
  BY <1>0, Reads
<1>2. /\ UNCHANGED <<topic, watermark, firing, checkpoint, records, started, unwritten>>
      /\ firing = NotFiring
  BY DEF Read, Ready, storeVars, runVars
<1>3. Reader[p] \in Subtasks
  BY AnalyticsJobAssumption
<1> DEFINE id == <<p, position[p] + 1>>
<1>4. id \in EventIds
  BY <1>0 DEF EventIds, TypeOK
<1>5. /\ Range(windows'[w]) = Range(windows[w]) \cup {id}
      /\ \A v \in WindowKeys \ {w} : windows'[v] = windows[v]
  BY <1>0, <1>1, <1>4, Ranges DEF TypeOK, WindowsType
<1>6. \A i \in StoreIds : records[i][w] = << >>
  <2>1. ~ Closed(w)
    BY <1>0, <1>1, <1>3, KeysAreTimed DEF Closed, TypeOK, Times
  <2> QED BY <1>0, <2>1 DEF PersistedIsClosed
<1>7. Typed'
  BY <1>0, ReadTyped
<1>8. Follows'
  <2>1. \A k \in Subtasks :
           /\ watermark[k] \in Int /\ latest[k] \in Int /\ clock[k] \in Int /\ clock'[k] \in Int
    BY <1>0, <1>1 DEF TypeOK, Times
  <2>2. t \in Int
    BY DEF Times
  <2>3. \A k \in Subtasks : latest'[k] = IF k = Reader[p] THEN Later(latest[k], t) ELSE latest[k]
    BY <1>0, <1>1 DEF TypeOK
  <2> QED BY <1>0, <1>1, <1>2, <2>1, <2>2, <2>3 DEF Follows, Later
<1>9. PersistedIsClosed'
  <2>1. ASSUME NEW v \in WindowKeys, Closed(v) PROVE Closed(v)'
    BY <1>0, <1>1, <2>1, KeysAreTimed DEF Closed, TypeOK, Times
  <2> QED BY <1>0, <1>2, <2>1 DEF PersistedIsClosed
<1>10. WindowsHold'
  <2>1. OpenNext
    BY DEF OpenNext, JobStep
  <2> QED BY <1>0, <2>1, WindowsHoldInductive
<1>11. ASSUME NEW i \in StoreIds, NEW x, Settled(i, x) PROVE Settled(i, x)'
  BY <1>2, <1>5, <1>6, <1>11, Ranges DEF Settled
<1>12. ASSUME NEW i \in StoreIds, NEW x, SettledAtCheckpoint(i, x)
       PROVE  SettledAtCheckpoint(i, x)'
  BY <1>2, <1>5, <1>6, <1>12, Ranges DEF SettledAtCheckpoint
<1>13. Accounted'
  <2>1. ASSUME NEW q \in Partitions, NEW j \in started[q] + 1 .. position'[q]
        PROVE  InTable(<<q, j>>, windows') \/ \A i \in StoreIds : Settled(i, <<q, j>>)'
    <3>1. CASE <<q, j>> = id
      BY <1>5, <3>1 DEF InTable
    <3>2. CASE <<q, j>> # id
      <4>1. j \in started[q] + 1 .. position[q]
        BY <1>0, <1>1, <3>2 DEF TypeOK
      <4>2. CASE InTable(<<q, j>>, windows)
        BY <1>5, <4>2 DEF InTable
      <4>3. CASE \A i \in StoreIds : Settled(i, <<q, j>>)
        BY <1>11, <4>3
      <4> QED BY <1>0, <4>1, <4>2, <4>3 DEF Accounted
    <3> QED BY <3>1, <3>2
  <2> QED BY <1>2, <2>1 DEF Accounted, InTable
<1>14. AccountedAtCheckpoint'
  BY <1>0, <1>2, <1>12 DEF AccountedAtCheckpoint, Checkpointed, InTable
<1>15. WrittenSoFar'
  BY <1>2 DEF WrittenSoFar
<1>16. EarlierRunsDone'
  BY <1>0, <1>2, <1>5, <1>6, Ranges DEF EarlierRunsDone, Checkpointed
<1> QED
  BY <1>7, <1>8, <1>9, <1>10, <1>13, <1>14, <1>15, <1>16 DEF Sound

\* What a store has counted of another window stays settled, and so does what
\* was in a write that failed.
LEMMA PersistSound ==
    ASSUME Sound, Persist
    PROVE  Sound'
<1>0. /\ Typed /\ Follows /\ PersistedIsClosed /\ WindowsHold
      /\ Accounted /\ AccountedAtCheckpoint /\ WrittenSoFar /\ EarlierRunsDone
      /\ TypeOK
  BY DEF Sound, Typed
<1>1. PICK w \in WindowKeys, i \in 1 .. 3 :
              /\ firing = <<w, i>> /\ windows[w] # << >>
              /\ \A s \in StoreIds, v \in WindowKeys :
                    s # i \/ v # w => records'[s][v] = records[s][v]
              /\ \A s \in StoreIds \ {i} : unwritten'[s] = unwritten[s]
              /\ \/ records'[i][w] = windows[w] /\ unwritten'[i] = unwritten[i]
                 \/ /\ records'[i][w] = records[i][w]
                    /\ unwritten'[i] = unwritten[i] \cup Range(windows[w])
              /\ \/ i < 3 /\ firing' = <<w, i + 1>> /\ windows' = windows
                 \/ i = 3 /\ firing' = NotFiring /\ windows'[w] = << >>
              /\ \A v \in WindowKeys \ {w} : windows'[v] = windows[v]
  BY <1>0, Persists
<1>2. UNCHANGED <<topic, position, clock, latest, watermark, checkpoint, started>>
  BY DEF Persist, timeVars, runVars
<1>3. Typed' /\ WindowsHold'
  <2>1. OpenNext
    BY DEF OpenNext, JobStep
  <2> QED BY <1>0, <2>1, TypedInductive, WindowsHoldInductive
<1>4. Follows'
  BY <1>0, <1>2 DEF Follows
<1>5. PersistedIsClosed'
  <2>1. Closed(w)
    BY <1>0, <1>1 DEF PersistedIsClosed, NotFiring
  <2>2. \A v \in WindowKeys : Closed(v)' <=> Closed(v)
    BY <1>2 DEF Closed
  <2>3. ASSUME NEW s \in StoreIds, NEW v \in WindowKeys, records'[s][v] # << >>
        PROVE  Closed(v)'
    BY <1>0, <1>1, <2>1, <2>2, <2>3 DEF PersistedIsClosed
  <2>4. (firing # NotFiring => Closed(firing[1]))'
    <3>1. firing' = NotFiring \/ firing'[1] = w
      BY <1>1
    <3> QED BY <1>2, <2>1, <3>1 DEF Closed
  <2> QED BY <2>3, <2>4 DEF PersistedIsClosed
<1>7. ASSUME NEW s \in StoreIds, NEW x, Settled(s, x) PROVE Settled(s, x)'
  BY <1>1, <1>7 DEF Settled
<1>8. ASSUME NEW s \in StoreIds, NEW x, SettledAtCheckpoint(s, x)
      PROVE  SettledAtCheckpoint(s, x)'
  BY <1>1, <1>2, <1>8 DEF SettledAtCheckpoint
<1>9. WrittenSoFar'
  <2>1. ASSUME NEW s \in 1 .. 3, s <= i
        PROVE  records'[s][w] = windows[w] \/ Range(windows[w]) \subseteq unwritten'[s]
    BY <1>0, <1>1, <2>1, StoreNumbers DEF WrittenSoFar, NotFiring
  <2>2. CASE i < 3
    BY <1>1, <2>1, <2>2 DEF WrittenSoFar
  <2>3. CASE i = 3
    BY <1>1, <2>3 DEF WrittenSoFar
  <2> QED BY <1>1, <2>2, <2>3
<1>10. ASSUME NEW x, InTable(x, windows)
       PROVE  InTable(x, windows') \/ \A s \in StoreIds : Settled(s, x)'
  <2>1. PICK v \in WindowKeys : x \in Range(windows[v])
    BY <1>10 DEF InTable
  <2>2. CASE v # w \/ windows' = windows
    BY <1>1, <2>1, <2>2 DEF InTable
  <2>3. CASE v = w /\ i = 3
    <3>1. windows'[w] = << >>
      BY <1>1, <2>3
    <3>2. ASSUME NEW s \in StoreIds
          PROVE  records'[s][w] = windows[w] \/ Range(windows[w]) \subseteq unwritten'[s]
      BY <1>0, <1>1, <2>3, StoreNumbers DEF WrittenSoFar, NotFiring
    <3> QED BY <2>1, <2>3, <3>1, <3>2 DEF Settled
  <2> QED BY <1>1, <2>2, <2>3
<1>11. Accounted'
  BY <1>0, <1>2, <1>7, <1>10 DEF Accounted, InTable
<1>12. AccountedAtCheckpoint'
  BY <1>0, <1>2, <1>8 DEF AccountedAtCheckpoint, Checkpointed, InTable
<1>13. EarlierRunsDone'
  <2>1. ASSUME NEW s \in StoreIds, NEW v \in WindowKeys, NEW x \in Range(records'[s][v]),
               x[2] <= started[x[1]]
        PROVE  windows'[v] = << >> /\ (Checkpointed => checkpoint.windows[v] = << >>)
    <3>1. CASE records'[s][v] = records[s][v]
      BY <1>0, <1>1, <2>1, <3>1 DEF EarlierRunsDone
    <3>2. CASE v = w /\ records'[s][v] = windows[w]
      <4>1. x \in EventIds
        BY <1>0, <2>1, <3>2 DEF TypeOK, WindowsType, Range
      <4>2. started[x[1]] < x[2]
        BY <1>0, <2>1, <3>2 DEF WindowsHold, Held
      <4> QED BY <1>0, <2>1, <4>1, <4>2 DEF EventIds, TypeOK
    <3> QED BY <1>1, <3>1, <3>2
  <2> QED BY <1>2, <2>1 DEF EarlierRunsDone, Checkpointed
<1> QED
  BY <1>3, <1>4, <1>5, <1>9, <1>11, <1>12, <1>13 DEF Sound

LEMMA SoundInductive ==
    ASSUME Unstamped, Sound, [OpenNext]_vars
    PROVE  Sound'
<1>0. /\ Typed /\ Follows /\ PersistedIsClosed /\ WindowsHold
      /\ Accounted /\ AccountedAtCheckpoint /\ WrittenSoFar /\ EarlierRunsDone
      /\ TypeOK /\ Restorable
  BY DEF Sound, Typed
<1>t. Typed' /\ WindowsHold'
  BY <1>0, TypedInductive, WindowsHoldInductive
<1> USE DEF storeVars, runVars, stateVars, timeVars
<1>1. ASSUME NEW p \in Partitions, Read(p) PROVE Sound'
  BY <1>1, ReadSound
<1>2. ASSUME NEW k \in Subtasks, EmitWatermark(k) PROVE Sound'
  <2>1. /\ UNCHANGED <<topic, position, clock, latest, windows, firing, checkpoint, records,
                       started, unwritten>>
        /\ watermark' = [watermark EXCEPT ![k] = latest[k] - 1]
    BY <1>2 DEF EmitWatermark
  <2>2. Follows'
    <3>1. \A c \in Subtasks : latest[c] \in Int
      BY <1>0 DEF TypeOK, Times
    <3>2. \A c \in Subtasks : watermark'[c] = IF c = k THEN latest[k] - 1 ELSE watermark[c]
      BY <1>0, <2>1 DEF TypeOK
    <3> QED BY <1>0, <2>1, <3>1, <3>2 DEF Follows
  <2>3. PersistedIsClosed' /\ Accounted' /\ AccountedAtCheckpoint'
    BY <1>0, <2>1 DEF PersistedIsClosed, Closed, Checkpointed, Accounted,
                      AccountedAtCheckpoint, InTable, Settled, SettledAtCheckpoint
  <2>4. WrittenSoFar' /\ EarlierRunsDone'
    BY <1>0, <2>1 DEF WrittenSoFar, EarlierRunsDone, Checkpointed
  <2> QED BY <1>t, <2>2, <2>3, <2>4 DEF Sound
<1>3. ASSUME NEW w \in WindowKeys, StartTimer(w) PROVE Sound'
  <2>1. /\ UNCHANGED <<topic, position, clock, latest, watermark, windows, checkpoint, records,
                       started, unwritten>>
        /\ firing' \in {NotFiring, <<w, 1>>} /\ Passed(w[2])
    BY <1>3 DEF StartTimer, Due
  <2>2. Closed(w)
    <3>1. ASSUME NEW k \in Subtasks PROVE clock[k] >= w[2]
      <4>1. watermark[k] >= w[2] /\ watermark[k] <= latest[k] /\ latest[k] <= clock[k]
        BY <1>0, <2>1 DEF Follows, Passed
      <4>2. watermark[k] \in Int /\ latest[k] \in Int /\ clock[k] \in Int /\ w[2] \in Int
        BY <1>0, KeysAreTimed DEF TypeOK, Times
      <4> QED BY <4>1, <4>2
    <3> QED BY <3>1 DEF Closed
  <2>3. PersistedIsClosed'
    BY <1>0, <2>1, <2>2 DEF PersistedIsClosed, Closed, NotFiring
  <2>4. Follows' /\ Accounted' /\ AccountedAtCheckpoint' /\ EarlierRunsDone'
    BY <1>0, <2>1 DEF Follows, Checkpointed, Accounted, EarlierRunsDone,
                      AccountedAtCheckpoint, InTable, Settled, SettledAtCheckpoint
  <2>5. WrittenSoFar'
    BY <2>1 DEF WrittenSoFar, NotFiring
  <2> QED BY <1>t, <2>3, <2>4, <2>5 DEF Sound
<1>4. ASSUME Persist PROVE Sound'
  BY <1>4, PersistSound
<1>5. ASSUME TakeCheckpoint PROVE Sound'
  <2>1. /\ UNCHANGED <<topic, position, windows, clock, latest, watermark, firing, records, started,
                       unwritten>>
        /\ checkpoint'.position = position /\ checkpoint'.windows = windows
        /\ firing = NotFiring
    BY <1>5 DEF TakeCheckpoint, Ready
  <2>2. Follows' /\ PersistedIsClosed' /\ Accounted'
    BY <1>0, <2>1 DEF Follows, PersistedIsClosed, Closed, Checkpointed,
                      Accounted, InTable, Settled
  <2>3. AccountedAtCheckpoint'
    BY <1>0, <2>1 DEF Accounted, AccountedAtCheckpoint, InTable, Settled, SettledAtCheckpoint
  <2>4. WrittenSoFar' /\ EarlierRunsDone'
    BY <1>0, <2>1 DEF WrittenSoFar, EarlierRunsDone
  <2> QED BY <1>t, <2>2, <2>3, <2>4 DEF Sound
<1>6. ASSUME restarts < MaxRestarts, Reopen
      PROVE  /\ UNCHANGED <<topic, clock, records, unwritten>>
             /\ firing' = NotFiring /\ Follows' /\ PersistedIsClosed' /\ WrittenSoFar'
  <2>1. /\ UNCHANGED <<topic, clock, records, unwritten>> /\ firing' = NotFiring
        /\ \A k \in Subtasks : latest'[k] = -1 /\ watermark'[k] = -1
    BY <1>6 DEF Reopen, Never
  <2>2. \A k \in Subtasks : -1 <= clock[k]
    BY <1>0 DEF TypeOK, Times
  <2>3. Follows'
    BY <2>1, <2>2 DEF Follows
  <2>4. PersistedIsClosed' /\ WrittenSoFar'
    BY <1>0, <2>1 DEF PersistedIsClosed, Closed, WrittenSoFar
  <2> QED BY <2>1, <2>3, <2>4
<1>7. ASSUME Recover PROVE Sound'
  <2>1. /\ UNCHANGED <<topic, clock, records, unwritten, checkpoint, started>>
        /\ Follows' /\ PersistedIsClosed' /\ WrittenSoFar' /\ Checkpointed
        /\ position' = checkpoint.position /\ windows' = checkpoint.windows
    BY <1>6, <1>7 DEF Recover, Reopen, Checkpointed
  <2>2. EarlierRunsDone'
    BY <1>0, <2>1 DEF EarlierRunsDone, Checkpointed
  <2>3. ASSUME NEW i \in StoreIds, NEW x, SettledAtCheckpoint(i, x)
        PROVE  Settled(i, x)' /\ SettledAtCheckpoint(i, x)'
    BY <2>1, <2>3 DEF Settled, SettledAtCheckpoint
  <2>4. Accounted' /\ AccountedAtCheckpoint'
    BY <1>0, <2>1, <2>3 DEF Accounted, AccountedAtCheckpoint, InTable, Checkpointed
  <2> QED BY <1>t, <2>1, <2>2, <2>4 DEF Sound
<1>8. ASSUME Submit PROVE Sound'
  <2>1. /\ UNCHANGED <<topic, clock, records, unwritten>>
        /\ Follows' /\ PersistedIsClosed' /\ WrittenSoFar'
        /\ started' = position' /\ windows' = NoEvents /\ checkpoint' = NoCheckpoint
    BY <1>6, <1>8 DEF Submit, Reopen
  <2>2. \A w \in WindowKeys : windows'[w] = << >>
    BY <2>1 DEF NoEvents
  <2>4. EarlierRunsDone'
    BY <2>1, <2>2 DEF EarlierRunsDone, Checkpointed
  <2>5. \A p \in Partitions : started'[p] + 1 .. position'[p] = {}
    BY <1>t, <2>1 DEF Typed, TypeOK
  <2>6. Accounted' /\ AccountedAtCheckpoint'
    BY <2>1, <2>5 DEF Accounted, AccountedAtCheckpoint, Checkpointed
  <2> QED BY <1>t, <2>1, <2>4, <2>6 DEF Sound
<1>9. ASSUME UNCHANGED jobVars PROVE Sound'
  <2>1. UNCHANGED <<position, clock, latest, watermark, windows, firing, checkpoint, records,
                    started, unwritten>>
    BY <1>9 DEF jobVars
  <2>2. Follows' /\ PersistedIsClosed' /\ Accounted' /\ AccountedAtCheckpoint'
    BY <1>0, <2>1 DEF Follows, PersistedIsClosed, Closed, Checkpointed, Accounted,
                      AccountedAtCheckpoint, InTable, Settled, SettledAtCheckpoint
  <2>3. WrittenSoFar' /\ EarlierRunsDone'
    BY <1>0, <2>1 DEF WrittenSoFar, EarlierRunsDone, Checkpointed
  <2> QED BY <1>t, <2>2, <2>3 DEF Sound
<1> QED
  BY <1>1, <1>2, <1>3, <1>4, <1>5, <1>7, <1>8, <1>9 DEF OpenNext, JobStep, Produce, vars

\* What is kept follows: an event was not read, or it is accounted for.
Keeps ==
    \A p \in Partitions, i \in StoreIds, j \in Nat : started[p] < j => Kept(i, <<p, j>>)

LEMMA SoundKeeps == Sound => Keeps
<1> SUFFICES ASSUME Sound, NEW p \in Partitions, NEW i \in StoreIds,
                    NEW j \in Nat, started[p] < j
             PROVE  Kept(i, <<p, j>>)
  BY DEF Keeps
<1>1. CASE position[p] < j
  BY <1>1 DEF Kept, Unread
<1>2. CASE j \in started[p] + 1 .. position[p]
  <2>1. InTable(<<p, j>>, windows) \/ Settled(i, <<p, j>>)
    BY <1>2 DEF Sound, Accounted
  <2> QED BY <2>1 DEF InTable, Settled, Kept, InWindow, Recorded
<1> QED BY <1>1, <1>2 DEF Sound, Typed, TypeOK

\* A record is only replaced by the window's events, and what it counted of an
\* earlier run is of other windows.
LEMMA NothingForgotten ==
    ASSUME Unstamped, Sound, [OpenNext]_vars,
           NEW i \in StoreIds, NEW p \in Partitions, NEW j \in DOMAIN topic[p],
           Recorded(i, <<p, j>>)
    PROVE  Kept(i, <<p, j>>)'
<1>0. Sound' /\ TypeOK
  BY SoundInductive DEF Sound, Typed
<1>1. PICK w \in WindowKeys : <<p, j>> \in Range(records[i][w])
  BY DEF Recorded
<1>2. CASE records'[i][w] = records[i][w]
  BY <1>1, <1>2 DEF Kept, Recorded
<1>3. CASE records'[i][w] # records[i][w]
  <2>1. Persist
    BY <1>3 DEF OpenNext, JobStep, Read, EmitWatermark, StartTimer, TakeCheckpoint, Recover,
                Submit, Reopen, Produce, vars, jobVars, storeVars
  <2>2. windows[w] # << >>
    BY <1>3, <2>1, Persists DEF Sound, Typed
  <2>3. ~ (j <= started[p])
    BY <1>1, <2>2 DEF Sound, EarlierRunsDone
  <2>4. started' = started /\ j \in Nat
    BY <1>0, <2>1 DEF Persist, runVars, TypeOK
  <2>5. started'[p] < j
    BY <1>0, <2>3, <2>4 DEF TypeOK
  <2>6. Keeps'
    BY <1>0, SoundKeeps, PTL
  <2> QED BY <2>4, <2>5, <2>6 DEF Keeps
<1> QED BY <1>2, <1>3
-----------------------------------------------------------------------------
(* No event is counted twice before the job recovers for the first time.   *)

Apart(T, U) ==
    \A v, w \in WindowKeys : \A m \in DOMAIN T[v], n \in DOMAIN U[w] :
        T[v][m] = U[w][n] => v = w /\ m = n

AllApart == \A i \in StoreIds : \A T, U \in {records[i], windows} : Apart(T, U)

CountedBefore ==
    /\ Typed /\ WindowsHold /\ CountedWasRead /\ CountedOnce

LEMMA InitCounted == Init => CountedBefore
<1> SUFFICES ASSUME Init PROVE CountedBefore
  OBVIOUS
<1>1. Typed /\ WindowsHold
  BY InitTyped, InitSound DEF Sound
<1>2. /\ \A w \in WindowKeys : windows[w] = << >>
      /\ \A i \in StoreIds, w \in WindowKeys : records[i][w] = << >>
  BY DEF Init, NoEvents
<1>3. CountedWasRead /\ CountedOnce
  BY <1>2, Ranges DEF CountedWasRead, CountedOnce
<1> QED BY <1>1, <1>3 DEF CountedBefore

LEMMA ReadCounted ==
    ASSUME CountedBefore, NEW p \in Partitions, Read(p), recoveries = 0
    PROVE  AllApart' /\ CountedWasRead'
<1>0. TypeOK /\ WindowsHold /\ CountedWasRead /\ AllApart
  BY DEF CountedBefore, Typed, CountedOnce, AllApart, Apart
<1>1. PICK w \in WindowKeys :
              /\ position' = [position EXCEPT ![p] = position[p] + 1]
              /\ windows' = [windows EXCEPT ![w] = Append(@, <<p, position[p] + 1>>)]
  BY <1>0, Reads
<1>2. UNCHANGED records
  BY DEF Read, storeVars
<1> DEFINE id == <<p, position[p] + 1>>
<1>3. id \in EventIds /\ ~ (id[2] <= position[id[1]])
  BY <1>0 DEF EventIds, TypeOK
<1>4. /\ \A v \in WindowKeys : \A n \in DOMAIN windows[v] : windows[v][n] # id
      /\ \A i \in StoreIds, v \in WindowKeys : \A n \in DOMAIN records[i][v] : records[i][v][n] # id
  BY <1>0, <1>3 DEF WindowsHold, Held, CountedWasRead, Range
<1>5. ASSUME NEW v \in WindowKeys, NEW n \in DOMAIN windows'[v]
      PROVE  \/ n \in DOMAIN windows[v] /\ windows'[v][n] = windows[v][n]
             \/ v = w /\ n = Len(windows[w]) + 1 /\ windows'[v][n] = id
  <2>1. windows'[v] = IF v = w THEN Append(windows[w], id) ELSE windows[v]
    BY <1>0, <1>1 DEF TypeOK, WindowsType
  <2>2. windows[w] \in Seq(EventIds)
    BY <1>0 DEF TypeOK, WindowsType
  <2>3. /\ DOMAIN Append(windows[w], id) = 1 .. Len(windows[w]) + 1
        /\ DOMAIN windows[w] = 1 .. Len(windows[w]) /\ Len(windows[w]) \in Nat
        /\ Append(windows[w], id)[Len(windows[w]) + 1] = id
        /\ \A m \in 1 .. Len(windows[w]) : Append(windows[w], id)[m] = windows[w][m]
    BY <1>3, <2>2, AppendIsTyped
  <2> HIDE DEF id
  <2> QED BY <1>5, <2>1, <2>3
<1> HIDE DEF id
<1>6. ASSUME NEW i \in StoreIds
      PROVE  /\ Apart(records[i], records[i]) /\ Apart(windows', windows')
             /\ Apart(records[i], windows') /\ Apart(windows', records[i])
  <2>1. /\ Apart(records[i], records[i]) /\ Apart(windows, windows)
        /\ Apart(records[i], windows) /\ Apart(windows, records[i])
    BY <1>0 DEF AllApart
  <2>2. Apart(windows', windows')
    BY <1>4, <1>5, <2>1 DEF Apart
  <2>3. Apart(records[i], windows') /\ Apart(windows', records[i])
    BY <1>4, <1>5, <2>1 DEF Apart
  <2> QED BY <2>1, <2>2, <2>3
<1>7. AllApart'
  BY <1>2, <1>6 DEF AllApart, Apart
<1>8. CountedWasRead'
  <2>1. ASSUME NEW i \in StoreIds, NEW v \in WindowKeys, NEW x \in Range(records[i][v])
        PROVE  x[2] <= position'[x[1]]
    <3>1. x \in EventIds
      BY <1>0 DEF TypeOK, WindowsType, Range
    <3>2. x[2] <= position[x[1]]
      BY <1>0 DEF CountedWasRead
    <3>3. x[1] \in Partitions /\ x[2] \in Nat
      BY <3>1 DEF EventIds
    <3> QED BY <1>0, <1>1, <3>2, <3>3 DEF TypeOK
  <2> QED BY <1>2, <2>1 DEF CountedWasRead
<1> QED BY <1>7, <1>8

LEMMA PersistCounted ==
    ASSUME CountedBefore, Persist, recoveries = 0
    PROVE  AllApart' /\ CountedWasRead'
<1>0. TypeOK /\ WindowsHold /\ CountedWasRead /\ AllApart
  BY DEF CountedBefore, Typed, CountedOnce, AllApart, Apart
<1>1. PICK w \in WindowKeys :
         /\ \A i \in StoreIds, v \in WindowKeys :
               \/ records'[i][v] = records[i][v]
               \/ v = w /\ records'[i][v] = windows[w]
         /\ \A v \in WindowKeys : windows'[v] = windows[v] \/ windows'[v] = << >>
  BY Persists DEF CountedBefore
<1>2. UNCHANGED position
  BY DEF Persist
<1>3. DOMAIN << >> = {}
  OBVIOUS
<1>4. ASSUME NEW i \in StoreIds
      PROVE  /\ Apart(records'[i], records'[i]) /\ Apart(windows', windows')
             /\ Apart(records'[i], windows') /\ Apart(windows', records'[i])
  <2>1. /\ Apart(records[i], records[i]) /\ Apart(windows, windows)
        /\ Apart(records[i], windows) /\ Apart(windows, records[i])
    BY <1>0 DEF AllApart
  <2>2. /\ \A v \in WindowKeys : \A n \in DOMAIN windows'[v] :
              n \in DOMAIN windows[v] /\ windows'[v][n] = windows[v][n]
        /\ \A v \in WindowKeys : \A n \in DOMAIN records'[i][v] :
              \/ n \in DOMAIN records[i][v] /\ records'[i][v][n] = records[i][v][n]
              \/ n \in DOMAIN windows[v] /\ records'[i][v][n] = windows[v][n]
    BY <1>1, <1>3
  <2>3. Apart(windows', windows')
    BY <2>1, <2>2 DEF Apart
  <2>4. Apart(records'[i], windows') /\ Apart(windows', records'[i])
    BY <2>1, <2>2 DEF Apart
  <2>5. Apart(records'[i], records'[i])
    BY <2>1, <2>2 DEF Apart
  <2> QED BY <2>3, <2>4, <2>5
<1>5. AllApart'
  BY <1>4 DEF AllApart, Apart
<1>6. CountedWasRead'
  <2>1. ASSUME NEW i \in StoreIds, NEW v \in WindowKeys, NEW x \in Range(records'[i][v])
        PROVE  x[2] <= position[x[1]]
    <3>1. x \in Range(records[i][v]) \/ x \in Range(windows[v])
      BY <1>1, <2>1
    <3> QED BY <1>0, <3>1 DEF CountedWasRead, WindowsHold, Held
  <2> QED BY <1>2, <2>1 DEF CountedWasRead
<1> QED BY <1>5, <1>6

LEMMA CountedInductive ==
    ASSUME CountedBefore, [OpenNext]_vars
    PROVE  CountedBefore'
<1>0. Typed /\ WindowsHold /\ CountedWasRead /\ CountedOnce /\ TypeOK
  BY DEF CountedBefore, Typed
<1>t. Typed' /\ WindowsHold'
  BY <1>0, TypedInductive, WindowsHoldInductive
<1>1. AllApart' => CountedOnce'
  BY DEF AllApart, Apart, CountedOnce
<1> USE DEF storeVars, runVars, stateVars
<1>2. CASE recoveries # 0
  <2>1. recoveries' \in {recoveries, recoveries + 1}
    BY DEF OpenNext, JobStep, Read, EmitWatermark, StartTimer, Persist,
           TakeCheckpoint, Recover, Submit, Produce, vars, jobVars
  <2>2. recoveries' # 0
    BY <1>0, <1>2, <2>1 DEF TypeOK
  <2> QED BY <1>t, <2>2 DEF CountedBefore, CountedWasRead, CountedOnce
<1>3. CASE recoveries = 0
  <2>1. ASSUME NEW p \in Partitions, Read(p) PROVE CountedBefore'
    BY <1>1, <1>3, <1>t, <2>1, ReadCounted DEF CountedBefore
  <2>2. ASSUME Persist PROVE CountedBefore'
    BY <1>1, <1>3, <1>t, <2>2, PersistCounted DEF CountedBefore
  <2>3. ASSUME UNCHANGED <<position, windows, records, recoveries>> PROVE CountedBefore'
    BY <1>0, <1>t, <2>3 DEF CountedBefore, CountedWasRead, CountedOnce
  <2>4. ASSUME Recover PROVE CountedBefore'
    <3>1. recoveries' # 0
      BY <1>3, <2>4 DEF Recover
    <3> QED BY <1>t, <3>1 DEF CountedBefore, CountedWasRead, CountedOnce
  <2>5. ASSUME Submit PROVE CountedBefore'
    <3>1. /\ UNCHANGED records /\ position' = [p \in Partitions |-> Len(topic[p])]
          /\ \A w \in WindowKeys : windows'[w] = << >>
      BY <2>5 DEF Submit, Reopen, NoEvents
    <3>2. CountedOnce'
      BY <1>0, <1>3, <3>1 DEF CountedOnce
    <3>3. ASSUME NEW i \in StoreIds, NEW w \in WindowKeys, NEW x \in Range(records[i][w])
          PROVE  x[2] <= position'[x[1]]
      <4>1. x[1] \in Partitions /\ x[2] \in Nat
        <5>1. x \in EventIds
          BY <1>0 DEF TypeOK, WindowsType, Range
        <5> QED BY <5>1 DEF EventIds
      <4>2. x[2] <= position[x[1]]
        BY <1>0, <1>3 DEF CountedWasRead
      <4> QED BY <1>0, <3>1, <4>1, <4>2 DEF TypeOK
    <3> QED BY <1>t, <3>1, <3>2, <3>3 DEF CountedBefore, CountedWasRead
  <2> QED
    BY <2>1, <2>2, <2>3, <2>4, <2>5
       DEF OpenNext, JobStep, EmitWatermark, StartTimer, TakeCheckpoint, Produce, vars, jobVars
<1> QED BY <1>2, <1>3
-----------------------------------------------------------------------------
(* The theorems.                                                           *)

\* The runs' instances bound the topic; the job does not.
LEMMA BoundedIsOpen == Spec => OpenSpec
<1>1. [Next]_vars => [OpenNext]_vars
  BY DEF Next, OpenNext
<1> QED BY <1>1, PTL DEF Spec, OpenSpec

\* The variables keep their types, whatever the job reads, stamped or not: no
\* restart puts the job before its submission or past the end of a partition.
THEOREM TypeInvariant == OpenSpec => []TypeOK
<1>1. Typed /\ [OpenNext]_vars => Typed'
  BY TypedInductive
<1>2. Typed => TypeOK
  BY DEF Typed
<1> QED BY InitTyped, <1>1, <1>2, PTL DEF OpenSpec

\* Without a recovery from a checkpoint, each store counts each event once:
\* on_timer removes the window it persisted, and a submission forgets the
\* windows with the positions.
THEOREM EventsAreCountedOnce == OpenSpec => []CountedOnce
<1>1. CountedBefore /\ [OpenNext]_vars => CountedBefore'
  BY CountedInductive
<1>2. CountedBefore => CountedOnce
  BY DEF CountedBefore
<1> QED BY InitCounted, <1>1, <1>2, PTL DEF OpenSpec

LEMMA SoundAlways ==
    ASSUME Unstamped
    PROVE  OpenSpec => []Sound
<1>1. Sound /\ [OpenNext]_vars => Sound'
  BY SoundInductive
<1> QED BY InitSound, <1>1, PTL DEF OpenSpec

\* With events that the job stamps, as it does those of upload_image, every
\* event since the submission is unread, in a window, counted, or was in a
\* write that failed: crashes and restarts lose none.
THEOREM EventsAreKept ==
    ASSUME Unstamped
    PROVE  OpenSpec => []ReadIsKept
<1>1. Sound => ReadIsKept
  <2> SUFFICES ASSUME Sound, NEW p \in Partitions, NEW i \in StoreIds,
                      NEW j \in started[p] + 1 .. Len(topic[p])
               PROVE  Kept(i, <<p, j>>)
    BY DEF ReadIsKept
  <2>1. j \in Nat /\ started[p] < j
    BY DEF Sound, Typed, TypeOK
  <2> QED BY <2>1, SoundKeeps DEF Keeps
<1> QED BY SoundAlways, <1>1, PTL

\* With such events no upsert takes a count back: an event that a store has
\* counted stays counted there, or is read, windowed and counted again.
THEOREM CountsAreNeverForgotten ==
    ASSUME Unstamped
    PROVE  OpenSpec => NeverForgotten
<1>1. Sound /\ [OpenNext]_vars =>
        [\A i \in StoreIds, p \in Partitions :
            \A j \in DOMAIN topic[p] : Recorded(i, <<p, j>>) => Kept(i, <<p, j>>)']_vars
  BY NothingForgotten
<1> QED BY SoundAlways, <1>1, PTL DEF OpenSpec, NeverForgotten

\* The bounded instances that the runs check have all of this.
THEOREM BoundedRunsToo ==
    /\ Spec => []TypeOK /\ []CountedOnce
    /\ Unstamped => (Spec => []ReadIsKept /\ NeverForgotten)
BY BoundedIsOpen, TypeInvariant, EventsAreCountedOnce, EventsAreKept, CountsAreNeverForgotten
=============================================================================
