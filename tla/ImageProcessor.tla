---------------------------- MODULE ImageProcessor ----------------------------
(***************************************************************************)
(* The function of serverless/image-processor/lambda_function.py between   *)
(* two buckets and a topic: S3 invokes it for each upload, it reads the    *)
(* picture, and for each of IMAGE_SIZES writes a processed object and then *)
(* publishes an event.                                                     *)
(*                                                                         *)
(* S3 delivers a notification at least once, in no order, and an           *)
(* invocation that times out or dies is tried again.  An exception is      *)
(* caught by the handler, which then answers 500 and returns: for the      *)
(* platform that invocation succeeded, so it is not tried again.           *)
(***************************************************************************)
EXTENDS Sequences, FiniteSets, ImageResize

CONSTANTS Sources,        \* keys of the source bucket
          ImageSources,   \* those with the extension of an image
          Bases, Base,    \* file names without folder and extension; of each key
          Pictures,       \* what is uploaded: [w |-> , h |-> ]
          Workers,        \* environments the platform runs the handler in
          Partitions,     \* of the topic
          MaxUploads,     \* bound: uploads
          MaxDeliveries,  \* bound: times S3 delivers one notification
          MaxAttempts,    \* tries of one delivery; the platform allows three
          MaxBatch,       \* bound: records in one notification
          MaxUnsent,      \* bound: events a flush does not see sent
          Faults          \* among "s3", "stop"

VARIABLES uploads,     \* every upload so far
          bucket,      \* the upload each source key holds, 0 for none
          due,         \* deliveries S3 has yet to make of each upload's notification
          work,        \* lambda_handler in each worker
          buffer,      \* events a flush left with the worker's Kafka producer
          unsent,      \* how often a flush did not see its event sent
          objects,     \* the processed bucket
          topic,       \* product-images.processed
          abandoned,   \* history: uploads whose invocation ended without retry
          overlapped   \* history: base names two invocations worked on at once

sourceVars == <<uploads, bucket, due>>
historyVars == <<abandoned, overlapped>>
producerVars == <<buffer, unsent>>
vars == <<sourceVars, work, producerVars, objects, topic, historyVars>>

MutIMAGE_SIZES == <<800, 400, 150>>   \* mutant: the largest first
IMAGE_SIZES == <<150, 400, 800>>
Sizes == DOMAIN IMAGE_SIZES
Uploads == 1..MaxUploads
ProcessedKeys == Sizes \X Bases
NoObject == [upload |-> 0]

ASSUME ImageProcessorAssumption ==
    /\ ImageSources \subseteq Sources
    /\ Base \in [Sources -> Bases]
    /\ Pictures \subseteq [w : Nat \ {0}, h : Nat \ {0}]
    /\ MaxUploads \in Nat /\ MaxDeliveries \in Nat /\ MaxAttempts \in Nat /\ MaxBatch \in Nat
    /\ MaxUnsent \in Nat /\ Faults \subseteq {"s3", "stop"}

\* The handler of a worker: the uploads of its event's records, the record it
\* is at, the upload get_object returned, and the size it is at.
Resting == [pc |-> "idle", event |-> << >>, at |-> 1, attempt |-> 1, held |-> 0, size |-> 1]

Init ==
    /\ uploads = << >>
    /\ bucket = [s \in Sources |-> 0]
    /\ due = [n \in Uploads |-> 0]
    /\ work = [c \in Workers |-> Resting]
    /\ buffer = [c \in Workers |-> << >>] /\ unsent = 0
    /\ objects = [k \in ProcessedKeys |-> NoObject]
    /\ topic = [p \in Partitions |-> << >>]
    /\ abandoned = {} /\ overlapped = {}
-----------------------------------------------------------------------------
BaseOf(n) == Base[uploads[n].source]
KeyOf(n, i) == <<i, BaseOf(n)>>

\* The upload whose record the worker is at, and those it has still to do.
Current(c) == work[c].event[work[c].at]
Remaining(c) == {work[c].event[j] : j \in work[c].at .. Len(work[c].event)}
BasesOf(event) == {BaseOf(event[j]) : j \in DOMAIN event}

WorkerIs(c, pc) == work[c].pc = pc
Goto(c, pc) == work' = [work EXCEPT ![c].pc = pc]

\* A picture is put into the source bucket under a key, new or old.
Upload(s, picture) ==
    /\ Len(uploads) < MaxUploads
    /\ LET n == Len(uploads) + 1
       IN  /\ uploads' = Append(uploads, [source |-> s, picture |-> picture])
           /\ bucket' = [bucket EXCEPT ![s] = n]
           /\ \E d \in 1..MaxDeliveries : due' = [due EXCEPT ![n] = d]
    /\ UNCHANGED <<work, producerVars, objects, topic, historyVars>>

\* An invocation of lambda_handler, with one record or more.
Invoke(c, event) ==
    /\ WorkerIs(c, "idle")
    /\ event # << >> /\ Len(event) <= MaxBatch
    /\ \A j \in DOMAIN event : due[event[j]] > 0
    /\ \A i, j \in DOMAIN event : i # j => event[i] # event[j]
    /\ work' = [work EXCEPT ![c] = [Resting EXCEPT !.pc = "record", !.event = event]]
    /\ due' = [n \in Uploads |->
                  IF \E j \in DOMAIN event : event[j] = n THEN due[n] - 1 ELSE due[n]]
    /\ overlapped' = overlapped \cup
          {b \in BasesOf(event) : \E d \in Workers \ {c} : b \in BasesOf(work[d].event)}
    /\ UNCHANGED <<uploads, bucket, producerVars, objects, topic, abandoned>>

\* The events the platform may compose.
Events == {<<n>> : n \in Uploads} \cup {<<m, n>> : m, n \in Uploads}

\* for record in event['Records']: a key that names no image is skipped,
MutTakeRecord(c) ==   \* mutant: reads the version its notification is about
    /\ WorkerIs(c, "record") /\ work[c].at <= Len(work[c].event)
    /\ work' = IF uploads[Current(c)].source \in ImageSources
               THEN [work EXCEPT ![c].pc = "resize", ![c].held = Current(c), ![c].size = 1]
               ELSE [work EXCEPT ![c].at = @ + 1]
    /\ UNCHANGED <<sourceVars, producerVars, objects, topic, historyVars>>
TakeRecord(c) ==
    /\ WorkerIs(c, "record") /\ work[c].at <= Len(work[c].event)
    /\ LET s == uploads[Current(c)].source
       IN  work' = IF s \in ImageSources
                   THEN [work EXCEPT ![c].pc = "resize", ![c].held = bucket[s], ![c].size = 1]
                   ELSE [work EXCEPT ![c].at = @ + 1]
    /\ UNCHANGED <<sourceVars, producerVars, objects, topic, historyVars>>

\* and after the last record the handler returns 200.
Return(c) ==
    /\ WorkerIs(c, "record") /\ work[c].at > Len(work[c].event)
    /\ work' = [work EXCEPT ![c] = Resting]
    /\ UNCHANGED <<sourceVars, producerVars, objects, topic, historyVars>>

\* resize_image and put_object.
MutPutSize(c) ==   \* mutant: a write that fails is logged only
    /\ WorkerIs(c, "resize")
    /\ Goto(c, "publish")
    /\ UNCHANGED <<sourceVars, producerVars, objects, topic, historyVars>>
PutSize(c) ==
    LET n == work[c].held
        t == IMAGE_SIZES[work[c].size]
    IN  /\ WorkerIs(c, "resize")
        /\ Resizable(uploads[n].picture, t)
        /\ \E r \in Resized(uploads[n].picture, t) :
              objects' = [objects EXCEPT ![KeyOf(n, work[c].size)] =
                             [upload |-> n, frame |-> Framed(r, t)]]
        /\ Goto(c, "publish")
        /\ UNCHANGED <<sourceVars, producerVars, topic, historyVars>>

\* The next size of the picture, or the next record.
MutAdvanced(w) ==   \* mutant: one size too many
    IF w.size <= Len(IMAGE_SIZES)
    THEN [w EXCEPT !.pc = "resize", !.size = @ + 1]
    ELSE [w EXCEPT !.pc = "record", !.at = @ + 1, !.size = 1, !.held = 0]
MutLastSize(w) ==   \* mutant: one size too few
    IF w.size + 1 < Len(IMAGE_SIZES)
    THEN [w EXCEPT !.pc = "resize", !.size = @ + 1]
    ELSE [w EXCEPT !.pc = "record", !.at = @ + 1, !.size = 1, !.held = 0]
Advanced(w) ==
    IF w.size < Len(IMAGE_SIZES)
    THEN [w EXCEPT !.pc = "resize", !.size = @ + 1]
    ELSE [w EXCEPT !.pc = "record", !.at = @ + 1, !.size = 1, !.held = 0]

Advance(c) == work' = [work EXCEPT ![c] = Advanced(@)]

MutPayload(n, i) ==   \* mutant: names the size by its pixels
    [processed_key |-> KeyOf(n, i), original_key |-> uploads[n].source, size |-> IMAGE_SIZES[i]]
Payload(n, i) ==
    [processed_key |-> KeyOf(n, i), original_key |-> uploads[n].source, size |-> i]

Send(payload) == \E p \in Partitions : topic' = [topic EXCEPT ![p] = Append(@, payload)]

\* publish_kafka_event: the event is sent before flush returns, to any
\* partition, or is still with the producer when flush times out (without a
\* producer it stays there for ever).  The handler goes on in any case.
Publish(c) ==
    LET payload == Payload(work[c].held, work[c].size)
    IN  /\ WorkerIs(c, "publish")
        /\ \/ Send(payload) /\ UNCHANGED producerVars
           \/ /\ unsent < MaxUnsent /\ unsent' = unsent + 1
              /\ buffer' = [buffer EXCEPT ![c] = Append(@, payload)]
              /\ UNCHANGED topic
        /\ Advance(c)
        /\ UNCHANGED <<sourceVars, objects, historyVars>>

\* The producer's thread sends the oldest event flush left behind.
SendLate(c) ==
    /\ buffer[c] # << >>
    /\ Send(Head(buffer[c]))
    /\ buffer' = [buffer EXCEPT ![c] = Tail(@)]
    /\ UNCHANGED <<sourceVars, work, unsent, objects, historyVars>>

\* An exception, wherever it is raised, ends the loop over the records.
AnswerError(c) ==
    /\ abandoned' = abandoned \cup Remaining(c)
    /\ work' = [work EXCEPT ![c] = Resting]
    /\ UNCHANGED <<sourceVars, producerVars, objects, topic, overlapped>>

\* resize raises for a side of no pixels.
RefuseSize(c) ==
    /\ WorkerIs(c, "resize")
    /\ ~ Resizable(uploads[work[c].held].picture, IMAGE_SIZES[work[c].size])
    /\ AnswerError(c)

\* get_object, put_object or Image.open raises.
FailS3(c) ==
    /\ "s3" \in Faults
    /\ \/ WorkerIs(c, "record") /\ work[c].at <= Len(work[c].event)
       \/ WorkerIs(c, "resize")
    /\ AnswerError(c)

\* The worker is stopped in any step, at its timeout or with its host, and
\* the platform tries the event again while it has attempts left.
Stop(c) ==
    /\ "stop" \in Faults /\ ~ WorkerIs(c, "idle")
    /\ buffer' = [buffer EXCEPT ![c] = << >>]
    /\ \/ /\ work[c].attempt < MaxAttempts
          /\ work' = [work EXCEPT ![c] =
                         [Resting EXCEPT !.pc = "record", !.event = work[c].event,
                                         !.attempt = work[c].attempt + 1]]
          /\ UNCHANGED abandoned
       \/ /\ work[c].attempt >= MaxAttempts
          /\ work' = [work EXCEPT ![c] = Resting]
          /\ abandoned' = abandoned \cup Remaining(c)
    /\ UNCHANGED <<sourceVars, unsent, objects, topic, overlapped>>

Handle(c) == TakeRecord(c) \/ Return(c) \/ PutSize(c) \/ Publish(c) \/ RefuseSize(c)

Next ==
    \/ \E s \in Sources, picture \in Pictures : Upload(s, picture)
    \/ \E c \in Workers :
          \/ \E event \in Events : Invoke(c, event)
          \/ Handle(c) \/ SendLate(c) \/ FailS3(c) \/ Stop(c)

Spec == Init /\ [][Next]_vars

\* The platform delivers what is due when a worker is free; the handler runs.
FairSpec ==
    /\ Spec
    /\ WF_vars(\E c \in Workers, event \in Events : Invoke(c, event))
    /\ \A c \in Workers : WF_vars(Handle(c))
-----------------------------------------------------------------------------
Frame == [w : Nat, h : Nat, left : Int, top : Int]
WorkerType ==
    [pc : {"idle", "record", "resize", "publish"}, event : Seq(Uploads),
     at : Nat, attempt : Nat, held : 0..MaxUploads, size : Sizes]
PayloadType == [processed_key : ProcessedKeys, original_key : Sources, size : Sizes]

\* Every variable has its type, and an event names only uploads there are.
TypeOK ==
    /\ uploads \in Seq([source : Sources, picture : Pictures]) /\ Len(uploads) <= MaxUploads
    /\ bucket \in [Sources -> 0..Len(uploads)]
    /\ due \in [Uploads -> Nat] /\ \A n \in Uploads : due[n] > 0 => n <= Len(uploads)
    /\ work \in [Workers -> WorkerType]
    /\ \A c \in Workers : \A j \in DOMAIN work[c].event : work[c].event[j] <= Len(uploads)
    /\ buffer \in [Workers -> Seq(PayloadType)] /\ unsent \in Nat
    /\ objects \in [ProcessedKeys -> {NoObject} \cup [upload : 1..Len(uploads), frame : Frame]]
    /\ topic \in [Partitions -> Seq(PayloadType)]
    /\ abandoned \subseteq Uploads
    /\ overlapped \subseteq Bases

\* upload_image publishes after put_object: whoever reads an event finds the
\* object it announces in the processed bucket, whatever failed or was tried
\* again in between.
EventMeansObject ==
    \A p \in Partitions : \A j \in DOMAIN topic[p] :
        objects[topic[p][j].processed_key] # NoObject

\* process_image does the smallest size first, so a picture too narrow for one
\* of the sizes is refused before any object is written: the bucket never
\* holds part of a set that cannot be completed.
NoPartOfARefusedPicture ==
    \A k \in ProcessedKeys :
        objects[k] # NoObject =>
            \A i \in Sizes : Resizable(uploads[objects[k].upload].picture, IMAGE_SIZES[i])

\* resize_image: the pasted picture lies within its frame, fills it in one
\* direction, and its margins on two opposite sides differ by one at most.
CentredInFrame ==
    \A k \in ProcessedKeys :
        objects[k] # NoObject =>
            LET f == objects[k].frame
                t == IMAGE_SIZES[k[1]]
            IN  /\ f.left >= 0 /\ t - f.w - 2 * f.left \in {0, 1}
                /\ f.top >= 0 /\ t - f.h - 2 * f.top \in {0, 1}
                /\ f.w = t \/ f.h = t

\* A base name no other key of an image shares.
OwnBase(s) == \A r \in ImageSources : Base[r] = Base[s] => r = s

\* Nothing is due, and no invocation has this base name in its event.
Settled(b) ==
    /\ \A n \in Uploads : due[n] > 0 => BaseOf(n) # b
    /\ \A c \in Workers : b \notin BasesOf(work[c].event)

\* lambda_handler, however often it is stopped and tried again, delivered
\* twice or late: once nothing is left to do for a key, every size shows the
\* picture uploaded last, provided that no other key shares its base name,
\* that no two invocations worked on that name at once, and that the upload's
\* invocation was not given up.
SettledIsCurrent ==
    \A s \in ImageSources :
        (/\ bucket[s] # 0 /\ bucket[s] \notin abandoned
         /\ OwnBase(s) /\ Base[s] \notin overlapped /\ Settled(Base[s]))
        => \A i \in Sizes : objects[<<i, Base[s]>>].upload = bucket[s]

HasAllSizes(n) == n <= Len(uploads) /\ \A i \in Sizes : objects[KeyOf(n, i)] # NoObject

\* Every image uploaded gets all its sizes in the end, unless its invocation
\* was given up (an answer of 500, or no attempt left).
ProcessedInTheEnd ==
    \A n \in Uploads :
        (n <= Len(uploads) /\ uploads[n].source \in ImageSources)
        ~> (n \in abandoned \/ HasAllSizes(n))
=============================================================================
