------------------------- MODULE ImagePipelineProofs -------------------------
(***************************************************************************)
(* The image processor and the analytics job together, for every value of  *)
(* the constants: each sees a behaviour of its own specification, so what  *)
(* was proved of each alone holds of the whole; and from the two together  *)
(* follows that what the stores count is in the bucket.                    *)
(***************************************************************************)
EXTENDS ImagePipeline, AnalyticsJobProofs

P == INSTANCE ImageProcessorProofs

-----------------------------------------------------------------------------
(* The theorems about the image processor are about P, whose definitions   *)
(* are those of the pipeline's instance IP.                                *)

LEMMA ProcessorAssumption == P!ImageProcessorAssumption
BY PipelineAssumption DEF P!ImageProcessorAssumption, IP!ImageProcessorAssumption

LEMMA SameInit == IP!Init <=> P!Init
BY DEF P!Init, IP!Init, P!Uploads, IP!Uploads, P!Resting, IP!Resting,
       P!ProcessedKeys, IP!ProcessedKeys, P!NoObject, IP!NoObject,
       P!Sizes, IP!Sizes, P!IMAGE_SIZES, IP!IMAGE_SIZES

LEMMA SameVars == IP!vars = P!vars
BY DEF P!vars, IP!vars, P!sourceVars, IP!sourceVars, P!historyVars, IP!historyVars,
       P!producerVars, IP!producerVars

LEMMA SamePayloads == IP!PayloadType = P!PayloadType
BY DEF P!PayloadType, IP!PayloadType, P!ProcessedKeys, IP!ProcessedKeys,
       P!Sizes, IP!Sizes, P!IMAGE_SIZES, IP!IMAGE_SIZES

LEMMA SameNext == IP!Next <=> P!Next
<1> USE DEF P!sourceVars, IP!sourceVars, P!historyVars, IP!historyVars,
            P!producerVars, IP!producerVars, P!Resting, IP!Resting, P!BaseOf, IP!BaseOf,
            P!KeyOf, IP!KeyOf, P!Current, IP!Current, P!WorkerIs, IP!WorkerIs,
            P!Goto, IP!Goto, P!IMAGE_SIZES, IP!IMAGE_SIZES, P!Uploads, IP!Uploads
<1>1. ASSUME NEW s, NEW picture
      PROVE  IP!Upload(s, picture) <=> P!Upload(s, picture)
  BY DEF P!Upload, IP!Upload
<1>2. ASSUME NEW c, NEW event
      PROVE  IP!Invoke(c, event) <=> P!Invoke(c, event)
  BY DEF P!Invoke, IP!Invoke, P!BasesOf, IP!BasesOf
<1>3. ASSUME NEW c
      PROVE  /\ IP!TakeRecord(c) <=> P!TakeRecord(c)
             /\ IP!Return(c) <=> P!Return(c)
  BY DEF P!TakeRecord, IP!TakeRecord, P!Return, IP!Return
<1>4. ASSUME NEW c
      PROVE  IP!PutSize(c) <=> P!PutSize(c)
  BY DEF P!PutSize, IP!PutSize, P!Resizable, IP!Resizable, P!Resized, IP!Resized,
         P!Scaled, IP!Scaled, P!Framed, IP!Framed
<1>5. ASSUME NEW c
      PROVE  IP!Publish(c) <=> P!Publish(c)
  BY DEF P!Publish, IP!Publish, P!Payload, IP!Payload, P!Send, IP!Send,
         P!Advance, IP!Advance, P!Advanced, IP!Advanced
<1>6. ASSUME NEW c
      PROVE  IP!SendLate(c) <=> P!SendLate(c)
  BY DEF P!SendLate, IP!SendLate, P!Send, IP!Send
<1>7. ASSUME NEW c
      PROVE  IP!AnswerError(c) <=> P!AnswerError(c)
  BY DEF P!AnswerError, IP!AnswerError, P!Remaining, IP!Remaining
<1>8. ASSUME NEW c
      PROVE  IP!RefuseSize(c) <=> P!RefuseSize(c)
  BY <1>7 DEF P!RefuseSize, IP!RefuseSize, P!Resizable, IP!Resizable, P!Resized, IP!Resized,
              P!Scaled, IP!Scaled
<1>9. ASSUME NEW c
       PROVE  IP!FailS3(c) <=> P!FailS3(c)
  BY <1>7 DEF P!FailS3, IP!FailS3
<1>10. ASSUME NEW c
       PROVE  IP!Stop(c) <=> P!Stop(c)
  BY DEF P!Stop, IP!Stop, P!Remaining, IP!Remaining
<1>11. IP!Events = P!Events
  BY DEF P!Events, IP!Events
<1> QED
  BY <1>1, <1>2, <1>3, <1>4, <1>5, <1>6, <1>8, <1>9, <1>10, <1>11
     DEF P!Next, IP!Next, P!Handle, IP!Handle

-----------------------------------------------------------------------------
(* Each side of the pipeline is what it is alone.                          *)

LEMMA JobLeavesTopic == JobStep => UNCHANGED topic
BY DEF JobStep, Read, EmitWatermark, StartTimer, Persist, TakeCheckpoint, Recover, Submit, Reopen

LEMMA PipelineIsProcessor == PipelineSpec => P!Spec
<1>1. PipelineInit => P!Init
  BY SameInit DEF PipelineInit
<1>2. [PipelineNext]_pipelineVars => [P!Next]_(P!vars)
  <2>1. UNCHANGED <<imageVars, topic>> => UNCHANGED P!vars
    BY DEF imageVars, P!vars, P!sourceVars, P!producerVars, P!historyVars
  <2> QED BY <2>1, SameNext, JobLeavesTopic DEF PipelineNext, pipelineVars, vars
<1> QED BY <1>1, <1>2, PTL DEF PipelineSpec, P!Spec

\* The image processor behaves as it does without the job: no step of the job
\* is one of its own.
THEOREM PipelineDrivesTheProcessor == PipelineSpec => DrivesTheProcessor
<1>1. P!Spec => IP!Spec
  <2>1. P!Init => IP!Init
    BY SameInit
  <2>2. [P!Next]_(P!vars) => [IP!Next]_(IP!vars)
    BY SameNext, SameVars DEF P!vars, IP!vars, P!sourceVars, IP!sourceVars, P!historyVars,
       IP!historyVars, P!producerVars, IP!producerVars
  <2> QED BY <2>1, <2>2, PTL DEF P!Spec, IP!Spec
<1> QED BY PipelineIsProcessor, <1>1, PTL DEF DrivesTheProcessor

\* To the job, a step of the image processor is an event that arrives, one of
\* those it was said to read, or nothing.
THEOREM PipelineDrivesTheJob == PipelineSpec => DrivesTheJob
<1>1. PipelineInit => Init
  BY DEF PipelineInit
<1>2. P!Typed /\ P!EventsAnnounce /\ [PipelineNext]_pipelineVars => [OpenNext]_vars
  <2> SUFFICES ASSUME P!Typed, P!EventsAnnounce, PipelineNext PROVE [OpenNext]_vars
    BY DEF pipelineVars
  <2>1. CASE JobStep
    BY <2>1 DEF OpenNext
  <2>2. CASE P!Next /\ UNCHANGED jobVars
    <3>1. UNCHANGED topic \/ \E e \in P!PayloadType : P!Announced(e) /\ P!Send(e)
      BY <2>2, ProcessorAssumption, P!EventsMove
    <3>2. ASSUME NEW e \in P!PayloadType, P!Send(e) PROVE OpenNext
      <4>1. PICK p \in Partitions : topic' = [topic EXCEPT ![p] = Append(@, e)]
        BY <3>2 DEF P!Send
      <4>2. e \in Payloads
        BY PipelineAssumption, SamePayloads
      <4>3. Produce(p, e)
        BY <2>2, <4>1 DEF Produce
      <4> QED BY <4>2, <4>3 DEF OpenNext
    <3> QED BY <2>2, <3>1, <3>2 DEF vars
  <2> QED BY <2>1, <2>2, SameNext DEF PipelineNext
<1>3. P!Spec => [](P!Typed /\ P!EventsAnnounce)
  BY ProcessorAssumption, P!AlwaysAnnounced
<1> QED BY <1>1, <1>2, <1>3, PipelineIsProcessor, PTL DEF PipelineSpec, DrivesTheJob, OpenSpec

-----------------------------------------------------------------------------
(* What follows of the whole.                                              *)

\* upload_image's events carry no timestamp: the job stamps them all.
LEMMA PublishedUnstamped == Unstamped
BY PipelineAssumption DEF Unstamped, Stamped, IP!PayloadType

\* Whatever fails on either side, every event published since the job was
\* submitted is kept, and no count is taken back.
THEOREM PipelineKeepsEvents == PipelineSpec => []ReadIsKept /\ NeverForgotten
BY PipelineDrivesTheJob, PublishedUnstamped, EventsAreKept, CountsAreNeverForgotten DEF DrivesTheJob

\* What is counted is in the topic.
CountedIsThere ==
    \A i \in StoreIds, w \in WindowKeys : \A id \in Range(records[i][w]) :
        id[2] <= Len(topic[id[1]])

LEMMA CountedIsThereNext ==
    Typed /\ WindowsHold /\ CountedIsThere /\ [OpenNext]_vars => CountedIsThere'
<1> SUFFICES ASSUME Typed, WindowsHold, CountedIsThere, [OpenNext]_vars,
                    NEW i \in StoreIds, NEW w \in WindowKeys, NEW id \in Range(records'[i][w])
             PROVE  id[2] <= Len(topic'[id[1]])
  BY DEF CountedIsThere
<1>1. TypeOK /\ Typed'
  BY TypedInductive DEF Typed
<1>2. id \in EventIds
  BY <1>1 DEF Typed, TypeOK, WindowsType, Range
<1>3. id[1] \in Partitions /\ id[2] \in Nat
  BY <1>2 DEF EventIds
<1>4. Len(topic[id[1]]) \in Nat /\ Len(topic[id[1]]) <= Len(topic'[id[1]])
  <2>1. CASE UNCHANGED topic
    BY <1>1, <1>3, <2>1 DEF TypeOK
  <2>2. ASSUME NEW p \in Partitions, NEW e \in Payloads, Produce(p, e)
        PROVE  Len(topic[id[1]]) \in Nat /\ Len(topic[id[1]]) <= Len(topic'[id[1]])
    <3>1. topic[p] \in Seq(Payloads) /\ topic[id[1]] \in Seq(Payloads)
      BY <1>1, <1>3 DEF TypeOK
    <3>2. Len(Append(topic[p], e)) = Len(topic[p]) + 1 /\ Len(topic[p]) \in Nat
      BY <3>1
    <3>3. topic'[id[1]] = IF id[1] = p THEN Append(topic[p], e) ELSE topic[id[1]]
      BY <1>1, <1>3, <2>2 DEF Produce, TypeOK
    <3> QED BY <3>1, <3>2, <3>3
  <2> QED BY <2>1, <2>2, JobLeavesTopic DEF OpenNext, vars
<1>5. CASE id \in Range(records[i][w])
  BY <1>3, <1>4, <1>5 DEF CountedIsThere
<1>6. CASE id \in Range(windows[w])
  <2>1. id[2] <= position[id[1]] /\ position[id[1]] <= Len(topic[id[1]])
    BY <1>1, <1>3, <1>6 DEF WindowsHold, Held, TypeOK
  <2> QED BY <1>1, <1>3, <1>4, <2>1 DEF TypeOK
<1>7. CASE records' # records
  <2>1. Persist
    BY <1>7 DEF OpenNext, JobStep, Read, EmitWatermark, StartTimer, TakeCheckpoint, Recover,
                Submit, Reopen, Produce, vars, jobVars, storeVars
  <2>2. records'[i][w] = records[i][w] \/ records'[i][w] = windows[w]
    BY <2>1, Persists
  <2> QED BY <1>5, <1>6, <2>2
<1> QED BY <1>5, <1>7

\* Every event a store counts announces an object that is in the processed
\* bucket: neither side alone could promise it.
THEOREM CountedPicturesAreStored == PipelineSpec => []CountedIsStored
<1>1. OpenSpec => [](Typed /\ WindowsHold /\ CountedIsThere)
  <2>1. Init => Typed /\ WindowsHold /\ CountedIsThere
    <3>1. Init => \A i \in StoreIds, w \in WindowKeys : records[i][w] = << >>
      BY DEF Init, NoEvents
    <3> QED BY <3>1, InitCounted, Ranges DEF CountedBefore, CountedIsThere
  <2>2. Typed /\ WindowsHold /\ CountedIsThere /\ [OpenNext]_vars
        => (Typed /\ WindowsHold /\ CountedIsThere)'
    BY TypedInductive, WindowsHoldInductive, CountedIsThereNext
  <2> QED BY <2>1, <2>2, PTL DEF OpenSpec
<1>2. P!Spec => []P!EventMeansObject
  BY ProcessorAssumption, P!EventsMeanObjects
<1>3. Typed /\ WindowsHold /\ CountedIsThere /\ P!EventMeansObject => CountedIsStored
  <2> SUFFICES ASSUME Typed, CountedIsThere, P!EventMeansObject,
                      NEW i \in StoreIds, NEW w \in WindowKeys, NEW n \in DOMAIN records[i][w]
               PROVE  objects[topic[records[i][w][n][1]][records[i][w][n][2]].processed_key]
                         # IP!NoObject
    BY DEF CountedIsStored
  <2> DEFINE id == records[i][w][n]
  <2>1. id \in EventIds /\ id \in Range(records[i][w])
    BY DEF Typed, TypeOK, WindowsType, Range
  <2>2. id[1] \in Partitions /\ id[2] \in Nat \ {0} /\ id[2] <= Len(topic[id[1]])
    BY <2>1 DEF EventIds, CountedIsThere
  <2>3. id[2] \in DOMAIN topic[id[1]]
    BY <2>2 DEF Typed, TypeOK
  <2> QED BY <2>2, <2>3 DEF P!EventMeansObject, P!NoObject, IP!NoObject
<1> QED BY <1>1, <1>2, <1>3, PipelineIsProcessor, PipelineDrivesTheJob, PTL DEF DrivesTheJob
=============================================================================
