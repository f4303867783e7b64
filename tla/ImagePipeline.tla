---------------------------- MODULE ImagePipeline ----------------------------
(***************************************************************************)
(* From an uploaded picture to the totals in the analytics stores: the     *)
(* image processor is the only publisher of product-images.processed, and  *)
(* the analytics job its only reader.  The two share nothing else.         *)
(***************************************************************************)
EXTENDS AnalyticsJob

CONSTANTS Sources, ImageSources, Bases, Base, Pictures, Workers,
          MaxUploads, MaxDeliveries, MaxAttempts, MaxBatch, MaxUnsent, Faults

VARIABLES uploads, bucket, due, work, buffer, unsent, objects, abandoned, overlapped

IP == INSTANCE ImageProcessor

\* What upload_image publishes is all the job gets to read.
ASSUME PipelineAssumption == IP!ImageProcessorAssumption /\ Payloads = IP!PayloadType

imageVars == <<uploads, bucket, due, work, buffer, unsent, objects, abandoned, overlapped>>
pipelineVars == <<vars, imageVars>>

PipelineInit == Init /\ IP!Init

PipelineNext ==
    \/ IP!Next /\ UNCHANGED jobVars
    \/ JobStep /\ UNCHANGED imageVars

PipelineSpec == PipelineInit /\ [][PipelineNext]_pipelineVars
-----------------------------------------------------------------------------
\* Whatever the image processor publishes, and however often, is what the job
\* reads: of the whole system, the job sees a behaviour of AnalyticsJob.
DrivesTheJob == OpenSpec

\* The image processor's side of the same.
DrivesTheProcessor == IP!Spec

\* Every event the stores count announces an object that is in the processed
\* bucket, although the one side publishes after its uploads, restarts in
\* between and publishes again, and the other reads again after a failure.
CountedIsStored ==
    \A i \in StoreIds, w \in WindowKeys : \A n \in DOMAIN records[i][w] :
        LET id == records[i][w][n]
        IN  objects[topic[id[1]][id[2]].processed_key] # IP!NoObject
=============================================================================
