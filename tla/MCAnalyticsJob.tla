---------------------------- MODULE MCAnalyticsJob ----------------------------
(* Instances of AnalyticsJob for TLC.                                      *)
EXTENDS AnalyticsJob, TLC

CONSTANTS p1, p2, k1, k2

\* Each subtask of the job reads a partition.
OnePerSubtask == p1 :> k1 @@ p2 :> k2

\* An event as upload_image publishes it: its fields include neither timestamp
\* nor size_label.
Unlabelled == {[size |-> "thumbnail"]}
=============================================================================
