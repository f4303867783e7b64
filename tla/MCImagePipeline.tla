--------------------------- MODULE MCImagePipeline ---------------------------
(* Instances of ImagePipeline for TLC.                                     *)
EXTENDS ImagePipeline, TLC

CONSTANTS s1, b1, k1

\* One key, one base name, a picture that fits every size.
OneBase == s1 :> b1
OnePicture == {[w |-> 7, h |-> 11]}

\* One subtask reads every partition.
OneForAll == [p \in Partitions |-> k1]

\* What the image processor publishes.
Published == IP!PayloadType
=============================================================================
