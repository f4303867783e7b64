--------------------------- MODULE MCImageProcessor ---------------------------
(* Instances of ImageProcessor for TLC.                                    *)
EXTENDS ImageProcessor, TLC

CONSTANTS s1, txt, b1, b2

\* A base name for each key.
OwnBases == [s \in Sources |-> IF s = s1 THEN b1 ELSE b2]

\* A picture of 7 by 11, which is not scaled to a whole number of pixels, and
\* one too wide for a thumbnail (200 by 1), though not for the larger sizes.
TwoPictures == {[w |-> 7, h |-> 11], [w |-> 200, h |-> 1]}

\* No action and no property of ImageProcessor depends on the order of the
\* events in a partition, and every step changes a variable besides the topic:
\* states that differ in that order alone are one.
Announced == [p \in Partitions |-> {topic[p][j] : j \in DOMAIN topic[p]}]
Unordered == <<sourceVars, work, producerVars, objects, Announced, historyVars>>
=============================================================================
