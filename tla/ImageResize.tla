----------------------------- MODULE ImageResize -----------------------------
(***************************************************************************)
(* resize_image of serverless/image-processor/lambda_function.py: the      *)
(* sides a picture gets inside a square frame, and where it is pasted.     *)
(*                                                                         *)
(* The code divides in floating point: aspect = w / h, then int(t / aspect)*)
(* or int(t * aspect).  Exact arithmetic gives the floor of t * n / d,     *)
(* with n the shorter and d the longer side.  The rounding errors show in  *)
(* one case only: when t * n / d is a whole number and the aspect has no   *)
(* exact representation, the code may come out one below it, as for a      *)
(* picture of 11 by 15 in a frame of 150 (109, not 110).                   *)
(***************************************************************************)
EXTENDS Integers

\* What int() of the scaled shorter side n may be, for a longer side d > 0.
Scaled(t, n, d) ==
    LET q == (t * n) \div d
    IN  {q} \cup {r \in {q - 1} : r > 0 /\ (t * n) % d = 0 /\ d % n # 0}

\* The sides new_width, new_height a picture may get in a frame of side t.
\* They never exceed t, so "ensure dimensions don't exceed target" does
\* nothing: ScaledBounds in ImageProcessorProofs.
Resized(picture, t) ==
    IF picture.w > picture.h
    THEN [w : {t}, h : Scaled(t, picture.h, picture.w)]
    ELSE [w : Scaled(t, picture.w, picture.h), h : {t}]

\* PIL refuses to resize to a side of no pixels: the call raises.
Resizable(picture, t) == \A r \in Resized(picture, t) : r.w > 0 /\ r.h > 0

\* The frame with the resized picture r pasted in its centre.
MutFramed(r, t) ==   \* mutant: the margins of the other direction
    [w |-> r.w, h |-> r.h, left |-> (t - r.h) \div 2, top |-> (t - r.w) \div 2]
Framed(r, t) == [w |-> r.w, h |-> r.h, left |-> (t - r.w) \div 2, top |-> (t - r.h) \div 2]
=============================================================================
