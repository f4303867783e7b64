------------------------ MODULE ImageProcessorProofs ------------------------
(***************************************************************************)
(* What the image processor keeps, for any number of keys, pictures,       *)
(* workers, deliveries and attempts: its state is well typed, an event     *)
(* announces an object that is there, a refused picture leaves nothing     *)
(* behind, pictures are centred in their frames, and a key that has        *)
(* settled shows the picture uploaded last.                                *)
(***************************************************************************)
EXTENDS ImageProcessor, TLAPS

-----------------------------------------------------------------------------
(* The sides a picture gets.                                               *)

LEMMA SizesAre ==
    /\ Sizes = 1..3 /\ Len(IMAGE_SIZES) = 3
    /\ IMAGE_SIZES[1] = 150 /\ IMAGE_SIZES[2] = 400 /\ IMAGE_SIZES[3] = 800
    /\ \A i \in Sizes : IMAGE_SIZES[i] \in Nat \ {0} /\ IMAGE_SIZES[1] <= IMAGE_SIZES[i]
BY DEF Sizes, IMAGE_SIZES

LEMMA QuotientBounds ==
    ASSUME NEW t \in Nat, NEW n \in Nat, NEW d \in Nat \ {0}, n <= d
    PROVE  (t * n) \div d \in 0..t
OBVIOUS

LEMMA QuotientPositive ==
    ASSUME NEW a \in Nat, NEW d \in Nat \ {0}
    PROVE  a \div d \in Nat /\ (a \div d > 0 <=> a >= d)
OBVIOUS

\* int(t / aspect) and int(t * aspect) are no longer than t: the code's check
\* that the sides do not exceed the frame never finds one that does.
LEMMA ScaledBounds ==
    ASSUME NEW t \in Nat, NEW n \in Nat, NEW d \in Nat \ {0}, n <= d,
           NEW r \in Scaled(t, n, d)
    PROVE  r \in 0..t
BY QuotientBounds DEF Scaled

LEMMA ScaledPositive ==
    ASSUME NEW t \in Nat, NEW n \in Nat, NEW d \in Nat \ {0}
    PROVE  (\A r \in Scaled(t, n, d) : r > 0) <=> t * n >= d
<1>1. t * n \in Nat
  OBVIOUS
<1> DEFINE q == (t * n) \div d
<1>2. q \in Nat /\ (q > 0 <=> t * n >= d)
  BY <1>1, QuotientPositive
<1>3. q \in Scaled(t, n, d) /\ \A r \in Scaled(t, n, d) : r = q \/ r > 0
  BY DEF Scaled
<1> HIDE DEF q
<1> QED BY <1>2, <1>3

Picture == [w : Nat \ {0}, h : Nat \ {0}]

LEMMA ResizedBounds ==
    ASSUME NEW p \in Picture, NEW t \in Nat, NEW r \in Resized(p, t)
    PROVE  /\ r.w \in 0..t /\ r.h \in 0..t
           /\ r.w = t \/ r.h = t
<1>1. CASE p.w > p.h
  BY <1>1, ScaledBounds DEF Resized, Picture
<1>2. CASE ~ p.w > p.h
  BY <1>2, ScaledBounds DEF Resized, Picture
<1> QED BY <1>1, <1>2

\* A picture that can be resized to one frame can be resized to a larger one.
LEMMA ResizableIs ==
    ASSUME NEW p \in Picture, NEW t \in Nat \ {0}
    PROVE  Resizable(p, t) <=> IF p.w > p.h THEN t * p.h >= p.w ELSE t * p.w >= p.h
<1>1. CASE p.w > p.h
  <2>1. \A x \in Scaled(t, p.h, p.w) : \E r \in Resized(p, t) : r.h = x
    <3> TAKE x \in Scaled(t, p.h, p.w)
    <3>1. [w |-> t, h |-> x] \in Resized(p, t) /\ [w |-> t, h |-> x].h = x
      BY <1>1 DEF Resized
    <3> QED BY <3>1
  <2>2. \A r \in Resized(p, t) : r.w = t /\ r.h \in Scaled(t, p.h, p.w)
    BY <1>1 DEF Resized
  <2>3. Resizable(p, t) <=> \A x \in Scaled(t, p.h, p.w) : x > 0
    BY <2>1, <2>2 DEF Resizable
  <2> QED BY <1>1, <2>3, ScaledPositive DEF Picture
<1>2. CASE ~ p.w > p.h
  <2>1. \A x \in Scaled(t, p.w, p.h) : \E r \in Resized(p, t) : r.w = x
    <3> TAKE x \in Scaled(t, p.w, p.h)
    <3>1. [w |-> x, h |-> t] \in Resized(p, t) /\ [w |-> x, h |-> t].w = x
      BY <1>2 DEF Resized
    <3> QED BY <3>1
  <2>2. \A r \in Resized(p, t) : r.h = t /\ r.w \in Scaled(t, p.w, p.h)
    BY <1>2 DEF Resized
  <2>3. Resizable(p, t) <=> \A x \in Scaled(t, p.w, p.h) : x > 0
    BY <2>1, <2>2 DEF Resizable
  <2> QED BY <1>2, <2>3, ScaledPositive DEF Picture
<1> QED BY <1>1, <1>2

LEMMA ProductGrows ==
    ASSUME NEW t \in Nat, NEW u \in Nat, NEW n \in Nat, t <= u
    PROVE  t * n <= u * n
OBVIOUS

LEMMA ResizableLarger ==
    ASSUME NEW p \in Picture, NEW t \in Nat \ {0}, NEW u \in Nat \ {0}, t <= u,
           Resizable(p, t)
    PROVE  Resizable(p, u)
<1>1. /\ p.w \in Nat /\ p.h \in Nat
      /\ t * p.h \in Nat /\ u * p.h \in Nat /\ t * p.w \in Nat /\ u * p.w \in Nat
      /\ t * p.h <= u * p.h /\ t * p.w <= u * p.w
  BY ProductGrows DEF Picture
<1> QED BY <1>1, ResizableIs

\* The pasted picture lies in the middle of its frame.
Centred(f, t) ==
    /\ f.left >= 0 /\ t - f.w - 2 * f.left \in {0, 1}
    /\ f.top >= 0 /\ t - f.h - 2 * f.top \in {0, 1}
    /\ f.w = t \/ f.h = t

LEMMA FramedIsCentred ==
    ASSUME NEW p \in Picture, NEW t \in Nat, NEW r \in Resized(p, t)
    PROVE  Framed(r, t) \in Frame /\ Centred(Framed(r, t), t)
<1>1. /\ r.w \in 0..t /\ r.h \in 0..t
      /\ r.w = t \/ r.h = t
  BY ResizedBounds
<1> DEFINE margin(x) == (t - x) \div 2
<1>2. \A x \in 0..t : margin(x) \in Nat /\ t - x - 2 * margin(x) \in {0, 1}
  OBVIOUS
<1>3. Framed(r, t) = [w |-> r.w, h |-> r.h, left |-> margin(r.w), top |-> margin(r.h)]
  BY DEF Framed
<1> HIDE DEF margin
<1> QED BY <1>1, <1>2, <1>3 DEF Frame, Centred

-----------------------------------------------------------------------------
(* The invariants.                                                         *)

\* A key holds the upload last made to it.
BucketHoldsTheLast ==
    /\ \A n \in DOMAIN uploads : bucket[uploads[n].source] >= n
    /\ \A s \in Sources : bucket[s] # 0 => uploads[bucket[s]].source = s

\* Where the handler is in its event, and what it holds there.
Holding(c) == WorkerIs(c, "resize") \/ WorkerIs(c, "publish")
HandlerOK ==
    \A c \in Workers :
        /\ WorkerIs(c, "idle") => work[c].event = << >>
        /\ work[c].at \in 1 .. Len(work[c].event) + 1
        /\ Holding(c) =>
              /\ work[c].at <= Len(work[c].event)
              /\ work[c].held \in 1..Len(uploads)
              /\ uploads[work[c].held].source = uploads[Current(c)].source
              /\ uploads[Current(c)].source \in ImageSources

Typed == TypeOK /\ BucketHoldsTheLast /\ HandlerOK

\* An object is written before its event is published, sent or kept for later.
Announced(payload) == objects[payload.processed_key] # NoObject
EventsAnnounce ==
    /\ EventMeansObject
    /\ \A c \in Workers : \A j \in DOMAIN buffer[c] : Announced(buffer[c][j])
    /\ \A c \in Workers :
          WorkerIs(c, "publish") => objects[KeyOf(work[c].held, work[c].size)] # NoObject

\* Past the smallest size, the picture is known to fit them all.
FitsAll(n) == \A i \in Sizes : Resizable(uploads[n].picture, IMAGE_SIZES[i])
RefusedFirst ==
    /\ NoPartOfARefusedPicture
    /\ \A c \in Workers :
          WorkerIs(c, "publish") \/ (WorkerIs(c, "resize") /\ work[c].size > 1)
          => FitsAll(work[c].held)

\* What a worker holds is the last version, or the last one is still due.
HeldIsLast ==
    \A c \in Workers :
        Holding(c) =>
            LET s == uploads[Current(c)].source
            IN  \/ Base[s] \in overlapped
                \/ work[c].held = bucket[s] \/ due[bucket[s]] > 0

Shows(n, i) == objects[KeyOf(n, i)].upload = n

\* Upload n is to come later in the event of worker c, ...
ToCome(c, n) ==
    \E j \in work[c].at .. Len(work[c].event) :
        work[c].event[j] = n /\ (Holding(c) => j > work[c].at)
\* ... or it is the one in hand, and the sizes already done show it.
InHand(c, n) ==
    /\ Holding(c) /\ Current(c) = n /\ work[c].held = n
    /\ \A i \in 1 .. work[c].size - 1 : Shows(n, i)
    /\ WorkerIs(c, "publish") => Shows(n, work[c].size)

Tracked(n) ==
    \/ due[n] > 0
    \/ \E c \in Workers : ToCome(c, n) \/ InHand(c, n)
    \/ \A i \in Sizes : Shows(n, i)

\* No upload is lost sight of, unless it was given up or overlapped.
NoneLost ==
    \A s \in ImageSources :
        (/\ bucket[s] # 0 /\ bucket[s] \notin abandoned
         /\ OwnBase(s) /\ Base[s] \notin overlapped)
        => Tracked(bucket[s])

-----------------------------------------------------------------------------
(* Type correctness.                                                       *)

LEMMA AdvancedWork ==
    ASSUME NEW w \in WorkerType
    PROVE  /\ Advanced(w) \in WorkerType
           /\ Advanced(w).event = w.event /\ Advanced(w).pc \in {"record", "resize"}
           /\ w.size < 3 => /\ Advanced(w).at = w.at /\ Advanced(w).pc = "resize"
                            /\ Advanced(w).held = w.held /\ Advanced(w).size = w.size + 1
           /\ w.size = 3 => Advanced(w).at = w.at + 1 /\ Advanced(w).pc = "record"
<1>1. w.size \in 1..3 /\ Len(IMAGE_SIZES) = 3 /\ Sizes = 1..3
  BY SizesAre DEF WorkerType
<1>2. CASE w.size < 3
  <2>1. Advanced(w) = [w EXCEPT !.pc = "resize", !.size = w.size + 1]
    BY <1>1, <1>2 DEF Advanced
  <2>2. w.size + 1 \in Sizes
    BY <1>1, <1>2
  <2>3. Advanced(w) \in WorkerType
    BY <2>1, <2>2 DEF WorkerType
  <2> QED BY <1>1, <1>2, <2>1, <2>3 DEF WorkerType
<1>3. CASE w.size = 3
  <2>1. Advanced(w) = [w EXCEPT !.pc = "record", !.at = w.at + 1, !.size = 1, !.held = 0]
    BY <1>1, <1>3 DEF Advanced
  <2>2. 1 \in Sizes /\ 0 \in 0..MaxUploads /\ w.at + 1 \in Nat
    BY <1>1, ImageProcessorAssumption DEF WorkerType
  <2>3. Advanced(w) \in WorkerType
    BY <2>1, <2>2 DEF WorkerType
  <2> QED BY <1>1, <1>3, <2>1, <2>3 DEF WorkerType
<1> QED BY <1>1, <1>2, <1>3

LEMMA RestingWork ==
    /\ Resting \in WorkerType
    /\ Resting.pc = "idle" /\ Resting.event = << >> /\ Resting.at = 1
BY SizesAre, ImageProcessorAssumption DEF Resting, WorkerType

LEMMA TypedInit == Init => Typed
<1> SUFFICES ASSUME Init PROVE Typed
  OBVIOUS
<1>1. \A c \in Workers : work[c] = Resting
  BY DEF Init
<1>2. TypeOK
  BY <1>1, RestingWork, ImageProcessorAssumption DEF Init, TypeOK, Uploads
<1>3. BucketHoldsTheLast
  BY DEF Init, BucketHoldsTheLast
<1>4. HandlerOK
  BY <1>1, RestingWork DEF HandlerOK, Holding, WorkerIs
<1> QED BY <1>2, <1>3, <1>4 DEF Typed

LEMMA SequenceElement ==
    ASSUME NEW S, NEW q \in Seq(S), NEW j \in DOMAIN q
    PROVE  q[j] \in S /\ j \in 1..Len(q) /\ Len(q) \in Nat
OBVIOUS

\* A step of worker c that leaves the source bucket and gives c a handler that
\* is well typed and in its place.
HandlerAt(w) ==
    /\ w \in WorkerType
    /\ \A j \in DOMAIN w.event : w.event[j] <= Len(uploads)
    /\ w.pc = "idle" => w.event = << >>
    /\ w.at \in 1 .. Len(w.event) + 1
    /\ w.pc \in {"resize", "publish"} =>
          /\ w.at <= Len(w.event)
          /\ w.held \in 1..Len(uploads)
          /\ uploads[w.held].source = uploads[w.event[w.at]].source
          /\ uploads[w.event[w.at]].source \in ImageSources

LEMMA HandlerAtIs == Typed => \A c \in Workers : HandlerAt(work[c])
BY DEF Typed, TypeOK, HandlerOK, Holding, WorkerIs, Current, HandlerAt

LEMMA OneHandlerMoves ==
    ASSUME Typed, NEW c \in Workers, NEW w, HandlerAt(w),
           work' = [work EXCEPT ![c] = w], UNCHANGED uploads
    PROVE  /\ work' \in [Workers -> WorkerType]
           /\ \A d \in Workers : \A j \in DOMAIN work'[d].event :
                 work'[d].event[j] <= Len(uploads)
           /\ HandlerOK'
<1>1. \A d \in Workers : HandlerAt(work'[d])
  BY HandlerAtIs DEF Typed, TypeOK
<1>2. work' \in [Workers -> WorkerType]
  BY <1>1 DEF HandlerAt, Typed, TypeOK
<1> QED BY <1>1, <1>2 DEF HandlerAt, HandlerOK, Holding, WorkerIs, Current

LEMMA UploadTyped ==
    ASSUME Typed, NEW s \in Sources, NEW picture \in Pictures, Upload(s, picture)
    PROVE  Typed'
<1> DEFINE n == Len(uploads) + 1
<1>1. /\ uploads \in Seq([source : Sources, picture : Pictures])
      /\ Len(uploads) \in Nat /\ MaxUploads \in Nat /\ n \in Uploads
      /\ [source |-> s, picture |-> picture] \in [source : Sources, picture : Pictures]
  BY ImageProcessorAssumption DEF Typed, TypeOK, Upload, Uploads
<1>2. uploads' = Append(uploads, [source |-> s, picture |-> picture])
  BY DEF Upload
<1>3. /\ uploads' \in Seq([source : Sources, picture : Pictures])
      /\ Len(uploads') = n /\ n <= MaxUploads
      /\ \A m \in 1..Len(uploads) : uploads'[m] = uploads[m]
      /\ uploads'[n].source = s
  BY <1>1, <1>2 DEF Uploads
<1>4. bucket' = [bucket EXCEPT ![s] = n] /\ bucket' \in [Sources -> 0..n]
  BY <1>1 DEF Upload, Typed, TypeOK
<1>5. due' \in [Uploads -> Nat] /\ \A m \in Uploads : due'[m] > 0 => m <= n
  <2>1. PICK d \in 1..MaxDeliveries : due' = [due EXCEPT ![n] = d]
    BY DEF Upload
  <2>2. d \in Nat
    BY <2>1, ImageProcessorAssumption
  <2> QED BY <1>1, <2>1, <2>2 DEF Typed, TypeOK, Uploads
<1>6. /\ UNCHANGED <<work, buffer, unsent, objects, topic, abandoned, overlapped>>
  BY DEF Upload, producerVars, historyVars
<1>7. TypeOK'
  <2>1. \A c \in Workers : \A j \in DOMAIN work[c].event : work[c].event[j] <= n
    <3> SUFFICES ASSUME NEW c \in Workers, NEW j \in DOMAIN work[c].event
                 PROVE  work[c].event[j] <= n
      OBVIOUS
    <3>1. work[c].event \in Seq(Uploads) /\ work[c].event[j] <= Len(uploads)
      BY DEF Typed, TypeOK, WorkerType
    <3>2. work[c].event[j] \in Nat
      BY <3>1, SequenceElement, ImageProcessorAssumption DEF Uploads
    <3> QED BY <1>1, <3>1, <3>2
  <2>2. objects \in [ProcessedKeys -> {NoObject} \cup [upload : 1..n, frame : Frame]]
    BY <1>1 DEF Typed, TypeOK
  <2> HIDE DEF n
  <2> QED BY <1>3, <1>4, <1>5, <1>6, <2>1, <2>2 DEF Typed, TypeOK
<1>8. BucketHoldsTheLast'
  <2>1. DOMAIN uploads = 1..Len(uploads) /\ DOMAIN uploads' = 1..n
    BY <1>1, <1>3
  <2>2. \A m \in DOMAIN uploads' : bucket'[uploads'[m].source] >= m
    <3> TAKE m \in DOMAIN uploads'
    <3>1. uploads'[m].source \in Sources
      <4>1. uploads'[m] \in [source : Sources, picture : Pictures]
        BY <1>3, <2>1, SequenceElement
      <4> QED BY <4>1
    <3>2. CASE m = n
      BY <1>1, <1>3, <1>4, <3>1, <3>2 DEF Typed, TypeOK
    <3>3. CASE m # n
      <4>1. m \in DOMAIN uploads /\ uploads'[m] = uploads[m]
        BY <1>1, <1>3, <2>1, <3>3
      <4> QED BY <1>1, <1>4, <3>1, <4>1, <2>1 DEF Typed, TypeOK, BucketHoldsTheLast
    <3> QED BY <3>2, <3>3
  <2>3. \A r \in Sources : bucket'[r] # 0 => uploads'[bucket'[r]].source = r
    <3> TAKE r \in Sources
    <3>1. CASE r = s
      BY <1>3, <1>4, <3>1 DEF Typed, TypeOK
    <3>2. CASE r # s
      <4>1. bucket'[r] = bucket[r] /\ bucket[r] \in 0..Len(uploads)
        BY <1>1, <1>4, <3>2 DEF Typed, TypeOK
      <4> QED BY <1>1, <1>3, <4>1 DEF Typed, BucketHoldsTheLast
    <3> QED BY <3>1, <3>2
  <2> QED BY <2>2, <2>3 DEF BucketHoldsTheLast
<1>9. HandlerOK'
  <2> SUFFICES ASSUME NEW c \in Workers
               PROVE  /\ WorkerIs(c, "idle") => work[c].event = << >>
                      /\ work[c].at \in 1 .. Len(work[c].event) + 1
                      /\ Holding(c) =>
                            /\ work[c].at <= Len(work[c].event)
                            /\ work[c].held \in 1..n
                            /\ uploads'[work[c].held].source = uploads'[Current(c)].source
                            /\ uploads'[Current(c)].source \in ImageSources
    BY <1>3, <1>6 DEF HandlerOK, Holding, WorkerIs, Current
  <2>1. Holding(c) =>
           /\ work[c].at \in DOMAIN work[c].event
           /\ Current(c) \in 1..Len(uploads) /\ work[c].held \in 1..Len(uploads)
    <3> SUFFICES ASSUME Holding(c) PROVE work[c].at \in DOMAIN work[c].event
                      /\ Current(c) \in 1..Len(uploads) /\ work[c].held \in 1..Len(uploads)
      OBVIOUS
    <3>1. /\ work[c].event \in Seq(Uploads)
          /\ work[c].at \in 1 .. Len(work[c].event) + 1 /\ work[c].at <= Len(work[c].event)
          /\ work[c].held \in 1..Len(uploads)
      BY DEF Typed, TypeOK, HandlerOK, WorkerType
    <3>2. work[c].at \in DOMAIN work[c].event
      BY <3>1
    <3>3. Current(c) \in Uploads /\ Current(c) <= Len(uploads)
      BY <3>1, <3>2 DEF Typed, TypeOK, Current
    <3> QED BY <1>1, <3>1, <3>2, <3>3 DEF Uploads
  <2> QED BY <1>1, <1>3, <2>1 DEF Typed, HandlerOK
<1> QED BY <1>7, <1>8, <1>9 DEF Typed

\* What such a step has to say of the other variables.
LEMMA HandlerStepTyped ==
    ASSUME Typed, NEW c \in Workers, NEW w, HandlerAt(w),
           work' = [work EXCEPT ![c] = w], UNCHANGED <<uploads, bucket>>,
           due' \in [Uploads -> Nat], \A n \in Uploads : due'[n] > 0 => n <= Len(uploads),
           buffer' \in [Workers -> Seq(PayloadType)], unsent' \in Nat,
           objects' \in [ProcessedKeys -> {NoObject} \cup [upload : 1..Len(uploads), frame : Frame]],
           topic' \in [Partitions -> Seq(PayloadType)],
           abandoned' \subseteq Uploads, overlapped' \subseteq Bases
    PROVE  Typed'
<1>1. /\ work' \in [Workers -> WorkerType]
      /\ \A d \in Workers : \A j \in DOMAIN work'[d].event : work'[d].event[j] <= Len(uploads)
      /\ HandlerOK'
  BY OneHandlerMoves
<1>2. TypeOK'
  BY <1>1 DEF Typed, TypeOK
<1>3. BucketHoldsTheLast'
  BY DEF Typed, BucketHoldsTheLast
<1> QED BY <1>1, <1>2, <1>3 DEF Typed

\* Every upload of an event is one that was made, of a key whose base is known.
LEMMA UploadOfEvent ==
    ASSUME Typed, NEW n \in Uploads, n <= Len(uploads)
    PROVE  /\ n \in DOMAIN uploads /\ n \in 1..Len(uploads)
           /\ uploads[n].source \in Sources /\ uploads[n].picture \in Picture
           /\ BaseOf(n) \in Bases
<1>1. n \in DOMAIN uploads /\ n \in 1..Len(uploads)
  BY ImageProcessorAssumption DEF Typed, TypeOK, Uploads
<1>2. uploads[n] \in [source : Sources, picture : Pictures]
  BY <1>1, SequenceElement DEF Typed, TypeOK
<1> QED BY <1>1, <1>2, ImageProcessorAssumption DEF BaseOf, Picture

LEMMA InvokeTyped ==
    ASSUME Typed, NEW c \in Workers, NEW event \in Events, Invoke(c, event)
    PROVE  Typed'
<1> DEFINE w == [Resting EXCEPT !.pc = "record", !.event = event]
<1>1. event \in Seq(Uploads) /\ event # << >> /\ Len(event) \in Nat
  BY DEF Events, Invoke
<1>2. \A j \in DOMAIN event : event[j] \in Uploads /\ event[j] <= Len(uploads)
  BY <1>1, SequenceElement DEF Invoke, Typed, TypeOK
<1>3. /\ w \in WorkerType /\ w.pc = "record" /\ w.event = event /\ w.at = 1
  BY <1>1, RestingWork DEF WorkerType
<1>4. HandlerAt(w)
  BY <1>1, <1>2, <1>3 DEF HandlerAt
<1>5. work' = [work EXCEPT ![c] = w]
  BY DEF Invoke
<1>6. due' \in [Uploads -> Nat] /\ \A n \in Uploads : due'[n] > 0 => n <= Len(uploads)
  BY DEF Invoke, Typed, TypeOK
<1>7. overlapped' \subseteq Bases
  <2>1. BasesOf(event) \subseteq Bases
    BY <1>2, UploadOfEvent DEF BasesOf
  <2> QED BY <2>1 DEF Invoke, Typed, TypeOK
<1> HIDE DEF w
<1> QED BY <1>4, <1>5, <1>6, <1>7, HandlerStepTyped DEF Invoke, Typed, TypeOK, producerVars

LEMMA TakeRecordTyped ==
    ASSUME Typed, NEW c \in Workers, TakeRecord(c)
    PROVE  Typed'
<1> DEFINE s == uploads[Current(c)].source
           taken == [work[c] EXCEPT !.pc = "resize", !.held = bucket[s], !.size = 1]
           skipped == [work[c] EXCEPT !.at = work[c].at + 1]
<1>1. HandlerAt(work[c]) /\ work[c] \in WorkerType /\ work[c].pc = "record"
  BY HandlerAtIs DEF HandlerAt, TakeRecord, WorkerIs
<1>2. /\ work[c].at \in DOMAIN work[c].event /\ Current(c) \in Uploads
      /\ Current(c) = work[c].event[work[c].at] /\ Current(c) <= Len(uploads)
  <2>1. work[c].at \in DOMAIN work[c].event
    BY <1>1 DEF HandlerAt, WorkerType, TakeRecord
  <2> QED BY <1>1, <2>1, SequenceElement DEF HandlerAt, WorkerType, Current
<1>3. /\ s \in Sources
      /\ bucket[s] \in 1..Len(uploads) /\ uploads[bucket[s]].source = s
  <2>1. s \in Sources /\ Current(c) \in DOMAIN uploads /\ Current(c) \in 1..Len(uploads)
    BY <1>2, UploadOfEvent
  <2>2. bucket[s] \in 0..Len(uploads) /\ bucket[s] >= Current(c)
    BY <2>1 DEF Typed, TypeOK, BucketHoldsTheLast
  <2>3. bucket[s] \in 1..Len(uploads)
    BY <2>1, <2>2
  <2> QED BY <2>1, <2>3 DEF Typed, BucketHoldsTheLast
<1>4. HandlerAt(taken) \/ s \notin ImageSources
  <2>1. /\ taken \in WorkerType /\ taken.pc = "resize" /\ taken.held = bucket[s]
        /\ taken.event = work[c].event /\ taken.at = work[c].at
    <3>1. bucket[s] \in 0..MaxUploads /\ 1 \in Sizes
      BY SMTT(20), <1>3, SizesAre, ImageProcessorAssumption DEF Typed, TypeOK
    <3> QED BY <1>1, <3>1 DEF WorkerType
  <2>2. work[c].at <= Len(work[c].event)
    BY DEF TakeRecord
  <2> HIDE DEF taken
  <2> QED BY <1>1, <1>2, <1>3, <2>1, <2>2 DEF HandlerAt
<1>5. HandlerAt(skipped)
  <2>1. /\ skipped \in WorkerType /\ skipped.pc = "record"
        /\ skipped.event = work[c].event /\ skipped.at = work[c].at + 1
    BY <1>1 DEF WorkerType
  <2>2. work[c].at <= Len(work[c].event) /\ work[c].at \in 1 .. Len(work[c].event) + 1
        /\ Len(work[c].event) \in Nat
    BY <1>1 DEF TakeRecord, HandlerAt, WorkerType
  <2> HIDE DEF skipped
  <2> QED BY <1>1, <2>1, <2>2 DEF HandlerAt
<1>6. CASE s \in ImageSources
  <2>1. work' = [work EXCEPT ![c] = taken]
    BY <1>6 DEF TakeRecord, Typed, TypeOK
  <2> HIDE DEF taken
  <2> QED BY <1>4, <1>6, <2>1, HandlerStepTyped
        DEF TakeRecord, Typed, TypeOK, sourceVars, producerVars, historyVars
<1>7. CASE s \notin ImageSources
  <2>1. work' = [work EXCEPT ![c] = skipped]
    BY <1>7 DEF TakeRecord, Typed, TypeOK
  <2> HIDE DEF skipped
  <2> QED BY <1>5, <2>1, HandlerStepTyped
        DEF TakeRecord, Typed, TypeOK, sourceVars, producerVars, historyVars
<1> QED BY <1>6, <1>7

LEMMA RestingIsAt == Typed => HandlerAt(Resting)
BY RestingWork DEF HandlerAt

LEMMA ReturnTyped ==
    ASSUME Typed, NEW c \in Workers, Return(c)
    PROVE  Typed'
BY RestingIsAt, HandlerStepTyped
   DEF Return, Typed, TypeOK, sourceVars, producerVars, historyVars

\* A worker that holds an upload, and the key of the object it is to write.
LEMMA HeldIsUpload ==
    ASSUME Typed, NEW c \in Workers, Holding(c)
    PROVE  /\ work[c].held \in Uploads /\ work[c].held \in 1..Len(uploads)
           /\ work[c].at \in DOMAIN work[c].event /\ work[c].event[work[c].at] = Current(c)
           /\ Current(c) \in Uploads /\ Current(c) \in 1..Len(uploads)
           /\ uploads[work[c].held].source = uploads[Current(c)].source
           /\ uploads[work[c].held].source \in Sources
           /\ uploads[work[c].held].picture \in Picture
           /\ work[c].size \in Sizes
           /\ KeyOf(work[c].held, work[c].size) \in ProcessedKeys
<1>1. /\ HandlerAt(work[c]) /\ work[c] \in WorkerType /\ work[c].pc \in {"resize", "publish"}
  BY HandlerAtIs DEF HandlerAt, Holding, WorkerIs
<1>2. /\ work[c].held \in 1..Len(uploads) /\ work[c].held \in Uploads
      /\ work[c].at \in DOMAIN work[c].event
      /\ uploads[work[c].held].source = uploads[Current(c)].source
  BY <1>1, ImageProcessorAssumption DEF HandlerAt, WorkerType, Typed, TypeOK, Uploads, Current
<1>3. Current(c) \in Uploads /\ Current(c) <= Len(uploads)
  BY <1>1, <1>2, SequenceElement DEF HandlerAt, WorkerType, Current
<1>4. work[c].size \in Sizes
  BY <1>1 DEF WorkerType
<1> QED BY <1>2, <1>3, <1>4, UploadOfEvent DEF KeyOf, ProcessedKeys, Current

LEMMA PutSizeTyped ==
    ASSUME Typed, NEW c \in Workers, PutSize(c)
    PROVE  Typed'
<1> DEFINE n == work[c].held
           i == work[c].size
           w == [work[c] EXCEPT !.pc = "publish"]
<1>1. Holding(c) /\ work[c].pc = "resize"
  BY DEF PutSize, Holding, WorkerIs
<1>2. /\ n \in 1..Len(uploads) /\ uploads[n].picture \in Picture
      /\ i \in Sizes /\ KeyOf(n, i) \in ProcessedKeys
      /\ work[c].at \in DOMAIN work[c].event /\ Current(c) \in Uploads
  BY <1>1, HeldIsUpload
<1>3. HandlerAt(work[c]) /\ work[c] \in WorkerType
  BY HandlerAtIs DEF HandlerAt
<1>4. HandlerAt(w)
  <2>1. /\ w \in WorkerType /\ w.pc = "publish" /\ w.event = work[c].event
        /\ w.at = work[c].at /\ w.held = n
    BY <1>3 DEF WorkerType
  <2> HIDE DEF w
  <2> QED BY <1>1, <1>3, <2>1 DEF HandlerAt
<1>5. work' = [work EXCEPT ![c] = w]
  BY DEF PutSize, Goto
<1>6. objects' \in [ProcessedKeys -> {NoObject} \cup [upload : 1..Len(uploads), frame : Frame]]
  <2>1. PICK r \in Resized(uploads[n].picture, IMAGE_SIZES[i]) :
           objects' = [objects EXCEPT ![KeyOf(n, i)] =
                          [upload |-> n, frame |-> Framed(r, IMAGE_SIZES[i])]]
    BY DEF PutSize
  <2>2. Framed(r, IMAGE_SIZES[i]) \in Frame
    BY <1>2, <2>1, FramedIsCentred, SizesAre
  <2> QED BY <1>2, <2>1, <2>2 DEF Typed, TypeOK
<1> HIDE DEF w
<1> QED BY <1>4, <1>5, <1>6, HandlerStepTyped
      DEF PutSize, Typed, TypeOK, sourceVars, producerVars, historyVars

LEMMA SendTyped ==
    ASSUME Typed, NEW payload \in PayloadType, Send(payload)
    PROVE  topic' \in [Partitions -> Seq(PayloadType)]
BY DEF Send, Typed, TypeOK

LEMMA PayloadTyped ==
    ASSUME Typed, NEW c \in Workers, Holding(c)
    PROVE  Payload(work[c].held, work[c].size) \in PayloadType
BY HeldIsUpload DEF Payload, PayloadType

LEMMA AdvancedIsAt ==
    ASSUME Typed, NEW c \in Workers, Holding(c)
    PROVE  HandlerAt(Advanced(work[c]))
<1>1. HandlerAt(work[c]) /\ work[c] \in WorkerType /\ work[c].pc \in {"resize", "publish"}
  BY HandlerAtIs DEF HandlerAt, Holding, WorkerIs
<1>2. work[c].size \in 1..3 /\ work[c].at \in Nat /\ Len(work[c].event) \in Nat
  BY <1>1, SizesAre DEF WorkerType
<1>3. CASE work[c].size < 3
  BY <1>1, <1>2, <1>3, AdvancedWork DEF HandlerAt
<1>4. CASE work[c].size = 3
  BY SMTT(20), <1>1, <1>2, <1>4, AdvancedWork DEF HandlerAt
<1> QED BY <1>2, <1>3, <1>4

LEMMA PublishTyped ==
    ASSUME Typed, NEW c \in Workers, Publish(c)
    PROVE  Typed'
<1> DEFINE payload == Payload(work[c].held, work[c].size)
<1>1. Holding(c)
  BY DEF Publish, Holding
<1>2. payload \in PayloadType
  BY <1>1, PayloadTyped
<1>3. /\ topic' \in [Partitions -> Seq(PayloadType)]
      /\ buffer' \in [Workers -> Seq(PayloadType)] /\ unsent' \in Nat
  <2>1. CASE Send(payload) /\ UNCHANGED producerVars
    BY <1>2, <2>1, SendTyped DEF producerVars, Typed, TypeOK
  <2>2. CASE /\ unsent' = unsent + 1 /\ UNCHANGED topic
             /\ buffer' = [buffer EXCEPT ![c] = Append(@, payload)]
    BY <1>2, <2>2 DEF Typed, TypeOK
  <2> QED BY <2>1, <2>2 DEF Publish
<1>4. work' = [work EXCEPT ![c] = Advanced(work[c])]
  BY DEF Publish, Advance, Typed, TypeOK
<1> QED BY <1>1, <1>3, <1>4, AdvancedIsAt, HandlerStepTyped
      DEF Publish, Typed, TypeOK, sourceVars, historyVars

LEMMA SendLateTyped ==
    ASSUME Typed, NEW c \in Workers, SendLate(c)
    PROVE  Typed'
<1>1. /\ buffer[c] \in Seq(PayloadType) /\ buffer[c] # << >>
      /\ Head(buffer[c]) \in PayloadType /\ Tail(buffer[c]) \in Seq(PayloadType)
  BY DEF SendLate, Typed, TypeOK
<1>2. topic' \in [Partitions -> Seq(PayloadType)]
  BY <1>1, SendTyped DEF SendLate
<1>3. buffer' \in [Workers -> Seq(PayloadType)]
  BY <1>1 DEF SendLate, Typed, TypeOK
<1>4. work' = [work EXCEPT ![c] = work[c]]
  BY DEF SendLate, Typed, TypeOK
<1> QED BY <1>2, <1>3, <1>4, HandlerAtIs, HandlerStepTyped
      DEF SendLate, Typed, TypeOK, sourceVars, historyVars

LEMMA RemainingUploads ==
    ASSUME Typed, NEW c \in Workers
    PROVE  Remaining(c) \subseteq Uploads
<1>1. HandlerAt(work[c]) /\ work[c].event \in Seq(Uploads) /\ work[c].at \in Nat
  BY HandlerAtIs DEF HandlerAt, WorkerType
<1>2. \A j \in work[c].at .. Len(work[c].event) : j \in DOMAIN work[c].event
  BY <1>1 DEF HandlerAt
<1> QED BY <1>1, <1>2, SequenceElement DEF Remaining

LEMMA AnswerErrorTyped ==
    ASSUME Typed, NEW c \in Workers, AnswerError(c)
    PROVE  Typed'
BY RestingIsAt, RemainingUploads, HandlerStepTyped
   DEF AnswerError, Typed, TypeOK, sourceVars, producerVars

LEMMA StopTyped ==
    ASSUME Typed, NEW c \in Workers, Stop(c)
    PROVE  Typed'
<1> DEFINE again == [Resting EXCEPT !.pc = "record", !.event = work[c].event,
                                    !.attempt = work[c].attempt + 1]
<1>1. HandlerAt(work[c]) /\ work[c] \in WorkerType
  BY HandlerAtIs DEF HandlerAt
<1>2. HandlerAt(again)
  <2>1. /\ again \in WorkerType /\ again.pc = "record"
        /\ again.event = work[c].event /\ again.at = 1
    <3>1. work[c].event \in Seq(Uploads) /\ work[c].attempt + 1 \in Nat
      BY <1>1 DEF WorkerType
    <3>2. again \in WorkerType
      BY <3>1, RestingWork DEF WorkerType
    <3>3. again.pc = "record" /\ again.event = work[c].event /\ again.at = 1
      BY RestingWork DEF WorkerType
    <3> QED BY <3>2, <3>3
  <2>2. Len(work[c].event) \in Nat
    BY <1>1 DEF WorkerType
  <2> HIDE DEF again
  <2> QED BY <1>1, <2>1, <2>2 DEF HandlerAt
<1>3. buffer' \in [Workers -> Seq(PayloadType)]
  BY DEF Stop, Typed, TypeOK
<1>4. CASE work' = [work EXCEPT ![c] = again] /\ UNCHANGED abandoned
  <2> HIDE DEF again
  <2> QED BY <1>2, <1>3, <1>4, HandlerStepTyped DEF Stop, Typed, TypeOK, sourceVars
<1>5. CASE work' = [work EXCEPT ![c] = Resting] /\ abandoned' = abandoned \cup Remaining(c)
  BY <1>3, <1>5, RestingIsAt, RemainingUploads, HandlerStepTyped
     DEF Stop, Typed, TypeOK, sourceVars
<1> QED BY <1>4, <1>5 DEF Stop

LEMMA TypedNext == Typed /\ [Next]_vars => Typed'
<1> SUFFICES ASSUME Typed, [Next]_vars PROVE Typed'
  OBVIOUS
<1>1. ASSUME NEW s \in Sources, NEW picture \in Pictures, Upload(s, picture) PROVE Typed'
  BY <1>1, UploadTyped
<1>2. ASSUME NEW c \in Workers, NEW event \in Events, Invoke(c, event) PROVE Typed'
  BY <1>2, InvokeTyped
<1>3. ASSUME NEW c \in Workers, Handle(c) PROVE Typed'
  BY <1>3, TakeRecordTyped, ReturnTyped, PutSizeTyped, PublishTyped, AnswerErrorTyped
     DEF Handle, RefuseSize
<1>4. ASSUME NEW c \in Workers, SendLate(c) \/ FailS3(c) \/ Stop(c) PROVE Typed'
  BY <1>4, SendLateTyped, AnswerErrorTyped, StopTyped DEF FailS3
<1>5. CASE UNCHANGED vars
  BY <1>5 DEF vars, sourceVars, producerVars, historyVars, Typed, TypeOK,
              BucketHoldsTheLast, HandlerOK, Holding, WorkerIs, Current
<1> QED BY <1>1, <1>2, <1>3, <1>4, <1>5 DEF Next

LEMMA AlwaysTyped == Spec => []Typed
BY TypedInit, TypedNext, PTL DEF Spec

\* Every variable keeps its type, for any keys, pictures, workers and bounds:
\* what get_object returns is an upload that was made, and the handler is never
\* past the end of its event.
THEOREM TypeInvariant == Spec => []TypeOK
<1>1. Typed => TypeOK
  BY DEF Typed
<1> QED BY <1>1, AlwaysTyped, PTL

-----------------------------------------------------------------------------
(* Objects and events.  No object goes away, so what an event announced    *)
(* when it was published stays there.                                      *)

LEMMA ObjectsStay ==
    ASSUME Typed, [Next]_vars
    PROVE  \A k \in ProcessedKeys : objects[k] # NoObject => objects'[k] # NoObject
<1> SUFFICES ASSUME NEW k \in ProcessedKeys, objects[k] # NoObject
             PROVE  objects'[k] # NoObject
  OBVIOUS
<1>1. ASSUME NEW c \in Workers, PutSize(c) PROVE objects'[k] # NoObject
  <2> DEFINE n == work[c].held
             t == IMAGE_SIZES[work[c].size]
  <2>1. n \in 1..Len(uploads)
    BY <1>1, HeldIsUpload DEF PutSize, Holding
  <2>2. PICK r \in Resized(uploads[n].picture, t) :
           objects' = [objects EXCEPT ![KeyOf(n, work[c].size)] =
                          [upload |-> n, frame |-> Framed(r, t)]]
    BY <1>1 DEF PutSize
  <2>3. [upload |-> n, frame |-> Framed(r, t)].upload # NoObject.upload
    BY <2>1 DEF NoObject, Typed, TypeOK
  <2> QED BY <2>2, <2>3 DEF Typed, TypeOK
<1>2. CASE UNCHANGED objects
  BY <1>2
<1>3. CASE Next
  BY <1>1, <1>2, <1>3 DEF Next, Upload, Invoke, Handle, TakeRecord, Return, Publish,
        RefuseSize, FailS3, AnswerError, SendLate, Stop
<1> QED BY <1>2, <1>3 DEF vars

LEMMA UploadsStay ==
    ASSUME Typed, [Next]_vars, NEW n \in 1..Len(uploads)
    PROVE  uploads'[n] = uploads[n] /\ n \in 1..Len(uploads')
<1>1. ASSUME NEW s \in Sources, NEW picture \in Pictures, Upload(s, picture)
      PROVE  uploads'[n] = uploads[n] /\ n \in 1..Len(uploads')
  BY <1>1 DEF Upload, Typed, TypeOK
<1>2. CASE UNCHANGED uploads
  BY <1>2
<1>3. CASE Next
  BY <1>1, <1>2, <1>3 DEF Next, Invoke, Handle, TakeRecord, Return, PutSize, Publish,
        RefuseSize, FailS3, AnswerError, SendLate, Stop, sourceVars
<1> QED BY <1>2, <1>3 DEF vars, sourceVars

\* Where a worker is after a step: at rest, in a new or a repeated event, or
\* one step on.
LEMMA WorkerMoves ==
    ASSUME Typed, [Next]_vars, NEW c \in Workers
    PROVE  \/ work'[c] = work[c]
           \/ work'[c] = Resting
           \/ work'[c].pc = "record"
           \/ TakeRecord(c) \/ PutSize(c) \/ Publish(c)
<1> DEFINE Moved == \/ work'[c] = work[c]
                    \/ work'[c] = Resting
                    \/ work'[c].pc = "record"
                    \/ TakeRecord(c) \/ PutSize(c) \/ Publish(c)
<1> USE DEF Typed, TypeOK
<1>1. CASE UNCHANGED work
  BY <1>1
<1>2. ASSUME NEW d \in Workers, NEW event \in Events, Invoke(d, event) PROVE Moved
  BY <1>2, RestingWork DEF Invoke, WorkerType
<1>3. ASSUME NEW d \in Workers, Handle(d) PROVE Moved
  BY <1>3 DEF Handle, TakeRecord, Return, PutSize, Goto, Publish, Advance, RefuseSize, AnswerError
<1>4. ASSUME NEW d \in Workers, FailS3(d) PROVE Moved
  BY <1>4 DEF FailS3, AnswerError
<1>5. ASSUME NEW d \in Workers, Stop(d) PROVE Moved
  <2> DEFINE again == [Resting EXCEPT !.pc = "record", !.event = work[d].event,
                                      !.attempt = work[d].attempt + 1]
  <2>1. again.pc = "record"
    BY RestingWork DEF WorkerType
  <2> HIDE DEF again
  <2>2. work' = [work EXCEPT ![d] = again] \/ work' = [work EXCEPT ![d] = Resting]
    BY <1>5 DEF Stop, again
  <2> QED BY <2>1, <2>2
<1>6. CASE Next
  BY <1>1, <1>2, <1>3, <1>4, <1>5, <1>6 DEF Next, Upload, SendLate
<1> QED BY <1>1, <1>6 DEF vars

LEMMA AnnouncedStays ==
    ASSUME Typed, [Next]_vars, NEW payload \in PayloadType, Announced(payload)
    PROVE  objects'[payload.processed_key] # NoObject
BY ObjectsStay DEF Announced, PayloadType

LEMMA EventsAnnounceInit == Init => EventsAnnounce
BY RestingWork DEF Init, EventsAnnounce, EventMeansObject, WorkerIs

\* What a step does to the events kept and sent.
LEMMA EventsMove ==
    ASSUME Typed, [Next]_vars, EventsAnnounce
    PROVE  /\ \/ UNCHANGED topic
              \/ \E e \in PayloadType : Announced(e) /\ Send(e)
           /\ \A c \in Workers :
                 \/ buffer'[c] = buffer[c] \/ buffer'[c] = << >>
                 \/ buffer'[c] = Tail(buffer[c]) /\ buffer[c] # << >>
                 \/ \E e \in PayloadType : Announced(e) /\ buffer'[c] = Append(buffer[c], e)
<1> DEFINE Moved ==
      /\ \/ UNCHANGED topic
         \/ \E e \in PayloadType : Announced(e) /\ Send(e)
      /\ \A c \in Workers :
            \/ buffer'[c] = buffer[c] \/ buffer'[c] = << >>
            \/ buffer'[c] = Tail(buffer[c]) /\ buffer[c] # << >>
            \/ \E e \in PayloadType : Announced(e) /\ buffer'[c] = Append(buffer[c], e)
<1>1. CASE UNCHANGED <<topic, buffer>>
  BY <1>1
<1>2. ASSUME NEW d \in Workers, Publish(d) PROVE Moved
  <2> DEFINE e == Payload(work[d].held, work[d].size)
  <2>1. e \in PayloadType
    BY <1>2, PayloadTyped DEF Publish, Holding
  <2>2. Announced(e)
    BY <1>2 DEF EventsAnnounce, Publish, Announced, Payload
  <2> HIDE DEF e
  <2>3. CASE Send(e) /\ UNCHANGED producerVars
    BY <2>1, <2>2, <2>3 DEF producerVars
  <2>4. CASE buffer' = [buffer EXCEPT ![d] = Append(@, e)] /\ UNCHANGED topic
    BY <2>1, <2>2, <2>4 DEF Typed, TypeOK
  <2> QED BY <1>2, <2>3, <2>4 DEF Publish, e
<1>3. ASSUME NEW d \in Workers, SendLate(d) PROVE Moved
  <2>1. /\ Head(buffer[d]) \in PayloadType /\ Head(buffer[d]) = buffer[d][1]
        /\ 1 \in DOMAIN buffer[d]
    BY <1>3 DEF SendLate, Typed, TypeOK
  <2>2. Announced(Head(buffer[d]))
    BY <2>1 DEF EventsAnnounce
  <2>3. \A c \in Workers : buffer'[c] = IF c = d THEN Tail(buffer[d]) ELSE buffer[c]
    BY <1>3 DEF SendLate, Typed, TypeOK
  <2> QED BY <1>3, <2>1, <2>2, <2>3 DEF SendLate
<1>4. ASSUME NEW d \in Workers, Stop(d) PROVE Moved
  BY <1>4 DEF Stop, Typed, TypeOK
<1>5. CASE Next
  BY <1>1, <1>2, <1>3, <1>4, <1>5 DEF Next, Upload, Invoke, Handle, TakeRecord, Return,
        PutSize, RefuseSize, FailS3, AnswerError, producerVars
<1> QED BY <1>1, <1>5 DEF vars, producerVars

LEMMA EventsAnnounceNext == Typed /\ EventsAnnounce /\ [Next]_vars => EventsAnnounce'
<1> SUFFICES ASSUME Typed, EventsAnnounce, [Next]_vars PROVE EventsAnnounce'
  OBVIOUS
<1> USE TypedNext
<1>1. EventMeansObject'
  <2>1. CASE UNCHANGED topic
    <3>1. \A p \in Partitions : \A j \in DOMAIN topic[p] :
             topic[p][j] \in PayloadType /\ Announced(topic[p][j])
      BY SequenceElement DEF Typed, TypeOK, EventsAnnounce, EventMeansObject, Announced
    <3> QED BY <2>1, <3>1, AnnouncedStays DEF EventMeansObject
  <2>2. ASSUME NEW e \in PayloadType, Announced(e), Send(e) PROVE EventMeansObject'
    <3> SUFFICES ASSUME NEW p \in Partitions, NEW j \in DOMAIN topic'[p]
                 PROVE  objects'[topic'[p][j].processed_key] # NoObject
      BY DEF EventMeansObject
    <3>1. \/ topic'[p] = topic[p] \/ topic'[p] = Append(topic[p], e)
      BY <2>2 DEF Send, Typed, TypeOK
    <3>2. topic[p] \in Seq(PayloadType)
      BY DEF Typed, TypeOK
    <3>3. \/ topic'[p][j] = e
          \/ j \in DOMAIN topic[p] /\ topic'[p][j] = topic[p][j]
      BY <3>1, <3>2
    <3>4. topic'[p][j] \in PayloadType /\ Announced(topic'[p][j])
      BY <2>2, <3>2, <3>3, SequenceElement DEF EventsAnnounce, EventMeansObject, Announced
    <3> QED BY <3>4, AnnouncedStays
  <2> QED BY <2>1, <2>2, EventsMove
<1>2. \A c \in Workers : \A j \in DOMAIN buffer'[c] :
         objects'[buffer'[c][j].processed_key] # NoObject
  <2> SUFFICES ASSUME NEW c \in Workers, NEW j \in DOMAIN buffer'[c]
               PROVE  objects'[buffer'[c][j].processed_key] # NoObject
    OBVIOUS
  <2>1. buffer[c] \in Seq(PayloadType)
    BY DEF Typed, TypeOK
  <2>2. \A i \in DOMAIN buffer[c] : buffer[c][i] \in PayloadType /\ Announced(buffer[c][i])
    BY <2>1, SequenceElement DEF EventsAnnounce
  <2>3. buffer'[c][j] \in PayloadType /\ Announced(buffer'[c][j])
    <3>1. CASE buffer'[c] = buffer[c] \/ buffer'[c] = << >>
      BY <2>2, <3>1
    <3>2. CASE buffer'[c] = Tail(buffer[c]) /\ buffer[c] # << >>
      <4>1. j + 1 \in DOMAIN buffer[c] /\ buffer'[c][j] = buffer[c][j + 1]
        BY <2>1, <3>2
      <4> QED BY <2>2, <4>1
    <3>3. ASSUME NEW e \in PayloadType, Announced(e), buffer'[c] = Append(buffer[c], e)
          PROVE  buffer'[c][j] \in PayloadType /\ Announced(buffer'[c][j])
      <4>1. buffer'[c][j] = e \/ (j \in DOMAIN buffer[c] /\ buffer'[c][j] = buffer[c][j])
        BY <2>1, <3>3
      <4> QED BY <2>2, <3>3, <4>1
    <3> QED BY <3>1, <3>2, <3>3, EventsMove
  <2> QED BY <2>3, AnnouncedStays
<1>3. ASSUME NEW c \in Workers, work'[c].pc = "publish"
      PROVE  objects'[KeyOf(work[c].held, work[c].size)'] # NoObject
  <2>1. CASE work'[c] = work[c]
    <3>1. Holding(c) /\ WorkerIs(c, "publish")
      BY <1>3, <2>1 DEF Holding, WorkerIs
    <3>2. /\ work[c].held \in 1..Len(uploads)
          /\ KeyOf(work[c].held, work[c].size) \in ProcessedKeys
      BY <3>1, HeldIsUpload
    <3>3. KeyOf(work[c].held, work[c].size)' = KeyOf(work[c].held, work[c].size)
      BY <2>1, <3>2, UploadsStay DEF KeyOf, BaseOf
    <3> QED BY <3>1, <3>2, <3>3, ObjectsStay DEF EventsAnnounce
  <2>2. CASE PutSize(c)
    <3> DEFINE n == work[c].held
               i == work[c].size
               t == IMAGE_SIZES[i]
    <3>1. n \in 1..Len(uploads) /\ KeyOf(n, i) \in ProcessedKeys
      BY <2>2, HeldIsUpload DEF PutSize, Holding
    <3>2. PICK r \in Resized(uploads[n].picture, t) :
             objects' = [objects EXCEPT ![KeyOf(n, i)] = [upload |-> n, frame |-> Framed(r, t)]]
      BY <2>2 DEF PutSize
    <3>3. [upload |-> n, frame |-> Framed(r, t)].upload # NoObject.upload
      BY <3>1 DEF NoObject, Typed, TypeOK
    <3>4. objects'[KeyOf(n, i)] # NoObject
      BY <3>1, <3>2, <3>3 DEF Typed, TypeOK
    <3>5. work'[c].held = n /\ work'[c].size = i /\ UNCHANGED uploads
      BY <2>2 DEF PutSize, Goto, Typed, TypeOK, WorkerType, sourceVars
    <3>6. KeyOf(work[c].held, work[c].size)' = KeyOf(n, i)
      BY <3>5 DEF KeyOf, BaseOf
    <3> QED BY <3>4, <3>6
  <2>3. CASE TakeRecord(c)
    BY <1>3, <2>3 DEF TakeRecord, WorkerIs, Typed, TypeOK, WorkerType
  <2>4. CASE Publish(c)
    BY <1>3, <2>4, AdvancedWork DEF Publish, Advance, Typed, TypeOK
  <2> QED BY <1>3, <2>1, <2>2, <2>3, <2>4, WorkerMoves, RestingWork
<1> QED BY <1>1, <1>2, <1>3 DEF EventsAnnounce, Announced, WorkerIs

LEMMA AlwaysAnnounced == Spec => [](Typed /\ EventsAnnounce)
<1>1. Init => Typed /\ EventsAnnounce
  BY TypedInit, EventsAnnounceInit
<1>2. Typed /\ EventsAnnounce /\ [Next]_vars => (Typed /\ EventsAnnounce)'
  BY TypedNext, EventsAnnounceNext
<1> QED BY <1>1, <1>2, PTL DEF Spec

\* Whoever reads an event finds the object it announces, for any number of
\* workers that are stopped, tried again and overlap, and for events the
\* producer sends late.
THEOREM EventsMeanObjects == Spec => []EventMeansObject
<1>1. EventsAnnounce => EventMeansObject
  BY DEF EventsAnnounce
<1> QED BY AlwaysAnnounced, <1>1, PTL

-----------------------------------------------------------------------------
(* What is in an object: a whole picture, in the middle of its frame.      *)

\* Object k is what worker c writes.
Written(k, c) ==
    /\ PutSize(c) /\ k = KeyOf(work[c].held, work[c].size)
    /\ objects'[k].upload = work[c].held
    /\ \E r \in Resized(uploads[work[c].held].picture, IMAGE_SIZES[work[c].size]) :
          objects'[k].frame = Framed(r, IMAGE_SIZES[work[c].size])

LEMMA ObjectWritten ==
    ASSUME Typed, [Next]_vars, NEW k \in ProcessedKeys
    PROVE  objects'[k] = objects[k] \/ \E c \in Workers : Written(k, c)
<1>1. ASSUME NEW c \in Workers, PutSize(c)
      PROVE  objects'[k] = objects[k] \/ Written(k, c)
  <2>1. PICK r \in Resized(uploads[work[c].held].picture, IMAGE_SIZES[work[c].size]) :
           objects' = [objects EXCEPT ![KeyOf(work[c].held, work[c].size)] =
                          [upload |-> work[c].held,
                           frame |-> Framed(r, IMAGE_SIZES[work[c].size])]]
    BY <1>1 DEF PutSize
  <2>2. CASE k = KeyOf(work[c].held, work[c].size)
    <3>1. objects'[k] = [upload |-> work[c].held,
                         frame |-> Framed(r, IMAGE_SIZES[work[c].size])]
      BY <2>1, <2>2 DEF Typed, TypeOK
    <3>2. objects'[k].upload = work[c].held
          /\ objects'[k].frame = Framed(r, IMAGE_SIZES[work[c].size])
      BY <3>1
    <3> QED BY <1>1, <2>2, <3>2 DEF Written
  <2>3. CASE k # KeyOf(work[c].held, work[c].size)
    BY <2>1, <2>3 DEF Typed, TypeOK
  <2> QED BY <2>2, <2>3
<1>2. CASE UNCHANGED objects
  BY <1>2
<1>3. CASE Next
  BY <1>1, <1>2, <1>3 DEF Next, Upload, Invoke, Handle, TakeRecord, Return, Publish,
        RefuseSize, FailS3, AnswerError, SendLate, Stop
<1> QED BY <1>2, <1>3 DEF vars

LEMMA ObjectIs ==
    ASSUME Typed, NEW k \in ProcessedKeys, objects[k] # NoObject
    PROVE  /\ objects[k] \in [upload : 1..Len(uploads), frame : Frame]
           /\ objects[k].upload \in 1..Len(uploads)
           /\ uploads[objects[k].upload].picture \in Picture
<1>1. /\ objects[k] \in [upload : 1..Len(uploads), frame : Frame]
      /\ objects[k].upload \in 1..Len(uploads)
  BY DEF Typed, TypeOK
<1>2. objects[k].upload \in Uploads /\ objects[k].upload <= Len(uploads)
  BY <1>1, ImageProcessorAssumption DEF Typed, TypeOK, Uploads
<1> QED BY <1>1, <1>2, UploadOfEvent

\* The smallest size is the strictest.
LEMMA SmallestIsStrictest ==
    ASSUME NEW p \in Picture, Resizable(p, IMAGE_SIZES[1])
    PROVE  \A i \in Sizes : Resizable(p, IMAGE_SIZES[i])
<1>1. 1 \in Sizes
  BY SizesAre
<1> QED BY <1>1, SizesAre, ResizableLarger

LEMMA PutFitsAll ==
    ASSUME Typed, RefusedFirst, NEW c \in Workers, PutSize(c)
    PROVE  FitsAll(work[c].held)
<1>1. work[c].size \in 1..3 /\ uploads[work[c].held].picture \in Picture
  BY HeldIsUpload, SizesAre DEF PutSize, Holding
<1>2. CASE work[c].size = 1
  BY <1>1, <1>2, SmallestIsStrictest DEF PutSize, FitsAll
<1>3. CASE work[c].size > 1
  BY <1>3 DEF RefusedFirst, PutSize
<1> QED BY <1>1, <1>2, <1>3

LEMMA FitsAllStays ==
    ASSUME Typed, [Next]_vars, NEW n \in 1..Len(uploads), FitsAll(n)
    PROVE  \A i \in Sizes : Resizable(uploads'[n].picture, IMAGE_SIZES[i])
BY UploadsStay DEF FitsAll

LEMMA RefusedFirstInit == Init => RefusedFirst
BY RestingWork DEF Init, RefusedFirst, NoPartOfARefusedPicture, WorkerIs

LEMMA RefusedFirstNext == Typed /\ RefusedFirst /\ [Next]_vars => RefusedFirst'
<1> SUFFICES ASSUME Typed, RefusedFirst, [Next]_vars PROVE RefusedFirst'
  OBVIOUS
<1>1. ASSUME NEW k \in ProcessedKeys, objects'[k] # NoObject
      PROVE  \A i \in Sizes : Resizable(uploads'[objects'[k].upload].picture, IMAGE_SIZES[i])
  <2>1. CASE objects'[k] = objects[k]
    BY <1>1, <2>1, ObjectIs, FitsAllStays DEF RefusedFirst, NoPartOfARefusedPicture, FitsAll
  <2>2. ASSUME NEW c \in Workers, Written(k, c)
        PROVE  \A i \in Sizes : Resizable(uploads'[objects'[k].upload].picture, IMAGE_SIZES[i])
    <3>1. work[c].held \in 1..Len(uploads) /\ FitsAll(work[c].held)
      BY <2>2, HeldIsUpload, PutFitsAll DEF Written, PutSize, Holding
    <3> QED BY <2>2, <3>1, FitsAllStays DEF Written
  <2> QED BY <2>1, <2>2, ObjectWritten
<1>2. ASSUME NEW c \in Workers,
             \/ work'[c].pc = "publish"
             \/ work'[c].pc = "resize" /\ work'[c].size > 1
      PROVE  \A i \in Sizes : Resizable(uploads'[work'[c].held].picture, IMAGE_SIZES[i])
  <2>1. ASSUME Holding(c), FitsAll(work[c].held), work'[c].held = work[c].held
        PROVE  \A i \in Sizes : Resizable(uploads'[work'[c].held].picture, IMAGE_SIZES[i])
    BY <2>1, HeldIsUpload, FitsAllStays
  <2>2. CASE work'[c] = work[c]
    BY <1>2, <2>1, <2>2 DEF RefusedFirst, Holding, WorkerIs
  <2>3. CASE PutSize(c)
    <3>1. work'[c].held = work[c].held
      BY <2>3 DEF PutSize, Goto, Typed, TypeOK, WorkerType
    <3> QED BY <2>1, <2>3, <3>1, PutFitsAll DEF PutSize, Holding
  <2>4. CASE Publish(c)
    <3>1. work'[c] = Advanced(work[c]) /\ work[c] \in WorkerType
      BY <2>4 DEF Publish, Advance, Typed, TypeOK
    <3>2. work[c].size \in 1..3
      BY <3>1, SizesAre DEF WorkerType
    <3>3. work'[c].held = work[c].held
      BY <1>2, <3>1, <3>2, AdvancedWork
    <3> QED BY <2>1, <2>4, <3>3 DEF Publish, RefusedFirst, Holding
  <2>5. CASE TakeRecord(c)
    BY <1>2, <2>5 DEF TakeRecord, WorkerIs, Typed, TypeOK, WorkerType
  <2> QED BY <1>2, <2>2, <2>3, <2>4, <2>5, WorkerMoves, RestingWork
<1> QED BY <1>1, <1>2 DEF RefusedFirst, NoPartOfARefusedPicture, WorkerIs, FitsAll

\* A picture too narrow for one of the sizes leaves no object of any size: the
\* smallest size comes first and is the strictest.
THEOREM RefusedPicturesLeaveNothing == Spec => []NoPartOfARefusedPicture
<1>1. Init => Typed /\ RefusedFirst
  BY TypedInit, RefusedFirstInit
<1>2. Typed /\ RefusedFirst /\ [Next]_vars => (Typed /\ RefusedFirst)'
  BY TypedNext, RefusedFirstNext
<1>3. Typed /\ RefusedFirst => NoPartOfARefusedPicture
  BY DEF RefusedFirst
<1> QED BY <1>1, <1>2, <1>3, PTL DEF Spec

\* Every object is its picture in the middle of a frame it fills in one
\* direction, whatever the sides of the picture and however the division of
\* them is rounded.
THEOREM PicturesAreCentred == Spec => []CentredInFrame
<1>1. Init => CentredInFrame
  BY DEF Init, CentredInFrame
<1>2. Typed /\ CentredInFrame /\ [Next]_vars => CentredInFrame'
  <2> SUFFICES ASSUME Typed, CentredInFrame, [Next]_vars,
                      NEW k \in ProcessedKeys, objects'[k] # NoObject
               PROVE  Centred(objects'[k].frame, IMAGE_SIZES[k[1]])
    BY DEF CentredInFrame, Centred
  <2>1. CASE objects'[k] = objects[k]
    BY <2>1 DEF CentredInFrame, Centred
  <2>2. ASSUME NEW c \in Workers, Written(k, c)
        PROVE  Centred(objects'[k].frame, IMAGE_SIZES[k[1]])
    <3>1. /\ uploads[work[c].held].picture \in Picture
          /\ work[c].size \in Sizes /\ k[1] = work[c].size
      BY <2>2, HeldIsUpload DEF Written, PutSize, Holding, KeyOf
    <3> QED BY <2>2, <3>1, SizesAre, FramedIsCentred DEF Written
  <2> QED BY <2>1, <2>2, ObjectWritten
<1> QED BY <1>1, <1>2, AlwaysTyped, PTL DEF Spec

-----------------------------------------------------------------------------
(* What has settled is current.  What every step keeps in sight is the     *)
(* last upload of each key: it is due, or to come in an event, or in hand, *)
(* or shown in every size.                                                 *)

Acts(c) ==
    \/ \E event \in Events : Invoke(c, event)
    \/ TakeRecord(c) \/ Return(c) \/ PutSize(c) \/ Publish(c)
    \/ AnswerError(c) \/ Stop(c)

LEMMA OnlyItsOwnSteps ==
    ASSUME Typed, [Next]_vars, NEW c \in Workers
    PROVE  work'[c] = work[c] \/ Acts(c)
<1> USE DEF Typed, TypeOK
<1>1. CASE UNCHANGED work
  BY <1>1
<1>2. ASSUME NEW d \in Workers, NEW event \in Events, Invoke(d, event)
      PROVE  work'[c] = work[c] \/ Acts(c)
  BY <1>2 DEF Invoke, Acts
<1>3. ASSUME NEW d \in Workers, Handle(d) PROVE work'[c] = work[c] \/ Acts(c)
  BY <1>3 DEF Handle, TakeRecord, Return, PutSize, Goto, Publish, Advance, RefuseSize,
              AnswerError, Acts
<1>4. ASSUME NEW d \in Workers, FailS3(d) PROVE work'[c] = work[c] \/ Acts(c)
  BY <1>4 DEF FailS3, AnswerError, Acts
<1>5. ASSUME NEW d \in Workers, Stop(d) PROVE work'[c] = work[c] \/ Acts(c)
  BY <1>5 DEF Stop, Acts
<1>6. CASE Next
  BY <1>1, <1>2, <1>3, <1>4, <1>5, <1>6 DEF Next, Upload, SendLate
<1> QED BY <1>1, <1>6 DEF vars

LEMMA HistoryGrows ==
    ASSUME Typed, [Next]_vars
    PROVE  overlapped \subseteq overlapped' /\ abandoned \subseteq abandoned'
BY DEF Next, vars, historyVars, Upload, Invoke, Handle, TakeRecord, Return, PutSize, Publish,
       RefuseSize, FailS3, AnswerError, SendLate, Stop

\* A key keeps its upload, or has a new one whose notification is due.
LEMMA BucketMoves ==
    ASSUME Typed, [Next]_vars, NEW s \in Sources
    PROVE  \/ bucket'[s] = bucket[s]
           \/ due'[bucket'[s]] > 0
<1>1. ASSUME NEW r \in Sources, NEW picture \in Pictures, Upload(r, picture)
      PROVE  bucket'[s] = bucket[s] \/ due'[bucket'[s]] > 0
  <2> DEFINE n == Len(uploads) + 1
  <2>1. n \in Uploads
    BY <1>1, ImageProcessorAssumption DEF Upload, Uploads, Typed, TypeOK
  <2>2. PICK d \in 1..MaxDeliveries : due' = [due EXCEPT ![n] = d]
    BY <1>1 DEF Upload
  <2>3. due'[n] > 0
    BY <2>1, <2>2, ImageProcessorAssumption DEF Typed, TypeOK
  <2>4. bucket' = [bucket EXCEPT ![r] = n]
    BY <1>1 DEF Upload
  <2> QED BY <2>3, <2>4 DEF Typed, TypeOK
<1>2. CASE UNCHANGED bucket
  BY <1>2
<1>3. CASE Next
  BY <1>1, <1>2, <1>3 DEF Next, Invoke, Handle, TakeRecord, Return, PutSize, Publish,
        RefuseSize, FailS3, AnswerError, SendLate, Stop, sourceVars
<1> QED BY <1>2, <1>3 DEF vars, sourceVars

\* What is due stays due until a worker is invoked with it.
LEMMA DueMoves ==
    ASSUME Typed, [Next]_vars, NEW n \in 1..Len(uploads), due[n] > 0
    PROVE  \/ due'[n] > 0
           \/ \E c \in Workers, event \in Events :
                 Invoke(c, event) /\ \E j \in DOMAIN event : event[j] = n
<1>1. n \in Uploads
  BY ImageProcessorAssumption DEF Uploads, Typed, TypeOK
<1>2. ASSUME NEW r \in Sources, NEW picture \in Pictures, Upload(r, picture)
      PROVE  due'[n] = due[n]
  <2>1. \E d \in 1..MaxDeliveries : due' = [due EXCEPT ![Len(uploads) + 1] = d]
    BY <1>2 DEF Upload
  <2>2. n # Len(uploads) + 1
    BY DEF Typed, TypeOK
  <2> QED BY <1>1, <2>1, <2>2 DEF Typed, TypeOK
<1>3. ASSUME NEW c \in Workers, NEW event \in Events, Invoke(c, event)
      PROVE  due'[n] = due[n] \/ \E j \in DOMAIN event : event[j] = n
  BY <1>1, <1>3 DEF Invoke
<1>4. CASE UNCHANGED due
  BY <1>4
<1>5. CASE Next
  BY <1>2, <1>3, <1>4, <1>5 DEF Next, Handle, TakeRecord, Return, PutSize, Publish,
        RefuseSize, FailS3, AnswerError, SendLate, Stop, sourceVars
<1> QED BY <1>4, <1>5 DEF vars, sourceVars

\* The last upload of a key that a worker has in hand.
LEMMA LastUpload ==
    ASSUME Typed, NEW s \in Sources, bucket[s] # 0
    PROVE  /\ bucket[s] \in 1..Len(uploads) /\ bucket[s] \in Uploads
           /\ uploads[bucket[s]].source = s /\ BaseOf(bucket[s]) = Base[s]
<1>1. bucket[s] \in 1..Len(uploads) /\ uploads[bucket[s]].source = s
  BY DEF Typed, TypeOK, BucketHoldsTheLast
<1> QED BY <1>1, ImageProcessorAssumption DEF Typed, TypeOK, Uploads, BaseOf

LEMMA HeldKey ==
    ASSUME Typed, NEW c \in Workers, Holding(c)
    PROVE  LET s == uploads[Current(c)].source
           IN  /\ s \in ImageSources /\ s \in Sources
               /\ bucket[s] # 0 /\ Base[s] \in BasesOf(work[c].event)
               /\ BaseOf(work[c].held) = Base[s]
<1> DEFINE s == uploads[Current(c)].source
<1>1. /\ s \in ImageSources /\ s \in Sources /\ Current(c) \in 1..Len(uploads)
      /\ uploads[work[c].held].source = s
  BY HeldIsUpload DEF Typed, HandlerOK
<1>2. bucket[s] >= Current(c) /\ bucket[s] \in Nat /\ Current(c) \in Nat
  BY <1>1 DEF Typed, TypeOK, BucketHoldsTheLast
<1>3. work[c].at \in DOMAIN work[c].event /\ BaseOf(work[c].event[work[c].at]) = Base[s]
  BY HeldIsUpload DEF BaseOf
<1>4. bucket[s] # 0
  BY <1>1, <1>2
<1>5. Base[s] \in BasesOf(work[c].event)
  BY <1>3 DEF BasesOf
<1>6. BaseOf(work[c].held) = Base[s]
  BY <1>1 DEF BaseOf
<1> QED BY <1>1, <1>4, <1>5, <1>6

LEMMA HeldIsLastInit == Init => HeldIsLast /\ NoneLost
BY RestingWork, ImageProcessorAssumption
   DEF Init, HeldIsLast, NoneLost, Holding, WorkerIs

LEMMA HeldIsLastNext == Typed /\ HeldIsLast /\ [Next]_vars => HeldIsLast'
<1> SUFFICES ASSUME Typed, HeldIsLast, [Next]_vars, NEW c \in Workers,
                    work'[c].pc \in {"resize", "publish"}
             PROVE  LET r == uploads'[work'[c].event[work'[c].at]].source
                    IN  \/ Base[r] \in overlapped'
                        \/ work'[c].held = bucket'[r] \/ due'[bucket'[r]] > 0
  BY DEF HeldIsLast, Holding, WorkerIs, Current
<1> DEFINE s == uploads[Current(c)].source
<1>1. CASE TakeRecord(c)
  <2>1. /\ work'[c].held = bucket[s] /\ work'[c].event = work[c].event
        /\ work'[c].at = work[c].at /\ UNCHANGED <<uploads, bucket>>
    BY <1>1 DEF TakeRecord, WorkerIs, Typed, TypeOK, WorkerType, sourceVars
  <2> QED BY <2>1 DEF Current
<1>2. ASSUME Holding(c), work'[c].event = work[c].event, work'[c].at = work[c].at,
             work'[c].held = work[c].held
      PROVE  LET r == uploads'[work'[c].event[work'[c].at]].source
             IN  \/ Base[r] \in overlapped'
                 \/ work'[c].held = bucket'[r] \/ due'[bucket'[r]] > 0
  <2>1. /\ Current(c) \in 1..Len(uploads) /\ s \in Sources /\ bucket[s] # 0
        /\ Base[s] \in BasesOf(work[c].event)
    BY <1>2, HeldIsUpload, HeldKey
  <2>2. uploads'[work'[c].event[work'[c].at]].source = s
    BY <1>2, <2>1, UploadsStay DEF Current
  <2>3. /\ bucket[s] \in 1..Len(uploads) /\ BaseOf(bucket[s]) = Base[s]
    BY <2>1, LastUpload
  <2>4. ASSUME bucket'[s] = bucket[s]
        PROVE  \/ Base[s] \in overlapped'
               \/ work[c].held = bucket'[s] \/ due'[bucket'[s]] > 0
    <3>1. CASE due[bucket[s]] > 0
      <4>1. ASSUME NEW d \in Workers, NEW event \in Events, Invoke(d, event),
                   NEW j \in DOMAIN event, event[j] = bucket[s]
            PROVE  Base[s] \in overlapped'
        <5>1. c # d
          BY <1>2, <4>1 DEF Invoke, WorkerIs, Holding
        <5>2. Base[s] \in BasesOf(event)
          BY <2>3, <4>1 DEF BasesOf
        <5> QED BY <2>1, <4>1, <5>1, <5>2 DEF Invoke
      <4> QED BY <2>3, <2>4, <3>1, <4>1, DueMoves
    <3>2. CASE ~ due[bucket[s]] > 0
      BY <1>2, <2>4, <3>2, HistoryGrows DEF HeldIsLast
    <3> QED BY <3>1, <3>2
  <2> QED BY <1>2, <2>1, <2>2, <2>4, BucketMoves
<1>3. CASE work'[c] = work[c]
  BY <1>2, <1>3 DEF Holding, WorkerIs
<1>4. CASE PutSize(c)
  BY ZenonT(30), <1>2, <1>4 DEF PutSize, Goto, Holding, WorkerIs, Typed, TypeOK, WorkerType
<1>5. CASE Publish(c)
  <2>1. work'[c] = Advanced(work[c]) /\ work[c] \in WorkerType /\ Holding(c)
    BY <1>5 DEF Publish, Advance, Typed, TypeOK, Holding
  <2>2. work[c].size \in 1..3
    BY <2>1, SizesAre DEF WorkerType
  <2>3. /\ work'[c].event = work[c].event /\ work'[c].at = work[c].at
        /\ work'[c].held = work[c].held
    BY <2>1, <2>2, AdvancedWork
  <2> QED BY <1>2, <2>1, <2>3
<1> QED BY <1>1, <1>3, <1>4, <1>5, WorkerMoves, RestingWork

\* The last upload n of key s, of which nothing is due.
InSight(s, n) ==
    /\ s \in ImageSources /\ OwnBase(s) /\ Base[s] \notin overlapped
    /\ bucket[s] = n /\ n \in 1..Len(uploads) /\ uploads[n].source = s
    /\ ~ due[n] > 0

\* No step takes such an upload out of an object that shows it.
LEMMA ShowsStays ==
    ASSUME Typed, HeldIsLast, [Next]_vars, NEW s \in Sources, NEW n, InSight(s, n),
           NEW i \in Sizes
    PROVE  /\ KeyOf(n, i)' = <<i, Base[s]>> /\ KeyOf(n, i) = <<i, Base[s]>>
           /\ Shows(n, i)' <=> objects'[<<i, Base[s]>>].upload = n
           /\ Shows(n, i) => Shows(n, i)'
<1>1. KeyOf(n, i)' = <<i, Base[s]>> /\ KeyOf(n, i) = <<i, Base[s]>>
  BY UploadsStay DEF InSight, KeyOf, BaseOf
<1>2. <<i, Base[s]>> \in ProcessedKeys
  BY ImageProcessorAssumption DEF ProcessedKeys, InSight
<1>3. ASSUME NEW c \in Workers, Written(<<i, Base[s]>>, c)
      PROVE  objects'[<<i, Base[s]>>].upload = n
  <2> DEFINE r == uploads[Current(c)].source
  <2>1. Holding(c) /\ KeyOf(work[c].held, work[c].size) = <<i, Base[s]>>
    BY <1>3 DEF Written, PutSize, Holding
  <2>2. r \in ImageSources /\ BaseOf(work[c].held) = Base[r]
    BY <2>1, HeldKey
  <2>3. r = s
    BY <2>1, <2>2 DEF InSight, OwnBase, KeyOf
  <2>4. work[c].held = n
    BY <2>1, <2>3 DEF HeldIsLast, InSight
  <2> QED BY <1>3, <2>4 DEF Written
<1>4. Shows(n, i)' <=> objects'[<<i, Base[s]>>].upload = n
  BY <1>1 DEF Shows
<1>5. Shows(n, i) => objects[<<i, Base[s]>>].upload = n
  BY <1>1 DEF Shows
<1> QED BY <1>1, <1>2, <1>3, <1>4, <1>5, ObjectWritten

LEMMA InvokedIsToCome ==
    ASSUME Typed, NEW c \in Workers, NEW event \in Events, Invoke(c, event),
           NEW j \in DOMAIN event
    PROVE  ToCome(c, event[j])'
<1>1. /\ work'[c].event = event /\ work'[c].at = 1 /\ work'[c].pc = "record"
  <2> DEFINE w == [Resting EXCEPT !.pc = "record", !.event = event]
  <2>1. w.event = event /\ w.at = 1 /\ w.pc = "record"
    BY DEF Resting
  <2>2. work'[c] = w
    BY DEF Invoke, Typed, TypeOK
  <2> QED BY <2>1, <2>2
<1>2. j \in 1 .. Len(event)
  BY DEF Events
<1> QED BY <1>1, <1>2 DEF ToCome, Holding, WorkerIs

LEMMA RemainingIs ==
    ASSUME Typed, NEW c \in Workers, NEW n, ToCome(c, n) \/ InHand(c, n)
    PROVE  /\ n \in Remaining(c) /\ work[c].pc # "idle"
           /\ \E j \in 1 .. Len(work[c].event) : work[c].event[j] = n
<1>1. /\ HandlerAt(work[c]) /\ work[c].event \in Seq(Uploads)
      /\ work[c].at \in Nat /\ Len(work[c].event) \in Nat
      /\ work[c].at \in 1 .. Len(work[c].event) + 1
  BY HandlerAtIs DEF HandlerAt, WorkerType
<1>2. CASE ToCome(c, n)
  BY <1>1, <1>2 DEF ToCome, Remaining, HandlerAt
<1>3. CASE InHand(c, n)
  <2>1. /\ work[c].at \in work[c].at .. Len(work[c].event)
        /\ work[c].at \in 1 .. Len(work[c].event) /\ work[c].event[work[c].at] = n
    BY <1>1, <1>3 DEF InHand, Holding, WorkerIs, HandlerAt, Current
  <2> QED BY <1>3, <2>1 DEF Remaining, InHand, Holding, WorkerIs
<1> QED BY <1>2, <1>3

\* What a worker has of an upload it passes on, unless it gives it up.
LEMMA GivenUpOrAgain ==
    ASSUME Typed, NEW c \in Workers, NEW n, ToCome(c, n) \/ InHand(c, n),
           Return(c) \/ AnswerError(c) \/ Stop(c), n \notin abandoned'
    PROVE  ToCome(c, n)'
<1>1. /\ n \in Remaining(c)
      /\ \E j \in 1 .. Len(work[c].event) : work[c].event[j] = n
  BY RemainingIs
<1>2. ~ AnswerError(c)
  BY <1>1 DEF AnswerError
<1>3. ~ Return(c)
  <2>1. work[c].at \in Nat /\ Len(work[c].event) \in Nat
    BY DEF Typed, TypeOK, WorkerType
  <2> QED BY <1>1, <2>1 DEF Return, Remaining
<1>4. CASE Stop(c)
  <2> DEFINE again == [Resting EXCEPT !.pc = "record", !.event = work[c].event,
                                      !.attempt = work[c].attempt + 1]
  <2>1. again.event = work[c].event /\ again.at = 1 /\ again.pc = "record"
    BY DEF Resting
  <2> HIDE DEF again
  <2>2. work'[c] = again
    BY <1>1, <1>4 DEF Stop, again, Typed, TypeOK
  <2> QED BY <1>1, <2>1, <2>2 DEF ToCome, Holding, WorkerIs
<1> QED BY <1>2, <1>3, <1>4

LEMMA ToComeMoves ==
    ASSUME Typed, [Next]_vars, NEW s \in Sources, NEW n, InSight(s, n), n \notin abandoned',
           NEW c \in Workers, ToCome(c, n)
    PROVE  ToCome(c, n)' \/ InHand(c, n)'
<1>1. PICK j \in work[c].at .. Len(work[c].event) :
         work[c].event[j] = n /\ (Holding(c) => j > work[c].at)
  BY DEF ToCome
<1>2. /\ work[c] \in WorkerType /\ work[c].at \in Nat /\ Len(work[c].event) \in Nat
      /\ work[c].size \in 1..3 /\ j \in Nat
      /\ work[c].at \in 1 .. Len(work[c].event) + 1
  BY <1>1, HandlerAtIs, SizesAre DEF HandlerAt, WorkerType
<1>3. CASE work'[c] = work[c]
  BY <1>3 DEF ToCome, Holding, WorkerIs
<1>4. ASSUME NEW event \in Events, Invoke(c, event) PROVE FALSE
  BY <1>4, RemainingIs DEF Invoke, WorkerIs
<1>5. CASE TakeRecord(c)
  <2>1. CASE j = work[c].at
    <3>1. Current(c) = n /\ uploads[Current(c)].source = s /\ s \in ImageSources
      BY <1>1, <2>1 DEF Current, InSight
    <3>2. /\ work'[c].pc = "resize" /\ work'[c].held = n /\ work'[c].size = 1
          /\ work'[c].event = work[c].event /\ work'[c].at = work[c].at
      BY <1>2, <1>5, <3>1 DEF TakeRecord, InSight, Typed, TypeOK, WorkerType
    <3>3. InHand(c, n)'
      BY <3>1, <3>2 DEF InHand, Holding, WorkerIs, Current
    <3> QED BY <3>3
  <2>2. CASE j # work[c].at
    <3>1. /\ work'[c].event = work[c].event
          /\ \/ work'[c].at = work[c].at
             \/ work'[c].at = work[c].at + 1 /\ work'[c].pc = "record"
      BY <1>2, <1>5 DEF TakeRecord, WorkerIs, Typed, TypeOK, WorkerType
    <3>2. j > work[c].at
      BY <1>1, <1>2, <2>2
    <3>3. j \in work'[c].at .. Len(work'[c].event)
      BY <1>1, <1>2, <3>1, <3>2
    <3> QED BY <1>1, <3>1, <3>2, <3>3 DEF ToCome, Holding, WorkerIs
  <2> QED BY <2>1, <2>2
<1>6. CASE PutSize(c)
  <2>1. /\ work'[c].event = work[c].event /\ work'[c].at = work[c].at /\ j > work[c].at
    BY <1>1, <1>2, <1>6 DEF PutSize, Goto, Holding, WorkerIs, Typed, TypeOK, WorkerType
  <2> QED BY <1>1, <2>1 DEF ToCome
<1>7. CASE Publish(c)
  <2>1. work'[c] = Advanced(work[c]) /\ j > work[c].at
    BY <1>1, <1>7 DEF Publish, Advance, Holding, Typed, TypeOK
  <2>2. /\ work'[c].event = work[c].event
        /\ \/ work'[c].at = work[c].at
           \/ work'[c].at = work[c].at + 1 /\ work'[c].pc = "record"
    BY <1>2, <2>1, AdvancedWork
  <2>3. j \in work'[c].at .. Len(work'[c].event)
    BY <1>1, <1>2, <2>1, <2>2
  <2> QED BY <1>1, <2>1, <2>2, <2>3 DEF ToCome, Holding, WorkerIs
<1>8. CASE Return(c) \/ AnswerError(c) \/ Stop(c)
  BY <1>8, GivenUpOrAgain
<1> QED BY <1>3, <1>4, <1>5, <1>6, <1>7, <1>8, OnlyItsOwnSteps DEF Acts

LEMMA InHandMoves ==
    ASSUME Typed, HeldIsLast, [Next]_vars, NEW s \in Sources, NEW n, InSight(s, n),
           n \notin abandoned', NEW c \in Workers, InHand(c, n)
    PROVE  ToCome(c, n)' \/ InHand(c, n)' \/ \A i \in Sizes : Shows(n, i)'
<1>1. /\ work[c] \in WorkerType /\ work[c].at \in Nat /\ work[c].size \in 1..3
      /\ Sizes = 1..3 /\ Current(c) = n /\ work[c].held = n
  BY HandlerAtIs, SizesAre DEF HandlerAt, WorkerType, InHand
<1>2. \A i \in Sizes : Shows(n, i) => Shows(n, i)'
  BY ShowsStays
<1>3. \A i \in 1 .. work[c].size - 1 : i \in Sizes /\ Shows(n, i)'
  BY <1>1, <1>2 DEF InHand
<1>4. CASE work'[c] = work[c]
  <2>1. WorkerIs(c, "publish") => Shows(n, work[c].size)'
    <3>1. WorkerIs(c, "publish") => Shows(n, work[c].size)
      BY DEF InHand
    <3>2. ASSUME NEW i \in Sizes, i = work[c].size, Shows(n, i)' PROVE Shows(n, work[c].size)'
      BY <1>4, <3>2 DEF Shows, KeyOf
    <3> QED BY <1>1, <1>2, <3>1, <3>2
  <2>2. Current(c)' = n /\ work'[c].held = n /\ Holding(c)'
    BY <1>1, <1>4 DEF InHand, Current, Holding, WorkerIs
  <2>3. \A i \in 1 .. work'[c].size - 1 : Shows(n, i)'
    BY <1>3, <1>4
  <2>4. WorkerIs(c, "publish")' => Shows(n, work[c].size)'
    BY <1>4, <2>1 DEF WorkerIs
  <2> QED BY <1>4, <2>2, <2>3, <2>4 DEF InHand
<1>5. ASSUME NEW event \in Events, Invoke(c, event) PROVE FALSE
  BY <1>5 DEF Invoke, WorkerIs, InHand, Holding
<1>6. CASE TakeRecord(c)
  BY <1>6 DEF TakeRecord, WorkerIs, InHand, Holding
<1>7. CASE PutSize(c)
  <2> DEFINE i == work[c].size
  <2>1. /\ work'[c].event = work[c].event /\ work'[c].at = work[c].at
        /\ work'[c].held = n /\ work'[c].size = i /\ work'[c].pc = "publish"
    BY <1>1, <1>7 DEF PutSize, Goto, Typed, TypeOK, WorkerType
  <2>2. Shows(n, i)'
    <3>1. PICK r \in Resized(uploads[n].picture, IMAGE_SIZES[i]) :
             objects' = [objects EXCEPT ![KeyOf(n, i)] =
                            [upload |-> n, frame |-> Framed(r, IMAGE_SIZES[i])]]
      BY <1>1, <1>7 DEF PutSize
    <3>2. KeyOf(n, i) \in ProcessedKeys
      BY <1>1, HeldIsUpload DEF InHand
    <3>3. objects'[KeyOf(n, i)].upload = n
      BY <3>1, <3>2 DEF Typed, TypeOK
    <3>4. KeyOf(n, i)' = KeyOf(n, i)
      BY <1>7, <2>1 DEF PutSize, sourceVars, KeyOf, BaseOf
    <3> QED BY <3>3, <3>4 DEF Shows
  <2>3. Current(c)' = n /\ Holding(c)'
    BY <1>1, <2>1 DEF Current, Holding, WorkerIs
  <2>4. \A k \in 1 .. work'[c].size - 1 : Shows(n, k)'
    BY <1>3, <2>1
  <2>5. Shows(n, work[c].size)'
    BY <2>1, <2>2 DEF Shows, KeyOf
  <2> QED BY <2>1, <2>3, <2>4, <2>5 DEF InHand
<1>8. CASE Publish(c)
  <2>1. /\ work'[c] = Advanced(work[c])
        /\ \A i \in 1 .. work[c].size : i \in Sizes /\ Shows(n, i)'
    <3>1. work[c].size \in Sizes /\ Shows(n, work[c].size)
      BY <1>1, <1>8 DEF Publish, InHand
    <3>3. \A i \in 1 .. work[c].size : i \in Sizes /\ Shows(n, i)
      BY <1>1, <3>1 DEF InHand
    <3> QED BY <1>2, <1>8, <3>3 DEF Publish, Advance, Typed, TypeOK
  <2>2. CASE work[c].size = 3
    BY <1>1, <2>1, <2>2
  <2>3. CASE work[c].size < 3
    <3>1. /\ work'[c].event = work[c].event /\ work'[c].at = work[c].at
          /\ work'[c].held = n /\ work'[c].size = work[c].size + 1 /\ work'[c].pc = "resize"
      BY <1>1, <2>1, <2>3, AdvancedWork
    <3>2. Current(c)' = n /\ Holding(c)' /\ ~ WorkerIs(c, "publish")'
      BY <1>1, <3>1 DEF Current, Holding, WorkerIs
    <3>3. \A i \in 1 .. work'[c].size - 1 : Shows(n, i)'
      BY <1>1, <2>1, <3>1
    <3> QED BY <3>1, <3>2, <3>3 DEF InHand
  <2> QED BY <1>1, <2>2, <2>3
<1>9. CASE Return(c) \/ AnswerError(c) \/ Stop(c)
  BY <1>9, GivenUpOrAgain
<1> QED BY <1>4, <1>5, <1>6, <1>7, <1>8, <1>9, OnlyItsOwnSteps DEF Acts

LEMMA NoneLostNext == Typed /\ HeldIsLast /\ NoneLost /\ [Next]_vars => NoneLost'
<1> SUFFICES ASSUME Typed, HeldIsLast, NoneLost, [Next]_vars, NEW s \in ImageSources,
                    NEW n, n = bucket'[s], n # 0, n \notin abandoned',
                    OwnBase(s), Base[s] \notin overlapped'
             PROVE  Tracked(n)'
  BY DEF NoneLost, Tracked, Shows, KeyOf, BaseOf, ToCome, InHand, Current
<1>1. s \in Sources
  BY ImageProcessorAssumption
<1>2. CASE n # bucket[s]
  BY <1>1, <1>2, BucketMoves DEF Tracked
<1>3. CASE n = bucket[s]
  <2>1. /\ n \in 1..Len(uploads) /\ uploads[n].source = s
    BY <1>1, <1>3, LastUpload
  <2>2. Tracked(n) /\ Base[s] \notin overlapped
    BY <1>3, HistoryGrows DEF NoneLost
  <2>3. CASE due[n] > 0
    BY <2>1, <2>3, DueMoves, InvokedIsToCome DEF Tracked
  <2>4. CASE ~ due[n] > 0
    <3>1. InSight(s, n)
      BY <1>3, <2>1, <2>2, <2>4 DEF InSight
    <3>2. ASSUME NEW c \in Workers, ToCome(c, n)
          PROVE  ToCome(c, n)' \/ InHand(c, n)'
      BY <1>1, <3>1, <3>2, ToComeMoves
    <3>3. ASSUME NEW c \in Workers, InHand(c, n)
          PROVE  ToCome(c, n)' \/ InHand(c, n)' \/ \A i \in Sizes : Shows(n, i)'
      BY <1>1, <3>1, <3>3, InHandMoves
    <3>4. ASSUME \A i \in Sizes : Shows(n, i)
          PROVE  \A i \in Sizes : Shows(n, i)'
      BY <1>1, <3>1, <3>4, ShowsStays
    <3> QED BY <2>2, <2>4, <3>2, <3>3, <3>4 DEF Tracked
  <2> QED BY <2>3, <2>4
<1> QED BY <1>2, <1>3

\* Once nothing is due for a key and no worker has it in its event, every size
\* shows the picture uploaded last, provided no other key has its base name, no
\* two invocations had it at once, and that upload was not given up: whatever
\* was stopped, tried again or delivered twice or out of order.
THEOREM SettledKeysAreCurrent == Spec => []SettledIsCurrent
<1>1. Init => Typed /\ HeldIsLast /\ NoneLost
  BY TypedInit, HeldIsLastInit
<1>2. Typed /\ HeldIsLast /\ NoneLost /\ [Next]_vars => (Typed /\ HeldIsLast /\ NoneLost)'
  BY TypedNext, HeldIsLastNext, NoneLostNext
<1>3. Typed /\ HeldIsLast /\ NoneLost => SettledIsCurrent
  <2> SUFFICES ASSUME Typed, NoneLost, NEW s \in ImageSources,
                      bucket[s] # 0, bucket[s] \notin abandoned,
                      OwnBase(s), Base[s] \notin overlapped, Settled(Base[s]),
                      NEW i \in Sizes
               PROVE  objects[<<i, Base[s]>>].upload = bucket[s]
    BY DEF SettledIsCurrent
  <2> DEFINE n == bucket[s]
  <2>1. /\ n \in 1..Len(uploads) /\ n \in Uploads /\ BaseOf(n) = Base[s]
    BY LastUpload, ImageProcessorAssumption
  <2>2. ~ due[n] > 0
    BY <2>1 DEF Settled
  <2>3. ASSUME NEW c \in Workers, ToCome(c, n) \/ InHand(c, n) PROVE FALSE
    <3>1. PICK j \in 1 .. Len(work[c].event) : work[c].event[j] = n
      BY <2>3, RemainingIs
    <3>2. j \in DOMAIN work[c].event
      BY <3>1 DEF Typed, TypeOK, WorkerType
    <3> QED BY <2>1, <3>1, <3>2 DEF Settled, BasesOf
  <2>4. Shows(n, i)
    BY <2>2, <2>3 DEF NoneLost, Tracked
  <2> QED BY <2>1, <2>4 DEF Shows, KeyOf
<1> QED BY <1>1, <1>2, <1>3, PTL DEF Spec

=============================================================================
