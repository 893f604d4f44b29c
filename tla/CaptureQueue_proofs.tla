------------------------ MODULE CaptureQueue_proofs ------------------------
(***************************************************************************)
(* What the sender keeps, in which order and how much of it, for any       *)
(* limits, sizes and numbers of events.  IInv is about events and their    *)
(* order and needs only where the loops stop; Tally is about bytes and     *)
(* needs the sums.                                                         *)
(***************************************************************************)
EXTENDS CaptureQueue, SequenceTheorems, WellFoundedInduction, TLAPS

Sorted(s) == \A i, j \in DOMAIN s : i < j => s[i].id < s[j].id
Before(A, B) == \A a \in A, b \in B : a < b

Types ==
    /\ queue \in Seq(Event) /\ batch \in Seq(Event)
    /\ timer \in BOOLEAN /\ flushing \in BOOLEAN
    /\ captured \in 0..MaxCaptures /\ stops \in 0..MaxStops
    /\ written \subseteq 1..captured
    /\ shed \subseteq 1..captured
    /\ ~flushing => batch = <<>>

Held == Ids(batch) \cup Ids(queue)

Order ==
    /\ Sorted(batch) /\ Sorted(queue)
    /\ Before(Ids(batch), Ids(queue))
    /\ Before(acked, Held)

Kept ==
    /\ 1..captured = acked \cup Held \cup shed
    /\ acked \subseteq written

\* What is held and not written yet is newer than all that is written.
Frontier == \A f \in written, e \in Held : e \in written \/ f < e

Lengths == Len(queue) <= MaxQueueEvents /\ Len(batch) <= MaxBatchEvents

IInv == Types /\ Order /\ Kept /\ Frontier /\ Lengths /\ NoLostWakeup

-----------------------------------------------------------------------------
\* Among naturals that satisfy something there is a least one.
LEMMA LeastNatural ==
    ASSUME NEW T, T \subseteq Nat, T # {}
    PROVE  \E k \in T : \A j \in T : ~(j < k)
<1>1. \E k \in T : \A j \in T : ~(<<j, k>> \in OpToRel(<, Nat))
  BY NatLessThanWellFounded, WFMin
<1>2. ASSUME NEW j \in Nat, NEW k \in Nat, j < k
      PROVE  <<j, k>> \in OpToRel(<, Nat)
  BY <1>2 DEF OpToRel
<1>. QED  BY <1>1, <1>2

(* trimCaptureQueue stops, and where it stops the queue fits.               *)
LEMMA ExcessFits ==
    ASSUME NEW q \in Seq(Event), NEW b
    PROVE  Excess(q, b) \in 0..Len(q) /\ Fits(q, b, Excess(q, b))
<1>. DEFINE T == {k \in 0..Len(q) : Fits(q, b, k)}
<1>1. T \subseteq Nat /\ Len(q) \in T
  BY DEF Fits
<1>2. PICK k \in T : \A j \in T : ~(j < k)
  BY <1>1, LeastNatural
<1>3. k \in 0..Len(q) /\ Fits(q, b, k) /\ \A j \in 0..(k - 1) : ~Fits(q, b, j)
  BY <1>2
<1>. QED  BY <1>3 DEF Excess

\* takeCaptureBatch takes at least one event of a queue that has one, and at
\* most MaxBatchEvents.
LEMMA BatchLengthBounds ==
    ASSUME NEW q \in Seq(Event), q # <<>>
    PROVE  BatchLength(q) \in 1..Len(q) /\ BatchLength(q) <= MaxBatchEvents
<1>. DEFINE T == {k \in 1..Len(q) : Full(q, k)}
<1>1. Len(q) \in Nat \ {0}
  BY EmptySeq, LenProperties
<1>2. T \subseteq Nat /\ Len(q) \in T
  BY <1>1 DEF Full
<1>3. PICK k \in T : \A j \in T : ~(j < k)
  BY <1>2, LeastNatural
<1>4. k \in 1..Len(q) /\ Full(q, k) /\ \A j \in 1..(k - 1) : ~Full(q, j)
  BY <1>3, <1>1
<1>5. /\ BatchLength(q) \in 1..Len(q)
      /\ \A j \in 1..(BatchLength(q) - 1) : ~Full(q, j)
  BY <1>4 DEF BatchLength
<1>6. MaxBatchEvents \in Nat \ {0} /\ Full(q, MaxBatchEvents)
  BY QueueAssumption DEF Full
<1>. QED  BY <1>5, <1>6, <1>1

-----------------------------------------------------------------------------
\* Ids and Sorted under the operations on sequences that the sender uses.
LEMMA SplitQueue ==
    ASSUME NEW q \in Seq(Event), NEW k \in 0..Len(q)
    PROVE  LET p == SubSeq(q, 1, k)
               s == SubSeq(q, k + 1, Len(q))
           IN /\ p \in Seq(Event) /\ s \in Seq(Event)
              /\ Len(p) = k /\ Len(s) = Len(q) - k
              /\ Ids(q) = Ids(p) \cup Ids(s)
              /\ Sorted(q) => Sorted(p) /\ Sorted(s) /\ Before(Ids(p), Ids(s))
<1>. DEFINE p == SubSeq(q, 1, k)
            s == SubSeq(q, k + 1, Len(q))
<1>0. /\ Len(q) \in Nat /\ k \in Nat /\ k <= Len(q)
      /\ DOMAIN q = 1..Len(q)
      /\ \A i \in 1..Len(q) : q[i] \in Event
  BY LenProperties, ElementOfSeq
<1>1. /\ p \in Seq(Event) /\ Len(p) = k /\ DOMAIN p = 1..k
      /\ \A i \in 1..k : p[i] = q[i]
  <2>1. /\ p \in Seq(Event) /\ Len(p) = (IF 1 <= k THEN k - 1 + 1 ELSE 0)
        /\ \A i \in 1..(k - 1 + 1) : p[i] = q[1 + i - 1]
    BY <1>0, SubSeqProperties
  <2>2. Len(p) = k /\ \A i \in 1..k : p[i] = q[i]
    BY <2>1, <1>0
  <2>. QED  BY <2>1, <2>2, LenProperties
<1>2. /\ s \in Seq(Event) /\ Len(s) = Len(q) - k /\ DOMAIN s = 1..(Len(q) - k)
      /\ \A i \in 1..(Len(q) - k) : s[i] = q[k + i]
  <2>1. /\ s \in Seq(Event)
        /\ Len(s) = (IF k + 1 <= Len(q) THEN Len(q) - (k + 1) + 1 ELSE 0)
        /\ \A i \in 1..(Len(q) - (k + 1) + 1) : s[i] = q[k + 1 + i - 1]
    BY <1>0, SubSeqProperties
  <2>. HIDE DEF s
  <2>2. Len(s) = Len(q) - k
    <3>1. CASE k + 1 <= Len(q)
      <4>1. Len(s) = Len(q) - (k + 1) + 1
        BY <2>1, <3>1
      <4>. QED  BY <4>1, <1>0
    <3>2. CASE ~(k + 1 <= Len(q))
      <4>1. Len(s) = 0
        BY <2>1, <3>2
      <4>2. Len(q) \in Nat /\ k \in Nat /\ k <= Len(q)
        BY <1>0
      <4>3. k = Len(q)
        BY <3>2, <4>2
      <4>. QED  BY <4>1, <4>2, <4>3
    <3>. QED  BY <3>1, <3>2
  <2>3. ASSUME NEW i \in 1..(Len(q) - k) PROVE s[i] = q[k + i]
    <3>1. i \in 1..(Len(q) - (k + 1) + 1) /\ k + 1 + i - 1 = k + i
      BY <1>0
    <3>2. s[i] = q[k + 1 + i - 1]
      BY <3>1, <2>1
    <3>. QED  BY <3>1, <3>2
  <2>. QED  BY <2>1, <2>2, <2>3, LenProperties
<1>. HIDE DEF p, s
<1>3. Ids(q) = Ids(p) \cup Ids(s)
  <2>1. ASSUME NEW i \in 1..Len(q) PROVE q[i].id \in Ids(p) \cup Ids(s)
    <3>1. CASE i <= k
      <4>1. i \in 1..k /\ p[i] = q[i]
        BY <3>1, <1>0, <1>1
      <4>. QED  BY <4>1, <1>1 DEF Ids
    <3>2. CASE i > k
      <4>1. i - k \in 1..(Len(q) - k) /\ k + (i - k) = i
        BY <3>2, <1>0
      <4>2. s[i - k] = q[i]
        BY <4>1, <1>2
      <4>. QED  BY <4>1, <4>2, <1>2 DEF Ids
    <3>. QED  BY <3>1, <3>2, <1>0
  <2>2. Ids(p) \subseteq Ids(q)
    <3>1. \A i \in 1..k : i \in 1..Len(q)
      BY <1>0
    <3>. QED  BY <3>1, <1>0, <1>1 DEF Ids
  <2>3. Ids(s) \subseteq Ids(q)
    <3>1. \A i \in 1..(Len(q) - k) : k + i \in 1..Len(q)
      BY <1>0
    <3>. QED  BY <3>1, <1>0, <1>2 DEF Ids
  <2>. QED  BY <2>1, <2>2, <2>3, <1>0 DEF Ids
<1>4. ASSUME Sorted(q)
      PROVE  Sorted(p) /\ Sorted(s) /\ Before(Ids(p), Ids(s))
  <2>1. Sorted(p)
    BY <1>4, <1>0, <1>1 DEF Sorted
  <2>2. Sorted(s)
    <3>. SUFFICES ASSUME NEW i \in 1..(Len(q) - k), NEW j \in 1..(Len(q) - k), i < j
                  PROVE  s[i].id < s[j].id
      BY <1>2 DEF Sorted
    <3>1. k + i \in 1..Len(q) /\ k + j \in 1..Len(q) /\ k + i < k + j
      BY <1>0
    <3>. QED  BY <3>1, <1>4, <1>0, <1>2 DEF Sorted
  <2>3. ASSUME NEW i \in 1..k, NEW j \in 1..(Len(q) - k)
        PROVE  p[i].id < s[j].id
    <3>1. i \in 1..Len(q) /\ k + j \in 1..Len(q) /\ i < k + j
      BY <1>0
    <3>. QED  BY <3>1, <1>4, <1>0, <1>1, <1>2 DEF Sorted
  <2>. QED  BY <2>1, <2>2, <2>3, <1>1, <1>2 DEF Before, Ids
<1>. QED  BY <1>1, <1>2, <1>3, <1>4 DEF p, s

LEMMA JoinQueues ==
    ASSUME NEW s \in Seq(Event), NEW t \in Seq(Event)
    PROVE  /\ s \o t \in Seq(Event)
           /\ Ids(s \o t) = Ids(s) \cup Ids(t)
           /\ Sorted(s) /\ Sorted(t) /\ Before(Ids(s), Ids(t)) => Sorted(s \o t)
<1>. DEFINE c == s \o t
<1>0. /\ Len(s) \in Nat /\ Len(t) \in Nat
      /\ DOMAIN s = 1..Len(s) /\ DOMAIN t = 1..Len(t)
  BY LenProperties
<1>1. /\ c \in Seq(Event) /\ DOMAIN c = 1..(Len(s) + Len(t))
      /\ \A i \in 1..Len(s) : c[i] = s[i]
      /\ \A i \in 1..Len(t) : c[Len(s) + i] = t[i]
  <2>1. /\ c \in Seq(Event) /\ Len(c) = Len(s) + Len(t)
        /\ \A i \in 1..(Len(s) + Len(t)) :
              c[i] = IF i <= Len(s) THEN s[i] ELSE t[i - Len(s)]
    BY ConcatProperties
  <2>2. DOMAIN c = 1..(Len(s) + Len(t))
    BY <2>1, LenProperties
  <2>3. \A i \in 1..Len(t) : c[Len(s) + i] = t[i]
    BY <2>1, <1>0
  <2>. QED  BY <2>1, <2>2, <2>3, <1>0
<1>2. ASSUME NEW i \in 1..(Len(s) + Len(t))
      PROVE  \/ i \in 1..Len(s) /\ c[i] = s[i]
             \/ i - Len(s) \in 1..Len(t) /\ c[i] = t[i - Len(s)]
  <2>1. CASE i <= Len(s)
    BY <2>1, <1>0, <1>1
  <2>2. CASE i > Len(s)
    <3>1. i - Len(s) \in 1..Len(t) /\ Len(s) + (i - Len(s)) = i
      BY <2>2, <1>0
    <3>. QED  BY <3>1, <1>1
  <2>. QED  BY <2>1, <2>2, <1>0
<1>3. Ids(c) = Ids(s) \cup Ids(t)
  <2>1. Ids(c) \subseteq Ids(s) \cup Ids(t)
    BY <1>0, <1>1, <1>2 DEF Ids
  <2>2. Ids(s) \subseteq Ids(c)
    BY <1>0, <1>1 DEF Ids
  <2>3. ASSUME NEW i \in 1..Len(t) PROVE t[i].id \in Ids(c)
    <3>1. Len(s) + i \in 1..(Len(s) + Len(t))
      BY <1>0
    <3>. QED  BY <3>1, <1>1 DEF Ids
  <2>. QED  BY <2>1, <2>2, <2>3, <1>0 DEF Ids
<1>4. ASSUME Sorted(s), Sorted(t), Before(Ids(s), Ids(t)),
             NEW i \in 1..(Len(s) + Len(t)), NEW j \in 1..(Len(s) + Len(t)), i < j
      PROVE  c[i].id < c[j].id
  <2>1. CASE j <= Len(s)
    BY <2>1, <1>4, <1>0, <1>1 DEF Sorted
  <2>2. CASE i > Len(s)
    <3>1. /\ i - Len(s) \in 1..Len(t) /\ j - Len(s) \in 1..Len(t)
          /\ i - Len(s) < j - Len(s)
          /\ c[i] = t[i - Len(s)] /\ c[j] = t[j - Len(s)]
      BY <2>2, <1>4, <1>0, <1>2
    <3>. QED  BY <3>1, <1>4, <1>0 DEF Sorted
  <2>3. CASE i <= Len(s) /\ j > Len(s)
    <3>1. /\ i \in 1..Len(s) /\ j - Len(s) \in 1..Len(t)
          /\ c[i] = s[i] /\ c[j] = t[j - Len(s)]
      BY <2>3, <1>4, <1>0, <1>1, <1>2
    <3>2. s[i].id \in Ids(s) /\ t[j - Len(s)].id \in Ids(t)
      BY <3>1, <1>0 DEF Ids
    <3>. QED  BY <3>1, <3>2, <1>4 DEF Before
  <2>. QED  BY <2>1, <2>2, <2>3, <1>0
<1>. QED  BY <1>1, <1>3, <1>4 DEF Sorted

LEMMA PushedQueue ==
    ASSUME NEW q \in Seq(Event), NEW e \in Event
    PROVE  /\ Append(q, e) \in Seq(Event)
           /\ Ids(Append(q, e)) = Ids(q) \cup {e.id}
           /\ Sorted(q) /\ Before(Ids(q), {e.id}) => Sorted(Append(q, e))
<1>1. <<e>> \in Seq(Event) /\ Ids(<<e>>) = {e.id} /\ Sorted(<<e>>)
  <2>1. <<e>> \in Seq(Event) /\ Len(<<e>>) = 1 /\ DOMAIN <<e>> = {1} /\ <<e>>[1] = e
    OBVIOUS
  <2>2. Ids(<<e>>) = {e.id}
    BY <2>1 DEF Ids
  <2>3. Sorted(<<e>>)
    BY <2>1 DEF Sorted
  <2>. QED  BY <2>1, <2>2, <2>3
<1>2. Append(q, e) = q \o <<e>>
  BY AppendIsConcat
<1>. QED  BY <1>1, <1>2, JoinQueues

\* What a trim leaves of a queue, and what it sheds.
LEMMA TrimmedQueue ==
    ASSUME NEW q \in Seq(Event), NEW b, TrimTo(q, b)
    PROVE  /\ queue' \in Seq(Event)
           /\ Len(queue') <= MaxQueueEvents
           /\ Ids(queue') \subseteq Ids(q)
           /\ shed' \cup Ids(queue') = shed \cup Ids(q)
           /\ shed' \subseteq shed \cup Ids(q)
           /\ Sorted(q) => Sorted(queue')
<1>. DEFINE k == Excess(q, b)
<1>1. k \in 0..Len(q) /\ Fits(q, b, k)
  BY ExcessFits
<1>2. /\ queue' = SubSeq(q, k + 1, Len(q))
      /\ shed' = shed \cup Ids(SubSeq(q, 1, k))
  BY DEF TrimTo
<1>. HIDE DEF k
<1>3. /\ queue' \in Seq(Event) /\ Len(queue') = Len(q) - k
      /\ Ids(q) = Ids(SubSeq(q, 1, k)) \cup Ids(queue')
      /\ Sorted(q) => Sorted(queue')
  BY <1>1, <1>2, SplitQueue
<1>4. Len(q) - k <= MaxQueueEvents
  <2>1. Len(q) \in Nat
    BY LenProperties
  <2>2. CASE k = Len(q)
    BY <2>1, <2>2, QueueAssumption
  <2>. QED  BY <1>1, <2>2 DEF Fits
<1>. QED  BY <1>2, <1>3, <1>4

-----------------------------------------------------------------------------
(* The bytes of a queue.  BytesOf folds over the positions of a sequence    *)
(* from the last one down; g is the function that fold computes on sets of  *)
(* positions in D.  Induction over the length is by least counterexample.   *)
Sums(s, D, g) ==
    g = [t \in SUBSET D |-> IF t = {} THEN 0 ELSE g[t \ {Max(t)}] + s[Max(t)].bytes]

LEMMA FoldedBytes ==
    ASSUME NEW s
    PROVE  BytesOf(s) = (CHOOSE g : Sums(s, DOMAIN s, g))[DOMAIN s]
BY DEF BytesOf, FoldLeft, MapThenFoldSet, Sums

LEMMA LastPosition ==
    ASSUME NEW k \in Nat \ {0}, NEW t \in SUBSET (1..k), k \in t
    PROVE  Max(t) = k
<1>1. \A y \in t : k >= y
  OBVIOUS
<1>2. PICK x \in t : x = Max(t) /\ \A y \in t : x >= y
  BY <1>1 DEF Max
<1>. QED  BY <1>1, <1>2

\* There is such a function, so the fold has the value its equation gives.
LEMMA SumsExist ==
    ASSUME NEW s, NEW n \in Nat
    PROVE  \E g : Sums(s, 1..n, g)
<1>. DEFINE T == {k \in Nat : ~ \E g : Sums(s, 1..k, g)}
<1>. SUFFICES ASSUME T # {} PROVE FALSE
  OBVIOUS
<1>1. PICK k \in T : \A j \in T : ~(j < k)
  BY LeastNatural
<1>2. k # 0
  <2>. SUFFICES \E g : Sums(s, 1..0, g)
    BY <1>1
  <2>. DEFINE g == [t \in SUBSET (1..0) |-> 0]
  <2>1. \A t \in SUBSET (1..0) : t = {}
    OBVIOUS
  <2>2. Sums(s, 1..0, g)
    BY <2>1 DEF Sums
  <2>. QED  BY <2>2
<1>3. PICK g : Sums(s, 1..(k - 1), g)
  <2>1. k - 1 \in Nat /\ k - 1 < k
    BY <1>2
  <2>2. k - 1 \notin T
    BY <1>1, <2>1
  <2>. QED  BY <2>1, <2>2
<1>. DEFINE h == [t \in SUBSET (1..k) |->
                    IF k \in t THEN g[t \ {k}] + s[k].bytes ELSE g[t]]
<1>4. ASSUME NEW t \in SUBSET (1..k), k \in t
      PROVE  h[t] = h[t \ {Max(t)}] + s[Max(t)].bytes
  <2>1. Max(t) = k
    BY <1>2, <1>4, LastPosition
  <2>2. t \ {k} \in SUBSET (1..k) /\ k \notin t \ {k}
    OBVIOUS
  <2>. QED  BY <2>1, <2>2, <1>4
<1>5. ASSUME NEW t \in SUBSET (1..k), k \notin t, t # {}
      PROVE  h[t] = h[t \ {Max(t)}] + s[Max(t)].bytes
  <2>1. t \in SUBSET (1..(k - 1))
    BY <1>5, <1>2
  <2>2. g[t] = g[t \ {Max(t)}] + s[Max(t)].bytes
    BY <1>3, <1>5, <2>1 DEF Sums
  <2>3. t \ {Max(t)} \in SUBSET (1..k) /\ k \notin t \ {Max(t)}
    BY <1>5
  <2>4. h[t] = g[t] /\ h[t \ {Max(t)}] = g[t \ {Max(t)}]
    BY <2>3, <1>5
  <2>. QED  BY <2>2, <2>4
<1>6. h[{}] = 0
  <2>1. g[{}] = 0
    BY <1>3 DEF Sums
  <2>. QED  BY <2>1
<1>. HIDE DEF h
<1>7. h = [t \in SUBSET (1..k) |-> IF t = {} THEN 0 ELSE h[t \ {Max(t)}] + s[Max(t)].bytes]
  <2>1. h = [t \in SUBSET (1..k) |-> h[t]]
    BY DEF h
  <2>2. \A t \in SUBSET (1..k) : 
           h[t] = IF t = {} THEN 0 ELSE h[t \ {Max(t)}] + s[Max(t)].bytes
    BY <1>4, <1>5, <1>6
  <2>. QED  BY <2>1, <2>2
<1>8. Sums(s, 1..k, h)
  BY <1>7 DEF Sums
<1>. QED  BY <1>1, <1>8

\* p counts the bytes of the first k events of s.
Counts(s, p) ==
    /\ p \in [0..Len(s) -> Nat]
    /\ p[0] = 0
    /\ \A k \in 1..Len(s) : p[k] = p[k - 1] + s[k].bytes

\* The count is unique: two could first differ at no position.
LEMMA CountsUnique ==
    ASSUME NEW s \in Seq(Event), NEW p, NEW q, Counts(s, p), Counts(s, q)
    PROVE  p[Len(s)] = q[Len(s)]
<1>. DEFINE T == {k \in 0..Len(s) : p[k] # q[k]}
<1>0. Len(s) \in Nat
  BY LenProperties
<1>. SUFFICES ASSUME T # {} PROVE FALSE
  BY <1>0
<1>1. PICK k \in T : \A j \in T : ~(j < k)
  <2>1. T \subseteq Nat
    BY <1>0
  <2>. QED  BY <2>1, LeastNatural
<1>2. k # 0
  BY <1>1 DEF Counts
<1>3. k \in 1..Len(s) /\ k - 1 \in 0..Len(s) /\ k - 1 < k
  BY <1>1, <1>2, <1>0
<1>4. p[k - 1] = q[k - 1]
  BY <1>1, <1>3
<1>. QED  BY <1>1, <1>3, <1>4 DEF Counts

LEMMA EventCounts ==
    ASSUME NEW e \in Event
    PROVE  e.bytes \in Nat /\ e.bytes > 0
<1>1. PICK i \in 1..MaxCaptures, z \in EventSizes :
         e = [id |-> i, bytes |-> z.bytes, utf8 |-> z.utf8]
  BY DEF Event
<1>2. z.bytes \in Nat \ {0}
  BY SizesAssumption
<1>. QED  BY <1>1, <1>2

LEMMA EventBytes ==
    ASSUME NEW s \in Seq(Event), NEW k \in 1..Len(s)
    PROVE  s[k].bytes \in Nat /\ s[k].bytes > 0
<1>1. s[k] \in Event
  BY ElementOfSeq
<1>. QED  BY <1>1, EventCounts

\* The fold counts the bytes event by event.
LEMMA BytesCounted ==
    ASSUME NEW s \in Seq(Event)
    PROVE  \E p : Counts(s, p) /\ BytesOf(s) = p[Len(s)]
<1>0. Len(s) \in Nat /\ DOMAIN s = 1..Len(s)
  BY LenProperties
<1>1. PICK g : Sums(s, 1..Len(s), g) /\ BytesOf(s) = g[1..Len(s)]
  BY <1>0, SumsExist, FoldedBytes
<1>. DEFINE p == [k \in 0..Len(s) |-> g[1..k]]
<1>2. p[0] = 0
  <2>1. 1..0 = {} /\ 0 \in 0..Len(s)
    BY <1>0
  <2>2. g[{}] = 0
    BY <1>1 DEF Sums
  <2>. QED  BY <2>1, <2>2
<1>3. ASSUME NEW k \in 1..Len(s)
      PROVE  p[k] = p[k - 1] + s[k].bytes
  <2>1. /\ k \in Nat \ {0} /\ k \in 1..k /\ 1..k \in SUBSET (1..Len(s))
        /\ k \in 0..Len(s) /\ k - 1 \in 0..Len(s)
        /\ (1..k) \ {k} = 1..(k - 1)
    BY <1>0
  <2>2. Max(1..k) = k
    BY <2>1, LastPosition
  <2>3. g[1..k] = g[(1..k) \ {k}] + s[k].bytes
    BY <2>1, <2>2, <1>1 DEF Sums
  <2>. QED  BY <2>1, <2>3
<1>4. p \in [0..Len(s) -> Nat]
  <2>. HIDE DEF p
  <2>. DEFINE T == {k \in 0..Len(s) : p[k] \notin Nat}
  <2>1. T = {}
    <3>. SUFFICES ASSUME T # {} PROVE FALSE
      OBVIOUS
    <3>1. PICK k \in T : \A j \in T : ~(j < k)
      <4>1. T \subseteq Nat
        BY <1>0
      <4>. QED  BY <4>1, LeastNatural
    <3>2. k # 0
      BY <3>1, <1>2
    <3>3. k \in 1..Len(s) /\ k - 1 \in 0..Len(s) /\ k - 1 < k
      BY <3>1, <3>2, <1>0
    <3>4. p[k - 1] \in Nat
      BY <3>1, <3>3
    <3>5. s[k].bytes \in Nat
      BY <3>3, EventBytes
    <3>. QED  BY <3>1, <3>3, <3>4, <3>5, <1>3
  <2>2. p = [k \in 0..Len(s) |-> p[k]]
    BY DEF p
  <2>. QED  BY <2>1, <2>2
<1>5. p[Len(s)] = g[1..Len(s)]
  BY <1>0
<1>. QED  BY <1>1, <1>2, <1>3, <1>4, <1>5 DEF Counts

LEMMA CountsBytes ==
    ASSUME NEW s \in Seq(Event), NEW p, Counts(s, p)
    PROVE  BytesOf(s) = p[Len(s)]
BY BytesCounted, CountsUnique

LEMMA BytesOfNat ==
    ASSUME NEW s \in Seq(Event)
    PROVE  BytesOf(s) \in Nat
<1>1. Len(s) \in 0..Len(s)
  BY LenProperties
<1>. QED  BY <1>1, BytesCounted DEF Counts

LEMMA BytesOfNone == BytesOf(<<>>) = 0
<1>1. <<>> \in Seq(Event) /\ Len(<<>>) = 0
  OBVIOUS
<1>. QED  BY <1>1, BytesCounted DEF Counts

LEMMA BytesOfOne ==
    ASSUME NEW e \in Event
    PROVE  BytesOf(<<e>>) = e.bytes
<1>1. <<e>> \in Seq(Event) /\ Len(<<e>>) = 1 /\ <<e>>[1] = e
  OBVIOUS
<1>2. PICK p : Counts(<<e>>, p) /\ BytesOf(<<e>>) = p[1]
  BY <1>1, BytesCounted
<1>3. p[1] = p[0] + e.bytes /\ p[0] = 0
  BY <1>1, <1>2 DEF Counts
<1>4. e.bytes \in Nat
  BY EventCounts
<1>. QED  BY <1>2, <1>3, <1>4

\* Restoring a batch adds its bytes.
LEMMA BytesOfJoined ==
    ASSUME NEW s \in Seq(Event), NEW t \in Seq(Event)
    PROVE  BytesOf(s \o t) = BytesOf(s) + BytesOf(t)
<1>. DEFINE c == s \o t
<1>0. Len(s) \in Nat /\ Len(t) \in Nat
  BY LenProperties
<1>1. /\ c \in Seq(Event) /\ Len(c) = Len(s) + Len(t)
      /\ \A i \in 1..(Len(s) + Len(t)) :
            c[i] = IF i <= Len(s) THEN s[i] ELSE t[i - Len(s)]
  BY ConcatProperties
<1>. HIDE DEF c
<1>2. PICK p : Counts(s, p) /\ BytesOf(s) = p[Len(s)]
  BY BytesCounted
<1>3. PICK q : Counts(t, q) /\ BytesOf(t) = q[Len(t)]
  BY BytesCounted
<1>. DEFINE r == [k \in 0..(Len(s) + Len(t)) |->
                     IF k <= Len(s) THEN p[k] ELSE p[Len(s)] + q[k - Len(s)]]
<1>4. r \in [0..Len(c) -> Nat]
  <2>1. ASSUME NEW k \in 0..(Len(s) + Len(t)) PROVE r[k] \in Nat
    <3>1. CASE k <= Len(s)
      <4>1. k \in 0..Len(s)
        BY <3>1, <1>0
      <4>. QED  BY <3>1, <4>1, <1>2 DEF Counts
    <3>2. CASE ~(k <= Len(s))
      <4>1. k - Len(s) \in 0..Len(t) /\ Len(s) \in 0..Len(s)
        BY <3>2, <1>0
      <4>2. p[Len(s)] \in Nat /\ q[k - Len(s)] \in Nat
        BY <4>1, <1>2, <1>3 DEF Counts
      <4>. QED  BY <3>2, <4>2
    <3>. QED  BY <3>1, <3>2
  <2>. QED  BY <2>1, <1>1
<1>5. r[0] = 0
  BY <1>0, <1>2 DEF Counts
<1>6. ASSUME NEW k \in 1..Len(c) PROVE r[k] = r[k - 1] + c[k].bytes
  <2>0. k \in 0..(Len(s) + Len(t)) /\ k - 1 \in 0..(Len(s) + Len(t))
        /\ k \in 1..(Len(s) + Len(t))
    BY <1>0, <1>1
  <2>1. CASE k <= Len(s)
    <3>1. k \in 1..Len(s) /\ k - 1 <= Len(s)
      BY <2>1, <1>0, <1>1
    <3>2. p[k] = p[k - 1] + s[k].bytes /\ c[k] = s[k]
      BY <2>0, <2>1, <3>1, <1>1, <1>2 DEF Counts
    <3>. QED  BY <2>0, <2>1, <3>1, <3>2
  <2>2. CASE k = Len(s) + 1
    <3>1. 1 \in 1..Len(t) /\ k - Len(s) = 1 /\ k - 1 = Len(s) /\ ~(k <= Len(s))
      BY <2>0, <2>2, <1>0
    <3>2. q[1] = 0 + t[1].bytes /\ t[1].bytes \in Nat
      BY <3>1, <1>3, EventBytes DEF Counts
    <3>3. r[k] = p[Len(s)] + q[1] /\ r[k - 1] = p[Len(s)] /\ c[k] = t[1]
      BY <2>0, <3>1, <1>0, <1>1
    <3>. QED  BY <3>2, <3>3
  <2>3. CASE k > Len(s) + 1
    <3>1. /\ k - Len(s) \in 1..Len(t) /\ ~(k <= Len(s)) /\ ~(k - 1 <= Len(s))
          /\ (k - Len(s)) - 1 \in 0..Len(t) /\ (k - 1) - Len(s) = (k - Len(s)) - 1
          /\ Len(s) \in 0..Len(s)
      BY <2>0, <2>3, <1>0
    <3>2. q[k - Len(s)] = q[(k - Len(s)) - 1] + t[k - Len(s)].bytes
      BY <3>1, <1>3 DEF Counts
    <3>3. /\ r[k] = p[Len(s)] + q[k - Len(s)]
          /\ r[k - 1] = p[Len(s)] + q[(k - Len(s)) - 1]
          /\ c[k] = t[k - Len(s)]
      BY <2>0, <3>1, <1>1
    <3>4. p[Len(s)] \in Nat /\ q[(k - Len(s)) - 1] \in Nat /\ t[k - Len(s)].bytes \in Nat
      BY <3>1, <1>2, <1>3, EventBytes DEF Counts
    <3>. HIDE DEF r
    <3>. QED  BY <3>2, <3>3, <3>4
  <2>. QED  BY <2>0, <2>1, <2>2, <2>3, <1>0
<1>7. r[Len(c)] = p[Len(s)] + q[Len(t)]
  <2>1. CASE Len(t) = 0
    <3>1. q[Len(t)] = 0 /\ p[Len(s)] \in Nat /\ Len(c) = Len(s)
      BY <2>1, <1>0, <1>1, <1>2, <1>3 DEF Counts
    <3>. QED  BY <3>1, <1>0
  <2>2. CASE Len(t) > 0
    <3>1. /\ Len(c) \in 0..(Len(s) + Len(t)) /\ ~(Len(c) <= Len(s))
          /\ Len(c) - Len(s) = Len(t)
      BY <2>2, <1>0, <1>1
    <3>. QED  BY <3>1
  <2>. QED  BY <2>1, <2>2, <1>0
<1>. HIDE DEF r
<1>8. BytesOf(c) = r[Len(c)]
  BY <1>1, <1>4, <1>5, <1>6, CountsBytes DEF Counts
<1>. QED  BY <1>2, <1>3, <1>7, <1>8 DEF c

LEMMA BytesOfPushed ==
    ASSUME NEW q \in Seq(Event), NEW e \in Event
    PROVE  BytesOf(Append(q, e)) = BytesOf(q) + e.bytes
<1>1. Append(q, e) = q \o <<e>> /\ <<e>> \in Seq(Event)
  BY AppendIsConcat
<1>. QED  BY <1>1, BytesOfJoined, BytesOfOne

\* What is taken from the front and what is left make up the whole.
LEMMA BytesOfSplit ==
    ASSUME NEW q \in Seq(Event), NEW k \in 0..Len(q)
    PROVE  /\ BytesOf(SubSeq(q, 1, k)) \in Nat
           /\ BytesOf(SubSeq(q, k + 1, Len(q))) \in Nat
           /\ BytesOf(q) = BytesOf(SubSeq(q, 1, k)) + BytesOf(SubSeq(q, k + 1, Len(q)))
<1>. DEFINE a == SubSeq(q, 1, k)
            b == SubSeq(q, k + 1, Len(q))
<1>1. a \in Seq(Event) /\ b \in Seq(Event)
  BY SplitQueue
<1>2. a \o b = q
  <2>1. Len(q) \in Nat
    BY LenProperties
  <2>2. 1 \in 1..(Len(q) + 1) /\ k \in (1 - 1)..Len(q) /\ Len(q) \in k..Len(q)
    BY <2>1
  <2>3. a \o b = SubSeq(q, 1, Len(q))
    BY <2>2, ConcatAdjacentSubSeq
  <2>. QED  BY <2>3, SubSeqFull
<1>. QED  BY <1>1, <1>2, BytesOfJoined, BytesOfNat

-----------------------------------------------------------------------------
LEMMA InitIInv == Init => IInv
<1>. SUFFICES ASSUME Init PROVE IInv
  OBVIOUS
<1>. USE DEF Init
<1>1. <<>> \in Seq(Event) /\ Len(<<>>) = 0 /\ DOMAIN <<>> = {}
  OBVIOUS
<1>2. Ids(<<>>) = {} /\ Sorted(<<>>)
  BY <1>1 DEF Ids, Sorted
<1>3. Types
  <2>1. timer \in BOOLEAN /\ flushing \in BOOLEAN /\ (~flushing => batch = <<>>)
    OBVIOUS
  <2>2. captured \in 0..MaxCaptures /\ stops \in 0..MaxStops
    BY QueueAssumption
  <2>. QED  BY <1>1, <2>1, <2>2 DEF Types
<1>4. Order /\ Frontier
  BY <1>2 DEF Order, Frontier, Held, Before
<1>5. Kept
  <2>1. 1..0 = {}
    OBVIOUS
  <2>. QED  BY <1>2, <2>1 DEF Kept, Held
<1>6. Lengths
  BY <1>1, QueueAssumption DEF Lengths
<1>. QED  BY <1>3, <1>4, <1>5, <1>6 DEF IInv, NoLostWakeup

\* What sendVoipCaptureEvent pushes is an event, the next one.
LEMMA PushedIsEvent ==
    ASSUME IInv, NEW z \in EventSizes, Capture(z)
    PROVE  /\ captured \in Nat /\ MaxCaptures \in Nat /\ captured < MaxCaptures
           /\ [id |-> captured + 1, bytes |-> z.bytes, utf8 |-> z.utf8] \in Event
<1>1. captured \in 0..MaxCaptures /\ MaxCaptures \in Nat
  BY QueueAssumption DEF IInv, Types
<1>2. captured < MaxCaptures
  BY DEF Capture
<1>3. captured + 1 \in 1..MaxCaptures
  BY <1>1, <1>2
<1>. QED  BY <1>1, <1>2, <1>3 DEF Event

LEMMA CaptureKeeps ==
    ASSUME IInv, NEW z \in EventSizes, Capture(z)
    PROVE  IInv'
<1>. DEFINE e == [id |-> captured + 1, bytes |-> z.bytes, utf8 |-> z.utf8]
            q == Append(queue, e)
<1>0. /\ captured \in Nat /\ captured < MaxCaptures /\ MaxCaptures \in Nat
      /\ captured' = captured + 1
      /\ e \in Event /\ e.id = captured + 1
      /\ queue \in Seq(Event) /\ batch \in Seq(Event)
      /\ UNCHANGED <<flushing, batch, stops, written, acked>>
      /\ timer' = TRUE
      /\ TrimTo(q, queueBytes + e.bytes)
  BY PushedIsEvent DEF IInv, Types, Capture
<1>1. \A i \in Held : i \in 1..captured
  BY DEF IInv, Kept
<1>2. /\ q \in Seq(Event) /\ Ids(q) = Ids(queue) \cup {captured + 1} /\ Sorted(q)
  <2>1. Before(Ids(queue), {e.id})
    BY <1>0, <1>1 DEF Before, Held
  <2>. QED  BY <1>0, <2>1, PushedQueue DEF IInv, Order
<1>. HIDE DEF q
<1>3. /\ queue' \in Seq(Event) /\ Len(queue') <= MaxQueueEvents
      /\ Ids(queue') \subseteq Ids(queue) \cup {captured + 1}
      /\ shed' \cup Ids(queue') = shed \cup Ids(queue) \cup {captured + 1}
      /\ shed' \subseteq shed \cup Ids(queue) \cup {captured + 1}
      /\ Sorted(queue')
  BY <1>0, <1>2, TrimmedQueue
<1>4. /\ Ids(batch)' = Ids(batch) /\ Ids(queue)' = Ids(queue')
      /\ Sorted(batch)' = Sorted(batch) /\ Sorted(queue)' = Sorted(queue')
      /\ Held' = Ids(batch) \cup Ids(queue')
  BY <1>0 DEF Ids, Sorted, Held
<1>5. 1..captured' = 1..captured \cup {captured + 1}
  BY <1>0
<1>6. Types'
  BY <1>0, <1>1, <1>3, <1>5 DEF IInv, Types, Held
<1>7. \A i \in Held' : i \in Held \/ i = captured + 1
  BY <1>3, <1>4 DEF Held
<1>8. Order'
  <2>1. Before(Ids(batch), Ids(queue'))
    <3>1. \A x \in Ids(batch) : x < captured + 1
      BY <1>0, <1>1 DEF Held
    <3>. QED  BY <3>1, <1>3 DEF IInv, Order, Before
  <2>2. Before(acked, Held')
    <3>1. \A x \in acked : x < captured + 1
      BY <1>0 DEF IInv, Kept, Types
    <3>. QED  BY <3>1, <1>7 DEF IInv, Order, Before
  <2>3. Before(Ids(batch), Ids(queue))' /\ Before(acked, Held)'
    BY <2>1, <2>2, <1>0, <1>4 DEF Before
  <2>. QED  BY <2>3, <1>3, <1>4 DEF IInv, Order
<1>9. Kept'
  BY <1>0, <1>3, <1>4, <1>5 DEF IInv, Kept, Held
<1>10. Frontier'
  <2>1. \A f \in written : f < captured + 1
    BY <1>0 DEF IInv, Types
  <2>. QED  BY <2>1, <1>0, <1>7 DEF IInv, Frontier
<1>11. Lengths' /\ NoLostWakeup'
  BY <1>0, <1>3 DEF IInv, Lengths, NoLostWakeup
<1>. QED  BY <1>6, <1>8, <1>9, <1>10, <1>11 DEF IInv

LEMMA TimerKeeps ==
    ASSUME IInv, TimerFiresIdle \/ TimerFlushes
    PROVE  IInv'
<1>1. CASE TimerFiresIdle
  <2>1. /\ timer' = FALSE /\ (flushing \/ queue = <<>>)
        /\ UNCHANGED <<queue, flushing, batch, captured, stops, written, acked, shed>>
    BY <1>1 DEF TimerFiresIdle
  <2>2. Types'
    BY <2>1 DEF IInv, Types
  <2>3. Order' /\ Kept' /\ Frontier' /\ Lengths'
    BY <2>1 DEF IInv, Order, Kept, Frontier, Lengths, Held, Ids, Sorted, Before
  <2>4. NoLostWakeup'
    BY <2>1 DEF NoLostWakeup
  <2>. QED  BY <2>2, <2>3, <2>4 DEF IInv
<1>2. CASE TimerFlushes
  <2>. DEFINE k == BatchLength(queue)
  <2>0. /\ queue \in Seq(Event) /\ queue # <<>>
        /\ flushing = FALSE /\ batch = <<>> /\ timer' = FALSE /\ flushing' = TRUE
        /\ batch' = SubSeq(queue, 1, k)
        /\ queue' = SubSeq(queue, k + 1, Len(queue))
        /\ UNCHANGED <<captured, stops, written, acked, shed>>
    BY <1>2 DEF TimerFlushes, IInv, Types
  <2>1. k \in 1..Len(queue) /\ k <= MaxBatchEvents
    BY <2>0, BatchLengthBounds
  <2>. HIDE DEF k
  <2>2. k \in 0..Len(queue) /\ Len(queue) \in Nat
    BY <2>0, <2>1, LenProperties
  <2>3. /\ batch' \in Seq(Event) /\ queue' \in Seq(Event)
        /\ Len(batch') = k /\ Len(queue') = Len(queue) - k
        /\ Ids(queue) = Ids(batch') \cup Ids(queue')
        /\ Sorted(batch') /\ Sorted(queue') /\ Before(Ids(batch'), Ids(queue'))
    BY <2>0, <2>2, SplitQueue DEF IInv, Order
  <2>4. Ids(batch) = {}
    BY <2>0 DEF Ids
  <2>5. /\ Held' = Held
        /\ Ids(batch)' = Ids(batch') /\ Ids(queue)' = Ids(queue')
        /\ Sorted(batch)' = Sorted(batch') /\ Sorted(queue)' = Sorted(queue')
    BY <2>3, <2>4 DEF Held, Ids, Sorted
  <2>6. Types'
    BY <2>0, <2>3 DEF IInv, Types
  <2>7. Order'
    BY <2>0, <2>3, <2>5 DEF IInv, Order, Before
  <2>8. Kept' /\ Frontier'
    BY <2>0, <2>5 DEF IInv, Kept, Frontier
  <2>9. Lengths' /\ NoLostWakeup'
    <3>1. Len(queue) - k <= MaxQueueEvents
      <4>1. Len(queue) <= MaxQueueEvents
        BY DEF IInv, Lengths
      <4>2. k \in Nat /\ MaxQueueEvents \in Nat
        BY <2>2, QueueAssumption
      <4>. QED  BY <4>1, <4>2, <2>2
    <3>. QED  BY <2>0, <2>1, <2>3, <3>1 DEF Lengths, NoLostWakeup
  <2>. QED  BY <2>6, <2>7, <2>8, <2>9 DEF IInv
<1>. QED  BY <1>1, <1>2

\* The collector's writes: a prefix of the batch enters the file, all of it
\* when it acknowledges.
LEMMA WrittenPrefix ==
    ASSUME IInv, NEW n \in 0..Len(batch), CollectorWrites(n)
    PROVE  LET W == Ids(SubSeq(batch, 1, n)) IN
           /\ written' = written \cup W /\ W \subseteq Ids(batch)
           /\ n = Len(batch) => W = Ids(batch)
           /\ \A f \in written', e \in Held : e \in written' \/ f < e
           /\ \A e \in written' \ written, f \in written : f < e
<1>. DEFINE W == Ids(SubSeq(batch, 1, n))
            R == Ids(SubSeq(batch, n + 1, Len(batch)))
<1>1. batch \in Seq(Event) /\ Sorted(batch) /\ Before(Ids(batch), Ids(queue))
  BY DEF IInv, Types, Order
<1>2. written' = written \cup W
  BY DEF CollectorWrites
<1>3. Ids(batch) = W \cup R /\ Before(W, R)
  BY <1>1, SplitQueue
<1>4. n = Len(batch) => W = Ids(batch)
  BY <1>1, SubSeqFull
<1>. HIDE DEF W, R
<1>5. ASSUME NEW f \in written', NEW e \in Held, e \notin written'
      PROVE  f < e
  <2>1. CASE f \in written
    BY <2>1, <1>2, <1>5 DEF IInv, Frontier
  <2>2. CASE f \in W
    BY <2>2, <1>1, <1>2, <1>3, <1>5 DEF Held, Before
  <2>. QED  BY <2>1, <2>2, <1>2
<1>6. ASSUME NEW e \in written' \ written, NEW f \in written PROVE f < e
  BY <1>2, <1>3 DEF IInv, Frontier, Held
<1>. QED  BY <1>2, <1>3, <1>4, <1>5, <1>6 DEF W

LEMMA FetchOkKeeps ==
    ASSUME IInv, FetchOk
    PROVE  IInv'
<1>0. /\ flushing' = FALSE /\ batch' = <<>> /\ acked' = acked \cup Ids(batch)
      /\ timer' = (timer \/ queue # <<>>)
      /\ CollectorWrites(Len(batch))
      /\ UNCHANGED <<queue, captured, stops, shed>>
      /\ Len(batch) \in 0..Len(batch)
      /\ queue \in Seq(Event) /\ Ids(<<>>) = {} /\ Sorted(<<>>)
  <2>1. Len(batch) \in Nat
    BY LenProperties DEF IInv, Types
  <2>2. Ids(<<>>) = {} /\ Sorted(<<>>)
    BY DEF Ids, Sorted
  <2>. QED  BY <2>1, <2>2 DEF FetchOk, IInv, Types
<1>1. /\ written' = written \cup Ids(batch)
      /\ \A f \in written', e \in Held : e \in written' \/ f < e
  BY <1>0, WrittenPrefix
<1>2. /\ Held' = Ids(queue)
      /\ Ids(batch)' = {} /\ Ids(queue)' = Ids(queue)
      /\ Sorted(batch)' /\ Sorted(queue)' = Sorted(queue)
  <2>1. Ids(batch)' = Ids(batch') /\ Sorted(batch)' = Sorted(batch')
    BY DEF Ids, Sorted
  <2>. QED  BY <1>0, <2>1 DEF Held, Ids, Sorted
<1>3. Types'
  <2>1. Ids(batch) \subseteq 1..captured
    BY DEF IInv, Kept, Held
  <2>2. timer' \in BOOLEAN /\ flushing' \in BOOLEAN /\ (~flushing' => batch' = <<>>)
    BY <1>0
  <2>3. batch' \in Seq(Event) /\ queue' \in Seq(Event)
    BY <1>0
  <2>4. written' \subseteq 1..captured'
    BY <1>0, <1>1, <2>1 DEF IInv, Types
  <2>. QED  BY <1>0, <2>2, <2>3, <2>4 DEF IInv, Types
<1>4. Order'
  BY <1>0, <1>2 DEF IInv, Order, Before, Held
<1>5. Kept'
  BY <1>0, <1>1, <1>2 DEF IInv, Kept, Held
<1>6. Frontier'
  BY <1>1, <1>2 DEF Frontier, Held
<1>7. Lengths'
  <2>1. Len(<<>>) = 0
    OBVIOUS
  <2>. QED  BY <1>0, <2>1, QueueAssumption DEF IInv, Lengths
<1>8. NoLostWakeup'
  BY <1>0 DEF NoLostWakeup
<1>. QED  BY <1>3, <1>4, <1>5, <1>6, <1>7, <1>8 DEF IInv

LEMMA FetchFailsKeeps ==
    ASSUME IInv, NEW n \in 0..Len(batch), FetchFails(n)
    PROVE  IInv'
<1>0. /\ flushing' = FALSE /\ batch' = <<>> /\ timer' = TRUE
      /\ CollectorWrites(n)
      /\ TrimTo(batch \o queue, queueBytes + BytesOf(batch))
      /\ UNCHANGED <<captured, stops, acked>>
      /\ queue \in Seq(Event) /\ batch \in Seq(Event)
      /\ Ids(<<>>) = {} /\ Sorted(<<>>)
  <2>1. Ids(<<>>) = {} /\ Sorted(<<>>)
    BY DEF Ids, Sorted
  <2>. QED  BY <2>1 DEF FetchFails, IInv, Types
<1>1. /\ written \subseteq written' /\ written' \subseteq written \cup Ids(batch)
      /\ \A f \in written', e \in Held : e \in written' \/ f < e
  BY <1>0, WrittenPrefix
<1>2. /\ batch \o queue \in Seq(Event)
      /\ Ids(batch \o queue) = Held
      /\ Sorted(batch \o queue)
  BY <1>0, JoinQueues DEF IInv, Order, Held
<1>3. /\ queue' \in Seq(Event) /\ Len(queue') <= MaxQueueEvents
      /\ Ids(queue') \subseteq Held
      /\ shed' \cup Ids(queue') = shed \cup Held
      /\ shed' \subseteq shed \cup Held
      /\ Sorted(queue')
  BY <1>0, <1>2, TrimmedQueue
<1>4. /\ Held' = Ids(queue')
      /\ Ids(batch)' = {} /\ Ids(queue)' = Ids(queue')
      /\ Sorted(batch)' /\ Sorted(queue)'
  <2>1. /\ Ids(batch)' = Ids(batch') /\ Sorted(batch)' = Sorted(batch')
        /\ Ids(queue)' = Ids(queue') /\ Sorted(queue)' = Sorted(queue')
    BY DEF Ids, Sorted
  <2>. QED  BY <1>0, <1>3, <2>1 DEF Held
<1>5. Held \subseteq 1..captured
  BY DEF IInv, Kept
<1>6. Types'
  <2>1. timer' \in BOOLEAN /\ flushing' \in BOOLEAN /\ (~flushing' => batch' = <<>>)
    BY <1>0
  <2>2. written' \subseteq 1..captured' /\ shed' \subseteq 1..captured'
    BY <1>0, <1>1, <1>3, <1>5 DEF IInv, Types, Held
  <2>. QED  BY <1>0, <1>3, <2>1, <2>2 DEF IInv, Types
<1>7. Order'
  <2>1. Before(acked, Held)'
    BY <1>0, <1>3, <1>4 DEF IInv, Order, Before
  <2>2. Before(Ids(batch), Ids(queue))'
    BY <1>4 DEF Before
  <2>. QED  BY <1>4, <2>1, <2>2 DEF Order
<1>8. Kept'
  BY <1>0, <1>1, <1>3, <1>4 DEF IInv, Kept
<1>9. Frontier'
  BY <1>1, <1>3, <1>4 DEF Frontier
<1>10. Lengths' /\ NoLostWakeup'
  <2>1. Len(<<>>) = 0
    OBVIOUS
  <2>. QED  BY <1>0, <1>3, <2>1, QueueAssumption DEF Lengths, NoLostWakeup
<1>. QED  BY <1>6, <1>7, <1>8, <1>9, <1>10 DEF IInv

LEMMA WorkerStopsKeeps ==
    ASSUME IInv, NEW n \in 0..Len(batch), WorkerStops(n)
    PROVE  IInv'
<1>0. /\ flushing' = FALSE /\ batch' = <<>> /\ queue' = <<>> /\ timer' = FALSE
      /\ CollectorWrites(n)
      /\ shed' = shed \cup Ids(Pending)
      /\ stops < MaxStops /\ stops' = stops + 1
      /\ UNCHANGED <<captured, acked>>
      /\ queue \in Seq(Event) /\ batch \in Seq(Event)
      /\ <<>> \in Seq(Event) /\ Len(<<>>) = 0 /\ Ids(<<>>) = {} /\ Sorted(<<>>)
  <2>1. Ids(<<>>) = {} /\ Sorted(<<>>) /\ <<>> \in Seq(Event) /\ Len(<<>>) = 0
    BY DEF Ids, Sorted
  <2>. QED  BY <2>1 DEF WorkerStops, IInv, Types
<1>1. written \subseteq written' /\ written' \subseteq written \cup Ids(batch)
  BY <1>0, WrittenPrefix
<1>2. Ids(Pending) = Held
  BY <1>0, JoinQueues DEF Pending, Held
<1>3. /\ Held' = {} /\ Ids(batch)' = {} /\ Ids(queue)' = {}
      /\ Sorted(batch)' /\ Sorted(queue)'
  <2>1. /\ Ids(batch)' = Ids(batch') /\ Sorted(batch)' = Sorted(batch')
        /\ Ids(queue)' = Ids(queue') /\ Sorted(queue)' = Sorted(queue')
    BY DEF Ids, Sorted
  <2>. QED  BY <1>0, <2>1 DEF Held
<1>4. Held \subseteq 1..captured
  BY DEF IInv, Kept
<1>5. Types'
  <2>1. timer' \in BOOLEAN /\ flushing' \in BOOLEAN /\ (~flushing' => batch' = <<>>)
    BY <1>0
  <2>2. written' \subseteq 1..captured' /\ shed' \subseteq 1..captured'
    BY <1>0, <1>1, <1>2, <1>4 DEF IInv, Types, Held
  <2>3. stops' \in 0..MaxStops
    BY <1>0, QueueAssumption DEF IInv, Types
  <2>. QED  BY <1>0, <2>1, <2>2, <2>3 DEF IInv, Types
<1>6. Order' /\ Frontier'
  BY <1>3 DEF Order, Frontier, Before
<1>7. Kept'
  BY <1>0, <1>1, <1>2, <1>3 DEF IInv, Kept
<1>8. Lengths' /\ NoLostWakeup'
  BY <1>0, QueueAssumption DEF Lengths, NoLostWakeup
<1>. QED  BY <1>5, <1>6, <1>7, <1>8 DEF IInv

LEMMA StepKeeps == IInv /\ [Next]_vars => IInv'
<1>. SUFFICES ASSUME IInv, [Next]_vars PROVE IInv'
  OBVIOUS
<1>1. ASSUME NEW z \in EventSizes, Capture(z) PROVE IInv'
  BY <1>1, CaptureKeeps
<1>2. CASE TimerFiresIdle \/ TimerFlushes
  BY <1>2, TimerKeeps
<1>3. CASE FetchOk
  BY <1>3, FetchOkKeeps
<1>4. ASSUME NEW n \in 0..Len(batch), FetchFails(n) PROVE IInv'
  BY <1>4, FetchFailsKeeps
<1>5. ASSUME NEW n \in 0..Len(batch), WorkerStops(n) PROVE IInv'
  BY <1>5, WorkerStopsKeeps
<1>6. CASE UNCHANGED vars
  BY <1>6 DEF vars, workerVars, IInv, Types, Order, Kept, Frontier, Lengths,
              NoLostWakeup, Held, Ids, Sorted, Before
<1>. QED  BY <1>1, <1>2, <1>3, <1>4, <1>5, <1>6 DEF Next

LEMMA Invariance == Spec => []IInv
<1>. QED  BY InitIInv, StepKeeps, PTL DEF Spec

-----------------------------------------------------------------------------
(* However captures, timers, failures and stops of the worker interleave,   *)
(* every captured event is acknowledged, held or shed, and acknowledged     *)
(* events are in the collector's file: sendVoipCaptureEvent and             *)
(* flushVoipCaptureEvents lose nothing silently, for any limits and sizes.  *)
THEOREM NothingIsLost == Spec => []NothingLost
<1>1. IInv => NothingLost
  <2>. SUFFICES ASSUME IInv PROVE NothingLost
    OBVIOUS
  <2>1. Ids(Pending) = Held
    BY JoinQueues DEF IInv, Types, Pending, Held
  <2>. QED  BY <2>1 DEF IInv, Kept, NothingLost
<1>. QED  BY <1>1, Invariance, PTL

(* The sender holds its events in the order of capture, all newer than what *)
(* the collector acknowledged: restoring a batch at the front keeps order.  *)
THEOREM HeldInOrder == Spec => []InOrder
<1>1. IInv => InOrder
  <2>. SUFFICES ASSUME IInv PROVE InOrder
    OBVIOUS
  <2>1. /\ Ids(Pending) = Held /\ Sorted(Pending)
    BY JoinQueues DEF IInv, Types, Order, Pending, Held
  <2>2. \A i \in DOMAIN Pending : Pending[i].id \in Held
    BY <2>1 DEF Ids
  <2>. QED  BY <2>1, <2>2 DEF IInv, Order, Sorted, Before, InOrder
<1>. QED  BY <1>1, Invariance, PTL

(* Failed requests that were written in part, and their retries, never put  *)
(* the first copy of an event behind a newer one in the collector's file.   *)
THEOREM FirstCopiesInOrder == Spec => CopiesInOrder
<1>. DEFINE Newer == \A e \in written' \ written, f \in written : f < e
<1>1. IInv /\ [Next]_vars => [Newer]_vars
  <2>. SUFFICES ASSUME IInv, Next PROVE Newer
    BY DEF vars
  <2>1. ASSUME NEW n \in 0..Len(batch), CollectorWrites(n) PROVE Newer
    BY <2>1, WrittenPrefix
  <2>2. CASE \E z \in EventSizes : Capture(z)
    BY <2>2 DEF Capture
  <2>3. CASE TimerFiresIdle \/ TimerFlushes
    BY <2>3 DEF TimerFiresIdle, TimerFlushes
  <2>4. CASE FetchOk
    <3>1. Len(batch) \in 0..Len(batch)
      BY LenProperties DEF IInv, Types
    <3>. QED  BY <2>4, <3>1, <2>1 DEF FetchOk
  <2>5. CASE \E n \in 0..Len(batch) : FetchFails(n) \/ WorkerStops(n)
    BY <2>5, <2>1 DEF FetchFails, WorkerStops
  <2>. QED  BY <2>2, <2>3, <2>4, <2>5 DEF Next
<1>. QED  BY <1>1, Invariance, PTL DEF Spec, CopiesInOrder

(* Whenever the queue is not empty a timer runs or a flush is in flight, so *)
(* the early returns of scheduleVoipCaptureFlush and flushVoipCaptureEvents *)
(* never leave events that nothing will look at.                            *)
THEOREM NoWakeupIsLost == Spec => []NoLostWakeup
<1>. QED  BY Invariance, PTL DEF IInv

-----------------------------------------------------------------------------
\* The refinement of CaptureLog.
LEMMA IdsAreInts ==
    ASSUME NEW s \in Seq(Event)
    PROVE  Ids(s) \subseteq Int
<1>1. \A i \in DOMAIN s : s[i] \in Event
  BY LenProperties, ElementOfSeq
<1>. QED  BY <1>1 DEF Ids, Event

\* A trim keeps a queue in the way the log gives up its oldest events.
LEMMA TrimIsKeep ==
    ASSUME NEW q \in Seq(Event), NEW b, Sorted(q), TrimTo(q, b)
    PROVE  Log!Keep(Ids(q))
<1>. DEFINE k == Excess(q, b)
            D == Ids(SubSeq(q, 1, k))
<1>1. k \in 0..Len(q)
  BY ExcessFits
<1>2. queue' = SubSeq(q, k + 1, Len(q)) /\ shed' = shed \cup D
  BY DEF TrimTo
<1>. HIDE DEF k
<1>3. /\ Ids(q) = D \cup Ids(queue') /\ Before(D, Ids(queue'))
      /\ queue' \in Seq(Event) /\ SubSeq(q, 1, k) \in Seq(Event)
  BY <1>1, <1>2, SplitQueue
<1>. HIDE DEF D
<1>4. Ids(q) \subseteq Int
  BY IdsAreInts
<1>5. \A d \in D : d \notin Ids(queue')
  BY <1>3, <1>4 DEF Before
<1>6. Ids(q) \ D = Ids(queue')
  BY <1>3, <1>5
<1>7. Log!Oldest(D, Ids(q))
  BY <1>3, <1>6 DEF Log!Oldest, Before
<1>8. Ids(queue)' = Ids(queue')
  BY DEF Ids
<1>. QED  BY <1>2, <1>3, <1>6, <1>7, <1>8 DEF Log!Keep

\* What the collector writes of a lot are its oldest events.
LEMMA WritesOldest ==
    ASSUME IInv, NEW n \in 0..Len(batch), CollectorWrites(n)
    PROVE  Log!WriteSome
<1>. DEFINE W == Ids(SubSeq(batch, 1, n))
            R == Ids(SubSeq(batch, n + 1, Len(batch)))
<1>1. batch \in Seq(Event) /\ Sorted(batch)
  BY DEF IInv, Types, Order
<1>2. written' = written \cup W
  BY DEF CollectorWrites
<1>3. Ids(batch) = W \cup R /\ Before(W, R)
  BY <1>1, SplitQueue
<1>. HIDE DEF W, R
<1>4. Log!Oldest(W, Ids(batch))
  BY <1>3 DEF Log!Oldest, Before
<1>. QED  BY <1>2, <1>3, <1>4 DEF Log!WriteSome

\* Every step of the sender is a step of the log or changes nothing of it.
LEMMA StepIsLogged == IInv /\ [Next]_vars => [Log!Next]_(Log!vars)
<1>. SUFFICES ASSUME IInv, [Next]_vars PROVE [Log!Next]_(Log!vars)
  OBVIOUS
<1>0. /\ queue \in Seq(Event) /\ batch \in Seq(Event)
      /\ Sorted(queue) /\ Sorted(batch) /\ Before(Ids(batch), Ids(queue))
      /\ Held \subseteq 1..captured
  BY DEF IInv, Types, Order, Kept
<1>p. Ids(queue)' = Ids(queue') /\ Ids(batch)' = Ids(batch')
  BY DEF Ids
<1>e. Ids(<<>>) = {}
  BY DEF Ids
<1>1. ASSUME NEW z \in EventSizes, Capture(z) PROVE Log!Capture
  <2>. DEFINE e == [id |-> captured + 1, bytes |-> z.bytes, utf8 |-> z.utf8]
              q == Append(queue, e)
  <2>1. /\ e \in Event /\ e.id = captured + 1 /\ captured \in Nat
        /\ captured' = captured + 1 /\ TrimTo(q, queueBytes + e.bytes)
        /\ UNCHANGED <<batch, written, acked>>
    BY <1>1, PushedIsEvent DEF Capture
  <2>2. Before(Ids(queue), {e.id})
    BY <1>0, <2>1 DEF Before, Held
  <2>3. q \in Seq(Event) /\ Sorted(q) /\ Ids(q) = Ids(queue) \cup {captured + 1}
    BY <1>0, <2>1, <2>2, PushedQueue
  <2>. HIDE DEF q
  <2>4. Log!Keep(Ids(queue) \cup {captured + 1})
    BY <2>1, <2>3, TrimIsKeep
  <2>. QED  BY <1>p, <2>1, <2>4 DEF Log!Capture
<1>2. ASSUME TimerFlushes PROVE Log!Send
  <2>. DEFINE k == BatchLength(queue)
  <2>1. /\ queue # <<>> /\ batch = <<>>
        /\ batch' = SubSeq(queue, 1, k)
        /\ queue' = SubSeq(queue, k + 1, Len(queue))
        /\ UNCHANGED <<captured, written, acked, shed>>
    BY <1>2 DEF TimerFlushes, IInv, Types
  <2>2. k \in 1..Len(queue)
    BY <1>0, <2>1, BatchLengthBounds
  <2>. HIDE DEF k
  <2>3. k \in 0..Len(queue) /\ k # 0
    BY <1>0, <2>2, LenProperties
  <2>4. /\ Ids(queue) = Ids(batch') \cup Ids(queue')
        /\ Before(Ids(batch'), Ids(queue'))
        /\ Len(batch') = k /\ batch' \in Seq(Event)
    BY <1>0, <2>1, <2>3, SplitQueue
  <2>5. Ids(batch') # {}
    <3>1. 1 \in DOMAIN batch'
      BY <2>2, <2>3, <2>4, <1>0, LenProperties
    <3>. QED  BY <3>1 DEF Ids
  <2>6. Ids(queue') = Ids(queue) \ Ids(batch')
    <3>1. Ids(queue) \subseteq Int
      BY <1>0, IdsAreInts
    <3>. QED  BY <2>4, <3>1 DEF Before
  <2>7. Log!Oldest(Ids(batch'), Ids(queue))
    BY <2>4, <2>6 DEF Log!Oldest, Before
  <2>8. Log!Oldest(Ids(batch)', Ids(queue))
    BY <2>7, <1>p
  <2>. QED  BY <1>p, <1>e, <2>1, <2>5, <2>6, <2>8 DEF Log!Send
<1>3. ASSUME FetchOk PROVE Log!Accept
  <2>1. Len(batch) \in 0..Len(batch)
    BY <1>0, LenProperties
  <2>2. written' = written \cup Ids(batch)
    BY <1>3, <2>1, WrittenPrefix DEF FetchOk
  <2>. QED  BY <1>3, <1>p, <1>e, <2>2 DEF FetchOk, Log!Accept
<1>4. ASSUME NEW n \in 0..Len(batch), FetchFails(n) PROVE Log!Refuse
  <2>1. /\ CollectorWrites(n) /\ batch' = <<>>
        /\ TrimTo(batch \o queue, queueBytes + BytesOf(batch))
        /\ UNCHANGED <<captured, acked>>
    BY <1>4 DEF FetchFails
  <2>2. /\ batch \o queue \in Seq(Event) /\ Sorted(batch \o queue)
        /\ Ids(batch \o queue) = Ids(batch) \cup Ids(queue)
    BY <1>0, JoinQueues
  <2>3. Log!Keep(Ids(batch) \cup Ids(queue))
    BY <2>1, <2>2, TrimIsKeep
  <2>4. Log!WriteSome
    BY <2>1, WritesOldest
  <2>. QED  BY <1>p, <1>e, <2>1, <2>3, <2>4 DEF Log!Refuse
<1>5. ASSUME NEW n \in 0..Len(batch), WorkerStops(n) PROVE Log!Stop
  <2>1. /\ CollectorWrites(n) /\ batch' = <<>> /\ queue' = <<>>
        /\ shed' = shed \cup Ids(Pending)
        /\ UNCHANGED <<captured, acked>>
    BY <1>5 DEF WorkerStops
  <2>2. Ids(Pending) = Ids(batch) \cup Ids(queue)
    BY <1>0, JoinQueues DEF Pending
  <2>3. Log!WriteSome
    BY <2>1, WritesOldest
  <2>. QED  BY <1>p, <1>e, <2>1, <2>2, <2>3 DEF Log!Stop
<1>6. ASSUME TimerFiresIdle \/ UNCHANGED vars PROVE UNCHANGED Log!vars
  <2>1. UNCHANGED <<captured, queue, batch, written, acked, shed>>
    BY <1>6 DEF TimerFiresIdle, vars, workerVars
  <2>. QED  BY <1>p, <2>1 DEF Log!vars
<1>. QED  BY <1>1, <1>2, <1>3, <1>4, <1>5, <1>6 DEF Next, Log!Next

(* The sender implements CaptureLog: whoever reads the file and knows only  *)
(* the log's steps is never surprised by how captures, timers, failures in  *)
(* the middle of a lot, restores, trims and stops interleave.               *)
THEOREM ImplementsCaptureLog == Spec => DeliversAsALog
<1>1. Init => Log!Init
  BY DEF Init, Log!Init, Ids
<1>. QED  BY <1>1, Invariance, StepIsLogged, PTL DEF Spec, DeliversAsALog, Log!Spec

-----------------------------------------------------------------------------
(* takeCaptureBatch stops before the body exceeds its limit: what it takes  *)
(* is within it, unless it is the one event that is taken whatever its size.*)
LEMMA BatchIsShort ==
    ASSUME NEW q \in Seq(Event), q # <<>>, BatchLength(q) > 1
    PROVE  2 + BytesOf(SubSeq(q, 1, BatchLength(q))) <= MaxBatchBytes
<1>. DEFINE T == {k \in 1..Len(q) : Full(q, k)}
            n == BatchLength(q)
<1>1. Len(q) \in Nat \ {0}
  BY EmptySeq, LenProperties
<1>2. T \subseteq Nat /\ Len(q) \in T
  BY <1>1 DEF Full
<1>3. PICK k \in T : \A j \in T : ~(j < k)
  BY <1>2, LeastNatural
<1>4. k \in 1..Len(q) /\ Full(q, k) /\ \A j \in 1..(k - 1) : ~Full(q, j)
  BY <1>3, <1>1
<1>5. n \in 1..Len(q) /\ \A j \in 1..(n - 1) : ~Full(q, j)
  BY <1>4 DEF BatchLength
<1>. HIDE DEF n
<1>6. n - 1 \in 1..(n - 1) /\ (n - 1) + 1 = n
  <2>1. n > 1 /\ n \in Nat
    BY <1>1, <1>5 DEF n
  <2>. QED  BY <2>1
<1>7. 2 + BytesOf(SubSeq(q, 1, (n - 1) + 1)) <= MaxBatchBytes
  BY <1>5, <1>6 DEF Full
<1>. QED  BY <1>6, <1>7 DEF n

\* A trim of a queue whose bytes are counted right leaves one whose bytes are
\* counted right and within their limit.
LEMMA TrimCounts ==
    ASSUME NEW q \in Seq(Event), TrimTo(q, BytesOf(q))
    PROVE  queueBytes' = BytesOf(queue') /\ queueBytes' <= MaxQueueBytes
<1>. DEFINE b == BytesOf(q)
            k == Excess(q, b)
            p == BytesOf(SubSeq(q, 1, k))
<1>1. k \in 0..Len(q) /\ Fits(q, b, k)
  BY ExcessFits
<1>2. queue' = SubSeq(q, k + 1, Len(q)) /\ queueBytes' = b - p
  BY DEF TrimTo
<1>. HIDE DEF k
<1>3. b \in Nat /\ p \in Nat /\ BytesOf(queue') \in Nat /\ b = p + BytesOf(queue')
  BY <1>1, <1>2, BytesOfSplit, BytesOfNat
<1>4. queueBytes' = BytesOf(queue')
  BY <1>2, <1>3
<1>5. CASE k = Len(q)
  <2>1. p = b
    BY <1>5, SubSeqFull
  <2>2. queueBytes' = 0
    BY <2>1, <1>2, <1>3
  <2>. QED  BY <2>2, <1>4, QueueAssumption
<1>6. CASE b - p <= MaxQueueBytes
  BY <1>2, <1>4, <1>6
<1>. QED  BY <1>1, <1>5, <1>6 DEF Fits

\* The counter is right, and it and the batch are within their limits.
Tally ==
    /\ queueBytes = BytesOf(queue)
    /\ queueBytes <= MaxQueueBytes
    /\ Len(batch) > 1 => 2 + BytesOf(batch) <= MaxBatchBytes

\* The value of BytesOf depends on the sequence alone.
LEMMA PrimedBytes == BytesOf(queue)' = BytesOf(queue') /\ BytesOf(batch)' = BytesOf(batch')
BY DEF BytesOf, FoldLeft, MapThenFoldSet, Max

LEMMA InitTally == Init => Tally
<1>1. Len(<<>>) = 0
  OBVIOUS
<1>. QED  BY <1>1, BytesOfNone, QueueAssumption DEF Init, Tally

LEMMA EmptyBatchTally ==
    ASSUME batch' = <<>>, queueBytes' = BytesOf(queue'), queueBytes' <= MaxQueueBytes
    PROVE  Tally'
<1>1. BytesOf(queue)' = BytesOf(queue') /\ BytesOf(batch)' = BytesOf(batch')
  BY PrimedBytes
<1>2. Len(batch') = 0
  OBVIOUS
<1>. QED  BY <1>1, <1>2 DEF Tally

LEMMA StepTally == IInv /\ Tally /\ [Next]_vars => Tally'
<1>. SUFFICES ASSUME IInv, Tally, [Next]_vars PROVE Tally'
  OBVIOUS
<1>0. queue \in Seq(Event) /\ batch \in Seq(Event)
  BY DEF IInv, Types
<1>1. ASSUME NEW z \in EventSizes, Capture(z) PROVE Tally'
  <2>. DEFINE e == [id |-> captured + 1, bytes |-> z.bytes, utf8 |-> z.utf8]
  <2>1. /\ e \in Event /\ batch' = batch
        /\ TrimTo(Append(queue, e), queueBytes + e.bytes)
    BY <1>1, PushedIsEvent DEF Capture
  <2>2. Append(queue, e) \in Seq(Event)
        /\ BytesOf(Append(queue, e)) = queueBytes + e.bytes
    BY <1>0, <2>1, PushedQueue, BytesOfPushed DEF Tally
  <2>3. TrimTo(Append(queue, e), BytesOf(Append(queue, e)))
    BY <2>1, <2>2
  <2>4. queueBytes' = BytesOf(queue') /\ queueBytes' <= MaxQueueBytes
    BY <2>2, <2>3, TrimCounts
  <2>5. BytesOf(queue)' = BytesOf(queue') /\ BytesOf(batch)' = BytesOf(batch')
    BY PrimedBytes
  <2>. QED  BY <2>1, <2>4, <2>5 DEF Tally
<1>2. CASE TimerFlushes
  <2>. DEFINE k == BatchLength(queue)
  <2>1. /\ queue # <<>>
        /\ batch' = SubSeq(queue, 1, k)
        /\ queue' = SubSeq(queue, k + 1, Len(queue))
        /\ queueBytes' = queueBytes - BytesOf(batch')
    BY <1>2 DEF TimerFlushes
  <2>2. k \in 1..Len(queue) /\ (k > 1 => 2 + BytesOf(SubSeq(queue, 1, k)) <= MaxBatchBytes)
    BY <1>0, <2>1, BatchLengthBounds, BatchIsShort
  <2>. HIDE DEF k
  <2>3. k \in 0..Len(queue) /\ Len(batch') = k
    <3>1. k \in 0..Len(queue)
      BY <1>0, <2>2, LenProperties
    <3>. QED  BY <1>0, <2>1, <3>1, SplitQueue
  <2>4. /\ BytesOf(batch') \in Nat /\ BytesOf(queue') \in Nat
        /\ BytesOf(queue) = BytesOf(batch') + BytesOf(queue')
    BY <1>0, <2>1, <2>3, BytesOfSplit
  <2>5. queueBytes' = BytesOf(queue') /\ queueBytes' <= MaxQueueBytes
    <3>1. queueBytes = BytesOf(queue) /\ queueBytes <= MaxQueueBytes /\ MaxQueueBytes \in Nat
      BY QueueAssumption DEF Tally
    <3>. QED  BY <2>1, <2>4, <3>1
  <2>6. BytesOf(queue)' = BytesOf(queue') /\ BytesOf(batch)' = BytesOf(batch')
    BY PrimedBytes
  <2>. QED  BY <2>1, <2>2, <2>3, <2>5, <2>6 DEF Tally
<1>3. CASE TimerFiresIdle \/ UNCHANGED vars
  BY <1>3, PrimedBytes DEF TimerFiresIdle, vars, workerVars, Tally
<1>4. CASE FetchOk
  <2>1. batch' = <<>> /\ queue' = queue /\ queueBytes' = queueBytes
    BY <1>4 DEF FetchOk
  <2>. QED  BY <2>1, EmptyBatchTally DEF Tally
<1>5. ASSUME NEW n \in 0..Len(batch), FetchFails(n) PROVE Tally'
  <2>1. batch' = <<>> /\ TrimTo(batch \o queue, queueBytes + BytesOf(batch))
    BY <1>5 DEF FetchFails
  <2>2. /\ batch \o queue \in Seq(Event)
        /\ BytesOf(batch \o queue) = queueBytes + BytesOf(batch)
    <3>1. BytesOf(batch \o queue) = BytesOf(batch) + BytesOf(queue)
      BY <1>0, BytesOfJoined
    <3>2. BytesOf(batch) \in Nat /\ BytesOf(queue) \in Nat /\ queueBytes = BytesOf(queue)
      BY <1>0, BytesOfNat DEF Tally
    <3>. QED  BY <1>0, <3>1, <3>2, JoinQueues
  <2>3. TrimTo(batch \o queue, BytesOf(batch \o queue))
    BY <2>1, <2>2
  <2>. QED  BY <2>1, <2>2, <2>3, TrimCounts, EmptyBatchTally
<1>6. ASSUME NEW n \in 0..Len(batch), WorkerStops(n) PROVE Tally'
  <2>1. batch' = <<>> /\ queue' = <<>> /\ queueBytes' = 0
    BY <1>6 DEF WorkerStops
  <2>. QED  BY <2>1, BytesOfNone, QueueAssumption, EmptyBatchTally
<1>. QED  BY <1>1, <1>2, <1>3, <1>4, <1>5, <1>6 DEF Next

LEMMA TallyInvariance == Spec => [](IInv /\ Tally)
<1>1. Init => IInv /\ Tally
  BY InitIInv, InitTally
<1>2. IInv /\ Tally /\ [Next]_vars => (IInv /\ Tally)'
  BY StepKeeps, StepTally
<1>. QED  BY <1>1, <1>2, PTL DEF Spec

(* However pushes, trims, batches taken and batches restored interleave,    *)
(* voipCaptureQueueBytes stays the bytes of the queue, the queue and the    *)
(* batch stay within their limits of events and bytes, and only a single    *)
(* event exceeds the bytes of a batch: for any limits and sizes.            *)
THEOREM QueueIsBounded == Spec => []Bounded
<1>1. IInv /\ Tally => Bounded
  BY DEF IInv, Lengths, Tally, Bounded
<1>. QED  BY <1>1, TallyInvariance, PTL

(* The types of the sender's state; the counter of bytes, which is adjusted *)
(* by difference at every push, trim and batch, never goes below zero.      *)
THEOREM TypeCorrect == Spec => []TypeOK
<1>1. IInv /\ Tally => TypeOK
  <2>. SUFFICES ASSUME IInv, Tally PROVE TypeOK
    OBVIOUS
  <2>1. queueBytes \in Nat
    BY BytesOfNat DEF IInv, Types, Tally
  <2>2. acked \subseteq 1..captured
    BY DEF IInv, Kept
  <2>. QED  BY <2>1, <2>2 DEF IInv, Types, TypeOK
<1>. QED  BY <1>1, TallyInvariance, PTL
=============================================================================
