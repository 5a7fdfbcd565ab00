------------------------- MODULE FrameDeliveryProofs -------------------------
(* Theorems about FrameDelivery, for every kind of client and every bound on *)
(* queues, inputs, requests and changes: an end is explained, damage fits at *)
(* a terminal client, what is on screen never goes back, and an answered     *)
(* barrier shows the input before it.  The inductive invariant is proved in  *)
(* layers, each from the ones before it.                                     *)
EXTENDS FrameDelivery, FiniteSetTheorems, FunctionTheorems, SequenceTheorems,
        TLAPS

-----------------------------------------------------------------------------
(* Counting the messages of a queue *)

\* How many messages or requests of s are of one of the kinds K.
Count(s, K) == Cardinality({i \in DOMAIN s : s[i].kind \in K})

\* Whether something counts, as a number.
One(yes) == IF yes THEN 1 ELSE 0

\* A count is a number, and zero when there is nothing to count.
LEMMA CountNat ==
    ASSUME NEW S, NEW s \in Seq(S), NEW K
    PROVE  /\ Count(s, K) \in Nat
           /\ Count(s, K) = 0 <=> \A i \in DOMAIN s : s[i].kind \notin K
           /\ IsFiniteSet({i \in DOMAIN s : s[i].kind \in K})
  <1> DEFINE I == {i \in DOMAIN s : s[i].kind \in K}
  <1>1. IsFiniteSet(1 .. Len(s)) /\ DOMAIN s = 1 .. Len(s)
    BY LenProperties, FS_Interval
  <1>2. I \in SUBSET (1 .. Len(s))
    BY <1>1
  <1>3. IsFiniteSet(I)
    <2> HIDE DEF I
    <2> QED
      BY <1>1, <1>2, FS_Subset
  <1>4. Cardinality(I) \in Nat /\ (Cardinality(I) = 0 <=> I = {})
    <2> HIDE DEF I
    <2> QED
      BY <1>3, FS_CardinalityType, FS_EmptySet, Zenon
  <1> QED
    BY <1>3, <1>4 DEF Count

\* A message at the end is counted, if it is of those kinds.
LEMMA CountAppend ==
    ASSUME NEW S, NEW s \in Seq(S), NEW x \in S, NEW K
    PROVE  /\ Append(s, x) \in Seq(S)
           /\ Count(Append(s, x), K) = Count(s, K) + One(x.kind \in K)
  <1> DEFINE I == {i \in DOMAIN s : s[i].kind \in K}
             J == {i \in DOMAIN Append(s, x) : Append(s, x)[i].kind \in K}
             e == Len(s) + 1
  <1>1. /\ Append(s, x) \in Seq(S) /\ Len(s) \in Nat
        /\ DOMAIN s = 1 .. Len(s) /\ DOMAIN Append(s, x) = 1 .. e
        /\ \A i \in 1 .. Len(s) : Append(s, x)[i] = s[i]
        /\ Append(s, x)[e] = x
    BY LenProperties, AppendProperties
  <1>2. IsFiniteSet(I) /\ Cardinality(I) \in Nat
    BY CountNat, FS_CardinalityType DEF Count
  <1>3. e \notin I
    BY <1>1
  <1>4. J = IF x.kind \in K THEN I \union {e} ELSE I
    BY <1>1
  <1>5. Cardinality(I \union {e}) = Cardinality(I) + 1
    <2> HIDE DEF I, e
    <2> QED
      BY <1>2, <1>3, FS_AddElement
  <1>6. Count(s, K) = Cardinality(I) /\ Count(Append(s, x), K) = Cardinality(J)
    BY DEF Count
  <1> HIDE DEF I, J
  <1> QED
    BY <1>1, <1>2, <1>4, <1>5, <1>6 DEF One

\* The first message was counted, if it is of those kinds.
LEMMA CountTail ==
    ASSUME NEW S, NEW s \in Seq(S), s # <<>>, NEW K
    PROVE  Count(s, K) = One(Head(s).kind \in K) + Count(Tail(s), K)
  <1> DEFINE I == {i \in DOMAIN s : s[i].kind \in K}
             R == I \ {1}
             J == {i \in DOMAIN Tail(s) : Tail(s)[i].kind \in K}
             f == [i \in J |-> i + 1]
  <1>1. /\ Tail(s) \in Seq(S) /\ Len(s) \in Nat /\ Len(s) > 0
        /\ DOMAIN s = 1 .. Len(s) /\ DOMAIN Tail(s) = 1 .. (Len(s) - 1)
        /\ \A i \in 1 .. (Len(s) - 1) : Tail(s)[i] = s[i + 1]
        /\ Head(s) = s[1]
    BY LenProperties, HeadTailProperties, EmptySeq
  <1>2. IsFiniteSet(I) /\ IsFiniteSet(J)
    BY <1>1, CountNat
  <1>3. f \in Bijection(J, R)
    <2>1. \A i \in J : i + 1 \in R
      BY <1>1
    <2>2. \A k \in R : k - 1 \in J /\ (k - 1) + 1 = k
      BY <1>1
    <2>3. \A i, j \in J : i + 1 = j + 1 => i = j
      BY <1>1
    <2> HIDE DEF J, R
    <2>4. f \in [J -> R]
      BY <2>1
    <2>5. \A k \in R : \E i \in J : f[i] = k
      BY <2>2
    <2>6. \A i, j \in J : f[i] = f[j] => i = j
      BY <2>3
    <2> HIDE DEF f
    <2> QED
      BY <2>4, <2>5, <2>6 DEF Bijection, Injection, Surjection, IsInjective
  <1>4. Cardinality(R) = Cardinality(J)
    <2> HIDE DEF f, J, R
    <2> QED
      BY <1>2, <1>3, FS_Bijection DEF ExistsBijection
  <1>5. /\ Cardinality(R) = IF 1 \in I THEN Cardinality(I) - 1
                            ELSE Cardinality(I)
        /\ Cardinality(I) \in Nat
    <2> HIDE DEF I
    <2> QED
      BY <1>2, FS_RemoveElement, FS_CardinalityType
  <1>6. 1 \in I <=> Head(s).kind \in K
    BY <1>1
  <1> HIDE DEF I, J, R, f
  <1>7. Count(s, K) = Cardinality(I) /\ Count(Tail(s), K) = Cardinality(J)
    BY DEF Count, I, J
  <1> QED
    BY <1>4, <1>5, <1>6, <1>7 DEF One

\* Messages of other kinds at the end are not counted.
LEMMA CountConcat ==
    ASSUME NEW S, NEW s \in Seq(S), NEW t \in Seq(S), NEW K,
           \A i \in DOMAIN t : t[i].kind \notin K
    PROVE  s \o t \in Seq(S) /\ Count(s \o t, K) = Count(s, K)
  <1> DEFINE I == {i \in DOMAIN s : s[i].kind \in K}
             J == {i \in DOMAIN (s \o t) : (s \o t)[i].kind \in K}
  <1>1. /\ s \o t \in Seq(S) /\ Len(s) \in Nat /\ Len(t) \in Nat
        /\ DOMAIN s = 1 .. Len(s) /\ DOMAIN t = 1 .. Len(t)
        /\ DOMAIN (s \o t) = 1 .. Len(s) + Len(t)
        /\ \A i \in 1 .. Len(s) + Len(t) :
              (s \o t)[i] = IF i <= Len(s) THEN s[i] ELSE t[i - Len(s)]
    BY LenProperties, ConcatProperties
  <1>2. \A i \in 1 .. Len(s) + Len(t) : i > Len(s) => i - Len(s) \in 1 .. Len(t)
    BY <1>1
  <1>3. I = J
    BY <1>1, <1>2
  <1> QED
    BY <1>1, <1>3 DEF Count

\* What a client sends, one request or two.
LEMMA SentRequests ==
    ASSUME NEW S, NEW s \in Seq(S), NEW x \in S, NEW y \in S
    PROVE  /\ s \o <<x>> = Append(s, x) /\ Len(<<x>>) = 1
           /\ <<x>> \o <<>> = <<x>> /\ <<x>> \o <<y>> = <<x, y>>
           /\ s \o <<x, y>> = Append(Append(s, x), y) /\ Len(<<x, y>>) = 2
  <1>1. s \o <<x>> = Append(s, x) /\ Len(<<x>>) = 1
    OBVIOUS
  <1>2. <<x>> \in Seq(S) /\ <<y>> \in Seq(S) /\ <<x, y>> \in Seq(S)
    OBVIOUS
  <1>3. <<x>> \o <<>> = <<x>>
    BY <1>2, ConcatEmptySeq
  <1>4. /\ Len(<<x, y>>) = 2 /\ Len(<<y>>) = 1 /\ <<y>>[1] = y /\ <<x>>[1] = x
        /\ <<x, y>>[1] = x /\ <<x, y>>[2] = y
    OBVIOUS
  <1>5. <<x>> \o <<y>> = <<x, y>>
    <2> DEFINE c == <<x>> \o <<y>>
    <2>1. /\ c \in Seq(S) /\ Len(c) = 2
          /\ \A i \in 1 .. 2 : c[i] = IF i <= 1 THEN <<x>>[i] ELSE <<y>>[i - 1]
      BY <1>1, <1>2, <1>4, ConcatProperties
    <2> HIDE DEF c
    <2>2. c[1] = x /\ c[2] = y
      BY <1>4, <2>1
    <2>3. \A i \in 1 .. Len(c) : c[i] = <<x, y>>[i]
      BY <1>4, <2>1, <2>2
    <2>4. c = <<x, y>>
      BY <1>2, <1>4, <2>1, <2>3, SeqEqual
    <2> QED
      BY <2>4 DEF c
  <1>6. s \o <<x, y>> = Append(Append(s, x), y)
    <2>1. (s \o <<x>>) \o <<y>> = s \o (<<x>> \o <<y>>)
      BY <1>2, ConcatAssociative
    <2>2. Append(s, x) \in Seq(S)
      OBVIOUS
    <2>3. Append(s, x) \o <<y>> = Append(Append(s, x), y)
      BY <2>2
    <2> QED
      BY <1>1, <1>5, <2>1, <2>3
  <1> QED
    BY <1>1, <1>3, <1>4, <1>5, <1>6

-----------------------------------------------------------------------------
(* Messages and lanes *)

\* The kinds that the final reply must not overtake.
Semantic == {"welcome", "reply", "barrier"}

\* A message shows one of the frames before n; damage leads to a later one.
Formed(m, n) ==
    /\ m \in Messages /\ m.id < n
    /\ m.kind \in {"frame", "damage", "barrier"} => m.id > 0
    /\ m.kind = "damage" => m.base < m.id

\* Each place of a lane holds the messages that belong there.
LaneFormed(l, n) ==
    /\ l \in Lane /\ Len(l.queue) <= SemanticCap
    /\ \A i \in DOMAIN l.queue :
          l.queue[i].kind \in Semantic /\ Formed(l.queue[i], n)
    /\ l.final # NoMessage => IsFinal(l.final) /\ Formed(l.final, n)
    /\ l.held # NoMessage => IsFinal(l.held) /\ Formed(l.held, n)
    /\ ~l.seen => IsVisual(l.slot)
    /\ Formed(l.slot, n)

\* Whether a lane holds a final reply, and whether it has one at most.
Carries(l) == l.final # NoMessage \/ l.held # NoMessage
OneFinal(l) == l.final = NoMessage \/ l.held = NoMessage

\* The lane k is the lane l, polled some more.
Still(l, k) ==
    /\ k.queue = l.queue /\ k.final = l.final /\ k.held = l.held
    /\ k.slot = l.slot /\ k.seen = l.seen

\* recv takes the message m from the lane l and leaves k.
Takes(l, m, k) ==
    /\ k.slot = l.slot
    /\ \/ /\ m.kind \in Semantic
          /\ l.queue # <<>> /\ m = Head(l.queue) /\ k.queue = Tail(l.queue)
          /\ k.seen = l.seen
          /\ Carries(k) <=> Carries(l)
          /\ OneFinal(l) => OneFinal(k)
       \/ /\ IsFinal(m) /\ Carries(l)
          /\ l.queue = <<>> /\ k.queue = <<>> /\ k.seen = l.seen
          /\ OneFinal(l) => ~Carries(k) /\ OneFinal(k)
       \/ /\ IsVisual(m) /\ m = l.slot /\ ~l.seen /\ k.seen
          /\ k.queue = l.queue /\ k.final = l.final /\ k.held = l.held

\* What there is no message of is older than any frame; a semantic message is
\* neither visual nor final.
LEMMA Kinds ==
    ASSUME NEW n \in Nat \ {0}
    PROVE  /\ Formed(NoMessage, n) /\ NoMessage.kind = "none"
           /\ NoMessage.id = 0 /\ NoMessage.base = 0
           /\ \A m : /\ m.kind \in Semantic => ~IsVisual(m) /\ ~IsFinal(m)
                     /\ m.kind \in Semantic \/ IsVisual(m) \/ IsFinal(m)
                           => m # NoMessage /\ m.kind # "none"
                     /\ ~(IsVisual(m) /\ IsFinal(m))
                     /\ m \in Messages /\ m.kind # "none"
                           => m.kind \in Semantic \/ IsVisual(m) \/ IsFinal(m)
  BY DEF Formed, NoMessage, Message, Messages, NoFrame, NoSerial, Semantic,
         IsVisual, IsFinal

\* What is formed stays so when there are more frames.
LEMMA StillFormed ==
    ASSUME NEW n \in Nat, NEW k \in Nat, n <= k
    PROVE  /\ \A m : Formed(m, n) => Formed(m, k)
           /\ \A l : LaneFormed(l, n) => LaneFormed(l, k)
  <1>1. \A m : Formed(m, n) => Formed(m, k)
    BY DEF Formed, Messages
  <1> QED
    BY <1>1 DEF LaneFormed

\* What a lane is made of.
LEMMA LaneFields ==
    ASSUME NEW l \in Lane
    PROVE  /\ l.queue \in Seq(Messages) /\ l.final \in Messages
           /\ l.held \in Messages /\ l.slot \in Messages
           /\ l.seen \in BOOLEAN /\ l.polled \in 0 .. 2
  BY DEF Lane

\* The updates of recv that start it again keep a lane a lane.
LEMMA LaneRestarts ==
    ASSUME NEW l \in Lane, NEW h \in Messages, NEW k
    PROVE  /\ k = [l EXCEPT !.final = h, !.polled = 0] =>
                 /\ k \in Lane /\ k.queue = l.queue /\ k.final = h
                 /\ k.held = l.held /\ k.slot = l.slot /\ k.seen = l.seen
           /\ k = [l EXCEPT !.seen = TRUE, !.polled = 0] =>
                 /\ k \in Lane /\ k.queue = l.queue /\ k.final = l.final
                 /\ k.held = l.held /\ k.slot = l.slot /\ k.seen = TRUE
  <1>1. ASSUME NEW p \in 0 .. 2, k = [l EXCEPT !.final = h, !.polled = p]
        PROVE  /\ k \in Lane /\ k.queue = l.queue /\ k.final = h
               /\ k.held = l.held /\ k.slot = l.slot /\ k.seen = l.seen
    BY <1>1 DEF Lane
  <1>2. ASSUME NEW p \in 0 .. 2, NEW b \in BOOLEAN,
               k = [l EXCEPT !.seen = b, !.polled = p]
        PROVE  /\ k \in Lane /\ k.queue = l.queue /\ k.final = l.final
               /\ k.held = l.held /\ k.slot = l.slot /\ k.seen = b
    BY <1>2 DEF Lane
  <1>3. 0 \in 0 .. 2 /\ TRUE \in BOOLEAN
    OBVIOUS
  <1> QED
    BY <1>1, <1>2, <1>3

\* try_send puts the message in its place and leaves the others.
LEMMA PutLane ==
    ASSUME NEW n \in Nat \ {0}, NEW l, LaneFormed(l, n),
           NEW m, Formed(m, n), m.kind # "none", Accepts(l, m)
    PROVE  /\ LaneFormed(Put(l, m), n)
           /\ Put(l, m).queue = IF m.kind \in Semantic THEN Append(l.queue, m)
                                ELSE l.queue
           /\ Put(l, m).final = IF IsFinal(m) THEN m ELSE l.final
           /\ Put(l, m).held = l.held
           /\ Put(l, m).slot = IF IsVisual(m) THEN m ELSE l.slot
           /\ Put(l, m).seen <=> l.seen /\ ~IsVisual(m)
           /\ IsFinal(m) => l.final = NoMessage
  <1> USE DEF LaneFormed
  <1>0. /\ m \in Messages /\ l.queue \in Seq(Messages)
        /\ l.final \in Messages /\ l.held \in Messages /\ l.slot \in Messages
        /\ l.seen \in BOOLEAN /\ l.polled \in 0 .. 2
    BY LaneFields DEF Formed
  <1>1. CASE IsVisual(m)
    <2>1. /\ ~IsFinal(m) /\ m.kind \notin Semantic
          /\ Put(l, m) = [l EXCEPT !.slot = m, !.seen = FALSE]
      BY <1>1, Kinds DEF Put
    <2> QED
      BY <1>0, <1>1, <2>1 DEF Lane
  <1>2. CASE IsFinal(m)
    <2>1. ~IsVisual(m) /\ m.kind \notin Semantic
      BY <1>2, Kinds
    <2>2. Put(l, m) = [l EXCEPT !.final = m] /\ l.final = NoMessage
      BY <1>2, <2>1 DEF Put, Accepts
    <2> QED
      BY <1>0, <1>2, <2>1, <2>2 DEF Lane
  <1>3. CASE m.kind \in Semantic
    <2>1. ~IsVisual(m) /\ ~IsFinal(m)
      BY <1>3, Kinds
    <2>2. /\ Put(l, m) = [l EXCEPT !.queue = Append(@, m)]
          /\ Len(l.queue) < SemanticCap
      BY <2>1 DEF Put, Accepts
    <2>3. /\ Append(l.queue, m) \in Seq(Messages)
          /\ Len(Append(l.queue, m)) = Len(l.queue) + 1
          /\ Len(l.queue) \in Nat
          /\ \A i \in DOMAIN Append(l.queue, m) :
                \/ i \in DOMAIN l.queue /\ Append(l.queue, m)[i] = l.queue[i]
                \/ Append(l.queue, m)[i] = m
      BY <1>0, LenProperties, AppendProperties
    <2>4. Len(l.queue) + 1 <= SemanticCap
      BY <2>2, <2>3, DeliveryConstants
    <2>5. Put(l, m) \in Lane /\ Put(l, m).queue = Append(l.queue, m)
      BY <1>0, <2>2, <2>3 DEF Lane
    <2>6. /\ Put(l, m).final = l.final /\ Put(l, m).held = l.held
          /\ Put(l, m).slot = l.slot /\ Put(l, m).seen = l.seen
      BY <1>0, <2>2 DEF Lane
    <2> QED
      BY <1>3, <2>1, <2>3, <2>4, <2>5, <2>6
  <1> QED
    BY <1>0, <1>1, <1>2, <1>3, Kinds

\* A poll that returns nothing leaves the messages where they are.
LEMMA PolledLane ==
    ASSUME NEW n \in Nat \ {0}, NEW l, LaneFormed(l, n), NEW k \in Polled(l)
    PROVE  LaneFormed(k, n) /\ Still(l, k)
  <1>1. \E p \in 0 .. 2 : k = [l EXCEPT !.polled = p]
    BY DEF Polled
  <1>2. PICK p \in 0 .. 2 : k = [l EXCEPT !.polled = p]
    BY <1>1
  <1> QED
    BY <1>2 DEF LaneFormed, Still, Lane

\* The semantic message that is first, without the queue's head.
LEMMA QueueHead ==
    ASSUME NEW n \in Nat \ {0}, NEW l, LaneFormed(l, n), l.queue # <<>>
    PROVE  /\ Head(l.queue).kind \in Semantic /\ Formed(Head(l.queue), n)
           /\ Tail(l.queue) \in Seq(Messages) /\ Len(Tail(l.queue)) <= SemanticCap
           /\ \A i \in DOMAIN Tail(l.queue) :
                 /\ Tail(l.queue)[i].kind \in Semantic
                 /\ Formed(Tail(l.queue)[i], n)
  <1>1. l.queue \in Seq(Messages)
    BY LaneFields DEF LaneFormed
  <1>2. /\ Tail(l.queue) \in Seq(Messages)
        /\ Len(Tail(l.queue)) = Len(l.queue) - 1
        /\ \A i \in 1 .. Len(Tail(l.queue)) : Tail(l.queue)[i] = l.queue[i + 1]
        /\ DOMAIN l.queue = 1 .. Len(l.queue) /\ Len(l.queue) \in Nat \ {0}
        /\ DOMAIN Tail(l.queue) = 1 .. Len(Tail(l.queue))
        /\ Head(l.queue) = l.queue[1]
    BY <1>1, HeadTailProperties, LenProperties, EmptySeq
  <1>3. SemanticCap \in Nat
    BY DeliveryConstants
  <1> QED
    BY <1>2, <1>3 DEF LaneFormed

\* What recv returns, and the lane it leaves.
LEMMA ReceivedLane ==
    ASSUME NEW n \in Nat \ {0}, NEW l, LaneFormed(l, n), NEW r \in Received(l)
    PROVE  /\ LaneFormed(r.left, n)
           /\ Formed(r.taken, n) /\ r.taken.kind # "none"
           /\ Takes(l, r.taken, r.left)
  <1>0. /\ l \in Lane
        /\ l.queue \in Seq(Messages) /\ l.final \in Messages
        /\ l.held \in Messages /\ l.slot \in Messages
        /\ l.seen \in BOOLEAN /\ l.polled \in 0 .. 2
        /\ NoMessage \in Messages
    BY LaneFields, Kinds DEF LaneFormed, Formed
  <1>1. CASE l.held # NoMessage
    <2>1. r = SemanticBeforeFinal(l, l.held)
      BY <1>1 DEF Received
    <2>2. CASE l.queue = <<>>
      <3>1. r.taken = l.held /\ r.left = [l EXCEPT !.held = NoMessage]
        BY <2>1, <2>2 DEF SemanticBeforeFinal
      <3>2. /\ r.left \in Lane /\ r.left.queue = l.queue
            /\ r.left.final = l.final /\ r.left.held = NoMessage
            /\ r.left.slot = l.slot /\ r.left.seen = l.seen
        BY <1>0, <3>1 DEF Lane
      <3> QED
        BY <1>1, <2>2, <3>1, <3>2, Kinds
           DEF LaneFormed, Takes, Carries, OneFinal
    <2>3. CASE l.queue # <<>>
      <3>1. /\ r.taken = Head(l.queue)
            /\ r.left = [l EXCEPT !.queue = Tail(@), !.held = l.held]
        BY <2>1, <2>3 DEF SemanticBeforeFinal
      <3>2. /\ r.left \in Lane /\ r.left.queue = Tail(l.queue)
            /\ r.left.final = l.final /\ r.left.held = l.held
            /\ r.left.slot = l.slot /\ r.left.seen = l.seen
        <4>1. Tail(l.queue) \in Seq(Messages)
          BY <2>3, QueueHead
        <4> QED
          BY <1>0, <3>1, <4>1 DEF Lane
      <3> QED
        <4>1. LaneFormed(r.left, n)
          BY <1>1, <2>3, <3>1, <3>2, QueueHead DEF LaneFormed
        <4>2. Formed(r.taken, n) /\ r.taken.kind \in Semantic
          BY <1>1, <2>3, <3>1, <3>2, QueueHead
        <4>3. Takes(l, r.taken, r.left)
          BY <1>1, <2>3, <3>1, <3>2, <4>2 DEF Takes, Carries, OneFinal
        <4> QED
          BY <4>1, <4>2, <4>3, Kinds
    <2> QED
      BY <2>2, <2>3
  <1>2. CASE l.held = NoMessage /\ l.polled = 0 /\ l.queue # <<>>
    <2>1. /\ r.taken = Head(l.queue)
          /\ r.left = [l EXCEPT !.queue = Tail(@)]
      BY <1>2 DEF Received
    <2>2. /\ r.left \in Lane /\ r.left.queue = Tail(l.queue)
          /\ r.left.final = l.final /\ r.left.held = l.held
          /\ r.left.slot = l.slot /\ r.left.seen = l.seen
      <3>1. Tail(l.queue) \in Seq(Messages)
        BY <1>2, QueueHead
      <3> QED
        BY <1>0, <2>1, <3>1 DEF Lane
    <2> QED
      BY <1>2, <2>1, <2>2, Kinds, QueueHead
         DEF LaneFormed, Takes, Carries, OneFinal
  <1>3. CASE l.held = NoMessage /\ l.polled = 1 /\ l.final # NoMessage
    <2> DEFINE h == [l EXCEPT !.final = NoMessage, !.polled = 0]
    <2>1. r = SemanticBeforeFinal(h, l.final)
      BY <1>3 DEF Received
    <2>2. /\ h \in Lane /\ h.queue = l.queue /\ h.final = NoMessage
          /\ h.held = l.held /\ h.slot = l.slot /\ h.seen = l.seen
      BY <1>0, LaneRestarts
    <2> HIDE DEF h
    <2>3. CASE l.queue = <<>>
      <3>1. r.taken = l.final /\ r.left = [h EXCEPT !.held = NoMessage]
        BY <2>1, <2>2, <2>3 DEF SemanticBeforeFinal
      <3>2. /\ r.left \in Lane /\ r.left.queue = l.queue
            /\ r.left.final = NoMessage /\ r.left.held = NoMessage
            /\ r.left.slot = l.slot /\ r.left.seen = l.seen
        BY <1>0, <2>2, <3>1 DEF Lane
      <3> QED
        BY <1>3, <2>3, <3>1, <3>2, Kinds
           DEF LaneFormed, Takes, Carries, OneFinal
    <2>4. CASE l.queue # <<>>
      <3>1. /\ r.taken = Head(l.queue)
            /\ r.left = [h EXCEPT !.queue = Tail(@), !.held = l.final]
        BY <2>1, <2>2, <2>4 DEF SemanticBeforeFinal
      <3>2. /\ r.left \in Lane /\ r.left.queue = Tail(l.queue)
            /\ r.left.final = NoMessage /\ r.left.held = l.final
            /\ r.left.slot = l.slot /\ r.left.seen = l.seen
        <4>1. Tail(h.queue) \in Seq(Messages)
          BY <2>2, <2>4, QueueHead
        <4> QED
          BY <1>0, <2>2, <3>1, <4>1 DEF Lane
      <3> QED
        <4>1. LaneFormed(r.left, n)
          BY <1>3, <2>4, <3>1, <3>2, QueueHead DEF LaneFormed
        <4>2. Formed(r.taken, n) /\ r.taken.kind \in Semantic
          BY <1>3, <2>4, <3>1, <3>2, QueueHead
        <4>3. Takes(l, r.taken, r.left)
          BY <1>3, <2>4, <3>1, <3>2, <4>2 DEF Takes, Carries, OneFinal
        <4> QED
          BY <4>1, <4>2, <4>3, Kinds
    <2> QED
      BY <2>3, <2>4
  <1>4. CASE l.held = NoMessage /\ l.polled = 2 /\ ~l.seen
    <2> DEFINE h == [l EXCEPT !.seen = TRUE, !.polled = 0]
    <2>1. r.taken = l.slot /\ r.left = h
      BY <1>4 DEF Received
    <2>2. /\ h \in Lane /\ h.queue = l.queue /\ h.final = l.final
          /\ h.held = l.held /\ h.slot = l.slot /\ h.seen = TRUE
      BY <1>0, LaneRestarts
    <2> HIDE DEF h
    <2> QED
      BY <1>4, <2>1, <2>2, Kinds DEF LaneFormed, Takes
  <1> QED
    BY <1>1, <1>2, <1>3, <1>4 DEF Received

-----------------------------------------------------------------------------
(* The first layer: types, what messages there are, and that no input is     *)
(* lost while the attachment lasts.                                          *)

\* The inputs and the room for events.
Counted ==
    /\ media <= applied
    /\ applied + Count(events, {"input"}) + Count(up, {"input"}) <= sent.inputs
    /\ attached =>
          applied + Count(events, {"input"}) + Count(up, {"input"}) = sent.inputs
    /\ task # "closed" => Len(events) <= UpCap

Typed ==
    /\ TypeOK /\ Counted
    /\ LaneFormed(lane["host"], nextFrame) /\ LaneFormed(lane["client"], nextFrame)
    /\ Formed(writing, nextFrame)
    /\ writing # NoMessage => writing.kind # "none"
    /\ \A i \in DOMAIN wire :
          Formed(wire[i], nextFrame) /\ wire[i].kind # "none"

-----------------------------------------------------------------------------
(* What a step of the host may do *)

\* A request that is answered in the semantic queue.
Reply == Message("reply", NoFrame, NoFrame, NoSerial)
Replies(j) == [i \in 1 .. j |-> Reply]

\* The lane l takes j replies, and the message m unless it is none.
TakesIn(l, j, m, k) ==
    /\ k.queue = IF m.kind \in Semantic THEN Append(l.queue \o Replies(j), m)
                 ELSE l.queue \o Replies(j)
    /\ k.final = IF IsFinal(m) THEN m ELSE l.final
    /\ k.held = l.held
    /\ k.slot = IF IsVisual(m) THEN m ELSE l.slot
    /\ k.seen <=> l.seen /\ ~IsVisual(m)

\* The host sends that much to a client that is attached.
Effect(j, m) ==
    /\ lane' \in [{"host", "client"} -> Lane]
    /\ lane'["client"] = lane["client"]
    /\ LaneFormed(lane'["host"], nextFrame')
    /\ TakesIn(lane["host"], j, m, lane'["host"])
    /\ semantic' \in [accepted : Nat, received : Nat]
    /\ semantic'.accepted = semantic.accepted + j + One(m.kind \in Semantic)
    /\ semantic'.received = semantic.received
    /\ ended' \in BOOLEAN /\ attached' \in BOOLEAN
    /\ ended' <=> ended \/ IsFinal(m)
    /\ attached' => attached /\ ~IsFinal(m)
    /\ j # 0 \/ m # NoMessage => attached
    /\ m # NoMessage => task # "closed"
    /\ IsFinal(m) => lane["host"].final = NoMessage

\* The host published no frame; a change may wait for the refill to end.
Unpublished(j, m, last, barrier, mm) ==
    /\ UNCHANGED <<nextFrame, shows>>
    /\ j = 0 /\ m.kind \in {"none", "reply", "final"}
    /\ \/ UNCHANGED <<lastFrame, inputBarrier, media>>
       \/ lastFrame' = last /\ inputBarrier' = barrier /\ media' = mm

\* The host published a frame; without a message it broke off.
Published(j, m, last, barrier, mm) ==
    /\ nextFrame' = nextFrame + 1 /\ shows' = Append(shows, applied')
    /\ media' = 0 /\ j <= mm
    /\ m = NoMessage =>
          ~attached' /\ lastFrame' = last /\ inputBarrier' = barrier
    /\ m # NoMessage =>
          /\ attached' /\ lastFrame' = nextFrame /\ inputBarrier' = NoSerial
          /\ m.id = nextFrame
          /\ barrier # NoSerial => m.kind = "barrier"
          /\ barrier = NoSerial => m.kind \in {"frame", "damage"}
          /\ m.kind = "damage" =>
                m.base = last /\ last # NoFrame /\ ~VisualPending

\* A step that leaves last_frame, input_barrier and media_requests with these
\* values before it publishes.
HostMove(j, m, last, barrier, mm) ==
    /\ Effect(j, m)
    /\ \/ Unpublished(j, m, last, barrier, mm)
       \/ attached /\ Published(j, m, last, barrier, mm)

\* The host handles a request of kind k.
Serves(k) == events # <<>> /\ events' = Tail(events) /\ Head(events).kind = k

\* Everything a step of the host may do.
HostMoves ==
    /\ UNCHANGED <<client, taskVars, wire, up, readVars, clientVars>>
    /\ refilling' \in BOOLEAN /\ framePending' \in BOOLEAN
    /\ sent' \in [inputs : 0 .. MaxInputs, asks : 0 .. MaxAsks,
                  changes : 0 .. MaxChanges]
    /\ sent'.inputs = sent.inputs
    /\ \/ /\ events # <<>> /\ events' = Tail(events)
          /\ applied' = applied + One(attached /\ Head(events).kind = "input")
       \/ events' = events /\ applied' = applied
    /\ \E j \in Nat, m \in Messages, last \in 0 .. nextFrame - 1,
          barrier \in Int, mm \in Nat :
          /\ HostMove(j, m, last, barrier, mm)
          /\ last # lastFrame => Serves("resync")
          /\ barrier # inputBarrier =>
                attached /\ (Serves("barrier") \/ Serves("launch"))
          /\ mm # media =>
                mm = media + 1 /\ attached /\ Window /\ Serves("input")
          /\ m.kind = "reply" => Serves("ask") \/ Serves("launch")

\* The replies of a queue.
LEMMA ReplyQueue ==
    ASSUME NEW j \in Nat, NEW q \in Seq(Messages)
    PROVE  /\ Replies(j) \in Seq(Messages) /\ Len(Replies(j)) = j
           /\ Reply.kind = "reply" /\ Reply \in Messages /\ Reply.id = 0
           /\ q \o Replies(j) \in Seq(Messages)
           /\ Len(q \o Replies(j)) = Len(q) + j
           /\ \A i \in DOMAIN (q \o Replies(j)) :
                 \/ i \in DOMAIN q /\ (q \o Replies(j))[i] = q[i]
                 \/ i \notin DOMAIN q /\ (q \o Replies(j))[i] = Reply
           /\ DOMAIN q \subseteq DOMAIN (q \o Replies(j))
  <1>1. Reply \in Messages /\ Reply.kind = "reply" /\ Reply.id = 0
    BY DEF Reply, Message, Messages, NoFrame, NoSerial
  <1>2. \A k \in Nat : Replies(k) \in Seq(Messages) /\ Len(Replies(k)) = k
    <2> TAKE k \in Nat
    <2>1. Replies(k) \in Seq(Messages)
      BY <1>1, IsASeq DEF Replies
    <2>2. DOMAIN Replies(k) = 1 .. k
      BY DEF Replies
    <2> QED
      BY <2>1, <2>2, LenProperties
  <1>3. \A i \in 1 .. j : Replies(j)[i] = Reply
    BY DEF Replies
  <1>4. /\ q \o Replies(j) \in Seq(Messages)
        /\ Len(q \o Replies(j)) = Len(q) + j
        /\ \A i \in 1 .. Len(q) + j :
              (q \o Replies(j))[i] = IF i <= Len(q) THEN q[i]
                                     ELSE Replies(j)[i - Len(q)]
        /\ DOMAIN (q \o Replies(j)) = 1 .. Len(q) + j
        /\ DOMAIN q = 1 .. Len(q) /\ Len(q) \in Nat
    <2> DEFINE R == Replies(j)
    <2>1. R \in Seq(Messages) /\ Len(R) = j
      BY <1>2
    <2> HIDE DEF R
    <2>2. /\ q \o R \in Seq(Messages) /\ Len(q \o R) = Len(q) + Len(R)
          /\ \A i \in 1 .. Len(q) + Len(R) :
                (q \o R)[i] = IF i <= Len(q) THEN q[i] ELSE R[i - Len(q)]
      BY <2>1, ConcatProperties
    <2>3. DOMAIN (q \o R) = 1 .. Len(q \o R) /\ DOMAIN q = 1 .. Len(q)
          /\ Len(q) \in Nat
      BY <2>2, LenProperties
    <2>4. /\ q \o R \in Seq(Messages) /\ Len(q \o R) = Len(q) + j
          /\ \A i \in 1 .. Len(q) + j :
                (q \o R)[i] = IF i <= Len(q) THEN q[i] ELSE R[i - Len(q)]
          /\ DOMAIN (q \o R) = 1 .. Len(q) + j
      BY <2>1, <2>2, <2>3
    <2> QED
      BY <2>3, <2>4 DEF R
  <1>5. \A i \in 1 .. Len(q) + j : i > Len(q) => i - Len(q) \in 1 .. j
    BY <1>4
  <1>6. \A i \in 1 .. Len(q) + j :
           \/ i \in DOMAIN q /\ (q \o Replies(j))[i] = q[i]
           \/ i \notin DOMAIN q /\ (q \o Replies(j))[i] = Reply
    BY <1>3, <1>4, <1>5
  <1>8. DOMAIN q \subseteq 1 .. Len(q) + j
    BY <1>4
  <1> QED
    BY <1>1, <1>2, <1>4, <1>6, <1>8

\* No replies leave a queue as it is.
LEMMA NoReplies ==
    ASSUME NEW q \in Seq(Messages)
    PROVE  q \o Replies(0) = q
  <1>1. Replies(0) \in Seq(Messages) /\ Len(Replies(0)) = 0
    BY ReplyQueue
  <1>2. Replies(0) = <<>>
    BY <1>1, EmptySeq
  <1> QED
    BY <1>2, ConcatEmptySeq

\* The media actions that fit in are in the queue.
LEMMA WithMediaLane ==
    ASSUME NEW n \in Nat \ {0}, NEW l, LaneFormed(l, n),
           NEW j \in Nat, Len(l.queue) + j <= SemanticCap
    PROVE  LaneFormed(WithMedia(l, j), n) /\ TakesIn(l, j, NoMessage, WithMedia(l, j))
  <1>1. /\ l \in Lane /\ l.queue \in Seq(Messages) /\ l.final \in Messages
        /\ l.held \in Messages /\ l.slot \in Messages
        /\ l.seen \in BOOLEAN /\ l.polled \in 0 .. 2
    BY LaneFields DEF LaneFormed
  <1>2. WithMedia(l, j) = [l EXCEPT !.queue = l.queue \o Replies(j)]
    BY DEF WithMedia, Replies, Reply
  <1>3. /\ l.queue \o Replies(j) \in Seq(Messages)
        /\ Len(l.queue \o Replies(j)) <= SemanticCap
        /\ \A i \in DOMAIN (l.queue \o Replies(j)) :
              /\ (l.queue \o Replies(j))[i].kind \in Semantic
              /\ Formed((l.queue \o Replies(j))[i], n)
    <2>1. Reply.kind \in Semantic /\ Formed(Reply, n)
      BY DEF Reply, Message, Messages, Semantic, Formed, NoFrame, NoSerial
    <2>2. /\ l.queue \o Replies(j) \in Seq(Messages)
          /\ Len(l.queue \o Replies(j)) = Len(l.queue) + j
          /\ \A i \in DOMAIN (l.queue \o Replies(j)) :
                \/ i \in DOMAIN l.queue
                      /\ (l.queue \o Replies(j))[i] = l.queue[i]
                \/ (l.queue \o Replies(j))[i] = Reply
      BY <1>1, ReplyQueue
    <2>3. \A i \in DOMAIN l.queue :
             l.queue[i].kind \in Semantic /\ Formed(l.queue[i], n)
      BY DEF LaneFormed
    <2> DEFINE c == l.queue \o Replies(j)
    <2>4. \A i \in DOMAIN c : c[i].kind \in Semantic /\ Formed(c[i], n)
      <3> TAKE i \in DOMAIN c
      <3> QED
        BY <2>1, <2>2, <2>3
    <2> QED
      BY <2>2, <2>4
  <1>4. LET k == WithMedia(l, j)
        IN  /\ k \in Lane /\ k.queue = l.queue \o Replies(j)
            /\ k.final = l.final /\ k.held = l.held
            /\ k.slot = l.slot /\ k.seen = l.seen
    BY <1>1, <1>2, <1>3 DEF Lane
  <1>5. NoMessage.kind = "none"
    BY Kinds
  <1> QED
    BY <1>3, <1>4, <1>5 DEF LaneFormed, TakesIn, IsFinal, IsVisual, Semantic

\* Send after j replies: the message is taken, or the attachment ends.
LEMMA SendEffect ==
    ASSUME Typed, nextFrame' \in Nat, nextFrame <= nextFrame', attached,
           NEW j \in Nat, NEW l, LaneFormed(l, nextFrame'),
           TakesIn(lane["host"], j, NoMessage, l),
           NEW m, Formed(m, nextFrame'), m.kind # "none", Send(l, j, m)
    PROVE  /\ \/ /\ Effect(j, m) /\ m \in Messages /\ m # NoMessage
                 /\ attached' <=> ~IsFinal(m)
              \/ Effect(j, NoMessage) /\ ~attached'
  <1> DEFINE taken == task # "closed" /\ Accepts(l, m)
  <1>1. /\ nextFrame \in Nat \ {0} /\ nextFrame' \in Nat \ {0}
        /\ lane \in [{"host", "client"} -> Lane]
        /\ semantic \in [accepted : Nat, received : Nat]
        /\ ended \in BOOLEAN /\ m \in Messages /\ m # NoMessage
        /\ NoMessage \in Messages
    BY Kinds DEF Typed, TypeOK, Formed
  <1>2. /\ lane' = [lane EXCEPT !["host"] = IF taken THEN Put(l, m) ELSE l]
        /\ attached' = (taken /\ ~IsFinal(m))
        /\ semantic' = [semantic EXCEPT !.accepted =
              @ + j + (IF taken /\ ~IsVisual(m) /\ ~IsFinal(m) THEN 1 ELSE 0)]
        /\ ended' = (ended \/ (taken /\ IsFinal(m)))
    BY DEF Send
  <1>3. NoMessage.kind = "none" /\ ~IsVisual(NoMessage) /\ ~IsFinal(NoMessage)
        /\ NoMessage.kind \notin Semantic
    BY <1>1, Kinds DEF IsVisual, IsFinal, Semantic
  <1>4. /\ l.queue = lane["host"].queue \o Replies(j)
        /\ l.final = lane["host"].final /\ l.held = lane["host"].held
        /\ l.slot = lane["host"].slot /\ (l.seen <=> lane["host"].seen)
    BY <1>3 DEF TakesIn
  <1>5. (m.kind \in Semantic <=> ~IsVisual(m) /\ ~IsFinal(m))
    BY <1>1, Kinds
  <1>6. /\ semantic' \in [accepted : Nat, received : Nat]
        /\ semantic'.accepted = semantic.accepted + j
              + (IF taken /\ ~IsVisual(m) /\ ~IsFinal(m) THEN 1 ELSE 0)
        /\ semantic'.received = semantic.received
    BY <1>1, <1>2
  <1>7. CASE taken
    <2>1. /\ LaneFormed(Put(l, m), nextFrame')
          /\ Put(l, m).queue = IF m.kind \in Semantic THEN Append(l.queue, m)
                                ELSE l.queue
          /\ Put(l, m).final = IF IsFinal(m) THEN m ELSE l.final
          /\ Put(l, m).held = l.held
          /\ Put(l, m).slot = IF IsVisual(m) THEN m ELSE l.slot
          /\ Put(l, m).seen <=> l.seen /\ ~IsVisual(m)
          /\ IsFinal(m) => l.final = NoMessage
      BY <1>1, <1>7, PutLane
    <2>2. Put(l, m) \in Lane
      BY <2>1 DEF LaneFormed
    <2>3. /\ lane' \in [{"host", "client"} -> Lane]
          /\ lane'["client"] = lane["client"] /\ lane'["host"] = Put(l, m)
      BY <1>1, <1>2, <1>7, <2>2
    <2>4. TakesIn(lane["host"], j, m, lane'["host"])
      BY <1>4, <2>1, <2>3 DEF TakesIn
    <2>5. /\ attached' <=> ~IsFinal(m)
          /\ ended' <=> ended \/ IsFinal(m)
          /\ attached' \in BOOLEAN /\ ended' \in BOOLEAN
      BY <1>2, <1>7
    <2>6. semantic'.accepted = semantic.accepted + j + One(m.kind \in Semantic)
      BY <1>5, <1>6, <1>7 DEF One
    <2> QED
      BY <1>1, <1>4, <1>6, <1>7, <2>1, <2>3, <2>4, <2>5, <2>6 DEF Effect
  <1>8. CASE ~taken
    <2>1. /\ lane' \in [{"host", "client"} -> Lane]
          /\ lane'["client"] = lane["client"] /\ lane'["host"] = l
      BY <1>1, <1>2, <1>8 DEF LaneFormed
    <2>2. semantic'.accepted
             = semantic.accepted + j + One(NoMessage.kind \in Semantic)
      BY <1>1, <1>3, <1>6, <1>8 DEF One
    <2>3. /\ ~attached' /\ attached' \in BOOLEAN /\ ended' \in BOOLEAN
          /\ ended' <=> ended
      BY <1>1, <1>2, <1>8
    <2> QED
      BY <1>1, <1>3, <1>6, <2>1, <2>2, <2>3 DEF Effect
  <1> QED
    BY <1>7, <1>8

\* What the host's steps need to know of the variables.
HostTyped ==
    /\ nextFrame \in Nat \ {0} /\ applied \in Nat /\ shows \in Seq(Nat)
    /\ Len(shows) = nextFrame - 1
    /\ lane \in [{"host", "client"} -> Lane]
    /\ LaneFormed(lane["host"], nextFrame)
    /\ lane["host"].queue \in Seq(Messages)
    /\ Len(lane["host"].queue) \in Nat
    /\ Len(lane["host"].queue) <= SemanticCap
    /\ SemanticCap \in Nat \ {0} /\ UpCap \in Nat \ {0, 1}
    /\ semantic \in [accepted : Nat, received : Nat]
    /\ ended \in BOOLEAN /\ attached \in BOOLEAN
    /\ refilling \in BOOLEAN /\ framePending \in BOOLEAN
    /\ lastFrame \in 0 .. nextFrame - 1 /\ inputBarrier \in Int
    /\ media \in Nat /\ events \in Seq(Requests)
    /\ NoMessage \in Messages /\ NoMessage.kind = "none"
    /\ NoMessage.kind \notin Semantic /\ ~IsFinal(NoMessage)
    /\ ~IsVisual(NoMessage)

\* They follow from the first layer.
LEMMA HostTypes == Typed => HostTyped
  <1> SUFFICES ASSUME Typed PROVE HostTyped
    OBVIOUS
  <1>1. lane["host"].queue \in Seq(Messages)
    BY LaneFields DEF Typed, LaneFormed
  <1>2. media \in Nat
    BY DeliveryConstants DEF Typed, TypeOK
  <1>3. /\ NoMessage \in Messages /\ NoMessage.kind = "none"
        /\ NoMessage.kind \notin Semantic /\ ~IsFinal(NoMessage)
        /\ ~IsVisual(NoMessage)
    BY Kinds DEF Formed, IsFinal, IsVisual, Semantic
  <1>4. SemanticCap \in Nat \ {0} /\ UpCap \in Nat \ {0, 1}
    BY DeliveryConstants
  <1>5. Len(lane["host"].queue) \in Nat
    BY <1>1, LenProperties
  <1>6. Len(lane["host"].queue) <= SemanticCap
    BY DEF Typed, LaneFormed
  <1> QED
    BY <1>1, <1>2, <1>3, <1>4, <1>5, <1>6 DEF Typed, TypeOK, HostTyped

\* What changes by itself is counted.
LEMMA SentChanges ==
    ASSUME Typed
    PROVE  /\ sent \in [inputs : 0 .. MaxInputs, asks : 0 .. MaxAsks,
                        changes : 0 .. MaxChanges]
           /\ sent' = [sent EXCEPT !.changes = @ + 1] /\ sent.changes < MaxChanges
                 => /\ sent' \in [inputs : 0 .. MaxInputs, asks : 0 .. MaxAsks,
                                  changes : 0 .. MaxChanges]
                    /\ sent'.inputs = sent.inputs
  <1>1. MaxInputs \in Nat /\ MaxAsks \in Nat /\ MaxChanges \in Nat
    BY DeliveryConstants
  <1>2. sent \in [inputs : 0 .. MaxInputs, asks : 0 .. MaxAsks,
                  changes : 0 .. MaxChanges]
    BY DEF Typed, TypeOK
  <1>3. sent.changes < MaxChanges => sent.changes + 1 \in 0 .. MaxChanges
    BY <1>1, <1>2
  <1>4. ASSUME NEW c \in 0 .. MaxChanges
        PROVE  LET s == [sent EXCEPT !.changes = c]
               IN  /\ s \in [inputs : 0 .. MaxInputs, asks : 0 .. MaxAsks,
                              changes : 0 .. MaxChanges]
                   /\ s.inputs = sent.inputs
    BY <1>2
  <1> QED
    BY <1>2, <1>3, <1>4

\* A step that sends nothing has no effect on the lane.
LEMMA NoEffect ==
    ASSUME Typed, UNCHANGED <<nextFrame, lane, semantic, ended>>,
           attached' \in BOOLEAN, attached' => attached
    PROVE  Effect(0, NoMessage)
  <1> USE DEF HostTyped
  <1>1. HostTyped
    BY HostTypes
  <1>2. lane["host"].queue \o Replies(0) = lane["host"].queue
    BY <1>1, NoReplies
  <1>3. TakesIn(lane["host"], 0, NoMessage, lane'["host"])
    BY <1>1, <1>2 DEF TakesIn
  <1>4. semantic.accepted \in Nat
    BY <1>1
  <1> QED
    BY <1>1, <1>3, <1>4 DEF Effect, One

\* The response to a frame shows it.
LEMMA ResponseFormed ==
    ASSUME NEW n \in Nat \ {0}, NEW last \in 0 .. n - 1, NEW barrier \in Int,
           NEW whole \in BOOLEAN
    PROVE  LET m == Response(n, last, barrier, whole)
           IN  /\ Formed(m, n + 1) /\ m.id = n
               /\ barrier # NoSerial => m.kind = "barrier"
               /\ barrier = NoSerial => m.kind \in {"frame", "damage"}
               /\ m.kind = "damage" =>
                     m.base = last /\ last # NoFrame /\ ~VisualPending
  BY DEF Response, Message, Messages, Formed, NoFrame, NoSerial, VisualPending

\* publish_attached_frame is a step the host may take.
LEMMA PublishMove ==
    ASSUME Typed, applied' \in Nat,
           NEW last \in 0 .. nextFrame - 1, NEW barrier \in Int, NEW mm \in Nat,
           PublishAttachedFrame(last, barrier, mm, applied')
    PROVE  \E j \in Nat, m \in Messages :
              /\ HostMove(j, m, last, barrier, mm) /\ m.kind # "reply"
  <1>0. HostTyped
    BY HostTypes
  <1>3. /\ NoMessage \in Messages /\ NoMessage.kind = "none"
        /\ NoMessage.kind \notin Semantic /\ ~IsFinal(NoMessage)
    BY <1>0 DEF HostTyped
  <1>4. /\ SemanticCap \in Nat /\ Len(lane["host"].queue) \in Nat
        /\ Len(lane["host"].queue) <= SemanticCap
    BY <1>0 DEF HostTyped
  <1>5. nextFrame \in Nat \ {0} /\ LaneFormed(lane["host"], nextFrame)
    BY <1>0 DEF HostTyped
  <1>6. /\ semantic \in [accepted : Nat, received : Nat]
        /\ lane \in [{"host", "client"} -> Lane]
        /\ attached \in BOOLEAN /\ ended \in BOOLEAN
    BY <1>0 DEF HostTyped
  <1>1. CASE ~attached
    <2>1. UNCHANGED <<nextFrame, shows, lastFrame, inputBarrier, attached, media,
                      lane, semantic, ended>>
      BY <1>1 DEF PublishAttachedFrame
    <2>2. Effect(0, NoMessage)
      BY <1>6, <2>1, NoEffect
    <2>3. Unpublished(0, NoMessage, last, barrier, mm)
      BY <1>3, <2>1 DEF Unpublished
    <2> QED
      BY <1>3, <2>2, <2>3 DEF HostMove
  <1>2. CASE attached
    <2> DEFINE room == IF task = "closed" THEN 0
                       ELSE SemanticCap - Len(lane["host"].queue)
    <2>1. /\ nextFrame' = nextFrame + 1 /\ shows' = Append(shows, applied')
          /\ media' = 0
      BY <1>2 DEF PublishAttachedFrame
    <2>2. /\ nextFrame' \in Nat \ {0} /\ nextFrame <= nextFrame'
          /\ LaneFormed(lane["host"], nextFrame')
      BY <1>5, <2>1, StillFormed
    <2>3. room \in Nat /\ Len(lane["host"].queue) + room <= SemanticCap
      <3>1. CASE task = "closed"
        <4>1. room = 0
          BY <3>1
        <4> HIDE DEF room
        <4> QED
          BY <1>4, <4>1
      <3>2. CASE task # "closed"
        <4>1. room = SemanticCap - Len(lane["host"].queue)
          BY <3>2
        <4> HIDE DEF room
        <4> QED
          BY <1>4, <4>1
      <3> QED
        BY <3>1, <3>2
    <2>4. CASE mm > room
      <3>1. /\ attached' = FALSE
            /\ lane' = [lane EXCEPT !["host"] = WithMedia(@, room)]
            /\ semantic' = [semantic EXCEPT !.accepted = @ + room]
            /\ lastFrame' = last /\ inputBarrier' = barrier
            /\ ended' = ended
        BY <1>2, <2>4 DEF PublishAttachedFrame
      <3> HIDE DEF room
      <3>2. /\ LaneFormed(WithMedia(lane["host"], room), nextFrame')
            /\ TakesIn(lane["host"], room, NoMessage,
                       WithMedia(lane["host"], room))
        BY <2>2, <2>3, WithMediaLane
      <3>3. WithMedia(lane["host"], room) \in Lane
        BY <3>2 DEF LaneFormed
      <3>4. /\ lane' \in [{"host", "client"} -> Lane]
            /\ lane'["client"] = lane["client"]
            /\ lane'["host"] = WithMedia(lane["host"], room)
        BY <1>6, <3>1, <3>3
      <3>5. /\ semantic' \in [accepted : Nat, received : Nat]
            /\ semantic'.accepted = semantic.accepted + room
            /\ semantic'.received = semantic.received
        BY <1>6, <2>3, <3>1
      <3>6. semantic'.accepted
               = semantic.accepted + room + One(NoMessage.kind \in Semantic)
        BY <1>3, <1>6, <2>3, <3>5 DEF One
      <3>7. Effect(room, NoMessage)
        BY <1>2, <1>3, <1>6, <3>1, <3>2, <3>4, <3>5, <3>6 DEF Effect
      <3>8. Published(room, NoMessage, last, barrier, mm)
        BY <1>4, <2>1, <2>3, <2>4, <3>1 DEF Published
      <3> QED
        BY <1>3, <1>2, <2>3, <3>7, <3>8 DEF HostMove
    <2>5. CASE ~(mm > room)
      <3>1. PICK whole \in BOOLEAN :
               Send(WithMedia(lane["host"], mm), mm,
                    Response(nextFrame, last, barrier, whole))
        BY <1>2, <2>5 DEF PublishAttachedFrame
      <3>2. /\ lastFrame' = IF attached' THEN nextFrame ELSE last
            /\ inputBarrier' = IF attached' THEN NoSerial ELSE barrier
        BY <1>2, <2>5 DEF PublishAttachedFrame
      <3>3. mm <= room /\ Len(lane["host"].queue) + mm <= SemanticCap
        BY <1>4, <2>3, <2>5
      <3> HIDE DEF room
      <3>4. /\ LaneFormed(WithMedia(lane["host"], mm), nextFrame')
            /\ TakesIn(lane["host"], mm, NoMessage, WithMedia(lane["host"], mm))
        BY <2>2, <3>3, WithMediaLane
      <3> DEFINE m == Response(nextFrame, last, barrier, whole)
      <3>5. /\ Formed(m, nextFrame') /\ m.id = nextFrame
            /\ barrier # NoSerial => m.kind = "barrier"
            /\ barrier = NoSerial => m.kind \in {"frame", "damage"}
            /\ m.kind = "damage" =>
                  m.base = last /\ last # NoFrame /\ ~VisualPending
        BY <1>5, <2>1, ResponseFormed
      <3> HIDE DEF m
      <3>6. m.kind # "none" /\ ~IsFinal(m) /\ m.kind # "reply"
        BY <3>5 DEF IsFinal
      <3>7. Send(WithMedia(lane["host"], mm), mm, m)
        BY <3>1 DEF m
      <3>8. \/ Effect(mm, m) /\ m \in Messages /\ m # NoMessage /\ attached'
            \/ Effect(mm, NoMessage) /\ ~attached'
        BY <1>2, <1>5, <2>2, <3>4, <3>5, <3>6, <3>7, SendEffect
      <3>9. CASE Effect(mm, m) /\ m \in Messages /\ m # NoMessage /\ attached'
        <4>1. Published(mm, m, last, barrier, mm)
          BY <2>1, <3>2, <3>5, <3>9 DEF Published
        <4> QED
          BY <1>2, <3>6, <3>9, <4>1 DEF HostMove
      <3>10. CASE Effect(mm, NoMessage) /\ ~attached'
        <4>1. Published(mm, NoMessage, last, barrier, mm)
          BY <1>3, <2>1, <3>2, <3>10 DEF Published
        <4> QED
          BY <1>3, <1>2, <3>10, <4>1 DEF HostMove
      <3> QED
        BY <3>8, <3>9, <3>10
    <2> QED
      BY <2>4, <2>5
  <1> QED
    BY <1>1, <1>2

\* So is the end of a pass in which something changed.
LEMMA ChangedMove ==
    ASSUME Typed, applied' \in Nat,
           NEW last \in 0 .. nextFrame - 1, NEW barrier \in Int, NEW mm \in Nat,
           Changed(last, barrier, mm, applied')
    PROVE  /\ framePending' \in BOOLEAN
           /\ \E j \in Nat, m \in Messages :
                 HostMove(j, m, last, barrier, mm) /\ m.kind # "reply"
  <1>1. CASE refilling
    <2>1. /\ framePending' = TRUE
          /\ lastFrame' = last /\ inputBarrier' = barrier /\ media' = mm
          /\ UNCHANGED <<nextFrame, shows, attached, lane, semantic, ended>>
      BY <1>1 DEF Changed
    <2>3. attached \in BOOLEAN /\ NoMessage.kind = "none" /\ NoMessage \in Messages
      BY HostTypes DEF HostTyped
    <2>2. Effect(0, NoMessage)
      BY <2>1, <2>3, NoEffect
    <2>4. Unpublished(0, NoMessage, last, barrier, mm)
      BY <2>1, <2>3 DEF Unpublished
    <2> QED
      BY <2>1, <2>2, <2>3, <2>4 DEF HostMove
  <1>2. CASE ~refilling
    <2>1. PublishAttachedFrame(last, barrier, mm, applied') /\ framePending' = FALSE
      BY <1>2 DEF Changed
    <2> QED
      BY <2>1, PublishMove
  <1> QED
    BY <1>1, <1>2

\* So are an answer and the end of the attachment.
LEMMA SendMove ==
    ASSUME Typed, attached, NEW m \in Messages, m.kind \in {"reply", "final"},
           m.id = 0, Send(lane["host"], 0, m),
           UNCHANGED <<nextFrame, shows, lastFrame, inputBarrier, media>>
    PROVE  \E n \in {m, NoMessage} :
              HostMove(0, n, lastFrame, inputBarrier, media) /\ n \in Messages
  <1>0. HostTyped
    BY HostTypes
  <1>1. TakesIn(lane["host"], 0, NoMessage, lane["host"])
    <2>1. lane["host"].queue \o Replies(0) = lane["host"].queue
      BY <1>0, NoReplies DEF HostTyped
    <2> QED
      BY <1>0, <2>1 DEF HostTyped, TakesIn
  <1>2. Formed(m, nextFrame') /\ m.kind # "none"
    BY <1>0 DEF HostTyped, Formed
  <1>3. /\ nextFrame' = nextFrame /\ LaneFormed(lane["host"], nextFrame')
        /\ nextFrame' \in Nat /\ nextFrame <= nextFrame'
    BY <1>0 DEF HostTyped
  <1>4. \/ Effect(0, m) /\ m \in Messages
        \/ Effect(0, NoMessage)
    BY <1>1, <1>2, <1>3, SendEffect
  <1>6. \A n \in {m, NoMessage} :
           Unpublished(0, n, lastFrame, inputBarrier, media)
    BY <1>0 DEF HostTyped, Unpublished
  <1>7. NoMessage \in Messages
    BY <1>0 DEF HostTyped
  <1> QED
    BY <1>4, <1>6, <1>7 DEF HostMove

\* Every step of the host is one it may take.
LEMMA HostStepMoves ==
    ASSUME Typed, HostStep
    PROVE  HostMoves
  <1>0. /\ HostTyped
        /\ sent \in [inputs : 0 .. MaxInputs, asks : 0 .. MaxAsks,
                     changes : 0 .. MaxChanges]
    BY HostTypes, SentChanges
  <1> DEFINE Quiet == UNCHANGED <<client, taskVars, wire, up, readVars, clientVars>>
             Served == \/ /\ events # <<>> /\ events' = Tail(events)
                          /\ applied' = applied
                                + One(attached /\ Head(events).kind = "input")
                       \/ events' = events /\ applied' = applied
             Move(j, m, last, barrier, mm) ==
                /\ HostMove(j, m, last, barrier, mm)
                /\ last # lastFrame => Serves("resync")
                /\ barrier # inputBarrier =>
                      attached /\ (Serves("barrier") \/ Serves("launch"))
                /\ mm # media =>
                      mm = media + 1 /\ attached /\ Window /\ Serves("input")
                /\ m.kind = "reply" => Serves("ask") \/ Serves("launch")
  <1>10. /\ nextFrame \in Nat \ {0} /\ lastFrame \in 0 .. nextFrame - 1
        /\ inputBarrier \in Int /\ media \in Nat /\ applied \in Nat
        /\ NoMessage \in Messages /\ NoMessage.kind = "none"
    BY <1>0 DEF HostTyped
  <1>11. /\ refilling \in BOOLEAN /\ framePending \in BOOLEAN
        /\ attached \in BOOLEAN
    BY <1>0 DEF HostTyped
  <1>12. PICK la \in 0 .. nextFrame - 1, ba \in Int, mn \in Nat :
            la = lastFrame /\ ba = inputBarrier /\ mn = media
    BY <1>10
  <1>1. \A n \in {NoMessage, Message("final", NoFrame, NoFrame, NoSerial)} :
           n \in Messages /\ n.kind # "reply"
    BY <1>10 DEF Message, Messages, NoFrame, NoSerial
  <1>2. ASSUME DetachClient, attached
        PROVE  \E j \in Nat, m \in Messages, last \in 0 .. nextFrame - 1,
                  barrier \in Int, mm \in Nat : Move(j, m, last, barrier, mm)
    <2> DEFINE f == Message("final", NoFrame, NoFrame, NoSerial)
    <2>1. f \in Messages /\ f.kind = "final" /\ f.id = 0
      BY DEF Message, Messages, NoFrame, NoSerial
    <2>2. /\ Send(lane["host"], 0, f)
          /\ UNCHANGED <<nextFrame, shows, lastFrame, inputBarrier, media>>
      BY <1>2 DEF DetachClient
    <2>3. \A n \in {f, NoMessage} : n.kind # "reply"
      BY <1>1
    <2> HIDE DEF f
    <2>4. PICK n \in {f, NoMessage} :
             HostMove(0, n, lastFrame, inputBarrier, media) /\ n \in Messages
      BY <1>2, <2>1, <2>2, SendMove
    <2>5. Move(0, n, lastFrame, inputBarrier, media)
      BY <2>3, <2>4
    <2> HIDE DEF Move
    <2> QED
      BY <1>10, <2>4, <2>5
  <1>3. ASSUME NEW last \in 0 .. nextFrame - 1, NEW barrier \in Int,
               NEW mm \in Nat, applied' \in Nat, framePending' \in BOOLEAN,
               \E j \in Nat, m \in Messages :
                  HostMove(j, m, last, barrier, mm) /\ m.kind # "reply",
               last # lastFrame => Serves("resync"),
               barrier # inputBarrier =>
                  attached /\ (Serves("barrier") \/ Serves("launch")),
               mm # media =>
                  mm = media + 1 /\ attached /\ Window /\ Serves("input")
        PROVE  \E j \in Nat, m \in Messages, lf \in 0 .. nextFrame - 1,
                  ib \in Int, qm \in Nat : Move(j, m, lf, ib, qm)
    <2>1. PICK j \in Nat, m \in Messages :
             HostMove(j, m, last, barrier, mm) /\ m.kind # "reply"
      BY <1>3
    <2>2. Move(j, m, last, barrier, mm)
      BY <1>3, <2>1
    <2> HIDE DEF Move
    <2> QED
      BY <2>2
  <1>4. ASSUME UNCHANGED <<nextFrame, shows, lastFrame, inputBarrier, media, lane,
                           semantic, ended>>,
               attached' \in BOOLEAN, attached' => attached
        PROVE  \E j \in Nat, m \in Messages, lf \in 0 .. nextFrame - 1,
                  ib \in Int, qm \in Nat : Move(j, m, lf, ib, qm)
    <2>1. Effect(0, NoMessage)
      BY <1>4, NoEffect
    <2>3. Unpublished(0, NoMessage, lastFrame, inputBarrier, media)
      BY <1>4, <1>10 DEF Unpublished
    <2>4. Move(0, NoMessage, lastFrame, inputBarrier, media)
      BY <1>10, <2>1, <2>3 DEF HostMove
    <2> HIDE DEF Move
    <2> QED
      BY <1>10, <2>4
  <1> HIDE DEF Move
  <1>5. ASSUME SameClient, HandleRequest
        PROVE  HostMoves
    <2> DEFINE r == Head(events)
    <2>1. /\ events # <<>> /\ events' = Tail(events)
          /\ applied' = IF attached /\ r.kind = "input" THEN applied + 1 ELSE applied
          /\ UNCHANGED <<refilling, taskVars, wire, up, readVars, clientVars, sent>>
          /\ UNCHANGED client
      BY <1>5 DEF HandleRequest, SameClient
    <2>2. r \in Requests /\ r.serial \in Int
      <3>1. events \in Seq(Requests)
        BY <1>0 DEF HostTyped
      <3>2. r \in Requests
        BY <2>1, <3>1, HeadTailProperties
      <3> QED
        BY <3>2 DEF Requests
    <2>3. /\ applied' = applied + One(attached /\ r.kind = "input")
          /\ applied' \in Nat
      BY <1>10, <2>1 DEF One
    <2>4. Serves(r.kind)
      BY <2>1 DEF Serves
    <2> HIDE DEF r
    <2>5. /\ framePending' \in BOOLEAN
          /\ \E j \in Nat, m \in Messages, last \in 0 .. nextFrame - 1,
                barrier \in Int, mm \in Nat : Move(j, m, last, barrier, mm)
      <3>1. CASE ~attached
        <4>1. UNCHANGED <<nextFrame, shows, framePending, attached, lastFrame,
                          inputBarrier, media, lane, semantic, ended>>
          BY <1>5, <3>1 DEF HandleRequest
        <4> QED
          BY <1>4, <1>11, <4>1
      <3>2. CASE attached /\ r.kind = "input" /\ OnInput
        <4>1. CASE \E mm \in {media} \union
                                (IF Window THEN {media + 1} ELSE {}) :
                      Changed(lastFrame, inputBarrier, mm, applied + 1)
          <5>1. PICK mm \in Nat :
                   /\ Changed(lastFrame, inputBarrier, mm, applied')
                   /\ mm # media => mm = media + 1 /\ Window
            BY <1>10, <2>1, <3>2, <4>1
          <5>2. mm # media =>
                   mm = media + 1 /\ attached /\ Window /\ Serves("input")
            BY <2>4, <3>2, <5>1
          <5>3. Changed(la, ba, mm, applied')
            BY <1>12, <5>1 DEF Changed, PublishAttachedFrame, Send, Response
          <5>4. /\ framePending' \in BOOLEAN
                /\ \E j \in Nat, m \in Messages :
                      HostMove(j, m, la, ba, mm) /\ m.kind # "reply"
            BY <2>3, <5>3, ChangedMove
          <5> QED
            BY <1>3, <1>12, <2>3, <5>2, <5>4
        <4>2. CASE UNCHANGED <<nextFrame, shows, framePending, attached,
                               lastFrame, inputBarrier, media, lane, semantic,
                               ended>>
          BY <1>4, <1>11, <4>2
        <4> QED
          BY <3>2, <4>1, <4>2 DEF OnInput
      <3>3. CASE attached /\ r.kind = "barrier" /\ OnInputBarrier(r.serial)
        <4>1. attached /\ Serves("barrier")
          BY <2>4, <3>3
        <4>2. PICK serial \in Int : serial = r.serial
          BY <2>2
        <4>3. Changed(la, serial, mn, applied')
          BY <1>12, <2>1, <3>3, <4>2 DEF OnInputBarrier, Changed,
             PublishAttachedFrame, Send, Response
        <4>4. /\ framePending' \in BOOLEAN
              /\ \E j \in Nat, m \in Messages :
                    HostMove(j, m, la, serial, mn) /\ m.kind # "reply"
          BY <2>3, <4>3, ChangedMove
        <4> QED
          BY <1>3, <1>12, <2>3, <4>1, <4>4
      <3>4. CASE attached /\ r.kind = "resync" /\ OnResynchronize
        <4>1. Serves("resync") /\ NoFrame \in 0 .. nextFrame - 1
          BY <1>10, <2>4, <3>4 DEF NoFrame
        <4>2. Changed(NoFrame, ba, mn, applied')
          BY <1>12, <2>1, <3>4 DEF OnResynchronize, Changed,
             PublishAttachedFrame, Send, Response
        <4>3. /\ framePending' \in BOOLEAN
              /\ \E j \in Nat, m \in Messages :
                    HostMove(j, m, NoFrame, ba, mn) /\ m.kind # "reply"
          BY <2>3, <4>1, <4>2, ChangedMove
        <4> QED
          BY <1>3, <1>12, <2>3, <4>1, <4>3
      <3>5. CASE attached /\ r.kind = "launch" /\ OnLaunch
        <4>1. CASE Changed(lastFrame, 0, media, applied)
          <5>1. attached /\ Serves("launch") /\ 0 \in Int
            BY <2>4, <3>5
          <5>2. Changed(la, 0, mn, applied')
            BY <1>12, <2>1, <3>5, <4>1 DEF Changed, PublishAttachedFrame, Send, Response
          <5>3. /\ framePending' \in BOOLEAN
                /\ \E j \in Nat, m \in Messages :
                      HostMove(j, m, la, 0, mn) /\ m.kind # "reply"
            BY <2>3, <5>1, <5>2, ChangedMove
          <5> QED
            BY <1>3, <1>12, <2>3, <5>1, <5>3
        <4>2. CASE /\ Send(lane["host"], 0, Message("reply", NoFrame, NoFrame,
                                                    NoSerial))
                   /\ UNCHANGED <<nextFrame, shows, framePending, lastFrame,
                                  inputBarrier, media>>
          <5>1. Reply \in Messages /\ Reply.kind = "reply" /\ Reply.id = 0
            BY DEF Reply, Message, Messages, NoFrame, NoSerial
          <5>2. PICK n \in {Reply, NoMessage} :
                   /\ HostMove(0, n, lastFrame, inputBarrier, media)
                   /\ n \in Messages
            BY <3>5, <4>2, <5>1, SendMove DEF Reply
          <5>3. Serves("launch")
            BY <2>4, <3>5
          <5>4. Move(0, n, lastFrame, inputBarrier, media)
            BY <5>2, <5>3 DEF Move
          <5> QED
            BY <1>10, <1>11, <4>2, <5>2, <5>4
        <4> QED
          BY <3>5, <4>1, <4>2 DEF OnLaunch
      <3>6. CASE attached /\ r.kind = "ask" /\ OnAsk
        <4>1. /\ Send(lane["host"], 0, Reply)
              /\ UNCHANGED <<nextFrame, shows, framePending, lastFrame,
                             inputBarrier, media>>
          BY <3>6 DEF OnAsk, Reply
        <4>2. Reply \in Messages /\ Reply.kind = "reply" /\ Reply.id = 0
          BY DEF Reply, Message, Messages, NoFrame, NoSerial
        <4>3. PICK n \in {Reply, NoMessage} :
                 HostMove(0, n, lastFrame, inputBarrier, media) /\ n \in Messages
          BY <3>6, <4>1, <4>2, SendMove
        <4>4. Serves("ask")
          BY <2>4, <3>6
        <4>5. Move(0, n, lastFrame, inputBarrier, media)
          BY <4>3, <4>4 DEF Move
        <4> QED
          BY <1>10, <1>11, <4>1, <4>3, <4>5
      <3>7. CASE attached /\ r.kind = "detach" /\ DetachClient
        <4>1. UNCHANGED framePending
          BY <3>7 DEF DetachClient
        <4> QED
          BY <1>2, <1>11, <3>7, <4>1
      <3>8. CASE attached /\ r.kind = "gone" /\ OnDisconnected
        <4>1. /\ attached' = FALSE
              /\ UNCHANGED <<nextFrame, shows, framePending, lastFrame,
                             inputBarrier, media, lane, semantic, ended>>
          BY <3>8 DEF OnDisconnected
        <4> QED
          BY <1>4, <1>11, <4>1
      <3> QED
        BY <1>5, <3>1, <3>2, <3>3, <3>4, <3>5, <3>6, <3>7, <3>8
           DEF HandleRequest, r
    <2> QED
      BY <1>0, <1>11, <2>1, <2>3, <2>5 DEF HostMoves, Move, r
  <1>6. ASSUME SameClient, RefillEnds
        PROVE  HostMoves
    <2>1. /\ refilling' = FALSE /\ framePending' = FALSE
          /\ PublishAttachedFrame(lastFrame, inputBarrier, media, applied')
          /\ UNCHANGED <<applied, taskVars, wire, up, events, readVars,
                         clientVars, sent, client>>
      BY <1>6 DEF RefillEnds, SameClient
    <2>2. applied' \in Nat /\ framePending' \in BOOLEAN
      BY <1>10, <2>1
    <2>5. PublishAttachedFrame(la, ba, mn, applied')
      BY <1>12, <2>1 DEF PublishAttachedFrame, Send, Response
    <2>3. \E j \in Nat, m \in Messages :
             HostMove(j, m, la, ba, mn) /\ m.kind # "reply"
      BY <2>2, <2>5, PublishMove
    <2>4. \E j \in Nat, m \in Messages, last \in 0 .. nextFrame - 1,
             barrier \in Int, mm \in Nat : Move(j, m, last, barrier, mm)
      BY <1>3, <1>12, <2>2, <2>3
    <2> QED
      BY <1>0, <2>1, <2>2, <2>4 DEF HostMoves, Move
  <1>7. ASSUME SameClient, HostChanges
        PROVE  HostMoves
    <2>1. /\ sent' = [sent EXCEPT !.changes = @ + 1] /\ sent.changes < MaxChanges
          /\ Changed(lastFrame, inputBarrier, media, applied')
          /\ UNCHANGED <<applied, refilling, taskVars, wire, up, events, readVars,
                         clientVars, client>>
      BY <1>7 DEF HostChanges, SameClient
    <2>2. applied' \in Nat
      BY <1>10, <2>1
    <2>6. Changed(la, ba, mn, applied')
      BY <1>12, <2>1 DEF Changed, PublishAttachedFrame, Send, Response
    <2>3. /\ framePending' \in BOOLEAN
          /\ \E j \in Nat, m \in Messages :
                HostMove(j, m, la, ba, mn) /\ m.kind # "reply"
      BY <2>2, <2>6, ChangedMove
    <2>4. \E j \in Nat, m \in Messages, last \in 0 .. nextFrame - 1,
             barrier \in Int, mm \in Nat : Move(j, m, last, barrier, mm)
      BY <1>3, <1>12, <2>2, <2>3
    <2>5. /\ sent' \in [inputs : 0 .. MaxInputs, asks : 0 .. MaxAsks,
                        changes : 0 .. MaxChanges]
          /\ sent'.inputs = sent.inputs
      BY <2>1, SentChanges
    <2> QED
      BY <1>11, <2>1, <2>3, <2>4, <2>5 DEF HostMoves, Move
  <1>8. ASSUME SameClient, RefillBegins
        PROVE  HostMoves
    <2>1. /\ sent' = [sent EXCEPT !.changes = @ + 1] /\ sent.changes < MaxChanges
          /\ refilling' = TRUE /\ framePending' = TRUE
          /\ UNCHANGED <<nextFrame, applied, shows, attached, lastFrame,
                         inputBarrier, media, lane, taskVars, wire, up, events,
                         readVars, clientVars, semantic, ended, client>>
      BY <1>8 DEF RefillBegins, SameClient
    <2>2. \E j \in Nat, m \in Messages, last \in 0 .. nextFrame - 1,
             barrier \in Int, mm \in Nat : Move(j, m, last, barrier, mm)
      BY <1>4, <1>11, <2>1
    <2>3. /\ sent' \in [inputs : 0 .. MaxInputs, asks : 0 .. MaxAsks,
                        changes : 0 .. MaxChanges]
          /\ sent'.inputs = sent.inputs
      BY <2>1, SentChanges
    <2> QED
      BY <2>1, <2>2, <2>3 DEF HostMoves, Move
  <1>9. ASSUME SameClient, HostEnds
        PROVE  HostMoves
    <2>1. /\ attached /\ DetachClient /\ UNCHANGED framePending
          /\ UNCHANGED <<applied, refilling, taskVars, wire, up, events, readVars,
                         clientVars, sent, client>>
      BY <1>9 DEF HostEnds, SameClient, DetachClient
    <2>2. \E j \in Nat, m \in Messages, last \in 0 .. nextFrame - 1,
             barrier \in Int, mm \in Nat : Move(j, m, last, barrier, mm)
      BY <1>2, <2>1
    <2> QED
      BY <1>0, <1>11, <2>1, <2>2 DEF HostMoves, Move
  <1> QED
    BY <1>5, <1>6, <1>7, <1>8, <1>9 DEF HostStep, HostHandles, HostRefills, HostActs

-----------------------------------------------------------------------------
(* The first layer holds throughout *)

\* An update of one lane leaves both formed.
LEMMA LaneUpdate ==
    ASSUME Typed, nextFrame' = nextFrame, NEW k \in {"host", "client"},
           NEW l, LaneFormed(l, nextFrame), lane' = [lane EXCEPT ![k] = l]
    PROVE  /\ lane' \in [{"host", "client"} -> Lane]
           /\ lane'[k] = l
           /\ \A o \in {"host", "client"} \ {k} : lane'[o] = lane[o]
           /\ LaneFormed(lane'["host"], nextFrame')
           /\ LaneFormed(lane'["client"], nextFrame')
  <1>1. lane \in [{"host", "client"} -> Lane] /\ l \in Lane
    BY DEF Typed, TypeOK, LaneFormed
  <1>2. lane' \in [{"host", "client"} -> Lane] /\ lane'[k] = l
        /\ \A o \in {"host", "client"} \ {k} : lane'[o] = lane[o]
    BY <1>1
  <1> QED
    BY <1>2 DEF Typed

\* What is below a number is below every greater one.
LEMMA RangeGrows ==
    ASSUME NEW a \in Nat, NEW b \in Nat, a <= b
    PROVE  \A x \in 0 .. a - 1 : x \in 0 .. b - 1
  OBVIOUS

\* The lane that only its queue's head leaves, or that starts polling again.
LEMMA LaneParts ==
    ASSUME NEW n \in Nat \ {0}, NEW l, LaneFormed(l, n)
    PROVE  /\ l.queue # <<>> => LaneFormed([l EXCEPT !.queue = Tail(@)], n)
           /\ \A p \in 0 .. 2 : /\ LaneFormed([l EXCEPT !.polled = p], n)
                                /\ Still(l, [l EXCEPT !.polled = p])
           /\ l.queue # <<>> =>
                 /\ [l EXCEPT !.queue = Tail(@)].queue = Tail(l.queue)
                 /\ [l EXCEPT !.queue = Tail(@)].final = l.final
                 /\ [l EXCEPT !.queue = Tail(@)].held = l.held
                 /\ [l EXCEPT !.queue = Tail(@)].slot = l.slot
                 /\ [l EXCEPT !.queue = Tail(@)].seen = l.seen
  <1>1. /\ l \in Lane
        /\ l.queue \in Seq(Messages) /\ l.final \in Messages
        /\ l.held \in Messages /\ l.slot \in Messages
        /\ l.seen \in BOOLEAN /\ l.polled \in 0 .. 2
    BY LaneFields DEF LaneFormed
  <1>2. ASSUME NEW q \in Seq(Messages), NEW k, k = [l EXCEPT !.queue = q]
        PROVE  /\ k \in Lane /\ k.queue = q /\ k.final = l.final
               /\ k.held = l.held /\ k.slot = l.slot /\ k.seen = l.seen
    BY <1>1, <1>2 DEF Lane
  <1>3. ASSUME NEW p \in 0 .. 2, NEW k, k = [l EXCEPT !.polled = p]
        PROVE  LaneFormed(k, n) /\ Still(l, k)
    BY <1>1, <1>3 DEF Lane, LaneFormed, Still
  <1>4. ASSUME l.queue # <<>>, NEW k, k = [l EXCEPT !.queue = Tail(@)]
        PROVE  /\ LaneFormed(k, n) /\ k.queue = Tail(l.queue)
               /\ k.final = l.final
               /\ k.held = l.held /\ k.slot = l.slot /\ k.seen = l.seen
    <2> DEFINE q == Tail(l.queue)
    <2>1. /\ q \in Seq(Messages) /\ Len(q) <= SemanticCap
          /\ \A i \in DOMAIN q : q[i].kind \in Semantic /\ Formed(q[i], n)
      BY <1>4, QueueHead
    <2>2. k = [l EXCEPT !.queue = q]
      BY <1>4
    <2> HIDE DEF q
    <2>3. /\ k \in Lane /\ k.queue = q /\ k.final = l.final
          /\ k.held = l.held /\ k.slot = l.slot /\ k.seen = l.seen
      BY <1>2, <2>1, <2>2
    <2>4. LaneFormed(k, n)
      BY <2>1, <2>3 DEF LaneFormed
    <2> QED
      BY <2>3, <2>4 DEF q
  <1> QED
    BY <1>3, <1>4

\* It holds when the client has just connected.
LEMMA TypedInit == Init => Typed
  <1> SUFFICES ASSUME Init PROVE Typed
    OBVIOUS
  <1> DEFINE w == Message("welcome", NoFrame, NoFrame, NoSerial)
             f == Message("frame", 1, NoFrame, NoSerial)
             wl == Put(EmptyLane, w)
  <1>1. /\ Formed(w, 1) /\ Formed(w, 2) /\ Formed(f, 2)
        /\ w.kind = "welcome" /\ f.kind = "frame"
    BY DEF Formed, Message, Messages, NoFrame, NoSerial
  <1>2. \A n \in Nat \ {0} : LaneFormed(EmptyLane, n)
    <2> TAKE n \in Nat \ {0}
    <2>1. Formed(NoMessage, n) /\ NoMessage \in Messages
      BY Kinds DEF Formed
    <2>2. EmptyLane \in Lane
      BY <2>1 DEF EmptyLane, Lane
    <2> QED
      BY <2>1, <2>2, DeliveryConstants DEF LaneFormed, EmptyLane
  <1>3. Accepts(EmptyLane, w)
    BY <1>1, DeliveryConstants DEF Accepts, EmptyLane, IsVisual, IsFinal
  <1> HIDE DEF w, f
  <1>4. LaneFormed(wl, 1) /\ LaneFormed(wl, 2)
    BY <1>1, <1>2, <1>3, PutLane
  <1>5. Accepts(wl, f) /\ f.kind # "none"
    BY <1>1 DEF Accepts, IsVisual
  <1>6. LaneFormed(Put(wl, f), 2)
    <2> HIDE DEF wl
    <2> QED
      BY <1>1, <1>4, <1>5, PutLane
  <1> HIDE DEF wl
  <1>7. /\ nextFrame = IF refilling THEN 1 ELSE 2
        /\ refilling \in BOOLEAN
        /\ lane["client"] = EmptyLane
        /\ lane["host"] = IF refilling THEN wl ELSE Put(wl, f)
        /\ lane \in [{"host", "client"} -> {EmptyLane, wl, Put(wl, f)}]
    BY DEF Init, w, f, wl
  <1>8. /\ LaneFormed(lane["host"], nextFrame)
        /\ LaneFormed(lane["client"], nextFrame)
    BY <1>2, <1>4, <1>6, <1>7
  <1>9. lane \in [{"host", "client"} -> Lane]
    <2>1. {EmptyLane, wl, Put(wl, f)} \subseteq Lane
      BY <1>2, <1>4, <1>6 DEF LaneFormed
    <2> QED
      BY <1>7, <2>1
  <1>10. /\ Len(<<>>) = 0 /\ \A S : <<>> \in Seq(S)
         /\ \A K : Count(<<>>, K) = 0
    <2>1. Len(<<>>) = 0 /\ \A S : <<>> \in Seq(S)
      OBVIOUS
    <2>2. \A K : Count(<<>>, K) = 0
      <3> TAKE K
      <3>1. {i \in DOMAIN <<>> : <<>>[i].kind \in K} = {}
        OBVIOUS
      <3> QED
        BY <3>1, FS_EmptySet DEF Count
    <2> QED
      BY <2>1, <2>2
  <1>11. TypeOK
    <2>1. Formed(NoMessage, 1)
      BY Kinds
    <2>2. shows \in Seq(Nat) /\ Len(shows) = nextFrame - 1
      BY <1>7 DEF Init
    <2>3. /\ MaxInputs \in Nat /\ MaxAsks \in Nat /\ MaxChanges \in Nat
          /\ WireCap \in Nat /\ UpCap \in Nat
      BY DeliveryConstants
    <2>4. \A k \in {"host", "client"} : Len(lane[k].queue) <= SemanticCap
      BY <1>8 DEF LaneFormed
    <2>5. /\ client \in Clients /\ applied = 0 /\ attached = TRUE
          /\ refilling \in BOOLEAN /\ framePending = refilling
          /\ reading = TRUE /\ ended = FALSE
          /\ lastFrame = nextFrame - 1 /\ inputBarrier = NoSerial
          /\ awaiting = NoSerial /\ media = 0 /\ delivered = 0
          /\ task = "handshake" /\ writing = NoMessage /\ wire = <<>>
          /\ up = <<>> /\ events = <<>> /\ latest = 0 /\ phase = "handshake"
          /\ current = 0 /\ covers = 0
      BY DEF Init, NoFrame
    <2>6. /\ sent = [inputs |-> 0, asks |-> 0, changes |-> 0]
          /\ semantic = [accepted |-> 1, received |-> 0]
      BY DEF Init
    <2>7. NoSerial \in Int /\ NoMessage \in Messages
      BY <2>1 DEF NoSerial, Formed
    <2>8. /\ sent \in [inputs : 0 .. MaxInputs, asks : 0 .. MaxAsks,
                         changes : 0 .. MaxChanges]
          /\ semantic \in [accepted : Nat, received : Nat]
      BY <2>3, <2>6
    <2>9. /\ wire \in Seq(Messages) /\ Len(wire) <= WireCap
          /\ up \in Seq(Requests) /\ events \in Seq(Requests)
          /\ Len(up) <= UpCap /\ Len(events) <= UpCap + 1
      BY <1>10, <2>3, <2>5
    <2>11. nextFrame \in {1, 2}
      BY <1>7
    <2>12. 0 \in 0 .. nextFrame - 1 /\ nextFrame - 1 \in 0 .. nextFrame - 1
      BY <2>11
    <2>10. /\ nextFrame \in Nat \ {0} /\ applied \in Nat
           /\ lastFrame \in 0 .. nextFrame - 1
           /\ media \in 0 .. MaxInputs /\ delivered \in 0 .. nextFrame - 1
           /\ latest \in 0 .. nextFrame - 1 /\ current \in 0 .. nextFrame - 1
           /\ covers \in 0 .. MaxInputs
      BY <2>3, <2>5, <2>11, <2>12
    <2>13. {refilling, framePending, attached, reading, ended} \subseteq BOOLEAN
      BY <2>5, Zenon
    <2> QED
      BY <1>9, <2>2, <2>4, <2>5, <2>7, <2>8, <2>9, <2>10, <2>13 DEF TypeOK
  <1>12. Counted
    <2>1. UpCap \in Nat
      BY DeliveryConstants
    <2> QED
      BY <1>10, <2>1 DEF Init, Counted
  <1> QED
    BY <1>7, <1>8, <1>11, <1>12, Kinds DEF Init, Typed

\* The host's steps keep it.
LEMMA HostKeepsTyped == Typed /\ HostStep => Typed'
  <1> SUFFICES ASSUME Typed, HostStep PROVE Typed'
    OBVIOUS
  <1>1. HostTyped /\ HostMoves
    BY HostTypes, HostStepMoves
  <1>2. PICK j \in Nat, m \in Messages, last \in 0 .. nextFrame - 1,
             barrier \in Int, mm \in Nat :
          /\ HostMove(j, m, last, barrier, mm)
          /\ mm # media =>
                mm = media + 1 /\ attached /\ Serves("input")
    BY <1>1 DEF HostMoves
  <1>3. Effect(j, m)
    BY <1>2 DEF HostMove
  <1>4. /\ nextFrame' \in Nat \ {0} /\ nextFrame <= nextFrame'
        /\ shows' \in Seq(Nat) /\ Len(shows') = nextFrame' - 1
        /\ lastFrame' \in 0 .. nextFrame' - 1 /\ inputBarrier' \in Int
        /\ media' \in Nat /\ (media' <= media \/ media' = mm)
        /\ applied' \in Nat
    <2>1. /\ nextFrame \in Nat \ {0} /\ shows \in Seq(Nat)
          /\ Len(shows) = nextFrame - 1 /\ applied \in Nat
          /\ lastFrame \in 0 .. nextFrame - 1 /\ inputBarrier \in Int
          /\ media \in Nat /\ NoSerial \in Int
      BY <1>1 DEF HostTyped, NoSerial
    <2>2. applied' \in Nat
      BY <1>1, <2>1 DEF HostMoves, One
    <2>3. CASE Unpublished(j, m, last, barrier, mm)
      BY <2>1, <2>2, <2>3 DEF Unpublished
    <2>4. CASE Published(j, m, last, barrier, mm)
      <3>1. /\ nextFrame' = nextFrame + 1 /\ shows' = Append(shows, applied')
            /\ media' = 0 /\ lastFrame' \in {last, nextFrame}
            /\ inputBarrier' \in {barrier, NoSerial}
        BY <2>4 DEF Published
      <3>2. shows' \in Seq(Nat) /\ Len(shows') = Len(shows) + 1
        BY <2>1, <2>2, <3>1
      <3> QED
        BY <2>1, <2>2, <3>1, <3>2
    <2> QED
      BY <1>2, <2>3, <2>4 DEF HostMove
  <1>5. /\ LaneFormed(lane'["host"], nextFrame')
        /\ LaneFormed(lane'["client"], nextFrame')
        /\ lane' \in [{"host", "client"} -> Lane]
    <2>1. LaneFormed(lane["client"], nextFrame) /\ nextFrame \in Nat
      BY <1>1 DEF Typed, HostTyped
    <2> QED
      BY <1>3, <1>4, <2>1, StillFormed DEF Effect
  <1>6. /\ UNCHANGED <<client, delivered, task, writing, wire, up, reading,
                       latest, phase, current, awaiting, covers>>
        /\ sent' \in [inputs : 0 .. MaxInputs, asks : 0 .. MaxAsks,
                      changes : 0 .. MaxChanges]
        /\ sent'.inputs = sent.inputs
        /\ {refilling, framePending}' \subseteq BOOLEAN
    BY <1>1 DEF HostMoves, taskVars, readVars, clientVars
  <1>7. /\ events' \in Seq(Requests) /\ Len(events') <= Len(events)
        /\ Len(events) \in Nat /\ Len(events') \in Nat
        /\ events # <<>> => Tail(events) # events
    <2>1. events \in Seq(Requests)
      BY <1>1 DEF HostTyped
    <2>2. events # <<>> => /\ Tail(events) \in Seq(Requests)
                           /\ Len(Tail(events)) = Len(events) - 1
      BY <2>1, HeadTailProperties
    <2>3. Len(events) \in Nat
      BY <2>1, LenProperties
    <2>4. events' = events \/ (events # <<>> /\ events' = Tail(events))
      BY <1>1 DEF HostMoves
    <2>5. events' \in Seq(Requests) /\ Len(events') <= Len(events)
      BY <2>1, <2>2, <2>3, <2>4
    <2>6. Len(events') \in Nat
      BY <2>5, LenProperties
    <2> QED
      BY <2>2, <2>3, <2>5, <2>6
  <1>8. /\ applied' + Count(events', {"input"}) <= applied + Count(events, {"input"})
        /\ attached => applied' + Count(events', {"input"})
                         = applied + Count(events, {"input"})
        /\ media' <= applied'
    <2>1. /\ events \in Seq(Requests) /\ applied \in Nat /\ media \in Nat
          /\ Count(events, {"input"}) \in Nat
      BY <1>1, CountNat DEF HostTyped
    <2>2. media <= applied
      BY DEF Typed, Counted
    <2>3. CASE events' = events /\ applied' = applied
      <3>1. ~Serves("input")
        BY <1>7, <2>3 DEF Serves
      <3>2. mm = media
        BY <1>2, <3>1
      <3>3. media' <= media
        BY <1>4, <2>1, <3>2
      <3> QED
        BY <1>4, <2>1, <2>2, <2>3, <3>3
    <2>4. CASE /\ events # <<>> /\ events' = Tail(events)
               /\ applied' = applied + One(attached /\ Head(events).kind = "input")
      <3>1. /\ Count(events, {"input"})
                  = One(Head(events).kind \in {"input"}) + Count(events', {"input"})
            /\ Count(events', {"input"}) \in Nat
        BY <1>7, <2>1, <2>4, CountTail, CountNat
      <3>2. mm # media => mm = media + 1 /\ applied' = applied + 1
        BY <1>2, <2>4 DEF Serves, One
      <3>3. /\ applied' = applied
                  \/ applied' = applied + One(Head(events).kind \in {"input"})
            /\ attached => applied' = applied + One(Head(events).kind \in {"input"})
            /\ One(Head(events).kind \in {"input"}) \in {0, 1}
            /\ applied <= applied'
        BY <2>1, <2>4 DEF One
      <3>4. media' <= applied'
        BY <1>4, <2>1, <2>2, <3>2, <3>3
      <3>5. PICK c \in Nat, d \in Nat, o \in {0, 1} :
               /\ c = Count(events, {"input"}) /\ d = Count(events', {"input"})
               /\ o = One(Head(events).kind \in {"input"})
        BY <2>1, <3>1, <3>3
      <3>6. /\ applied' + d <= applied + c
            /\ attached => applied' + d = applied + c
        BY <2>1, <3>1, <3>3, <3>5
      <3> QED
        BY <3>4, <3>5, <3>6
    <2> QED
      BY <1>1, <2>3, <2>4 DEF HostMoves
  <1>9. Counted'
    <2>1. /\ Count(events, {"input"}) \in Nat /\ Count(events', {"input"}) \in Nat
          /\ Count(up, {"input"}) \in Nat
      BY <1>7, CountNat DEF Typed, TypeOK
    <2>2. attached' => attached
      BY <1>3 DEF Effect
    <2>3. applied \in Nat /\ UpCap \in Nat
      BY <1>1 DEF HostTyped
    <2>4. /\ applied + Count(events, {"input"}) + Count(up, {"input"}) <= sent.inputs
          /\ attached =>
                applied + Count(events, {"input"}) + Count(up, {"input"})
                   = sent.inputs
          /\ task # "closed" => Len(events) <= UpCap
          /\ sent.inputs \in Int
      BY DEF Typed, Counted, TypeOK
    <2>5. PICK c \in Nat, d \in Nat, u \in Nat :
             /\ c = Count(events, {"input"}) /\ d = Count(events', {"input"})
             /\ u = Count(up, {"input"})
      BY <2>1
    <2>6. Count(up', {"input"}) = u
      BY <1>6, <2>5
    <2>9. /\ applied' \in Nat /\ applied' + d <= applied + c
          /\ attached => applied' + d = applied + c
      BY <1>4, <1>8, <2>5
    <2>10. /\ applied + c + u <= sent.inputs
           /\ attached => applied + c + u = sent.inputs
           /\ sent.inputs \in Int /\ sent'.inputs = sent.inputs
      BY <1>6, <2>4, <2>5
    <2>7. applied' + d + u <= sent'.inputs
      <3>1. PICK a \in Nat, b \in Nat, s \in Int :
               a = applied' /\ b = applied /\ s = sent.inputs
        BY <2>3, <2>9, <2>10
      <3>2. a + d <= b + c /\ b + c + u <= s /\ sent'.inputs = s
        BY <2>9, <2>10, <3>1, Zenon
      <3>3. a + d + u <= s
        BY <3>2
      <3> QED
        BY <3>1, <3>2, <3>3, Zenon
    <2>11. ASSUME attached' PROVE applied' + d + u = sent'.inputs
      <3>1. applied' + d = applied + c /\ applied + c + u = sent.inputs
        BY <2>2, <2>9, <2>10, <2>11
      <3> QED
        BY <2>3, <2>9, <2>10, <3>1
    <2>8. task' # "closed" => Len(events') <= UpCap
      BY <1>6, <1>7, <2>3, <2>4
    <2> QED
      BY <1>8, <2>5, <2>6, <2>7, <2>8, <2>11 DEF Counted
  <1>10. media' \in 0 .. MaxInputs
    <2>1. Count(events', {"input"}) \in Nat /\ Count(up, {"input"}) \in Nat
          /\ up' = up
      BY <1>6, <1>7, CountNat DEF Typed, TypeOK
    <2>2. /\ applied' + Count(events', {"input"}) + Count(up, {"input"})
                <= sent'.inputs
          /\ media' <= applied'
      BY <1>6, <1>9 DEF Counted
    <2>3. sent'.inputs \in 0 .. MaxInputs /\ MaxInputs \in Nat
      BY <1>6, DeliveryConstants
    <2> QED
      BY <1>4, <2>1, <2>2, <2>3, SMTT(60)
  <1>11. TypeOK'
    <2>1. /\ semantic' \in [accepted : Nat, received : Nat]
          /\ ended' \in BOOLEAN /\ attached' \in BOOLEAN
      BY <1>3 DEF Effect
    <2>2. \A k \in {"host", "client"} : Len(lane'[k].queue) <= SemanticCap
      BY <1>5 DEF LaneFormed
    <2>3. Len(events') <= UpCap + 1
      <3>1. UpCap \in Nat /\ Len(events) <= UpCap + 1
        BY <1>1 DEF HostTyped, Typed, TypeOK
      <3> QED
        BY <1>7, <3>1
    <2>4. /\ client \in Clients /\ reading \in BOOLEAN /\ awaiting \in Int
          /\ delivered \in 0 .. nextFrame - 1 /\ latest \in 0 .. nextFrame - 1
          /\ current \in 0 .. nextFrame - 1 /\ covers \in 0 .. MaxInputs
          /\ task \in {"handshake", "serving", "closed"}
          /\ writing \in Messages
          /\ wire \in Seq(Messages) /\ Len(wire) <= WireCap
          /\ up \in Seq(Requests) /\ Len(up) <= UpCap
          /\ phase \in {"handshake", "initial", "launch", "loop",
                        "finished", "unexpected", "refused", "lost", "left"}
          /\ nextFrame \in Nat
      BY DEF Typed, TypeOK
    <2>7. nextFrame \in Nat /\ nextFrame' \in Nat /\ nextFrame <= nextFrame'
      BY <1>4, <2>4
    <2>8. \A x \in 0 .. nextFrame - 1 : x \in 0 .. nextFrame' - 1
      BY <2>7, RangeGrows
    <2>5. /\ delivered \in 0 .. nextFrame' - 1 /\ latest \in 0 .. nextFrame' - 1
          /\ current \in 0 .. nextFrame' - 1
      BY <2>4, <2>8
    <2>6. {refilling', framePending', attached', reading', ended'} \subseteq BOOLEAN
      BY <1>6, <2>1, <2>4
    <2> QED
      BY <1>4, <1>5, <1>6, <1>7, <1>10, <2>1, <2>2, <2>3, <2>4, <2>5, <2>6
         DEF TypeOK
  <1>12. /\ \A i \in DOMAIN wire' :
              Formed(wire'[i], nextFrame') /\ wire'[i].kind # "none"
         /\ Formed(writing', nextFrame')
         /\ writing' # NoMessage => writing'.kind # "none"
    <2>1. nextFrame \in Nat
      BY <1>1 DEF HostTyped
    <2> QED
      BY <1>4, <1>6, <2>1, StillFormed DEF Typed
  <1> QED
    BY <1>5, <1>9, <1>11, <1>12 DEF Typed

-----------------------------------------------------------------------------
(* The types, by the actor that changes the variables. *)
LanesTyped ==
    /\ lane \in [{"host", "client"} -> Lane]
    /\ LaneFormed(lane["host"], nextFrame) /\ LaneFormed(lane["client"], nextFrame)
TaskTyped ==
    /\ delivered \in 0 .. nextFrame - 1
    /\ task \in {"handshake", "serving", "closed"}
    /\ Formed(writing, nextFrame)
    /\ writing # NoMessage => writing.kind # "none"
WireTyped ==
    /\ wire \in Seq(Messages) /\ Len(wire) <= WireCap
    /\ \A i \in DOMAIN wire :
          Formed(wire[i], nextFrame) /\ wire[i].kind # "none"
RequestsTyped ==
    /\ up \in Seq(Requests) /\ Len(up) <= UpCap
    /\ events \in Seq(Requests) /\ Len(events) <= UpCap + 1
ReaderTyped == reading \in BOOLEAN /\ latest \in 0 .. nextFrame - 1
ClientTyped ==
    /\ phase \in {"handshake", "initial", "launch", "loop",
                  "finished", "unexpected", "refused", "lost", "left"}
    /\ current \in 0 .. nextFrame - 1 /\ awaiting \in Int
    /\ covers \in 0 .. MaxInputs
NotesTyped ==
    /\ sent \in [inputs : 0 .. MaxInputs, asks : 0 .. MaxAsks,
                 changes : 0 .. MaxChanges]
    /\ semantic \in [accepted : Nat, received : Nat]
AllTyped ==
    /\ LanesTyped /\ TaskTyped /\ WireTyped /\ RequestsTyped /\ ReaderTyped
    /\ ClientTyped /\ NotesTyped

\* The first layer has them all.
LEMMA Groups == Typed => AllTyped /\ HostTyped /\ Counted
  <1> SUFFICES ASSUME Typed PROVE AllTyped
    BY HostTypes DEF Typed
  <1> QED
    BY DEF Typed, TypeOK, AllTyped, LanesTyped, TaskTyped, WireTyped,
           RequestsTyped, ReaderTyped, ClientTyped, NotesTyped

\* And when the host's variables stay, no more is needed.
LEMMA Regroup ==
    ASSUME Typed, UNCHANGED <<client, hostVars, ended>>, AllTyped', Counted'
    PROVE  Typed'
  <1>1. /\ client \in Clients
        /\ nextFrame \in Nat \ {0} /\ applied \in Nat
        /\ shows \in Seq(Nat) /\ Len(shows) = nextFrame - 1
        /\ {refilling, framePending, attached, reading, ended} \subseteq BOOLEAN
        /\ lastFrame \in 0 .. nextFrame - 1
        /\ inputBarrier \in Int
        /\ media \in 0 .. MaxInputs
    BY DEF Typed, TypeOK
  <1>2. /\ client' \in Clients
        /\ nextFrame' \in Nat \ {0} /\ applied' \in Nat
        /\ shows' \in Seq(Nat) /\ Len(shows') = nextFrame' - 1
        /\ lastFrame' \in 0 .. nextFrame' - 1
        /\ inputBarrier' \in Int
        /\ media' \in 0 .. MaxInputs
    BY <1>1 DEF hostVars
  <1>3. {refilling', framePending', attached', reading', ended'} \subseteq BOOLEAN
    BY <1>1 DEF hostVars, AllTyped, ReaderTyped
  <1>4. \A k \in {"host", "client"} : Len(lane'[k].queue) <= SemanticCap
    BY DEF AllTyped, LanesTyped, LaneFormed
  <1>5. writing' \in Messages
    BY DEF AllTyped, TaskTyped, Formed
  <1>6. TypeOK'
    BY <1>2, <1>3, <1>4, <1>5
       DEF TypeOK, AllTyped, LanesTyped, TaskTyped, WireTyped,
           RequestsTyped, ReaderTyped, ClientTyped, NotesTyped
  <1> QED
    BY <1>6 DEF Typed, AllTyped, LanesTyped, TaskTyped, WireTyped

\* What is unchanged keeps its type.
LEMMA SameTyped ==
    ASSUME AllTyped, UNCHANGED hostVars
    PROVE  /\ UNCHANGED lane => LanesTyped'
           /\ UNCHANGED taskVars => TaskTyped'
           /\ UNCHANGED wire => WireTyped'
           /\ UNCHANGED <<up, events>> => RequestsTyped'
           /\ UNCHANGED readVars => ReaderTyped'
           /\ UNCHANGED clientVars => ClientTyped'
           /\ UNCHANGED <<sent, semantic>> => NotesTyped'
  <1> USE DEF AllTyped, hostVars
  <1>1. UNCHANGED lane => LanesTyped'
    BY DEF LanesTyped
  <1>2. UNCHANGED taskVars => TaskTyped'
    BY DEF TaskTyped, taskVars
  <1>3. UNCHANGED wire => WireTyped'
    BY DEF WireTyped
  <1>4. UNCHANGED <<up, events>> => RequestsTyped'
    BY DEF RequestsTyped
  <1>5. UNCHANGED readVars => ReaderTyped'
    BY DEF ReaderTyped, readVars
  <1>6. UNCHANGED clientVars => ClientTyped'
    BY DEF ClientTyped, clientVars
  <1>7. UNCHANGED <<sent, semantic>> => NotesTyped'
    BY DEF NotesTyped
  <1> QED
    BY <1>1, <1>2, <1>3, <1>4, <1>5, <1>6, <1>7

\* Neither do the inputs get lost, when no queue of requests changes.
LEMMA SameCounted ==
    ASSUME Counted, UNCHANGED <<hostVars, up, events>>,
           sent'.inputs = sent.inputs, task' = "closed" \/ task' = task
    PROVE  Counted'
  BY DEF Counted, hostVars

\* A lane that a receiver changes keeps both typed.
LEMMA LaneTyped ==
    ASSUME Typed, UNCHANGED hostVars, NEW k \in {"host", "client"},
           NEW l, LaneFormed(l, nextFrame), lane' = [lane EXCEPT ![k] = l]
    PROVE  LanesTyped'
  BY LaneUpdate DEF hostVars, LanesTyped

\* The connection task's steps keep the first layer.
LEMMA TaskKeepsTyped == Typed /\ TaskStep => Typed'
  <1> SUFFICES ASSUME Typed, TaskStep PROVE Typed'
    OBVIOUS
  <1>1. AllTyped /\ HostTyped /\ Counted
    BY Groups
  <1>2. /\ nextFrame \in Nat \ {0} /\ LaneFormed(lane["host"], nextFrame)
        /\ UNCHANGED client
    BY <1>1 DEF HostTyped, TaskStep, SameClient
  <1>3. CASE TaskHandshake
    <2> DEFINE l == lane["host"]
               k == [l EXCEPT !.queue = Tail(@)]
    <2>1. /\ l.queue # <<>> /\ writing' = Head(l.queue) /\ task' = "serving"
          /\ lane' = [lane EXCEPT !["host"].queue = Tail(@)]
          /\ task = "handshake"
          /\ UNCHANGED <<hostVars, delivered, wire, up, events, readVars,
                         clientVars, sent, semantic, ended>>
      BY <1>3 DEF TaskHandshake
    <2>2. LaneFormed(k, nextFrame)
      <3> HIDE DEF l
      <3> QED
        BY <1>2, <2>1, LaneParts DEF l
    <2>3. lane' = [lane EXCEPT !["host"] = k]
      BY <2>1
    <2>4. LanesTyped'
      <3> HIDE DEF k
      <3> QED
        BY <2>1, <2>2, <2>3, LaneTyped
    <2>5. /\ Formed(writing', nextFrame) /\ writing'.kind \in Semantic
      BY <1>2, <2>1, QueueHead
    <2>6. TaskTyped'
      BY <1>1, <2>1, <2>5 DEF AllTyped, TaskTyped, Semantic, hostVars
    <2>7. Counted'
      <3>1. Len(events) <= UpCap
        BY <1>1, <2>1 DEF Counted
      <3> QED
        BY <1>1, <2>1, <3>1 DEF Counted, hostVars
    <2>8. /\ WireTyped' /\ RequestsTyped' /\ ReaderTyped' /\ ClientTyped'
          /\ NotesTyped'
      BY <1>1, <2>1, SameTyped
    <2> QED
      BY <1>2, <2>1, <2>4, <2>6, <2>7, <2>8, Regroup DEF AllTyped
  <1>4. CASE TaskPolls
    <2>1. PICK l \in Polled(lane["host"]) : lane' = [lane EXCEPT !["host"] = l]
      BY <1>4 DEF TaskPolls
    <2>2. LaneFormed(l, nextFrame)
      BY <1>2, PolledLane
    <2>3. UNCHANGED <<hostVars, taskVars, wire, up, events, readVars, clientVars,
                      sent, semantic, ended>>
      BY <1>4 DEF TaskPolls
    <2>4. LanesTyped'
      BY <2>1, <2>2, <2>3, LaneTyped
    <2>5. Counted'
      BY <1>1, <2>3, SameCounted DEF taskVars
    <2>6. /\ TaskTyped' /\ WireTyped' /\ RequestsTyped' /\ ReaderTyped'
          /\ ClientTyped' /\ NotesTyped'
      BY <1>1, <2>3, SameTyped
    <2> QED
      BY <1>2, <2>3, <2>4, <2>5, <2>6, Regroup DEF AllTyped
  <1>5. CASE TaskTakes
    <2>1. PICK r \in Received(lane["host"]) :
             writing' = r.taken /\ lane' = [lane EXCEPT !["host"] = r.left]
      BY <1>5 DEF TaskTakes
    <2>2. /\ LaneFormed(r.left, nextFrame) /\ Formed(r.taken, nextFrame)
          /\ r.taken.kind # "none"
      BY <1>2, ReceivedLane
    <2>3. UNCHANGED <<hostVars, delivered, task, wire, up, events, readVars,
                      clientVars, sent, semantic, ended>>
      BY <1>5 DEF TaskTakes
    <2>4. LanesTyped'
      BY <2>1, <2>2, <2>3, LaneTyped
    <2>5. Counted'
      BY <1>1, <2>3, SameCounted
    <2>6. TaskTyped'
      BY <1>1, <2>1, <2>2, <2>3 DEF AllTyped, TaskTyped, hostVars
    <2>7. /\ WireTyped' /\ RequestsTyped' /\ ReaderTyped' /\ ClientTyped'
          /\ NotesTyped'
      BY <1>1, <2>3, SameTyped
    <2> QED
      BY <1>2, <2>3, <2>4, <2>5, <2>6, <2>7, Regroup DEF AllTyped
  <1>6. CASE TaskWrites
    <2>1. /\ writing # NoMessage /\ Len(wire) < WireCap
          /\ wire' = Append(wire, writing)
          /\ delivered' = IF IsVisual(writing) THEN writing.id ELSE delivered
          /\ writing' = NoMessage /\ task' = task
          /\ UNCHANGED <<hostVars, lane, task, up, events, readVars, clientVars,
                         sent, semantic, ended>>
      BY <1>6 DEF TaskWrites
    <2>2. /\ Formed(writing, nextFrame) /\ writing.kind # "none"
          /\ writing \in Messages /\ writing.id \in 0 .. nextFrame - 1
          /\ wire \in Seq(Messages) /\ WireCap \in Nat
      <3>1. writing \in Messages /\ writing.id < nextFrame
        BY <1>1 DEF AllTyped, TaskTyped, Formed
      <3>2. writing.id \in Nat
        BY <3>1 DEF Messages
      <3> QED
        BY <1>1, <1>2, <2>1, <3>1, <3>2, DeliveryConstants
           DEF AllTyped, TaskTyped, WireTyped
    <2>3. /\ Append(wire, writing) \in Seq(Messages)
          /\ Len(Append(wire, writing)) = Len(wire) + 1 /\ Len(wire) \in Nat
          /\ \A i \in DOMAIN Append(wire, writing) :
                \/ i \in DOMAIN wire /\ Append(wire, writing)[i] = wire[i]
                \/ Append(wire, writing)[i] = writing
      BY <2>2, LenProperties, AppendProperties
    <2>4. WireTyped'
      <3>1. Len(wire') <= WireCap
        BY <2>1, <2>2, <2>3
      <3> QED
        BY <1>1, <2>1, <2>2, <2>3, <3>1 DEF AllTyped, WireTyped, hostVars
    <2>5. TaskTyped'
      BY <1>1, <1>2, <2>1, <2>2, Kinds DEF AllTyped, TaskTyped, hostVars
    <2>6. Counted'
      BY <1>1, <2>1, SameCounted
    <2>7. /\ LanesTyped' /\ RequestsTyped' /\ ReaderTyped' /\ ClientTyped'
          /\ NotesTyped'
      BY <1>1, <2>1, SameTyped
    <2> QED
      BY <1>2, <2>1, <2>4, <2>5, <2>6, <2>7, Regroup DEF AllTyped
  <1>7. CASE TaskReads
    <2> DEFINE l == lane["host"]
               k == [l EXCEPT !.polled = 0]
    <2>1. /\ up # <<>> /\ Len(events) < UpCap
          /\ events' = Append(events, Head(up)) /\ up' = Tail(up)
          /\ lane' = [lane EXCEPT !["host"].polled = 0]
          /\ UNCHANGED <<hostVars, taskVars, wire, readVars, clientVars, sent,
                         semantic, ended>>
      BY <1>7 DEF TaskReads
    <2>2. LaneFormed(k, nextFrame)
      <3>1. 0 \in 0 .. 2
        OBVIOUS
      <3> HIDE DEF l
      <3> QED
        BY <1>2, <3>1, LaneParts DEF l
    <2>3. lane' = [lane EXCEPT !["host"] = k]
      BY <2>1
    <2>4. LanesTyped'
      <3> HIDE DEF k
      <3> QED
        BY <2>1, <2>2, <2>3, LaneTyped
    <2>5. /\ up \in Seq(Requests) /\ events \in Seq(Requests)
          /\ Len(up) <= UpCap /\ UpCap \in Nat
      BY <1>1, DeliveryConstants DEF AllTyped, RequestsTyped
    <2>6. /\ Head(up) \in Requests /\ Tail(up) \in Seq(Requests)
          /\ Len(Tail(up)) = Len(up) - 1 /\ Len(up) \in Nat
          /\ events' \in Seq(Requests) /\ Len(events') = Len(events) + 1
          /\ Len(events) \in Nat
      BY <2>1, <2>5, HeadTailProperties, LenProperties, AppendProperties
    <2>7. RequestsTyped'
      BY <2>1, <2>5, <2>6 DEF RequestsTyped
    <2>8. Counted'
      <3>1. PICK u \in Nat, e \in Nat, v \in Nat, f \in Nat :
               /\ u = Count(up, {"input"}) /\ e = Count(events, {"input"})
               /\ v = Count(up', {"input"}) /\ f = Count(events', {"input"})
        BY <2>1, <2>5, <2>6, CountNat
      <3>2. /\ u = One(Head(up).kind \in {"input"}) + v
            /\ f = e + One(Head(up).kind \in {"input"})
            /\ One(Head(up).kind \in {"input"}) \in {0, 1}
        BY <2>1, <2>5, <2>6, <3>1, CountTail, CountAppend DEF One
      <3>3. e + u = f + v
        BY <3>1, <3>2
      <3>4. PICK a \in Nat, s \in Nat : a = applied /\ s = sent.inputs
        <4>1. applied \in Nat /\ sent.inputs \in 0 .. MaxInputs
          BY <1>1 DEF HostTyped, AllTyped, NotesTyped
        <4>2. sent.inputs \in Nat
          BY <4>1, DeliveryConstants
        <4> QED
          BY <4>1, <4>2
      <3>5. (a + e) + u = (a + f) + v
        BY <3>3
      <3>6. /\ (a + e) + u <= s /\ (attached => (a + e) + u = s)
            /\ media <= applied
        BY <1>1, <3>1, <3>4 DEF Counted
      <3>7. /\ (a + f) + v <= s /\ (attached => (a + f) + v = s)
        BY <3>5, <3>6
      <3>8. Len(events') <= UpCap
        BY <2>1, <2>5, <2>6
      <3> QED
        BY <2>1, <3>1, <3>4, <3>6, <3>7, <3>8 DEF Counted, hostVars
    <2>9. /\ TaskTyped' /\ WireTyped' /\ ReaderTyped' /\ ClientTyped'
          /\ NotesTyped'
      BY <1>1, <2>1, SameTyped
    <2> QED
      BY <1>2, <2>1, <2>4, <2>7, <2>8, <2>9, Regroup DEF AllTyped
  <1>8. CASE TaskEnds
    <2>1. /\ task # "closed" /\ task' = "closed" /\ writing' = NoMessage
          /\ events' = Append(events, Request("gone", NoSerial))
          /\ UNCHANGED <<hostVars, lane, delivered, wire, up, readVars,
                         clientVars, sent, semantic, ended>>
      BY <1>8 DEF TaskEnds
    <2> DEFINE g == Request("gone", NoSerial)
    <2>2. /\ events \in Seq(Requests) /\ g \in Requests /\ g.kind \notin {"input"}
          /\ UpCap \in Nat /\ Len(events) <= UpCap
      BY <1>1, <2>1, DeliveryConstants
         DEF HostTyped, Request, Requests, NoSerial, Counted
    <2>3. /\ events' \in Seq(Requests) /\ Len(events') = Len(events) + 1
          /\ Len(events) \in Nat
          /\ Count(events', {"input"}) = Count(events, {"input"}) + One(FALSE)
      <3>1. events' = Append(events, g)
        BY <2>1
      <3> HIDE DEF g
      <3>2. Count(events', {"input"}) = Count(events, {"input"})
                                           + One(g.kind \in {"input"})
        BY <2>2, <3>1, CountAppend
      <3>3. One(g.kind \in {"input"}) = One(FALSE)
        BY <2>2 DEF One
      <3>4. /\ events' \in Seq(Requests) /\ Len(events') = Len(events) + 1
            /\ Len(events) \in Nat
        BY <2>2, <3>1, LenProperties, AppendProperties
      <3> QED
        BY <3>2, <3>3, <3>4
    <2>4. Count(events', {"input"}) = Count(events, {"input"})
      <3>1. PICK c \in Nat : c = Count(events, {"input"})
        BY <2>2, CountNat
      <3>2. Count(events', {"input"}) = c + 0
        BY <2>3, <3>1 DEF One
      <3> QED
        BY <3>1, <3>2
    <2>5. RequestsTyped'
      <3>1. Len(events') <= UpCap + 1
        BY <2>2, <2>3
      <3> QED
        BY <1>1, <2>1, <2>3, <3>1 DEF AllTyped, RequestsTyped
    <2>6. TaskTyped'
      BY <1>1, <1>2, <2>1, Kinds DEF AllTyped, TaskTyped, hostVars
    <2>7. Counted'
      BY <1>1, <2>1, <2>4 DEF Counted, hostVars
    <2>8. /\ LanesTyped' /\ WireTyped' /\ ReaderTyped' /\ ClientTyped'
          /\ NotesTyped'
      BY <1>1, <2>1, SameTyped
    <2> QED
      BY <1>2, <2>1, <2>5, <2>6, <2>7, <2>8, Regroup DEF AllTyped
  <1> QED
    BY <1>3, <1>4, <1>5, <1>6, <1>7, <1>8 DEF TaskStep

-----------------------------------------------------------------------------
(* The client's requests *)

\* A request after the others.
LEMMA SendOne ==
    ASSUME up \in Seq(Requests), NEW x \in Requests, ClientSends(<<x>>)
    PROVE  /\ up' = Append(up, x) /\ up' \in Seq(Requests)
           /\ Len(up') = Len(up) + 1 /\ Len(up) \in Nat /\ Len(up') <= UpCap
           /\ \A K : Count(up', K) = Count(up, K) + One(x.kind \in K)
  <1>1. up' = Append(up, x) /\ Len(up) + 1 <= UpCap
    BY SentRequests DEF ClientSends
  <1>2. /\ up' \in Seq(Requests) /\ Len(up') = Len(up) + 1 /\ Len(up) \in Nat
    BY <1>1, AppendProperties, LenProperties
  <1>3. \A K : Count(up', K) = Count(up, K) + One(x.kind \in K)
    BY <1>1, CountAppend
  <1> QED
    BY <1>1, <1>2, <1>3

\* An input, and the barrier that may go with it.
LEMMA SendTwo ==
    ASSUME up \in Seq(Requests), NEW x \in Requests, NEW y \in Requests,
           ClientSends(<<x, y>>)
    PROVE  /\ up' = Append(Append(up, x), y) /\ up' \in Seq(Requests)
           /\ Len(up') = Len(up) + 2 /\ Len(up) \in Nat /\ Len(up') <= UpCap
           /\ \A K : Count(up', K)
                        = (Count(up, K) + One(x.kind \in K)) + One(y.kind \in K)
  <1> DEFINE a == Append(up, x)
  <1>1. up' = Append(a, y) /\ Len(up) + 2 <= UpCap
    BY SentRequests DEF ClientSends
  <1>2. /\ a \in Seq(Requests) /\ Len(a) = Len(up) + 1 /\ Len(up) \in Nat
        /\ \A K : Count(a, K) = Count(up, K) + One(x.kind \in K)
    BY AppendProperties, LenProperties, CountAppend
  <1> HIDE DEF a
  <1>3. /\ up' \in Seq(Requests) /\ Len(up') = Len(a) + 1
        /\ \A K : Count(up', K) = Count(a, K) + One(y.kind \in K)
    BY <1>1, <1>2, AppendProperties, CountAppend
  <1>4. Len(up') = Len(up) + 2 /\ Len(up') <= UpCap
    BY <1>1, <1>2, <1>3
  <1>5. \A K : Count(up', K)
                  = (Count(up, K) + One(x.kind \in K)) + One(y.kind \in K)
    BY <1>2, <1>3
  <1> QED
    BY <1>1, <1>2, <1>3, <1>4, <1>5 DEF a

\* Requests other than inputs change no count of them.
LEMMA CountedSends ==
    ASSUME Counted, up \in Seq(Requests), up' \in Seq(Requests),
           UNCHANGED <<hostVars, events, task>>, sent'.inputs = sent.inputs,
           NEW x, x.kind \notin {"input"},
           Count(up', {"input"}) = Count(up, {"input"}) + One(x.kind \in {"input"})
    PROVE  Counted'
  <1>1. PICK u \in Nat : u = Count(up, {"input"})
    BY CountNat
  <1>2. Count(up', {"input"}) = u + 0
    BY <1>1 DEF One
  <1>3. Count(up', {"input"}) = Count(up, {"input"})
    BY <1>1, <1>2
  <1> QED
    BY <1>3 DEF Counted, hostVars

\* The reader's steps keep the first layer.
LEMMA ReaderKeepsTyped == Typed /\ ReaderStep => Typed'
  <1> SUFFICES ASSUME Typed, ReaderStep PROVE Typed'
    OBVIOUS
  <1>1. AllTyped /\ HostTyped /\ Counted
    BY Groups
  <1>2. /\ nextFrame \in Nat \ {0} /\ LaneFormed(lane["client"], nextFrame)
        /\ UNCHANGED client
    BY <1>1 DEF HostTyped, ReaderStep, SameClient, AllTyped, LanesTyped
  <1>3. CASE ReaderReads
    <2> DEFINE h == Head(wire)
               c == Coalesced(h)
               l == lane["client"]
    <2>1. /\ wire # <<>> /\ wire' = Tail(wire)
          /\ Accepts(l, c) /\ lane' = [lane EXCEPT !["client"] = Put(@, c)]
          /\ latest' = Folded(h)
          /\ UNCHANGED <<hostVars, taskVars, up, events, reading, clientVars, sent,
                         semantic, ended>>
      BY <1>3 DEF ReaderReads
    <2>2. /\ Formed(h, nextFrame) /\ h.kind # "none" /\ h \in Messages
          /\ Tail(wire) \in Seq(Messages) /\ Len(Tail(wire)) <= WireCap
          /\ \A i \in DOMAIN Tail(wire) :
                Formed(Tail(wire)[i], nextFrame) /\ Tail(wire)[i].kind # "none"
      <3>1. /\ wire \in Seq(Messages) /\ Len(wire) <= WireCap /\ WireCap \in Nat
            /\ \A i \in DOMAIN wire :
                  Formed(wire[i], nextFrame) /\ wire[i].kind # "none"
        BY <1>1, DeliveryConstants DEF AllTyped, WireTyped
      <3>2. /\ Tail(wire) \in Seq(Messages)
            /\ Len(Tail(wire)) = Len(wire) - 1
            /\ \A i \in 1 .. Len(Tail(wire)) : Tail(wire)[i] = wire[i + 1]
            /\ DOMAIN wire = 1 .. Len(wire) /\ Len(wire) \in Nat \ {0}
            /\ DOMAIN Tail(wire) = 1 .. Len(Tail(wire))
            /\ Head(wire) = wire[1]
        BY <2>1, <3>1, HeadTailProperties, LenProperties, EmptySeq
      <3>3. Formed(Head(wire), nextFrame) /\ Head(wire).kind # "none"
        BY <3>1, <3>2
      <3>4. \A i \in DOMAIN Tail(wire) : i + 1 \in DOMAIN wire
        BY <3>2
      <3> QED
        BY <3>1, <3>2, <3>3, <3>4 DEF Formed
    <2>3. /\ Formed(c, nextFrame) /\ c.kind # "none" /\ c.id = h.id
          /\ latest' \in {latest, h.id}
      <3>1. h.id \in Nat /\ h.id < nextFrame
        BY <2>2 DEF Formed, Messages
      <3>2. CASE h.kind = "damage" /\ h.base = latest
        <4>1. c = Message("frame", h.id, NoFrame, NoSerial)
          BY <3>2 DEF Coalesced
        <4>2. h.id > 0
          BY <2>2, <3>2 DEF Formed
        <4> QED
          BY <2>1, <3>1, <4>1, <4>2
             DEF Formed, Message, Messages, NoFrame, NoSerial, Folded
      <3>3. CASE ~(h.kind = "damage" /\ h.base = latest)
        <4>1. c = h
          BY <3>3 DEF Coalesced
        <4> QED
          BY <2>1, <2>2, <4>1 DEF Folded
      <3> QED
        BY <3>2, <3>3
    <2>4. LaneFormed(Put(l, c), nextFrame)
      <3> HIDE DEF c, l
      <3> QED
        BY <1>2, <2>1, <2>3, PutLane DEF l
    <2>5. LanesTyped'
      <3>1. lane' = [lane EXCEPT !["client"] = Put(l, c)]
        BY <2>1
      <3> HIDE DEF l, c
      <3> QED
        BY <2>1, <2>4, <3>1, LaneTyped
    <2>6. WireTyped'
      BY <2>1, <2>2 DEF WireTyped, hostVars
    <2>7. ReaderTyped'
      <3>1. h.id \in 0 .. nextFrame - 1
        BY <1>2, <2>2 DEF Formed, Messages
      <3> QED
        BY <1>1, <2>1, <2>3, <3>1 DEF AllTyped, ReaderTyped, hostVars
    <2>8. Counted'
      BY <1>1, <2>1, SameCounted DEF taskVars
    <2>9. /\ TaskTyped' /\ RequestsTyped' /\ ClientTyped' /\ NotesTyped'
      BY <1>1, <2>1, SameTyped
    <2> QED
      BY <1>2, <2>1, <2>5, <2>6, <2>7, <2>8, <2>9, Regroup DEF AllTyped
  <1>4. CASE ReaderEnds
    <2>1. /\ reading' = FALSE
          /\ UNCHANGED <<hostVars, lane, taskVars, wire, up, events, latest,
                         clientVars, sent, semantic, ended>>
      BY <1>4 DEF ReaderEnds
    <2>2. ReaderTyped'
      BY <1>1, <2>1 DEF AllTyped, ReaderTyped, hostVars
    <2>3. Counted'
      BY <1>1, <2>1, SameCounted DEF taskVars
    <2>4. /\ LanesTyped' /\ TaskTyped' /\ WireTyped' /\ RequestsTyped'
          /\ ClientTyped' /\ NotesTyped'
      BY <1>1, <2>1, SameTyped
    <2> QED
      BY <1>2, <2>1, <2>2, <2>3, <2>4, Regroup DEF AllTyped
  <1> QED
    BY <1>3, <1>4 DEF ReaderStep

-----------------------------------------------------------------------------
(* What the client does with the message it takes *)

\* It sends nothing, or asks for what it needs.
Requesting ==
    \/ up' = up
    \/ /\ phase = "initial" /\ Launch /\ phase' = "launch"
       /\ ClientSends(<<Request("launch", NoSerial)>>)
    \/ /\ phase = "loop" /\ phase' = "loop"
       /\ ClientSends(<<Request("resync", NoSerial)>>)

Reacts(m) ==
    \/ phase = "initial" /\ OnInitial(m)
    \/ phase = "launch" /\ OnLaunching(m)
    \/ phase = "loop" /\ OnResponse(m)

\* What it shows then, and whether it waits for a barrier.
LEMMA Reactions ==
    ASSUME Typed, NEW m, Formed(m, nextFrame), m.kind # "none", Reacts(m)
    PROVE  /\ phase' \in {"launch", "loop", "finished", "unexpected", "refused"}
           /\ current' \in 0 .. nextFrame - 1
           /\ awaiting' \in {awaiting, NoSerial, 0} /\ covers' = covers
           /\ awaiting' = 0 /\ awaiting # 0 => phase' = "launch"
           /\ Requesting
  <1>1. /\ current \in 0 .. nextFrame - 1 /\ nextFrame \in Nat
        /\ current \in Nat /\ awaiting \in Int
    BY Groups DEF AllTyped, ClientTyped, HostTyped
  <1>2. m.id \in 0 .. nextFrame - 1
    BY <1>1 DEF Formed, Messages
  <1>3. CASE phase = "initial" /\ OnInitial(m)
    BY <1>1, <1>2, <1>3 DEF OnInitial, Goes, Requesting, NoSerial
  <1>4. CASE phase = "launch" /\ OnLaunching(m)
    BY <1>1, <1>2, <1>4 DEF OnLaunching, Goes, Requesting, NoSerial
  <1>5. CASE phase = "loop" /\ OnResponse(m)
    <2>1. Newest(m.id) \in 0 .. nextFrame - 1
      BY <1>1, <1>2 DEF Newest
    <2> QED
      BY <1>1, <1>2, <1>5, <2>1
         DEF OnResponse, Goes, Requesting, Resynchronize, NoSerial
  <1> QED
    BY <1>3, <1>4, <1>5 DEF Reacts

\* Receiving keeps the first layer.
LEMMA ClientKeepsTyped == Typed /\ ClientReceives => Typed'
  <1> SUFFICES ASSUME Typed, ClientReceives PROVE Typed'
    OBVIOUS
  <1>1. AllTyped /\ HostTyped /\ Counted
    BY Groups
  <1>2. /\ nextFrame \in Nat \ {0} /\ LaneFormed(lane["client"], nextFrame)
        /\ UNCHANGED client
        /\ semantic \in [accepted : Nat, received : Nat]
    BY <1>1 DEF HostTyped, ClientReceives, SameClient, AllTyped, LanesTyped
  <1>3. ASSUME NEW s, s = [semantic EXCEPT !.received = @ + 1]
        PROVE  s \in [accepted : Nat, received : Nat]
    BY <1>2, <1>3
  <1>4. CASE ClientHandshake
    <2> DEFINE l == lane["client"]
               k == [l EXCEPT !.queue = Tail(@)]
    <2>1. /\ l.queue # <<>>
          /\ lane' = [lane EXCEPT !["client"].queue = Tail(@)]
          /\ phase' \in {"initial", "unexpected"} /\ current' = current
          /\ semantic' = [semantic EXCEPT !.received = @ + 1]
          /\ UNCHANGED <<hostVars, taskVars, wire, up, events, readVars, awaiting,
                         covers, sent, ended>>
      BY <1>4 DEF ClientHandshake, Goes
    <2>2. LaneFormed(k, nextFrame)
      <3> HIDE DEF l
      <3> QED
        BY <1>2, <2>1, LaneParts DEF l
    <2>3. LanesTyped'
      <3>1. lane' = [lane EXCEPT !["client"] = k]
        BY <2>1
      <3> HIDE DEF k
      <3> QED
        BY <2>1, <2>2, <3>1, LaneTyped
    <2>4. ClientTyped'
      BY <1>1, <2>1 DEF AllTyped, ClientTyped, hostVars
    <2>5. NotesTyped'
      BY <1>1, <1>3, <2>1 DEF AllTyped, NotesTyped
    <2>6. Counted'
      BY <1>1, <2>1, SameCounted DEF taskVars
    <2>7. TaskTyped' /\ WireTyped' /\ RequestsTyped' /\ ReaderTyped'
      BY <1>1, <2>1, SameTyped
    <2> QED
      BY <1>2, <2>1, <2>3, <2>4, <2>5, <2>6, <2>7, Regroup DEF AllTyped
  <1>5. CASE ClientPolls
    <2>1. PICK l \in Polled(lane["client"]) :
             lane' = [lane EXCEPT !["client"] = l]
      BY <1>5 DEF ClientPolls
    <2>2. LaneFormed(l, nextFrame)
      BY <1>2, PolledLane
    <2>3. UNCHANGED <<hostVars, taskVars, wire, up, events, readVars, clientVars,
                      sent, semantic, ended>>
      BY <1>5 DEF ClientPolls
    <2>4. LanesTyped'
      BY <2>1, <2>2, <2>3, LaneTyped
    <2>5. Counted'
      BY <1>1, <2>3, SameCounted DEF taskVars
    <2>6. /\ TaskTyped' /\ WireTyped' /\ RequestsTyped' /\ ReaderTyped'
          /\ ClientTyped' /\ NotesTyped'
      BY <1>1, <2>3, SameTyped
    <2> QED
      BY <1>2, <2>3, <2>4, <2>5, <2>6, Regroup DEF AllTyped
  <1>6. CASE ClientTakes
    <2>1. PICK r \in Received(lane["client"]) :
             /\ lane' = [lane EXCEPT !["client"] = r.left]
             /\ Reacts(r.taken)
             /\ semantic' = IF IsVisual(r.taken) \/ IsFinal(r.taken)
                            THEN semantic
                            ELSE [semantic EXCEPT !.received = @ + 1]
      BY <1>6 DEF ClientTakes, Reacts
    <2>2. /\ LaneFormed(r.left, nextFrame) /\ Formed(r.taken, nextFrame)
          /\ r.taken.kind # "none"
      BY <1>2, ReceivedLane
    <2>3. UNCHANGED <<hostVars, taskVars, wire, events, readVars, sent, ended>>
      BY <1>6 DEF ClientTakes
    <2>4. LanesTyped'
      BY <2>1, <2>2, <2>3, LaneTyped
    <2>5. /\ phase' \in {"launch", "loop", "finished", "unexpected", "refused"}
          /\ current' \in 0 .. nextFrame - 1
          /\ awaiting' \in {awaiting, NoSerial, 0} /\ covers' = covers
          /\ Requesting
      BY <2>1, <2>2, Reactions
    <2>6. ClientTyped'
      BY <1>1, <2>3, <2>5 DEF AllTyped, ClientTyped, hostVars, NoSerial
    <2>7. NotesTyped'
      BY <1>1, <1>3, <2>1, <2>3 DEF AllTyped, NotesTyped
    <2>8. RequestsTyped' /\ Counted'
      <3>1. up \in Seq(Requests)
        BY <1>1 DEF AllTyped, RequestsTyped
      <3>2. CASE up' = up
        <4>1. Counted'
          BY <1>1, <2>3, <3>2, SameCounted DEF taskVars
        <4> QED
          BY <1>1, <2>3, <3>2, <4>1, SameTyped
      <3>3. ASSUME NEW x \in Requests, x.kind \notin {"input"}, ClientSends(<<x>>)
            PROVE  RequestsTyped' /\ Counted'
        <4>1. /\ up' \in Seq(Requests) /\ Len(up') <= UpCap
              /\ Count(up', {"input"}) = Count(up, {"input"})
                                            + One(x.kind \in {"input"})
          BY <3>1, <3>3, SendOne
        <4>2. RequestsTyped'
          BY <1>1, <2>3, <4>1 DEF AllTyped, RequestsTyped
        <4>3. Counted'
          BY <1>1, <2>3, <3>1, <3>3, <4>1, CountedSends DEF taskVars
        <4> QED
          BY <4>2, <4>3
      <3>4. \A kind \in {"launch", "resync"} :
               /\ Request(kind, NoSerial) \in Requests
               /\ Request(kind, NoSerial).kind \notin {"input"}
        BY DEF Request, Requests, NoSerial
      <3> QED
        BY <2>5, <3>2, <3>3, <3>4 DEF Requesting
    <2>9. TaskTyped' /\ WireTyped' /\ ReaderTyped'
      BY <1>1, <2>3, SameTyped
    <2> QED
      BY <1>2, <2>3, <2>4, <2>6, <2>7, <2>8, <2>9, Regroup DEF AllTyped
  <1>7. CASE ClientLoses
    <2>1. /\ phase' = "lost" /\ current' = current
          /\ UNCHANGED <<hostVars, lane, taskVars, wire, up, events, readVars,
                         awaiting, covers, sent, semantic, ended>>
      BY <1>7 DEF ClientLoses, Goes
    <2>2. ClientTyped'
      BY <1>1, <2>1 DEF AllTyped, ClientTyped, hostVars
    <2>3. Counted'
      BY <1>1, <2>1, SameCounted DEF taskVars
    <2>4. /\ LanesTyped' /\ TaskTyped' /\ WireTyped' /\ RequestsTyped'
          /\ ReaderTyped' /\ NotesTyped'
      BY <1>1, <2>1, SameTyped
    <2> QED
      BY <1>2, <2>1, <2>2, <2>3, <2>4, Regroup DEF AllTyped
  <1> QED
    BY <1>4, <1>5, <1>6, <1>7 DEF ClientReceives

-----------------------------------------------------------------------------
(* What the client sends by itself *)

\* An input, and whether a barrier goes with it.
LEMMA InputSends ==
    ASSUME NEW barrier \in BOOLEAN, sent.inputs \in Nat, ClientInput(barrier)
    PROVE  /\ Request("input", NoSerial) \in Requests
           /\ Request("barrier", sent.inputs + 1) \in Requests
           /\ barrier => ClientSends(<<Request("input", NoSerial),
                                       Request("barrier", sent.inputs + 1)>>)
           /\ ~barrier => ClientSends(<<Request("input", NoSerial)>>)
  <1> DEFINE x == Request("input", NoSerial)
             y == Request("barrier", sent.inputs + 1)
  <1>1. x \in Requests /\ y \in Requests
    BY DEF Request, Requests, NoSerial
  <1>2. ClientSends(<<x>> \o (IF barrier THEN <<y>> ELSE <<>>))
    BY DEF ClientInput, ClientActs
  <1> HIDE DEF x, y
  <1>3. <<x>> \o <<>> = <<x>> /\ <<x>> \o <<y>> = <<x, y>>
    BY <1>1, SentRequests, EmptySeq, ZenonT(60)
  <1>4. CASE barrier
    <2>1. ClientSends(<<x>> \o <<y>>)
      BY <1>2, <1>4
    <2>2. ClientSends(<<x, y>>)
      BY <1>3, <2>1
    <2> QED
      BY <1>1, <1>4, <2>2 DEF x, y
  <1>5. CASE ~barrier
    <2>1. ClientSends(<<x>> \o <<>>)
      BY <1>2, <1>5
    <2>2. ClientSends(<<x>>)
      BY <1>3, <2>1
    <2> QED
      BY <1>1, <1>5, <2>2 DEF x, y
  <1> QED
    BY <1>4, <1>5

\* A lane whose receiver is dropped and called anew.
LEMMA Restarted ==
    ASSUME Typed, UNCHANGED hostVars,
           lane' = [lane EXCEPT !["client"].polled = 0]
    PROVE  /\ LanesTyped' /\ Still(lane["client"], lane'["client"])
           /\ lane'["host"] = lane["host"]
  <1> DEFINE l == lane["client"]
             k == [l EXCEPT !.polled = 0]
  <1>1. nextFrame \in Nat \ {0} /\ LaneFormed(l, nextFrame) /\ 0 \in 0 .. 2
        /\ lane \in [{"host", "client"} -> Lane]
    BY Groups DEF HostTyped, AllTyped, LanesTyped
  <1>2. lane' = [lane EXCEPT !["client"] = k]
    OBVIOUS
  <1>3. LaneFormed(k, nextFrame) /\ Still(l, k)
    <2> HIDE DEF l
    <2> QED
      BY <1>1, LaneParts
  <1>4. lane'["client"] = k /\ lane'["host"] = lane["host"]
    BY <1>1, <1>2
  <1> HIDE DEF l, k
  <1>5. LanesTyped'
    BY <1>2, <1>3, LaneTyped
  <1> QED
    BY <1>3, <1>4, <1>5 DEF l

\* The client's own steps keep the first layer.
LEMMA InputsKeepTyped == Typed /\ ClientInputs => Typed'
  <1> SUFFICES ASSUME Typed, ClientInputs PROVE Typed'
    OBVIOUS
  <1>1. AllTyped /\ HostTyped /\ Counted
    BY Groups
  <1>2. /\ UNCHANGED client /\ up \in Seq(Requests)
        /\ sent \in [inputs : 0 .. MaxInputs, asks : 0 .. MaxAsks,
                     changes : 0 .. MaxChanges]
        /\ MaxInputs \in Nat /\ MaxAsks \in Nat
    BY <1>1, DeliveryConstants
       DEF ClientInputs, SameClient, AllTyped, RequestsTyped, NotesTyped
  <1>3. sent.inputs \in Nat /\ sent.asks \in Nat
    BY <1>2
  <1>4. ASSUME NEW barrier \in BOOLEAN, ClientInput(barrier)
        PROVE  Typed'
    <2> DEFINE x == Request("input", NoSerial)
               y == Request("barrier", sent.inputs + 1)
    <2>1. /\ sent.inputs < MaxInputs /\ sent' = [sent EXCEPT !.inputs = @ + 1]
          /\ awaiting' = IF barrier THEN sent.inputs + 1 ELSE NoSerial
          /\ covers' = IF barrier THEN sent.inputs + 1 ELSE covers
          /\ lane' = [lane EXCEPT !["client"].polled = 0]
          /\ UNCHANGED <<hostVars, taskVars, wire, events, readVars, phase, current,
                         semantic, ended>>
      BY <1>4 DEF ClientInput, ClientActs
    <2>2. /\ x \in Requests /\ y \in Requests
          /\ barrier => ClientSends(<<x, y>>)
          /\ ~barrier => ClientSends(<<x>>)
      BY <1>3, <1>4, InputSends
    <2>3. x.kind \in {"input"} /\ y.kind \notin {"input"}
      BY DEF Request
    <2> HIDE DEF x, y
    <2>4. /\ up' \in Seq(Requests) /\ Len(up') <= UpCap
          /\ Count(up', {"input"}) = Count(up, {"input"}) + 1
      <3>1. PICK u \in Nat : u = Count(up, {"input"})
        BY <1>2, CountNat
      <3>2. CASE barrier
        <4>1. /\ up' \in Seq(Requests) /\ Len(up') <= UpCap
              /\ Count(up', {"input"}) = (Count(up, {"input"})
                    + One(x.kind \in {"input"})) + One(y.kind \in {"input"})
          BY <1>2, <2>2, <3>2, SendTwo
        <4>2. One(x.kind \in {"input"}) = 1 /\ One(y.kind \in {"input"}) = 0
          BY <2>3 DEF One
        <4>3. Count(up', {"input"}) = (u + 1) + 0
          BY <3>1, <4>1, <4>2
        <4>4. (u + 1) + 0 = u + 1
          OBVIOUS
        <4> QED
          BY <3>1, <4>1, <4>3, <4>4
      <3>3. CASE ~barrier
        <4>1. /\ up' \in Seq(Requests) /\ Len(up') <= UpCap
              /\ Count(up', {"input"}) = Count(up, {"input"})
                                            + One(x.kind \in {"input"})
          BY <1>2, <2>2, <3>3, SendOne
        <4>2. One(x.kind \in {"input"}) = 1
          BY <2>3 DEF One
        <4> QED
          BY <4>1, <4>2
      <3> QED
        BY <3>2, <3>3
    <2>5. /\ sent'.inputs = sent.inputs + 1
          /\ sent.inputs + 1 \in 0 .. MaxInputs
          /\ sent' \in [inputs : 0 .. MaxInputs, asks : 0 .. MaxAsks,
                        changes : 0 .. MaxChanges]
      <3>1. sent.inputs + 1 \in 0 .. MaxInputs
        BY <1>2, <1>3, <2>1
      <3>2. ASSUME NEW n \in 0 .. MaxInputs, NEW s, s = [sent EXCEPT !.inputs = n]
            PROVE  /\ s \in [inputs : 0 .. MaxInputs, asks : 0 .. MaxAsks,
                             changes : 0 .. MaxChanges]
                   /\ s.inputs = n
        BY <1>2, <3>2
      <3> QED
        BY <2>1, <3>1, <3>2
    <2>6. LanesTyped'
      BY <2>1, Restarted
    <2>7. RequestsTyped'
      BY <1>1, <2>1, <2>4 DEF AllTyped, RequestsTyped
    <2>8. ClientTyped'
      <3>1. NoSerial \in Int /\ sent.inputs + 1 \in Int
        BY <1>3 DEF NoSerial
      <3> QED
        BY <1>1, <2>1, <2>5, <3>1 DEF AllTyped, ClientTyped, hostVars
    <2>9. NotesTyped'
      BY <1>1, <2>1, <2>5 DEF AllTyped, NotesTyped
    <2>10. Counted'
      <3>1. PICK a \in Nat, e \in Nat, u \in Nat, s \in Nat :
               /\ a = applied /\ e = Count(events, {"input"})
               /\ u = Count(up, {"input"}) /\ s = sent.inputs
        <4>1. /\ applied \in Nat /\ events \in Seq(Requests)
          BY <1>1 DEF HostTyped
        <4>2. Count(events, {"input"}) \in Nat /\ Count(up, {"input"}) \in Nat
          BY <1>2, <4>1, CountNat
        <4> QED
          BY <1>3, <4>1, <4>2
      <3>2. /\ a + e + u <= s /\ (attached => a + e + u = s)
            /\ media <= applied /\ (task # "closed" => Len(events) <= UpCap)
        BY <1>1, <3>1 DEF Counted
      <3>3. a + e + (u + 1) <= s + 1
        BY <3>2
      <3>4. a + e + u = s => a + e + (u + 1) = s + 1
        OBVIOUS
      <3>5. attached => a + e + (u + 1) = s + 1
        BY <3>2, <3>4, Zenon
      <3>6. /\ applied' = a /\ Count(events', {"input"}) = e
            /\ Count(up', {"input"}) = u + 1 /\ sent'.inputs = s + 1
            /\ UNCHANGED <<media, attached, task, events>>
        BY <2>1, <2>4, <2>5, <3>1 DEF hostVars, taskVars
      <3> QED
        BY <3>1, <3>2, <3>3, <3>5, <3>6 DEF Counted
    <2>11. TaskTyped' /\ WireTyped' /\ ReaderTyped'
      BY <1>1, <2>1, SameTyped
    <2> QED
      BY <1>2, <2>1, <2>6, <2>7, <2>8, <2>9, <2>10, <2>11, Regroup DEF AllTyped
  <1>5. ASSUME NEW x \in Requests, x.kind \notin {"input"},
               sent.asks < MaxAsks, ClientActs(<<x>>),
               sent' = [sent EXCEPT !.asks = @ + 1],
               UNCHANGED <<awaiting, covers>>
        PROVE  Typed'
    <2>1. /\ ClientSends(<<x>>)
          /\ lane' = [lane EXCEPT !["client"].polled = 0]
          /\ UNCHANGED <<hostVars, taskVars, wire, events, readVars, phase, current,
                         semantic, ended>>
      BY <1>5 DEF ClientActs
    <2>2. /\ up' \in Seq(Requests) /\ Len(up') <= UpCap
          /\ Count(up', {"input"}) = Count(up, {"input"})
                                        + One(x.kind \in {"input"})
      BY <1>2, <2>1, SendOne
    <2>3. /\ sent'.inputs = sent.inputs
          /\ sent' \in [inputs : 0 .. MaxInputs, asks : 0 .. MaxAsks,
                        changes : 0 .. MaxChanges]
      <3>1. sent.asks + 1 \in 0 .. MaxAsks
        BY <1>2, <1>3, <1>5
      <3>2. ASSUME NEW n \in 0 .. MaxAsks, NEW s, s = [sent EXCEPT !.asks = n]
            PROVE  /\ s \in [inputs : 0 .. MaxInputs, asks : 0 .. MaxAsks,
                             changes : 0 .. MaxChanges]
                   /\ s.inputs = sent.inputs
        BY <1>2, <3>2
      <3> QED
        BY <1>5, <3>1, <3>2
    <2>4. LanesTyped'
      BY <2>1, Restarted
    <2>5. RequestsTyped'
      BY <1>1, <2>1, <2>2 DEF AllTyped, RequestsTyped
    <2>6. Counted'
      BY <1>1, <1>2, <1>5, <2>1, <2>2, <2>3, CountedSends DEF taskVars
    <2>7. ClientTyped' /\ TaskTyped' /\ WireTyped' /\ ReaderTyped'
      BY <1>1, <1>5, <2>1, SameTyped DEF clientVars
    <2>8. NotesTyped'
      BY <1>1, <2>1, <2>3 DEF AllTyped, NotesTyped
    <2> QED
      BY <1>2, <2>1, <2>4, <2>5, <2>6, <2>7, <2>8, Regroup DEF AllTyped
  <1>6. \A kind \in {"ask", "detach"} :
           /\ Request(kind, NoSerial) \in Requests
           /\ Request(kind, NoSerial).kind \notin {"input"}
    BY DEF Request, Requests, NoSerial
  <1>7. CASE ClientAsks
    BY <1>5, <1>6, <1>7 DEF ClientAsks
  <1>8. CASE ClientDetaches
    BY <1>5, <1>6, <1>8 DEF ClientDetaches
  <1>9. CASE ClientLeaves
    <2>1. /\ phase' = "left" /\ current' = current
          /\ UNCHANGED <<hostVars, lane, taskVars, wire, up, events, readVars,
                         awaiting, covers, sent, semantic, ended>>
      BY <1>9 DEF ClientLeaves, Goes
    <2>2. ClientTyped'
      BY <1>1, <2>1 DEF AllTyped, ClientTyped, hostVars
    <2>3. Counted'
      BY <1>1, <2>1, SameCounted DEF taskVars
    <2>4. /\ LanesTyped' /\ TaskTyped' /\ WireTyped' /\ RequestsTyped'
          /\ ReaderTyped' /\ NotesTyped'
      BY <1>1, <2>1, SameTyped
    <2> QED
      BY <1>2, <2>1, <2>2, <2>3, <2>4, Regroup DEF AllTyped
  <1> QED
    BY <1>4, <1>7, <1>8, <1>9 DEF ClientInputs

\* The first layer is an invariant.
LEMMA TypedNext == Typed /\ [Next]_vars => Typed'
  <1> SUFFICES ASSUME Typed, [Next]_vars PROVE Typed'
    OBVIOUS
  <1>1. CASE UNCHANGED vars
    <2>1. UNCHANGED <<client, hostVars, ended, lane, taskVars, wire, up, events,
                      readVars, clientVars, sent, semantic>>
      BY <1>1 DEF vars
    <2>2. Counted'
      BY <2>1, Groups, SameCounted DEF taskVars
    <2>3. AllTyped'
      BY <2>1, Groups, SameTyped DEF AllTyped
    <2> QED
      BY <2>1, <2>2, <2>3, Regroup
  <1> QED
    BY <1>1, HostKeepsTyped, TaskKeepsTyped, ReaderKeepsTyped, ClientKeepsTyped,
       InputsKeepTyped DEF Next, ClientStep

LEMMA TypedAlways == Spec => []Typed
  BY TypedInit, TypedNext, PTL DEF Spec

-----------------------------------------------------------------------------
\* The client never shows a frame older than the one it shows
\* (run_attached: a barrier or a complete frame replaces only an older one).
THEOREM NeverGoesBack == Spec => ScreenNeverGoesBack
  <1> DEFINE P == phase = "loop" /\ phase' = "loop" => current' >= current
  <1>1. Typed /\ [Next]_vars => [P]_vars
    <2> SUFFICES ASSUME Typed, Next, phase = "loop", phase' = "loop"
                 PROVE  current' >= current
      OBVIOUS
    <2>1. AllTyped /\ current \in Nat /\ nextFrame \in Nat \ {0}
      BY Groups DEF AllTyped, ClientTyped, HostTyped
    <2>2. CASE current' = current
      BY <2>1, <2>2
    <2>3. CASE ClientTakes
      <3>1. PICK r \in Received(lane["client"]) : OnResponse(r.taken)
        BY <2>3 DEF ClientTakes
      <3>2. Formed(r.taken, nextFrame)
        BY <2>1, ReceivedLane DEF AllTyped, LanesTyped
      <3>3. r.taken.kind = "damage" /\ r.taken.base = current
               => r.taken.id >= current
        BY <2>1, <3>2 DEF Formed, Messages
      <3>4. Newest(r.taken.id) >= current
        BY <2>1, <3>2 DEF Newest, Formed, Messages
      <3> QED
        BY <2>2, <3>1, <3>3, <3>4 DEF OnResponse, Goes
    <2>4. CASE HostStep
      BY <2>2, <2>4, HostStepMoves DEF HostMoves, clientVars
    <2>5. CASE TaskStep
      BY <2>2, <2>5
         DEF TaskStep, TaskHandshake, TaskPolls, TaskTakes, TaskWrites, TaskReads,
             TaskEnds, clientVars
    <2>6. CASE ReaderStep
      BY <2>2, <2>6 DEF ReaderStep, ReaderReads, ReaderEnds, clientVars
    <2>7. CASE ClientHandshake \/ ClientPolls \/ ClientLoses
      BY <2>2, <2>7
         DEF ClientHandshake, ClientPolls, ClientLoses, Goes, clientVars
    <2>8. CASE ClientInputs
      BY <2>2, <2>8
         DEF ClientInputs, ClientInput, ClientAsks, ClientDetaches, ClientLeaves,
             ClientActs, Goes, clientVars
    <2> QED
      BY <2>3, <2>4, <2>5, <2>6, <2>7, <2>8 DEF Next, ClientStep, ClientReceives
  <1>2. ScreenNeverGoesBack <=> [][P]_vars
    BY DEF ScreenNeverGoesBack
  <1> QED
    BY <1>1, <1>2, TypedInit, TypedNext, PTL DEF Spec

-----------------------------------------------------------------------------
(* What the other actors may do *)

\* A lane after try_send took m.
PutIn(l, m, k) ==
    /\ k.queue = IF m.kind \in Semantic THEN Append(l.queue, m) ELSE l.queue
    /\ k.final = IF IsFinal(m) THEN m ELSE l.final
    /\ k.held = l.held
    /\ k.slot = IF IsVisual(m) THEN m ELSE l.slot
    /\ k.seen <=> l.seen /\ ~IsVisual(m)
    /\ IsFinal(m) => l.final = NoMessage

\* The connection task takes m, writes, reads a request, polls or ends.
TaskTake(m) ==
    /\ Takes(lane["host"], m, lane'["host"])
    /\ Formed(m, nextFrame) /\ m.kind # "none"
    /\ writing = NoMessage /\ writing' = m
    /\ task # "closed" /\ task' = "serving"
    /\ UNCHANGED <<delivered, wire, up, events>>
TaskPoll ==
    /\ Still(lane["host"], lane'["host"])
    /\ UNCHANGED <<taskVars, wire, up, events>>
TaskWrite ==
    /\ writing # NoMessage /\ Running
    /\ wire' = Append(wire, writing)
    /\ delivered' = IF IsVisual(writing) THEN writing.id ELSE delivered
    /\ writing' = NoMessage
    /\ UNCHANGED <<lane, task, up, events>>
TaskRead ==
    /\ Still(lane["host"], lane'["host"])
    /\ up # <<>>
    /\ events' = Append(events, Head(up)) /\ up' = Tail(up)
    /\ UNCHANGED <<taskVars, wire>>
TaskEnd ==
    /\ task # "closed" /\ task' = "closed" /\ writing' = NoMessage
    /\ Running => /\ writing = NoMessage /\ ~attached
                  /\ Drained(lane["host"])
    /\ events' = Append(events, Request("gone", NoSerial))
    /\ UNCHANGED <<lane, delivered, wire, up>>
TaskMove ==
    /\ UNCHANGED <<client, hostVars, readVars, clientVars, sent, semantic, ended>>
    /\ lane'["client"] = lane["client"]
    /\ (\E m : TaskTake(m)) \/ TaskPoll \/ TaskWrite \/ TaskRead \/ TaskEnd

\* The reader takes the message h from the socket and puts c in its lane.
ReaderRead(h, c) ==
    /\ Running /\ reading' = reading
    /\ wire # <<>> /\ h = Head(wire) /\ wire' = Tail(wire)
    /\ c = Coalesced(h)
    /\ PutIn(lane["client"], c, lane'["client"])
    /\ latest' = Folded(h)
    /\ Formed(h, nextFrame) /\ h.kind # "none"
    /\ c = h \/ (h.kind = "damage" /\ c.kind = "frame" /\ c.id = h.id)
ReaderEnd ==
    /\ Running => task = "closed" /\ wire = <<>>
    /\ reading' = FALSE
    /\ UNCHANGED <<lane, wire, latest>>
ReaderMove ==
    /\ UNCHANGED <<client, hostVars, taskVars, up, events, clientVars, sent,
                   semantic, ended>>
    /\ lane'["host"] = lane["host"]
    /\ (\E h, c : ReaderRead(h, c)) \/ ReaderEnd

\* The client takes m, or its loop does without.
Greets(m) ==
    /\ phase = "handshake" /\ m.kind \in Semantic
    /\ phase' = IF m.kind = "welcome" THEN "initial" ELSE "unexpected"
    /\ UNCHANGED <<up, current, awaiting, covers>>
ClientTake(m) ==
    /\ Takes(lane["client"], m, lane'["client"])
    /\ Formed(m, nextFrame) /\ m.kind # "none"
    /\ Greets(m) \/ Reacts(m)
    /\ semantic'.accepted = semantic.accepted
    /\ semantic'.received = semantic.received + One(m.kind \in Semantic)
    /\ UNCHANGED sent
ClientPoll ==
    /\ Still(lane["client"], lane'["client"])
    /\ UNCHANGED <<clientVars, up, sent, semantic>>
ClientAct ==
    /\ ClientInputs /\ phase = "loop" /\ phase' = "loop"
    /\ Still(lane["client"], lane'["client"])
    /\ UNCHANGED <<current, semantic>>
ClientQuit ==
    /\ Running
    /\ \/ phase' = "left"
       \/ phase' = "lost" /\ ~reading /\ Drained(lane["client"])
    /\ UNCHANGED <<lane, up, current, awaiting, covers, sent, semantic>>
ClientMove ==
    /\ UNCHANGED <<client, hostVars, taskVars, wire, events, readVars, ended>>
    /\ lane'["host"] = lane["host"]
    /\ (\E m : ClientTake(m)) \/ ClientPoll \/ ClientAct \/ ClientQuit

\* The steps of the connection task are among them.
LEMMA TaskMoves == Typed /\ TaskStep => TaskMove
  <1> SUFFICES ASSUME Typed, TaskStep PROVE TaskMove
    OBVIOUS
  <1>1. /\ nextFrame \in Nat \ {0} /\ LaneFormed(lane["host"], nextFrame)
        /\ lane \in [{"host", "client"} -> Lane] /\ UNCHANGED client
    BY Groups DEF HostTyped, TaskStep, SameClient
  <1>2. ASSUME NEW k, lane' = [lane EXCEPT !["host"] = k]
        PROVE  lane'["client"] = lane["client"] /\ lane'["host"] = k
    BY <1>1, <1>2
  <1>3. CASE TaskHandshake
    <2> DEFINE l == lane["host"]
               k == [l EXCEPT !.queue = Tail(@)]
    <2>1. /\ l.queue # <<>> /\ writing' = Head(l.queue) /\ task' = "serving"
          /\ lane' = [lane EXCEPT !["host"].queue = Tail(@)]
          /\ task = "handshake" /\ writing = NoMessage
          /\ UNCHANGED <<hostVars, delivered, wire, up, events, readVars,
                         clientVars, sent, semantic, ended>>
      BY <1>3 DEF TaskHandshake
    <2>2. /\ k.queue = Tail(l.queue) /\ k.final = l.final /\ k.held = l.held
          /\ k.slot = l.slot /\ k.seen = l.seen
      <3> HIDE DEF l
      <3> QED
        BY <1>1, <2>1, LaneParts DEF l
    <2>3. /\ Head(l.queue).kind \in Semantic /\ Formed(Head(l.queue), nextFrame)
          /\ Head(l.queue).kind # "none"
      <3> HIDE DEF l
      <3> QED
        BY <1>1, <2>1, QueueHead DEF l, Semantic
    <2>4. lane' = [lane EXCEPT !["host"] = k]
      BY <2>1
    <2>5. lane'["client"] = lane["client"] /\ lane'["host"] = k
      <3> HIDE DEF k
      <3> QED
        BY <1>2, <2>4
    <2>6. Takes(l, Head(l.queue), lane'["host"])
      <3> HIDE DEF k, l
      <3> QED
        BY <2>1, <2>2, <2>3, <2>5 DEF Takes, Carries, OneFinal
    <2>7. TaskTake(Head(l.queue))
      BY <2>1, <2>3, <2>6 DEF TaskTake
    <2> HIDE DEF k, l
    <2> QED
      BY <1>1, <2>1, <2>5, <2>7 DEF TaskMove
  <1>4. CASE TaskPolls
    <2>1. PICK k \in Polled(lane["host"]) : lane' = [lane EXCEPT !["host"] = k]
      BY <1>4 DEF TaskPolls
    <2>2. Still(lane["host"], k)
      BY <1>1, PolledLane
    <2> QED
      BY <1>1, <1>2, <1>4, <2>1, <2>2 DEF TaskPolls, TaskMove, TaskPoll
  <1>5. CASE TaskTakes
    <2>1. PICK r \in Received(lane["host"]) :
             writing' = r.taken /\ lane' = [lane EXCEPT !["host"] = r.left]
      BY <1>5 DEF TaskTakes
    <2>2. /\ Formed(r.taken, nextFrame) /\ r.taken.kind # "none"
          /\ Takes(lane["host"], r.taken, r.left)
      BY <1>1, ReceivedLane
    <2>3. lane'["client"] = lane["client"] /\ lane'["host"] = r.left
      BY <1>2, <2>1
    <2>4. TaskTake(r.taken)
      BY <1>5, <2>1, <2>2, <2>3 DEF TaskTakes, TaskTake
    <2> QED
      BY <1>1, <1>5, <2>3, <2>4 DEF TaskTakes, TaskMove
  <1>6. CASE TaskWrites
    BY <1>1, <1>6 DEF TaskWrites, TaskMove, TaskWrite
  <1>7. CASE TaskReads
    <2> DEFINE l == lane["host"]
               k == [l EXCEPT !.polled = 0]
    <2>1. Still(l, k)
      <3>1. 0 \in 0 .. 2
        OBVIOUS
      <3> HIDE DEF l
      <3> QED
        BY <1>1, <3>1, LaneParts DEF l
    <2>2. lane' = [lane EXCEPT !["host"] = k]
      BY <1>7 DEF TaskReads
    <2>3. lane'["client"] = lane["client"] /\ Still(l, lane'["host"])
      <3> HIDE DEF k
      <3> QED
        BY <1>2, <2>1, <2>2
    <2> QED
      BY <1>1, <1>7, <2>3 DEF TaskReads, TaskMove, TaskRead
  <1>8. CASE TaskEnds
    BY <1>1, <1>8 DEF TaskEnds, TaskMove, TaskEnd
  <1> QED
    BY <1>3, <1>4, <1>5, <1>6, <1>7, <1>8 DEF TaskStep

\* So are those of the reader.
LEMMA ReaderMoves == Typed /\ ReaderStep => ReaderMove
  <1> SUFFICES ASSUME Typed, ReaderStep PROVE ReaderMove
    OBVIOUS
  <1>1. /\ nextFrame \in Nat \ {0} /\ LaneFormed(lane["client"], nextFrame)
        /\ lane \in [{"host", "client"} -> Lane] /\ UNCHANGED client
        /\ wire \in Seq(Messages)
    BY Groups DEF HostTyped, ReaderStep, SameClient, AllTyped, LanesTyped, WireTyped
  <1>2. CASE ReaderReads
    <2> DEFINE h == Head(wire)
               c == Coalesced(h)
               l == lane["client"]
    <2>1. /\ Running /\ wire # <<>> /\ wire' = Tail(wire)
          /\ Accepts(l, c) /\ lane' = [lane EXCEPT !["client"] = Put(@, c)]
          /\ latest' = Folded(h)
          /\ UNCHANGED <<hostVars, taskVars, up, events, reading, clientVars, sent,
                         semantic, ended>>
      BY <1>2 DEF ReaderReads
    <2>2. Formed(h, nextFrame) /\ h.kind # "none"
      <3>1. \A i \in DOMAIN wire : Formed(wire[i], nextFrame) /\ wire[i].kind # "none"
        BY Groups DEF AllTyped, WireTyped
      <3>2. 1 \in DOMAIN wire /\ h = wire[1]
        BY <1>1, <2>1, HeadTailProperties, LenProperties, EmptySeq
      <3> QED
        BY <3>1, <3>2
    <2>3. /\ c = h \/ (h.kind = "damage" /\ c.kind = "frame" /\ c.id = h.id)
          /\ Formed(c, nextFrame) /\ c.kind # "none"
      <3>1. CASE h.kind = "damage" /\ h.base = latest
        <4>1. c = Message("frame", h.id, NoFrame, NoSerial)
          BY <3>1 DEF Coalesced
        <4>2. h.id > 0 /\ h.id \in Nat /\ h.id < nextFrame
          BY <2>2, <3>1 DEF Formed, Messages
        <4> QED
          BY <3>1, <4>1, <4>2 DEF Formed, Message, Messages, NoFrame, NoSerial
      <3>2. CASE ~(h.kind = "damage" /\ h.base = latest)
        <4>1. c = h
          BY <3>2 DEF Coalesced
        <4> QED
          BY <2>2, <4>1
      <3> QED
        BY <3>1, <3>2
    <2>4. PutIn(l, c, Put(l, c))
      <3> HIDE DEF c, l
      <3> QED
        BY <1>1, <2>1, <2>3, PutLane DEF PutIn, l
    <2>5. lane'["client"] = Put(l, c) /\ lane'["host"] = lane["host"]
      BY <1>1, <2>1
    <2>6. ReaderRead(h, c)
      <3>1. PutIn(l, c, lane'["client"])
        BY <2>4, <2>5
      <3> QED
        BY <2>1, <2>2, <2>3, <3>1 DEF ReaderRead
    <2> QED
      BY <1>1, <2>1, <2>5, <2>6 DEF ReaderMove
  <1>3. CASE ReaderEnds
    BY <1>1, <1>3 DEF ReaderEnds, ReaderMove, ReaderEnd
  <1> QED
    BY <1>2, <1>3 DEF ReaderStep

\* And those of the client.
LEMMA ClientMoves == Typed /\ ClientStep => ClientMove
  <1> SUFFICES ASSUME Typed, ClientStep PROVE ClientMove
    OBVIOUS
  <1>1. /\ nextFrame \in Nat \ {0} /\ LaneFormed(lane["client"], nextFrame)
        /\ lane \in [{"host", "client"} -> Lane] /\ UNCHANGED client
        /\ semantic \in [accepted : Nat, received : Nat]
    BY Groups DEF HostTyped, ClientStep, ClientReceives, ClientInputs, SameClient,
                  AllTyped, LanesTyped
  <1>2. ASSUME NEW k, lane' = [lane EXCEPT !["client"] = k]
        PROVE  lane'["client"] = k /\ lane'["host"] = lane["host"]
    BY <1>1, <1>2
  <1>3. ASSUME semantic' = [semantic EXCEPT !.received = @ + 1]
        PROVE  /\ semantic'.accepted = semantic.accepted
               /\ semantic'.received = semantic.received + One(TRUE)
    BY <1>1, <1>3 DEF One
  <1>4. CASE ClientHandshake
    <2> DEFINE l == lane["client"]
               k == [l EXCEPT !.queue = Tail(@)]
               m == Head(l.queue)
    <2>1. /\ l.queue # <<>> /\ phase = "handshake"
          /\ lane' = [lane EXCEPT !["client"].queue = Tail(@)]
          /\ phase' = (IF m.kind = "welcome" THEN "initial" ELSE "unexpected")
          /\ current' = current
          /\ semantic' = [semantic EXCEPT !.received = @ + 1]
          /\ UNCHANGED <<hostVars, taskVars, wire, up, events, readVars, awaiting,
                         covers, sent, ended>>
      BY <1>4 DEF ClientHandshake, Goes
    <2>2. /\ k.queue = Tail(l.queue) /\ k.final = l.final /\ k.held = l.held
          /\ k.slot = l.slot /\ k.seen = l.seen
      <3> HIDE DEF l
      <3> QED
        BY <1>1, <2>1, LaneParts DEF l
    <2>3. /\ m.kind \in Semantic /\ Formed(m, nextFrame) /\ m.kind # "none"
      <3> HIDE DEF l
      <3> QED
        BY <1>1, <2>1, QueueHead DEF l, Semantic
    <2>4. lane' = [lane EXCEPT !["client"] = k]
      BY <2>1
    <2>5. lane'["client"] = k /\ lane'["host"] = lane["host"]
      <3> HIDE DEF k
      <3> QED
        BY <1>2, <2>4
    <2>6. Takes(l, m, lane'["client"])
      <3> HIDE DEF k, l
      <3> QED
        BY <2>1, <2>2, <2>3, <2>5 DEF Takes, Carries, OneFinal
    <2>7. Greets(m)
      BY <2>1, <2>3 DEF Greets
    <2>8. /\ semantic'.accepted = semantic.accepted
          /\ semantic'.received = semantic.received + One(m.kind \in Semantic)
      BY <1>3, <2>1, <2>3 DEF One
    <2>9. ClientTake(m)
      BY <2>1, <2>3, <2>6, <2>7, <2>8 DEF ClientTake
    <2> HIDE DEF k, l, m
    <2> QED
      BY <1>1, <2>1, <2>5, <2>9 DEF ClientMove
  <1>5. CASE ClientPolls
    <2>1. PICK k \in Polled(lane["client"]) :
             lane' = [lane EXCEPT !["client"] = k]
      BY <1>5 DEF ClientPolls
    <2>2. Still(lane["client"], k)
      BY <1>1, PolledLane
    <2> QED
      BY <1>1, <1>2, <1>5, <2>1, <2>2 DEF ClientPolls, ClientMove, ClientPoll
  <1>6. CASE ClientTakes
    <2>1. PICK r \in Received(lane["client"]) :
             /\ lane' = [lane EXCEPT !["client"] = r.left]
             /\ Reacts(r.taken)
             /\ semantic' = IF IsVisual(r.taken) \/ IsFinal(r.taken)
                            THEN semantic
                            ELSE [semantic EXCEPT !.received = @ + 1]
      BY <1>6 DEF ClientTakes, Reacts
    <2>2. /\ Formed(r.taken, nextFrame) /\ r.taken.kind # "none"
          /\ Takes(lane["client"], r.taken, r.left)
          /\ r.taken \in Messages
      BY <1>1, ReceivedLane DEF Formed
    <2>3. lane'["client"] = r.left /\ lane'["host"] = lane["host"]
      BY <1>2, <2>1
    <2>4. r.taken.kind \in Semantic <=> ~IsVisual(r.taken) /\ ~IsFinal(r.taken)
      BY <2>2, Kinds
    <2>5. /\ semantic'.accepted = semantic.accepted
          /\ semantic'.received = semantic.received
                                     + One(r.taken.kind \in Semantic)
      <3>1. CASE r.taken.kind \in Semantic
        BY <1>3, <2>1, <2>4, <3>1 DEF One
      <3>2. CASE r.taken.kind \notin Semantic
        <4>1. semantic' = semantic /\ semantic.received \in Nat
          BY <1>1, <2>1, <2>4, <3>2
        <4>2. One(r.taken.kind \in Semantic) = 0
          BY <3>2 DEF One
        <4> QED
          BY <4>1, <4>2
      <3> QED
        BY <3>1, <3>2
    <2>6. ClientTake(r.taken)
      <3>1. UNCHANGED sent
        BY <1>6 DEF ClientTakes
      <3> QED
        BY <2>1, <2>2, <2>3, <2>5, <3>1 DEF ClientTake
    <2> QED
      BY <1>1, <1>6, <2>3, <2>6 DEF ClientTakes, ClientMove
  <1>7. CASE ClientLoses
    BY <1>1, <1>7 DEF ClientLoses, Goes, ClientMove, ClientQuit, Running
  <1>8. CASE ClientInputs
    <2>1. CASE ClientLeaves
      BY <1>1, <2>1 DEF ClientLeaves, Goes, ClientMove, ClientQuit
    <2>2. CASE ~ClientLeaves
      <3>1. /\ phase = "loop" /\ lane' = [lane EXCEPT !["client"].polled = 0]
            /\ UNCHANGED <<hostVars, taskVars, wire, events, readVars, phase,
                           current, semantic, ended>>
        BY <1>8, <2>2
           DEF ClientInputs, ClientInput, ClientAsks, ClientDetaches, ClientActs
      <3>2. /\ Still(lane["client"], lane'["client"])
            /\ lane'["host"] = lane["host"]
        BY <3>1, Restarted
      <3> QED
        BY <1>1, <1>8, <3>1, <3>2 DEF ClientMove, ClientAct
    <2> QED
      BY <2>1, <2>2
  <1> QED
    BY <1>4, <1>5, <1>6, <1>7, <1>8 DEF ClientStep, ClientReceives

\* Every step is one of these, and a client that ended stays so.
LEMMA Moves ==
    ASSUME Typed, [Next]_vars
    PROVE  /\ HostMoves \/ TaskMove \/ ReaderMove \/ ClientMove \/ UNCHANGED vars
           /\ Running' => Running
  <1>1. HostMoves \/ TaskMove \/ ReaderMove \/ ClientMove \/ UNCHANGED vars
    BY HostStepMoves, TaskMoves, ReaderMoves, ClientMoves DEF Next
  <1>2. phase' = phase \/ Running
    <2>1. CASE ClientMove
      BY <2>1 DEF ClientMove, ClientTake, Greets, Reacts, ClientPoll, ClientAct,
                  ClientQuit, Running, clientVars
    <2>2. CASE HostMoves \/ TaskMove \/ ReaderMove \/ UNCHANGED vars
      BY <2>2 DEF HostMoves, TaskMove, ReaderMove, clientVars, vars
    <2> QED
      BY <1>1, <2>1, <2>2
  <1> QED
    BY <1>1, <1>2 DEF Running

-----------------------------------------------------------------------------
(* The second layer: how the actors end, and where a final reply may be.     *)

EndsInTurn ==
    /\ ended => ~attached
    /\ phase = "finished" => ended
    /\ phase = "lost" => ~attached
    /\ Running /\ task = "closed" =>
          ~attached /\ Drained(lane["host"]) /\ writing = NoMessage
    /\ Running /\ ~reading => task = "closed" /\ wire = <<>>

\* What a final reply must not overtake, or is.
Last(m) == m.kind \in Semantic \/ IsFinal(m)

\* The host's lane has nothing of the kind.
QuietHost == lane["host"].queue = <<>> /\ ~Carries(lane["host"])

\* The final reply is in one place while the client has not met it, and
\* nothing that it must not overtake is behind it.
FinalIsLast ==
    /\ OneFinal(lane["host"]) /\ OneFinal(lane["client"])
    /\ Running /\ ended =>
          \/ Carries(lane["host"]) \/ IsFinal(writing) \/ Carries(lane["client"])
          \/ \E i \in DOMAIN wire : IsFinal(wire[i])
    /\ Carries(lane["host"]) \/ IsFinal(writing) \/ Carries(lane["client"])
          => ended
    /\ \A i \in DOMAIN wire : IsFinal(wire[i]) => ended
    /\ IsFinal(writing) => QuietHost
    /\ \A i \in DOMAIN wire : IsFinal(wire[i]) =>
          /\ QuietHost /\ ~Last(writing)
          /\ \A j \in DOMAIN wire : i < j => ~Last(wire[j])
    /\ Carries(lane["client"]) =>
          /\ QuietHost /\ ~Last(writing)
          /\ \A j \in DOMAIN wire : ~Last(wire[j])

\* The places of a queue that loses its head, or gets one more.
LEMMA TailAt ==
    ASSUME NEW S, NEW s \in Seq(S), s # <<>>
    PROVE  /\ Tail(s) \in Seq(S) /\ 1 \in DOMAIN s /\ Head(s) = s[1]
           /\ \A i \in DOMAIN Tail(s) :
                 i \in Nat \ {0} /\ i + 1 \in DOMAIN s /\ Tail(s)[i] = s[i + 1]
           /\ \A j \in DOMAIN s :
                 /\ j \in Nat \ {0}
                 /\ j = 1 \/ (j - 1 \in DOMAIN Tail(s) /\ Tail(s)[j - 1] = s[j])
  <1>1. /\ Tail(s) \in Seq(S)
        /\ Len(Tail(s)) = Len(s) - 1
        /\ \A i \in 1 .. Len(Tail(s)) : Tail(s)[i] = s[i + 1]
        /\ DOMAIN s = 1 .. Len(s) /\ Len(s) \in Nat \ {0}
        /\ DOMAIN Tail(s) = 1 .. Len(Tail(s))
        /\ Head(s) = s[1]
    BY HeadTailProperties, LenProperties, EmptySeq
  <1>2. \A j \in DOMAIN s : j \in Nat \ {0} /\ (j = 1 \/ j - 1 \in DOMAIN Tail(s))
    BY <1>1
  <1>3. \A j \in DOMAIN s : j # 1 => Tail(s)[j - 1] = s[j]
    <2> TAKE j \in DOMAIN s
    <2> HAVE j # 1
    <2>1. j - 1 \in 1 .. Len(Tail(s)) /\ (j - 1) + 1 = j
      BY <1>1, <1>2
    <2> QED
      BY <1>1, <2>1
  <1>4. \A i \in DOMAIN Tail(s) :
           i \in Nat \ {0} /\ i + 1 \in DOMAIN s /\ Tail(s)[i] = s[i + 1]
    BY <1>1
  <1>5. 1 \in DOMAIN s
    BY <1>1
  <1> QED
    BY <1>1, <1>2, <1>3, <1>4, <1>5

LEMMA AppendAt ==
    ASSUME NEW S, NEW s \in Seq(S), NEW x \in S
    PROVE  /\ Append(s, x) \in Seq(S)
           /\ Len(s) + 1 \in DOMAIN Append(s, x) /\ Append(s, x)[Len(s) + 1] = x
           /\ \A i \in DOMAIN s : /\ i \in Nat \ {0} /\ i < Len(s) + 1
                                  /\ i \in DOMAIN Append(s, x)
                                  /\ Append(s, x)[i] = s[i]
           /\ \A i \in DOMAIN Append(s, x) : i \in DOMAIN s \/ i = Len(s) + 1
  BY LenProperties, AppendProperties

\* A lane whose messages stay where they are.
LEMMA StillSame ==
    ASSUME NEW l, NEW k, Still(l, k)
    PROVE  /\ Carries(k) <=> Carries(l)
           /\ OneFinal(k) <=> OneFinal(l)
           /\ Drained(k) <=> Drained(l)
           /\ k.queue = l.queue
  BY DEF Still, Carries, OneFinal, Drained

\* What a step of the host does to its lane.
LEMMA HostLane ==
    ASSUME Typed, HostMoves
    PROVE  /\ UNCHANGED <<client, taskVars, wire, up, readVars, clientVars>>
           /\ lane'["client"] = lane["client"]
           /\ attached' => attached
           /\ ~attached => /\ Still(lane["host"], lane'["host"])
                           /\ UNCHANGED <<ended, semantic>>
           /\ lane'["host"].held = lane["host"].held
           /\ \/ ended' = ended /\ lane'["host"].final = lane["host"].final
              \/ /\ ended' /\ ~attached' /\ Carries(lane'["host"])
                 /\ lane["host"].final = NoMessage /\ attached
  <1>1. HostTyped /\ AllTyped
    BY Groups
  <1>2. PICK j \in Nat, m \in Messages : Effect(j, m)
    BY DEF HostMoves, HostMove
  <1>3. /\ lane'["client"] = lane["client"] /\ (attached' => attached)
        /\ ended' <=> ended \/ IsFinal(m)
        /\ ended' \in BOOLEAN /\ ended \in BOOLEAN
        /\ IsFinal(m) => lane["host"].final = NoMessage
        /\ j # 0 \/ m # NoMessage => attached
        /\ attached' => ~IsFinal(m)
        /\ TakesIn(lane["host"], j, m, lane'["host"])
    BY <1>1, <1>2 DEF Effect, HostTyped
  <1>4. UNCHANGED <<client, taskVars, wire, up, readVars, clientVars>>
    BY DEF HostMoves
  <1>5. ASSUME ~attached
        PROVE  Still(lane["host"], lane'["host"]) /\ UNCHANGED <<ended, semantic>>
    <2>1. j = 0 /\ m = NoMessage
      BY <1>3, <1>5
    <2>2. lane["host"].queue \o Replies(0) = lane["host"].queue
      BY <1>1, NoReplies DEF HostTyped
    <2>3. Still(lane["host"], lane'["host"])
      <3>1. lane'["host"].seen \in BOOLEAN /\ lane["host"].seen \in BOOLEAN
        BY <1>1, <1>2, LaneFields DEF Effect, HostTyped, LaneFormed
      <3> QED
        BY <1>1, <1>3, <2>1, <2>2, <3>1 DEF TakesIn, HostTyped, Still
    <2>4. semantic' = semantic
      <3>1. /\ semantic' \in [accepted : Nat, received : Nat]
            /\ semantic \in [accepted : Nat, received : Nat]
            /\ semantic'.received = semantic.received
            /\ semantic'.accepted = semantic.accepted + 0 + One(FALSE)
        BY <1>1, <1>2, <2>1 DEF Effect, HostTyped, One
      <3>2. semantic'.accepted = semantic.accepted
        BY <3>1 DEF One
      <3> QED
        BY <3>1, <3>2
    <2>5. ended' = ended
      BY <1>1, <1>3, <2>1 DEF HostTyped
    <2> QED
      BY <2>3, <2>4, <2>5
  <1>6. CASE IsFinal(m)
    <2>1. /\ ended' /\ ~attached' /\ lane["host"].final = NoMessage
          /\ lane'["host"].final = m /\ lane'["host"].held = lane["host"].held
      BY <1>3, <1>6 DEF TakesIn
    <2>2. m # NoMessage
      BY <1>1, <1>6 DEF HostTyped
    <2> QED
      BY <1>3, <1>4, <1>5, <2>1, <2>2 DEF Carries
  <1>7. CASE ~IsFinal(m)
    <2>1. /\ ended' = ended
          /\ lane'["host"].final = lane["host"].final
          /\ lane'["host"].held = lane["host"].held
      BY <1>3, <1>7 DEF TakesIn
    <2> QED
      BY <1>3, <1>4, <1>5, <2>1
  <1> QED
    BY <1>6, <1>7

LEMMA EndsInit == Init => EndsInTurn /\ FinalIsLast
  <1> SUFFICES ASSUME Init PROVE EndsInTurn /\ FinalIsLast
    OBVIOUS
  <1>1. /\ attached = TRUE /\ ended = FALSE /\ phase = "handshake"
        /\ task = "handshake" /\ reading = TRUE /\ writing = NoMessage /\ wire = <<>>
    BY DEF Init
  <1>2. ASSUME NEW k \in {"host", "client"}
        PROVE  lane[k].final = NoMessage /\ lane[k].held = NoMessage
    BY DEF Init, Put, EmptyLane, Message, IsVisual, IsFinal
  <1>3. ~IsFinal(NoMessage)
    BY Kinds DEF IsFinal
  <1>4. \A i \in DOMAIN wire : FALSE
    BY <1>1
  <1> QED
    BY <1>1, <1>2, <1>3, <1>4 DEF EndsInTurn, FinalIsLast, OneFinal, Carries

LEMMA EndsNext ==
    ASSUME Typed, EndsInTurn, FinalIsLast, [Next]_vars
    PROVE  EndsInTurn' /\ FinalIsLast'
  <1>1. /\ HostMoves \/ TaskMove \/ ReaderMove \/ ClientMove \/ UNCHANGED vars
        /\ Running' => Running
    BY Moves
  <1>2. HostTyped /\ AllTyped /\ wire \in Seq(Messages)
    BY Groups DEF AllTyped, WireTyped
  <1>3. NoMessage.kind = "none" /\ ~IsFinal(NoMessage) /\ ~Last(NoMessage)
    BY <1>2 DEF HostTyped, Last
  <1>4. CASE HostMoves
    <2>1. /\ UNCHANGED <<task, writing, wire, reading, phase>>
          /\ lane'["client"] = lane["client"]
          /\ attached' => attached
          /\ ~attached => /\ Still(lane["host"], lane'["host"])
                          /\ ended' = ended
          /\ lane'["host"].held = lane["host"].held
          /\ \/ ended' = ended /\ lane'["host"].final = lane["host"].final
             \/ /\ ended' /\ ~attached' /\ Carries(lane'["host"])
                /\ lane["host"].final = NoMessage /\ attached
      BY <1>4, HostLane DEF taskVars, readVars, clientVars
    <2>2. CASE ~attached
      <3>1. /\ Carries(lane'["host"]) <=> Carries(lane["host"])
            /\ OneFinal(lane'["host"]) <=> OneFinal(lane["host"])
            /\ Drained(lane'["host"]) <=> Drained(lane["host"])
            /\ lane'["host"].queue = lane["host"].queue
        BY <2>1, <2>2, StillSame
      <3>2. EndsInTurn'
        BY <2>1, <2>2, <3>1 DEF EndsInTurn, Running
      <3>3. FinalIsLast'
        BY <2>1, <2>2, <3>1 DEF FinalIsLast, QuietHost, Running
      <3> QED
        BY <3>2, <3>3
    <2>3. CASE attached
      <3>1. /\ ~ended /\ ~Carries(lane["host"]) /\ ~IsFinal(writing)
            /\ ~Carries(lane["client"])
            /\ \A i \in DOMAIN wire : ~IsFinal(wire[i])
            /\ phase # "finished" /\ phase # "lost"
            /\ ~(Running /\ task = "closed") /\ ~(Running /\ ~reading)
        BY <2>3 DEF EndsInTurn, FinalIsLast
      <3>2. EndsInTurn'
        BY <2>1, <3>1 DEF EndsInTurn, Running
      <3>3. OneFinal(lane'["host"])
        BY <2>1, <3>1 DEF Carries, OneFinal
      <3>4. ~ended' => ~Carries(lane'["host"])
        BY <2>1, <3>1 DEF Carries
      <3>5. ended' => Carries(lane'["host"])
        BY <2>1, <3>1 DEF Carries
      <3>6. FinalIsLast'
        BY <2>1, <3>1, <3>3, <3>4, <3>5 DEF FinalIsLast
      <3> QED
        BY <3>2, <3>6
    <2> QED
      BY <2>2, <2>3
  <1>5. CASE TaskMove
    <2>1. /\ UNCHANGED <<attached, reading, phase, ended>>
          /\ lane'["client"] = lane["client"]
      BY <1>5 DEF TaskMove, hostVars, readVars, clientVars
    <2>2. CASE \E m : TaskTake(m)
      <3>1. PICK m : TaskTake(m)
        BY <2>2
      <3>2. /\ Takes(lane["host"], m, lane'["host"])
            /\ writing = NoMessage /\ writing' = m
            /\ task # "closed" /\ task' = "serving" /\ wire' = wire
        BY <3>1 DEF TaskTake
      <3>3. EndsInTurn'
        BY <2>1, <3>2 DEF EndsInTurn, Running
      <3>4. CASE m.kind \in Semantic
        <4>1. /\ lane["host"].queue # <<>> /\ ~IsFinal(m) /\ ~IsVisual(m)
          BY <3>2, <3>4, Kinds, <1>2 DEF Takes, IsFinal, HostTyped
        <4>2. /\ Carries(lane'["host"]) <=> Carries(lane["host"])
              /\ OneFinal(lane["host"]) => OneFinal(lane'["host"])
          BY <3>2, <4>1 DEF Takes
        <4>3. ~Carries(lane["client"]) /\ \A i \in DOMAIN wire : ~IsFinal(wire[i])
          BY <4>1 DEF FinalIsLast, QuietHost
        <4> QED
          BY <1>3, <2>1, <3>2, <3>3, <4>1, <4>2, <4>3 DEF FinalIsLast, Running
      <3>5. CASE IsFinal(m)
        <4>1. /\ Carries(lane["host"])
              /\ lane'["host"].queue = <<>>
              /\ ~Carries(lane'["host"]) /\ OneFinal(lane'["host"])
          BY <1>2, <3>2, <3>5, Kinds DEF Takes, FinalIsLast, HostTyped
        <4>2. /\ ~Carries(lane["client"]) /\ ended
              /\ \A i \in DOMAIN wire : ~IsFinal(wire[i])
          BY <4>1 DEF FinalIsLast, QuietHost
        <4> QED
          BY <2>1, <3>2, <3>3, <3>5, <4>1, <4>2 DEF FinalIsLast, QuietHost
      <3>6. CASE IsVisual(m)
        <4>1. ~IsFinal(m) /\ m.kind \notin Semantic
          BY <1>2, <3>6, Kinds DEF HostTyped
        <4>2. /\ lane'["host"].queue = lane["host"].queue
              /\ Carries(lane'["host"]) <=> Carries(lane["host"])
              /\ OneFinal(lane'["host"]) <=> OneFinal(lane["host"])
          BY <3>2, <4>1 DEF Takes, Carries, OneFinal
        <4>3. ~Last(m)
          BY <4>1 DEF Last
        <4> QED
          BY <1>3, <2>1, <3>2, <3>3, <4>1, <4>2, <4>3
             DEF FinalIsLast, QuietHost, Running
      <3> QED
        BY <3>2, <3>4, <3>5, <3>6 DEF Takes
    <2>3. CASE TaskPoll \/ TaskRead
      <3>1. /\ Still(lane["host"], lane'["host"])
            /\ UNCHANGED <<task, writing, wire>>
        BY <2>3 DEF TaskPoll, TaskRead, taskVars
      <3>2. /\ Carries(lane'["host"]) <=> Carries(lane["host"])
            /\ OneFinal(lane'["host"]) <=> OneFinal(lane["host"])
            /\ Drained(lane'["host"]) <=> Drained(lane["host"])
            /\ lane'["host"].queue = lane["host"].queue
        BY <3>1, StillSame
      <3>3. EndsInTurn'
        BY <2>1, <3>1, <3>2 DEF EndsInTurn, Running
      <3>4. FinalIsLast'
        BY <2>1, <3>1, <3>2 DEF FinalIsLast, QuietHost, Running
      <3> QED
        BY <3>3, <3>4
    <2>4. CASE TaskWrite
      <3>1. /\ writing # NoMessage /\ Running /\ wire' = Append(wire, writing)
            /\ writing' = NoMessage /\ UNCHANGED <<lane, task>>
        BY <2>4 DEF TaskWrite
      <3>2. /\ Len(wire) + 1 \in DOMAIN wire' /\ wire'[Len(wire) + 1] = writing
            /\ \A i \in DOMAIN wire : /\ i \in Nat \ {0} /\ i < Len(wire) + 1
                                      /\ i \in DOMAIN wire' /\ wire'[i] = wire[i]
            /\ \A i \in DOMAIN wire' : i \in DOMAIN wire \/ i = Len(wire) + 1
        BY <1>2, <3>1, AppendAt DEF AllTyped, TaskTyped, Formed
      <3>3. EndsInTurn'
        BY <2>1, <3>1 DEF EndsInTurn, Running
      <3> DEFINE e == Len(wire) + 1
      <3>5. e \in Nat
        BY <1>2, LenProperties
      <3> HIDE DEF e
      <3>6. \A i \in DOMAIN wire' : IsFinal(wire'[i]) =>
               /\ ended /\ QuietHost
               /\ \A j \in DOMAIN wire' : i < j => ~Last(wire'[j])
        <4> TAKE i \in DOMAIN wire'
        <4> HAVE IsFinal(wire'[i])
        <4>1. CASE i \in DOMAIN wire
          <5>1. IsFinal(wire[i])
            BY <3>2, <4>1
          <5>2. /\ ended /\ QuietHost /\ ~Last(writing)
                /\ \A j \in DOMAIN wire : i < j => ~Last(wire[j])
            BY <4>1, <5>1 DEF FinalIsLast
          <5>3. \A j \in DOMAIN wire' : i < j => ~Last(wire'[j])
            BY <3>2, <5>2
          <5> QED
            BY <5>2, <5>3
        <4>2. CASE i = e /\ i \notin DOMAIN wire
          <5>1. IsFinal(writing)
            BY <3>2, <4>2 DEF e
          <5>2. \A j \in DOMAIN wire' : ~(i < j)
            BY <3>2, <3>5, <4>2 DEF e
          <5> QED
            BY <5>1, <5>2 DEF FinalIsLast
        <4> QED
          BY <3>2, <4>1, <4>2 DEF e
      <3>7. Carries(lane["client"]) => \A j \in DOMAIN wire' : ~Last(wire'[j])
        BY <3>2 DEF FinalIsLast
      <3>8. \/ IsFinal(writing) \/ \E i \in DOMAIN wire : IsFinal(wire[i])
            => \E i \in DOMAIN wire' : IsFinal(wire'[i])
        BY <3>2
      <3>9. FinalIsLast'
        BY <1>3, <2>1, <3>1, <3>6, <3>7, <3>8 DEF FinalIsLast, QuietHost, Running
      <3> QED
        BY <3>3, <3>9
    <2>5. CASE TaskEnd
      <3>1. /\ task' = "closed" /\ writing' = NoMessage /\ UNCHANGED <<lane, wire>>
            /\ Running => /\ writing = NoMessage /\ ~attached
                          /\ Drained(lane["host"])
        BY <2>5 DEF TaskEnd
      <3>2. EndsInTurn'
        BY <2>1, <3>1 DEF EndsInTurn, Running
      <3>3. FinalIsLast'
        BY <1>1, <1>3, <2>1, <3>1 DEF FinalIsLast, QuietHost, Running
      <3> QED
        BY <3>2, <3>3
    <2> QED
      BY <1>5, <2>2, <2>3, <2>4, <2>5 DEF TaskMove
  <1>6. CASE ReaderMove
    <2>1. /\ UNCHANGED <<attached, task, writing, phase, ended>>
          /\ lane'["host"] = lane["host"]
      BY <1>6 DEF ReaderMove, hostVars, taskVars, clientVars
    <2>2. CASE ReaderEnd
      <3>1. UNCHANGED <<lane, wire>> /\ (Running => task = "closed" /\ wire = <<>>)
        BY <2>2 DEF ReaderEnd
      <3>2. EndsInTurn'
        BY <2>1, <3>1 DEF EndsInTurn, Running
      <3>3. FinalIsLast'
        BY <2>1, <3>1 DEF FinalIsLast, QuietHost, Running
      <3> QED
        BY <3>2, <3>3
    <2>3. CASE \E h, c : ReaderRead(h, c)
      <3>1. PICK h, c : ReaderRead(h, c)
        BY <2>3
      <3>2. /\ Running /\ reading' = reading
            /\ wire # <<>> /\ h = Head(wire) /\ wire' = Tail(wire)
            /\ PutIn(lane["client"], c, lane'["client"])
            /\ c = h \/ (h.kind = "damage" /\ c.kind = "frame")
        BY <3>1 DEF ReaderRead
      <3>3. /\ 1 \in DOMAIN wire /\ h = wire[1]
            /\ \A i \in DOMAIN wire' :
                 i \in Nat \ {0} /\ i + 1 \in DOMAIN wire /\ wire'[i] = wire[i + 1]
            /\ \A j \in DOMAIN wire :
                 /\ j \in Nat \ {0}
                 /\ j = 1 \/ (j - 1 \in DOMAIN wire' /\ wire'[j - 1] = wire[j])
        BY <1>2, <3>2, TailAt
      <3>4. EndsInTurn'
        <4>1. ~(Running /\ ~reading)
          BY <3>2 DEF EndsInTurn
        <4> QED
          BY <2>1, <3>2, <4>1 DEF EndsInTurn, Running
      <3>5. \A i \in DOMAIN wire' : IsFinal(wire'[i]) =>
               /\ ended /\ QuietHost /\ ~Last(writing)
               /\ \A j \in DOMAIN wire' : i < j => ~Last(wire'[j])
        <4> TAKE i \in DOMAIN wire'
        <4> HAVE IsFinal(wire'[i])
        <4>1. i + 1 \in DOMAIN wire /\ IsFinal(wire[i + 1])
          BY <3>3
        <4>2. /\ ended /\ QuietHost /\ ~Last(writing)
              /\ \A j \in DOMAIN wire : i + 1 < j => ~Last(wire[j])
          BY <4>1 DEF FinalIsLast
        <4>3. \A j \in DOMAIN wire' : i < j => i + 1 < j + 1
          BY <3>3
        <4> QED
          BY <3>3, <4>2, <4>3
      <3>6. CASE IsFinal(h)
        <4>1. c = h /\ Last(h)
          BY <3>2, <3>6 DEF IsFinal, Last
        <4>2. ~Carries(lane["client"])
          BY <3>3, <4>1 DEF FinalIsLast
        <4>3. /\ ended /\ QuietHost /\ ~Last(writing)
              /\ \A j \in DOMAIN wire : 1 < j => ~Last(wire[j])
          BY <3>3, <3>6 DEF FinalIsLast
        <4>4. /\ lane'["client"].final = h /\ h # NoMessage
              /\ lane'["client"].held = NoMessage
          BY <1>3, <3>2, <3>6, <4>1, <4>2 DEF PutIn, Carries
        <4>5. \A j \in DOMAIN wire' : ~Last(wire'[j])
          <5> TAKE j \in DOMAIN wire'
          <5>1. 1 < j + 1 /\ j + 1 \in DOMAIN wire /\ wire'[j] = wire[j + 1]
            BY <3>3
          <5> QED
            BY <4>3, <5>1
        <4>6. Carries(lane'["client"]) /\ OneFinal(lane'["client"])
          BY <4>4 DEF Carries, OneFinal
        <4>7. FinalIsLast'
          BY <2>1, <3>5, <4>3, <4>5, <4>6 DEF FinalIsLast, QuietHost
        <4> QED
          BY <3>4, <4>7
      <3>7. CASE ~IsFinal(h)
        <4>1. ~IsFinal(c)
          BY <3>2, <3>7 DEF IsFinal
        <4>2. /\ Carries(lane'["client"]) <=> Carries(lane["client"])
              /\ OneFinal(lane'["client"]) <=> OneFinal(lane["client"])
          BY <3>2, <4>1 DEF PutIn, Carries, OneFinal
        <4>3. (\E i \in DOMAIN wire : IsFinal(wire[i]))
                 => \E i \in DOMAIN wire' : IsFinal(wire'[i])
          BY <3>3, <3>7
        <4>4. Carries(lane["client"]) => \A j \in DOMAIN wire' : ~Last(wire'[j])
          BY <3>3 DEF FinalIsLast
        <4>5. FinalIsLast'
          BY <2>1, <3>2, <3>5, <4>2, <4>3, <4>4 DEF FinalIsLast, QuietHost, Running
        <4> QED
          BY <3>4, <4>5
      <3> QED
        BY <3>6, <3>7
    <2> QED
      BY <1>6, <2>2, <2>3 DEF ReaderMove
  <1>7. CASE ClientMove
    <2>1. /\ UNCHANGED <<attached, task, writing, wire, reading, ended>>
          /\ lane'["host"] = lane["host"]
      BY <1>7 DEF ClientMove, hostVars, taskVars, readVars
    <2>2. CASE \E m : ClientTake(m)
      <3>1. PICK m : ClientTake(m)
        BY <2>2
      <3>2. /\ Takes(lane["client"], m, lane'["client"])
            /\ Formed(m, nextFrame) /\ m.kind # "none"
            /\ Greets(m) \/ Reacts(m)
        BY <3>1 DEF ClientTake
      <3>3. /\ Running
            /\ phase' \in {"initial", "launch", "loop", "finished", "unexpected",
                           "refused"}
            /\ phase' = "finished" => IsFinal(m)
            /\ IsFinal(m) => ~Running'
        <4>1. CASE Greets(m)
          <5>1. ~IsFinal(m)
            BY <4>1 DEF Greets, Semantic, IsFinal
          <5> QED
            BY <4>1, <5>1 DEF Greets, Running
        <4>2. CASE Reacts(m)
          BY <1>2, <4>2 DEF Reacts, OnInitial, OnLaunching, OnResponse, Goes, Running,
                     IsFinal, IsVisual
        <4> QED
          BY <3>2, <4>1, <4>2
      <3>4. /\ ~IsFinal(m) => (Carries(lane'["client"]) <=> Carries(lane["client"]))
            /\ OneFinal(lane'["client"])
            /\ IsFinal(m) => Carries(lane["client"]) /\ ~Carries(lane'["client"])
        <4>1. ~(m.kind \in Semantic /\ IsFinal(m)) /\ ~(IsVisual(m) /\ IsFinal(m))
          BY <1>2, Kinds DEF HostTyped
        <4>2. OneFinal(lane["client"])
          BY DEF FinalIsLast
        <4> QED
          BY <3>2, <4>1, <4>2 DEF Takes, Carries, OneFinal
      <3>5. EndsInTurn'
        BY <1>1, <2>1, <3>3, <3>4 DEF EndsInTurn, FinalIsLast
      <3>6. FinalIsLast'
        BY <1>1, <2>1, <3>3, <3>4 DEF FinalIsLast, QuietHost
      <3> QED
        BY <3>5, <3>6
    <2>3. CASE ClientPoll \/ ClientAct
      <3>1. Still(lane["client"], lane'["client"]) /\ phase' = phase
        BY <2>3 DEF ClientPoll, ClientAct, clientVars
      <3>2. /\ Carries(lane'["client"]) <=> Carries(lane["client"])
            /\ OneFinal(lane'["client"]) <=> OneFinal(lane["client"])
        BY <3>1, StillSame
      <3>3. EndsInTurn'
        BY <2>1, <3>1 DEF EndsInTurn, Running
      <3>4. FinalIsLast'
        BY <2>1, <3>1, <3>2 DEF FinalIsLast, QuietHost, Running
      <3> QED
        BY <3>3, <3>4
    <2>4. CASE ClientQuit
      <3>1. /\ lane' = lane /\ Running /\ ~Running'
            /\ \/ phase' = "left"
               \/ phase' = "lost" /\ ~reading
        BY <2>4 DEF ClientQuit, Running
      <3>2. EndsInTurn'
        BY <2>1, <3>1 DEF EndsInTurn
      <3>3. FinalIsLast'
        BY <2>1, <3>1 DEF FinalIsLast, QuietHost
      <3> QED
        BY <3>2, <3>3
    <2> QED
      BY <1>7, <2>2, <2>3, <2>4 DEF ClientMove
  <1>8. CASE UNCHANGED vars
    BY <1>8 DEF vars, hostVars, taskVars, readVars, clientVars, EndsInTurn,
                FinalIsLast, QuietHost, Running
  <1> QED
    BY <1>1, <1>4, <1>5, <1>6, <1>7, <1>8

-----------------------------------------------------------------------------
(* The third layer: no semantic reply is lost, and Welcome comes first. *)

\* The semantic replies on their way to the client's loop.
InPipe ==
    Len(lane["host"].queue) + One(writing.kind \in Semantic)
       + Count(wire, Semantic) + Len(lane["client"].queue)
Balanced == Running => semantic.accepted = semantic.received + InPipe

\* Welcome is the only reply there is until the client's loop has it, and it
\* is not there again.
Greeted(m) == m.kind \in Semantic => (m.kind = "welcome" <=> phase = "handshake")
Greeting ==
    /\ Running =>
          /\ \A k \in {"host", "client"} :
                \A i \in DOMAIN lane[k].queue : Greeted(lane[k].queue[i])
          /\ Greeted(writing)
          /\ \A i \in DOMAIN wire : Greeted(wire[i])
    /\ phase \in {"handshake", "initial"} =>
          /\ up = <<>> /\ \A i \in DOMAIN events : events[i].kind = "gone"
          /\ media = 0 /\ inputBarrier = NoSerial /\ awaiting = NoSerial
          /\ semantic.accepted = 1 /\ semantic.received = One(phase = "initial")
          /\ sent.inputs = 0 /\ covers = 0

\* The parts of the pipe are numbers.
LEMMA PipeNumbers ==
    ASSUME Typed
    PROVE  /\ lane["host"].queue \in Seq(Messages)
           /\ lane["client"].queue \in Seq(Messages)
           /\ wire \in Seq(Messages) /\ writing \in Messages
           /\ Len(lane["host"].queue) \in Nat
           /\ Len(lane["client"].queue) \in Nat
           /\ Count(wire, Semantic) \in Nat
           /\ One(writing.kind \in Semantic) \in {0, 1}
           /\ semantic.accepted \in Nat /\ semantic.received \in Nat
  <1>1. /\ lane["host"].queue \in Seq(Messages)
        /\ lane["client"].queue \in Seq(Messages)
    BY Groups, LaneFields DEF AllTyped, LanesTyped
  <1>2. wire \in Seq(Messages) /\ writing \in Messages
    BY Groups DEF AllTyped, WireTyped, TaskTyped, Formed
  <1>3. Count(wire, Semantic) \in Nat
    BY <1>2, CountNat
  <1>4. semantic.accepted \in Nat /\ semantic.received \in Nat
    BY Groups DEF AllTyped, NotesTyped
  <1>5. One(writing.kind \in Semantic) \in {0, 1}
    BY DEF One
  <1> QED
    BY <1>1, <1>2, <1>3, <1>4, <1>5, LenProperties

\* A step of the host sends what it accepts: nothing before the first frame is
\* shown, and no Welcome after.
LEMMA HostSends ==
    ASSUME Typed, HostMoves, EndsInTurn, Greeting
    PROVE  \E j \in Nat, m \in Messages :
              /\ Effect(j, m)
              /\ m.kind # "welcome"
              /\ phase \in {"handshake", "initial"} =>
                    /\ j = 0 /\ m.kind \notin Semantic
                    /\ media' = 0 /\ inputBarrier' = NoSerial
  <1>1. PICK j \in Nat, m \in Messages, last \in 0 .. nextFrame - 1,
             barrier \in Int, mm \in Nat :
          /\ HostMove(j, m, last, barrier, mm)
          /\ barrier # inputBarrier =>
                attached /\ (Serves("barrier") \/ Serves("launch"))
          /\ mm # media =>
                mm = media + 1 /\ attached /\ Window /\ Serves("input")
          /\ m.kind = "reply" => Serves("ask") \/ Serves("launch")
    BY DEF HostMoves
  <1>2. NoMessage.kind = "none" /\ media \in Nat
    BY Groups DEF HostTyped
  <1>3. Effect(j, m)
    BY <1>1 DEF HostMove
  <1>4. m.kind # "welcome"
    BY <1>1, <1>2 DEF HostMove, Unpublished, Published
  <1>5. ASSUME phase \in {"handshake", "initial"}
        PROVE  /\ j = 0 /\ m.kind \notin Semantic
               /\ media' = 0 /\ inputBarrier' = NoSerial
    <2>1. \A k \in {"barrier", "launch", "input", "ask"} : ~Serves(k)
      <3>1. \A i \in DOMAIN events : events[i].kind = "gone"
        BY <1>5 DEF Greeting
      <3>2. events # <<>> => Head(events).kind = "gone"
        BY <3>1, TailAt, Groups DEF HostTyped
      <3> QED
        BY <3>2 DEF Serves
    <2>2. media = 0 /\ inputBarrier = NoSerial
      BY <1>5 DEF Greeting
    <2>3. mm = 0 /\ barrier = NoSerial /\ m.kind # "reply"
      BY <1>1, <2>1, <2>2
    <2>4. CASE Unpublished(j, m, last, barrier, mm)
      BY <2>2, <2>3, <2>4 DEF Unpublished, Semantic
    <2>5. CASE Published(j, m, last, barrier, mm)
      <3>1. j \in Nat /\ j <= 0
        BY <2>3, <2>5 DEF Published
      <3>2. j = 0
        BY <3>1
      <3> QED
        BY <1>2, <2>3, <2>5, <3>2 DEF Published, Semantic
    <2> QED
      BY <1>1, <2>4, <2>5 DEF HostMove
  <1> QED
    BY <1>3, <1>4, <1>5

\* The lane of the host after it.
LEMMA HostQueue ==
    ASSUME Typed, NEW j \in Nat, NEW m \in Messages, Effect(j, m)
    PROVE  /\ lane'["host"].queue \in Seq(Messages)
           /\ Len(lane'["host"].queue)
                 = Len(lane["host"].queue) + j + One(m.kind \in Semantic)
           /\ \A i \in DOMAIN lane'["host"].queue :
                 \/ /\ i \in DOMAIN lane["host"].queue
                    /\ lane'["host"].queue[i] = lane["host"].queue[i]
                 \/ lane'["host"].queue[i] = Reply /\ j # 0
                 \/ lane'["host"].queue[i] = m /\ m.kind \in Semantic
  <1> DEFINE q == lane["host"].queue
             r == q \o Replies(j)
  <1>1. q \in Seq(Messages) /\ Len(q) \in Nat
    BY PipeNumbers
  <1>2. lane'["host"].queue = IF m.kind \in Semantic THEN Append(r, m) ELSE r
    BY DEF Effect, TakesIn
  <1>3. /\ r \in Seq(Messages) /\ Len(r) = Len(q) + j
        /\ \A i \in DOMAIN r :
              \/ i \in DOMAIN q /\ r[i] = q[i]
              \/ i \notin DOMAIN q /\ r[i] = Reply
    <2> HIDE DEF q
    <2> QED
      BY <1>1, ReplyQueue
  <1>4. j = 0 => r = q
    <2> HIDE DEF q
    <2> QED
      BY <1>1, NoReplies
  <1>5. \A i \in DOMAIN r : \/ i \in DOMAIN q /\ r[i] = q[i]
                            \/ r[i] = Reply /\ j # 0
    <2> HIDE DEF q, r
    <2>1. j = 0 => DOMAIN r = DOMAIN q
      BY <1>4
    <2> QED
      BY <1>3, <2>1
  <1> HIDE DEF q, r
  <1>6. CASE m.kind \in Semantic
    <2>1. /\ Append(r, m) \in Seq(Messages)
          /\ Append(r, m)[Len(r) + 1] = m
          /\ \A i \in DOMAIN r : Append(r, m)[i] = r[i]
          /\ \A i \in DOMAIN Append(r, m) : i \in DOMAIN r \/ i = Len(r) + 1
      BY <1>3, AppendAt
    <2>2. Len(Append(r, m)) = Len(q) + j + 1
      BY <1>1, <1>3, AppendProperties
    <2>3. One(m.kind \in Semantic) = 1
      BY <1>6 DEF One
    <2>4. \A i \in DOMAIN Append(r, m) :
             \/ i \in DOMAIN q /\ Append(r, m)[i] = q[i]
             \/ Append(r, m)[i] = Reply /\ j # 0
             \/ Append(r, m)[i] = m /\ m.kind \in Semantic
      BY <1>5, <1>6, <2>1
    <2> QED
      BY <1>2, <1>6, <2>1, <2>2, <2>3, <2>4 DEF q
  <1>7. CASE m.kind \notin Semantic
    <2>1. One(m.kind \in Semantic) = 0
      BY <1>7 DEF One
    <2>2. Len(r) = Len(q) + j + 0
      BY <1>1, <1>3
    <2> QED
      BY <1>2, <1>3, <1>5, <1>7, <2>1, <2>2 DEF q
  <1> QED
    BY <1>6, <1>7

\* A receiver takes one of the queue, or none.
LEMMA TakenQueue ==
    ASSUME NEW l, NEW m, NEW k, l.queue \in Seq(Messages), m.kind # "none",
           Takes(l, m, k)
    PROVE  /\ k.queue \in Seq(Messages)
           /\ Len(l.queue) = Len(k.queue) + One(m.kind \in Semantic)
           /\ \A i \in DOMAIN k.queue : \E o \in DOMAIN l.queue :
                 k.queue[i] = l.queue[o]
           /\ m.kind \in Semantic => 1 \in DOMAIN l.queue /\ m = l.queue[1]
  <1>1. CASE m.kind \in Semantic
    <2>1. l.queue # <<>> /\ m = Head(l.queue) /\ k.queue = Tail(l.queue)
      BY <1>1 DEF Takes, Semantic, IsVisual, IsFinal
    <2>2. /\ Len(Tail(l.queue)) = Len(l.queue) - 1 /\ Len(l.queue) \in Nat
      BY <2>1, HeadTailProperties, LenProperties
    <2>3. One(m.kind \in Semantic) = 1
      BY <1>1 DEF One
    <2> QED
      BY <2>1, <2>2, <2>3, TailAt
  <1>2. CASE m.kind \notin Semantic
    <2>1. k.queue = l.queue
      BY <1>2 DEF Takes
    <2>2. One(m.kind \in Semantic) = 0 /\ Len(l.queue) \in Nat
      BY <1>2, LenProperties DEF One
    <2> QED
      BY <1>2, <2>1, <2>2
  <1> QED
    BY <1>1, <1>2

\* When the client's loop runs, no step loses or invents a semantic reply.
LEMMA BalancedNext ==
    ASSUME Typed, EndsInTurn, FinalIsLast, Balanced, Greeting, [Next]_vars
    PROVE  Balanced'
  <1> SUFFICES ASSUME Running'
               PROVE  semantic'.accepted = semantic'.received + InPipe'
    BY DEF Balanced
  <1>1. /\ HostMoves \/ TaskMove \/ ReaderMove \/ ClientMove \/ UNCHANGED vars
        /\ Running /\ semantic.accepted = semantic.received + InPipe
    BY Moves DEF Balanced
  <1>2. PICK h \in Nat, w \in {0, 1}, n \in Nat, c \in Nat, a \in Nat, r \in Nat :
           /\ h = Len(lane["host"].queue) /\ w = One(writing.kind \in Semantic)
           /\ n = Count(wire, Semantic) /\ c = Len(lane["client"].queue)
           /\ a = semantic.accepted /\ r = semantic.received
    BY PipeNumbers
  <1>3. a = r + (h + w + n + c)
    BY <1>1, <1>2 DEF InPipe
  <1>4. /\ lane["host"].queue \in Seq(Messages)
        /\ lane["client"].queue \in Seq(Messages)
        /\ wire \in Seq(Messages) /\ writing \in Messages
    BY PipeNumbers
  <1>5. NoMessage.kind \notin Semantic
    BY Groups DEF HostTyped
  <1>6. CASE HostMoves
    <2>1. PICK j \in Nat, m \in Messages : Effect(j, m)
      BY <1>6, HostSends
    <2>2. /\ Len(lane'["host"].queue) = h + j + One(m.kind \in Semantic)
          /\ semantic'.accepted = a + j + One(m.kind \in Semantic)
          /\ semantic'.received = r
      BY <1>2, <2>1, HostQueue DEF Effect
    <2>3. /\ One(writing'.kind \in Semantic) = w /\ Count(wire', Semantic) = n
          /\ Len(lane'["client"].queue) = c
      BY <1>2, <1>6, HostLane DEF taskVars
    <2>4. PICK o \in {0, 1} : o = One(m.kind \in Semantic)
      BY DEF One
    <2>5. InPipe' = (h + j + o) + w + n + c
      BY <2>2, <2>3, <2>4 DEF InPipe
    <2>6. a + j + o = r + ((h + j + o) + w + n + c)
      BY <1>3
    <2> QED
      BY <2>2, <2>4, <2>5, <2>6
  <1>7. CASE TaskMove
    <2>1. semantic' = semantic /\ lane'["client"] = lane["client"]
      BY <1>7 DEF TaskMove
    <2>2. CASE \E m : TaskTake(m)
      <3>1. PICK m : TaskTake(m)
        BY <2>2
      <3>2. /\ Takes(lane["host"], m, lane'["host"]) /\ m.kind # "none"
            /\ writing = NoMessage /\ writing' = m /\ wire' = wire
        BY <3>1 DEF TaskTake
      <3>3. PICK o \in {0, 1} : o = One(m.kind \in Semantic)
        BY DEF One
      <3>4. h = Len(lane'["host"].queue) + o /\ Len(lane'["host"].queue) \in Nat
        BY <1>2, <1>4, <3>2, <3>3, TakenQueue, LenProperties
      <3>5. w = 0
        BY <1>2, <1>5, <3>2 DEF One
      <3>6. InPipe' = Len(lane'["host"].queue) + o + n + c
        BY <1>2, <2>1, <3>2, <3>3 DEF InPipe
      <3>7. Len(lane'["host"].queue) + o + n + c = h + w + n + c
        BY <3>4, <3>5
      <3> QED
        BY <1>2, <1>3, <2>1, <3>6, <3>7
    <2>3. CASE TaskPoll \/ TaskRead
      <3>1. /\ lane'["host"].queue = lane["host"].queue
            /\ UNCHANGED <<writing, wire>>
        BY <2>3 DEF TaskPoll, TaskRead, taskVars, Still
      <3> QED
        BY <1>1, <2>1, <3>1 DEF InPipe
    <2>4. CASE TaskWrite
      <3>1. /\ wire' = Append(wire, writing) /\ writing' = NoMessage
            /\ lane' = lane
        BY <2>4 DEF TaskWrite
      <3>2. Count(wire', Semantic) = n + w
        BY <1>2, <1>4, <3>1, CountAppend
      <3>3. One(writing'.kind \in Semantic) = 0
        BY <1>5, <3>1 DEF One
      <3>4. InPipe' = h + 0 + (n + w) + c
        BY <1>2, <3>1, <3>2, <3>3 DEF InPipe
      <3>5. h + 0 + (n + w) + c = h + w + n + c
        OBVIOUS
      <3> QED
        BY <1>2, <1>3, <2>1, <3>4, <3>5
    <2>5. CASE TaskEnd
      <3>1. /\ writing = NoMessage /\ writing' = NoMessage
            /\ UNCHANGED <<lane, wire>>
        BY <1>1, <2>5 DEF TaskEnd
      <3> QED
        BY <1>1, <2>1, <3>1 DEF InPipe
    <2> QED
      BY <1>7, <2>2, <2>3, <2>4, <2>5 DEF TaskMove
  <1>8. CASE ReaderMove
    <2>1. /\ semantic' = semantic /\ lane'["host"] = lane["host"]
          /\ writing' = writing
      BY <1>8 DEF ReaderMove, taskVars
    <2>2. CASE ReaderEnd
      BY <1>1, <2>1, <2>2 DEF ReaderEnd, InPipe
    <2>3. CASE \E x, y : ReaderRead(x, y)
      <3>1. PICK x, y : ReaderRead(x, y)
        BY <2>3
      <3>2. /\ wire # <<>> /\ x = Head(wire) /\ wire' = Tail(wire)
            /\ PutIn(lane["client"], y, lane'["client"])
            /\ y = x \/ (x.kind = "damage" /\ y.kind = "frame")
        BY <3>1 DEF ReaderRead
      <3>3. x \in Messages /\ Tail(wire) \in Seq(Messages)
        BY <1>4, <3>2, HeadTailProperties
      <3>4. PICK o \in {0, 1} : o = One(x.kind \in Semantic)
        BY DEF One
      <3>5. n = o + Count(wire', Semantic) /\ Count(wire', Semantic) \in Nat
        BY <1>2, <1>4, <3>2, <3>3, <3>4, CountTail, CountNat
      <3>6. Len(lane'["client"].queue) = c + o
        <4>1. CASE x.kind \in Semantic
          <5>1. y = x /\ o = 1
            BY <3>2, <3>4, <4>1 DEF Semantic, One
          <5>2. lane'["client"].queue = Append(lane["client"].queue, x)
            BY <3>2, <4>1, <5>1 DEF PutIn
          <5> QED
            BY <1>2, <1>4, <3>3, <5>1, <5>2, AppendProperties
        <4>2. CASE x.kind \notin Semantic
          <5>1. y.kind \notin Semantic /\ o = 0
            BY <3>2, <3>4, <4>2 DEF Semantic, One
          <5>2. lane'["client"].queue = lane["client"].queue
            BY <3>2, <5>1 DEF PutIn
          <5> QED
            BY <1>2, <5>1, <5>2
        <4> QED
          BY <4>1, <4>2
      <3>7. InPipe' = h + w + Count(wire', Semantic) + (c + o)
        BY <1>2, <2>1, <3>6 DEF InPipe
      <3>8. h + w + Count(wire', Semantic) + (c + o) = h + w + n + c
        BY <3>5
      <3> QED
        BY <1>2, <1>3, <2>1, <3>7, <3>8
    <2> QED
      BY <1>8, <2>2, <2>3 DEF ReaderMove
  <1>9. CASE ClientMove
    <2>1. /\ lane'["host"] = lane["host"] /\ UNCHANGED <<writing, wire>>
      BY <1>9 DEF ClientMove, taskVars
    <2>2. CASE \E m : ClientTake(m)
      <3>1. PICK m : ClientTake(m)
        BY <2>2
      <3>2. /\ Takes(lane["client"], m, lane'["client"]) /\ m.kind # "none"
            /\ semantic'.accepted = semantic.accepted
            /\ semantic'.received = semantic.received + One(m.kind \in Semantic)
        BY <3>1 DEF ClientTake
      <3>3. PICK o \in {0, 1} : o = One(m.kind \in Semantic)
        BY DEF One
      <3>4. PICK x \in Nat : x = Len(lane'["client"].queue) /\ c = x + o
        <4>1. c = Len(lane'["client"].queue) + o
          BY <1>2, <1>4, <3>2, <3>3, TakenQueue
        <4>2. Len(lane'["client"].queue) \in Nat
          BY <1>4, <3>2, TakenQueue, LenProperties
        <4> QED
          BY <4>1, <4>2
      <3>5. InPipe' = h + w + n + x
        BY <1>2, <2>1, <3>4 DEF InPipe
      <3>6. a = (r + o) + (h + w + n + x)
        <4>1. c = x + o
          BY <3>4
        <4> QED
          BY <1>3, <4>1
      <3> QED
        BY <1>2, <3>2, <3>3, <3>5, <3>6
    <2>3. CASE ClientPoll \/ ClientAct
      <3>1. lane'["client"].queue = lane["client"].queue /\ semantic' = semantic
        BY <2>3 DEF ClientPoll, ClientAct, Still
      <3> QED
        BY <1>1, <2>1, <3>1 DEF InPipe
    <2>4. CASE ClientQuit
      BY <1>1, <2>1, <2>4 DEF ClientQuit, InPipe
    <2> QED
      BY <1>9, <2>2, <2>3, <2>4 DEF ClientMove
  <1>10. CASE UNCHANGED vars
    BY <1>1, <1>10 DEF vars, taskVars, InPipe
  <1> QED
    BY <1>1, <1>6, <1>7, <1>8, <1>9, <1>10

-----------------------------------------------------------------------------
(* The greeting *)

LEMMA GreetingInit == Init => Balanced /\ Greeting
  <1> SUFFICES ASSUME Init PROVE Balanced /\ Greeting
    OBVIOUS
  <1> DEFINE w == Message("welcome", NoFrame, NoFrame, NoSerial)
  <1>1. lane["host"].queue = <<w>> /\ lane["client"].queue = <<>>
    <2>1. Put(EmptyLane, w).queue = <<w>>
      BY DEF Put, EmptyLane, Message, IsVisual, IsFinal
    <2>2. Put(Put(EmptyLane, w), Message("frame", 1, NoFrame, NoSerial)).queue = <<w>>
      <3> DEFINE l == Put(EmptyLane, w)
                 f == Message("frame", 1, NoFrame, NoSerial)
      <3>1. l = [EmptyLane EXCEPT !.queue = Append(@, w)]
        BY DEF Put, Message, IsVisual, IsFinal
      <3>2. IsVisual(f)
        BY DEF Message, IsVisual
      <3>3. Put(l, f) = [l EXCEPT !.slot = f, !.seen = FALSE]
        <4> HIDE DEF l, f
        <4> QED
          BY <3>2 DEF Put
      <3>4. "queue" \in DOMAIN l
        <4> HIDE DEF w
        <4> QED
          BY <3>1 DEF EmptyLane
      <3>5. Put(l, f).queue = l.queue
        <4> HIDE DEF l, f
        <4> QED
          BY <3>3, <3>4
      <3> QED
        BY <2>1, <3>5
    <2> QED
      BY <2>1, <2>2 DEF Init, EmptyLane
  <1>2. w.kind = "welcome" /\ Len(<<w>>) = 1 /\ <<w>>[1] = w /\ DOMAIN <<w>> = {1}
    BY DEF Message
  <1>3. /\ writing.kind = "none" /\ wire = <<>> /\ up = <<>> /\ events = <<>>
        /\ phase = "handshake" /\ media = 0 /\ inputBarrier = NoSerial
        /\ awaiting = NoSerial /\ semantic.accepted = 1 /\ semantic.received = 0
        /\ sent.inputs = 0 /\ covers = 0
    BY DEF Init, NoMessage, Message
  <1>4. Count(wire, Semantic) = 0
    <2>1. <<>> \in Seq(Messages) /\ DOMAIN <<>> = {}
      OBVIOUS
    <2> QED
      BY <1>3, <2>1, CountNat
  <1>5. One(writing.kind \in Semantic) = 0 /\ One(FALSE) = 0
    BY <1>3 DEF One, Semantic
  <1> HIDE DEF w
  <1>6. Balanced
    <2>1. Len(lane["host"].queue) = 1 /\ Len(lane["client"].queue) = 0
      BY <1>1, <1>2
    <2> QED
      BY <1>3, <1>4, <1>5, <2>1 DEF Balanced, InPipe
  <1>7. /\ \A i \in DOMAIN lane["host"].queue : Greeted(lane["host"].queue[i])
        /\ \A i \in DOMAIN lane["client"].queue : Greeted(lane["client"].queue[i])
    BY <1>1, <1>2, <1>3 DEF Greeted
  <1>8. Greeted(writing) /\ \A i \in DOMAIN wire : Greeted(wire[i])
    BY <1>3 DEF Greeted, Semantic
  <1>9. \A i \in DOMAIN events : events[i].kind = "gone"
    BY <1>3
  <1> QED
    BY <1>3, <1>5, <1>6, <1>7, <1>8, <1>9 DEF Greeting, One

\* A pipe with nothing in it.
LEMMA EmptyPipe ==
    ASSUME NEW q \in Seq(Messages), NEW u \in Seq(Messages),
           NEW c \in Seq(Messages), NEW v,
           Len(q) + One(v.kind \in Semantic) + Count(u, Semantic) + Len(c) = 0
    PROVE  /\ q = <<>> /\ c = <<>> /\ v.kind \notin Semantic
           /\ \A i \in DOMAIN u : u[i].kind \notin Semantic
  <1>1. PICK x \in Nat, y \in {0, 1}, z \in Nat, k \in Nat :
           /\ x = Len(q) /\ y = One(v.kind \in Semantic)
           /\ z = Count(u, Semantic) /\ k = Len(c)
    <2>1. One(v.kind \in Semantic) \in {0, 1}
      BY DEF One
    <2> QED
      BY <2>1, LenProperties, CountNat
  <1>2. x + y + z + k = 0
    BY <1>1
  <1>3. x = 0 /\ y = 0 /\ z = 0 /\ k = 0
    BY <1>2
  <1>4. q = <<>> /\ c = <<>>
    BY <1>1, <1>3, EmptySeq
  <1>5. v.kind \notin Semantic
    BY <1>1, <1>3 DEF One
  <1>6. \A i \in DOMAIN u : u[i].kind \notin Semantic
    BY <1>1, <1>3, CountNat
  <1> QED
    BY <1>4, <1>5, <1>6

\* Welcome comes first and once, and no request before the first frame.
LEMMA GreetingNext ==
    ASSUME Typed, EndsInTurn, FinalIsLast, Balanced, Greeting, [Next]_vars
    PROVE  Greeting'
  <1>1. /\ HostMoves \/ TaskMove \/ ReaderMove \/ ClientMove \/ UNCHANGED vars
        /\ Running' => Running
    BY Moves
  <1>2. /\ lane["host"].queue \in Seq(Messages)
        /\ lane["client"].queue \in Seq(Messages)
        /\ wire \in Seq(Messages) /\ writing \in Messages
        /\ events \in Seq(Requests)
        /\ NoMessage.kind = "none" /\ "none" \notin Semantic
    BY PipeNumbers, Groups DEF HostTyped, AllTyped, RequestsTyped, Semantic
  <1>3. Running =>
          /\ \A i \in DOMAIN lane["host"].queue : Greeted(lane["host"].queue[i])
          /\ \A i \in DOMAIN lane["client"].queue : Greeted(lane["client"].queue[i])
          /\ Greeted(writing)
          /\ \A i \in DOMAIN wire : Greeted(wire[i])
    BY DEF Greeting
  <1>4. ASSUME phase' = phase
        PROVE  \A m : Greeted(m)' <=> Greeted(m)
    BY <1>4 DEF Greeted
  <1> DEFINE A == Running' =>
                /\ \A i \in DOMAIN lane'["host"].queue :
                      Greeted(lane["host"].queue[i])'
                /\ \A i \in DOMAIN lane'["client"].queue :
                      Greeted(lane["client"].queue[i])'
                /\ Greeted(writing)'
                /\ \A i \in DOMAIN wire' : Greeted(wire[i])'
             B == phase' \in {"handshake", "initial"} =>
                /\ up' = <<>> /\ \A i \in DOMAIN events' : events'[i].kind = "gone"
                /\ media' = 0 /\ inputBarrier' = NoSerial /\ awaiting' = NoSerial
                /\ semantic'.accepted = 1
                /\ semantic'.received = One(phase' = "initial")
                /\ sent'.inputs = 0 /\ covers' = 0
  <1>5. A /\ B => Greeting'
    BY DEF Greeting
  <1>6. CASE HostMoves
    <2>1. PICK j \in Nat, m \in Messages :
             /\ Effect(j, m) /\ m.kind # "welcome"
             /\ phase \in {"handshake", "initial"} =>
                   /\ j = 0 /\ m.kind \notin Semantic
                   /\ media' = 0 /\ inputBarrier' = NoSerial
      BY <1>6, HostSends
    <2>2. /\ UNCHANGED <<phase, awaiting, covers, writing, wire, up>>
          /\ lane'["client"] = lane["client"]
      BY <1>6, HostLane DEF clientVars, taskVars
    <2>3. \A i \in DOMAIN lane'["host"].queue :
                 \/ /\ i \in DOMAIN lane["host"].queue
                    /\ lane'["host"].queue[i] = lane["host"].queue[i]
                 \/ lane'["host"].queue[i] = Reply /\ j # 0
                 \/ lane'["host"].queue[i] = m /\ m.kind \in Semantic
      BY <2>1, HostQueue
    <2>4. A
      <3>1. j # 0 => Greeted(Reply)
        BY <2>1 DEF Greeted, Reply, Message
      <3>2. Greeted(m)
        BY <2>1 DEF Greeted
      <3>3. Running => \A i \in DOMAIN lane'["host"].queue :
                          Greeted(lane'["host"].queue[i])
        BY <1>3, <2>3, <3>1, <3>2
      <3> QED
        BY <1>1, <1>3, <2>2, <3>3 DEF Greeted
    <2>5. B
      <3> SUFFICES ASSUME phase' \in {"handshake", "initial"} PROVE B
        OBVIOUS
      <3>1. /\ up = <<>> /\ \A i \in DOMAIN events : events[i].kind = "gone"
            /\ awaiting = NoSerial /\ semantic.accepted = 1
            /\ semantic.received = One(phase = "initial")
            /\ sent.inputs = 0 /\ covers = 0
        BY <2>2 DEF Greeting
      <3>2. \A i \in DOMAIN events' : events'[i].kind = "gone"
        <4>1. events' = events \/ (events # <<>> /\ events' = Tail(events))
          BY <1>6 DEF HostMoves
        <4> QED
          BY <1>2, <3>1, <4>1, TailAt
      <3>3. /\ semantic'.accepted = semantic.accepted + 0 + One(FALSE)
            /\ semantic'.received = semantic.received
        BY <2>1, <2>2 DEF Effect, One
      <3>4. semantic'.accepted = 1
        BY <3>1, <3>3 DEF One
      <3>5. sent'.inputs = sent.inputs
        BY <1>6 DEF HostMoves
      <3> QED
        BY <2>1, <2>2, <3>1, <3>2, <3>3, <3>4, <3>5
    <2> QED
      BY <1>5, <2>4, <2>5
  <1>7. CASE TaskMove
    <2>1. /\ UNCHANGED <<phase, awaiting, covers, media, inputBarrier, semantic, sent>>
          /\ lane'["client"] = lane["client"]
      BY <1>7 DEF TaskMove, clientVars, hostVars
    <2>2. ASSUME UNCHANGED <<events, up>>
          PROVE  B
      BY <2>1, <2>2 DEF Greeting
    <2>3. CASE \E m : TaskTake(m)
      <3>1. PICK m : TaskTake(m)
        BY <2>3
      <3>2. /\ Takes(lane["host"], m, lane'["host"]) /\ m.kind # "none"
            /\ writing' = m /\ UNCHANGED <<wire, up, events>>
        BY <3>1 DEF TaskTake
      <3>3. /\ \A i \in DOMAIN lane'["host"].queue :
                  \E o \in DOMAIN lane["host"].queue :
                     lane'["host"].queue[i] = lane["host"].queue[o]
            /\ m.kind \in Semantic =>
                  1 \in DOMAIN lane["host"].queue /\ m = lane["host"].queue[1]
        BY <1>2, <3>2, TakenQueue
      <3>4. Running => Greeted(m)
        BY <1>3, <3>3 DEF Greeted
      <3>5. Running => \A i \in DOMAIN lane'["host"].queue :
                          Greeted(lane'["host"].queue[i])
        BY <1>3, <3>3
      <3>6. A
        BY <1>1, <1>3, <2>1, <3>2, <3>4, <3>5 DEF Greeted
      <3> QED
        BY <1>5, <2>2, <3>2, <3>6
    <2>4. CASE TaskPoll
      <3>1. /\ lane'["host"].queue = lane["host"].queue
            /\ UNCHANGED <<writing, wire, up, events>>
        BY <2>4 DEF TaskPoll, Still, taskVars
      <3>2. A
        BY <1>1, <1>3, <2>1, <3>1 DEF Greeted
      <3> QED
        BY <1>5, <2>2, <3>1, <3>2
    <2>5. CASE TaskWrite
      <3>1. /\ wire' = Append(wire, writing) /\ writing' = NoMessage
            /\ UNCHANGED <<lane, up, events>>
        BY <2>5 DEF TaskWrite
      <3>2. \A i \in DOMAIN wire' :
               (i \in DOMAIN wire /\ wire'[i] = wire[i]) \/ wire'[i] = writing
        BY <1>2, <3>1, AppendAt
      <3>3. Running => Greeted(writing') /\ \A i \in DOMAIN wire' : Greeted(wire'[i])
        BY <1>2, <1>3, <3>1, <3>2 DEF Greeted
      <3>4. A
        BY <1>1, <1>3, <2>1, <3>1, <3>3 DEF Greeted
      <3> QED
        BY <1>5, <2>2, <3>1, <3>4
    <2>6. CASE TaskRead
      <3>1. /\ lane'["host"].queue = lane["host"].queue
            /\ UNCHANGED <<writing, wire>> /\ up # <<>>
        BY <2>6 DEF TaskRead, Still, taskVars
      <3>2. A
        BY <1>1, <1>3, <2>1, <3>1 DEF Greeted
      <3>3. B
        BY <2>1, <3>1 DEF Greeting
      <3> QED
        BY <1>5, <3>2, <3>3
    <2>7. CASE TaskEnd
      <3>1. /\ UNCHANGED <<lane, wire, up>> /\ writing' = NoMessage
            /\ events' = Append(events, Request("gone", NoSerial))
        BY <2>7 DEF TaskEnd
      <3>2. A
        BY <1>1, <1>2, <1>3, <2>1, <3>1 DEF Greeted
      <3>3. \A i \in DOMAIN events' :
               (i \in DOMAIN events /\ events'[i] = events[i])
                  \/ events'[i].kind = "gone"
        <4>1. Request("gone", NoSerial) \in Requests /\ Request("gone", NoSerial).kind = "gone"
          BY DEF Request, Requests, NoSerial
        <4> QED
          BY <1>2, <3>1, <4>1, AppendAt
      <3>4. B
        BY <2>1, <3>1, <3>3 DEF Greeting
      <3> QED
        BY <1>5, <3>2, <3>4
    <2> QED
      BY <1>7, <2>3, <2>4, <2>5, <2>6, <2>7 DEF TaskMove
  <1>8. CASE ReaderMove
    <2>1. /\ UNCHANGED <<phase, awaiting, covers, media, inputBarrier, semantic, sent,
                         writing, up, events>>
          /\ lane'["host"] = lane["host"]
      BY <1>8 DEF ReaderMove, clientVars, hostVars, taskVars
    <2>2. B
      BY <2>1 DEF Greeting
    <2>3. CASE ReaderEnd
      <3>1. UNCHANGED <<lane, wire>>
        BY <2>3 DEF ReaderEnd
      <3>2. A
        BY <1>1, <1>3, <2>1, <3>1 DEF Greeted
      <3> QED
        BY <1>5, <2>2, <3>2
    <2>4. CASE \E x, y : ReaderRead(x, y)
      <3>1. PICK x, y : ReaderRead(x, y)
        BY <2>4
      <3>2. /\ Running /\ wire # <<>> /\ x = Head(wire) /\ wire' = Tail(wire)
            /\ PutIn(lane["client"], y, lane'["client"])
            /\ y = x \/ (x.kind = "damage" /\ y.kind = "frame")
        BY <3>1 DEF ReaderRead
      <3>3. /\ 1 \in DOMAIN wire /\ x = wire[1]
            /\ \A i \in DOMAIN wire' : i + 1 \in DOMAIN wire /\ wire'[i] = wire[i + 1]
        BY <1>2, <3>2, TailAt
      <3>4. Greeted(x) /\ \A i \in DOMAIN wire' : Greeted(wire'[i])
        BY <1>3, <3>2, <3>3
      <3>5. \A i \in DOMAIN lane'["client"].queue : Greeted(lane'["client"].queue[i])
        <4>1. CASE y.kind \in Semantic
          <5>1. y = x /\ lane'["client"].queue = Append(lane["client"].queue, x)
            BY <3>2, <4>1 DEF PutIn, Semantic
          <5>2. x \in Messages
            BY <1>2, <3>3, LenProperties
          <5>3. \A i \in DOMAIN lane'["client"].queue :
                   \/ /\ i \in DOMAIN lane["client"].queue
                      /\ lane'["client"].queue[i] = lane["client"].queue[i]
                   \/ lane'["client"].queue[i] = x
            BY <1>2, <5>1, <5>2, AppendAt
          <5> QED
            BY <1>3, <3>2, <3>4, <5>3
        <4>2. CASE y.kind \notin Semantic
          BY <1>3, <3>2, <4>2 DEF PutIn
        <4> QED
          BY <4>1, <4>2
      <3>6. A
        BY <1>3, <2>1, <3>2, <3>4, <3>5 DEF Greeted
      <3> QED
        BY <1>5, <2>2, <3>6
    <2> QED
      BY <1>8, <2>3, <2>4 DEF ReaderMove
  <1>9. CASE ClientMove
    <2>1. /\ UNCHANGED <<media, inputBarrier, writing, wire, events>>
          /\ lane'["host"] = lane["host"]
      BY <1>9 DEF ClientMove, hostVars, taskVars
    <2>2. CASE \E m : ClientTake(m)
      <3>1. PICK m : ClientTake(m)
        BY <2>2
      <3>2. /\ Takes(lane["client"], m, lane'["client"]) /\ m.kind # "none"
            /\ Formed(m, nextFrame)
            /\ Greets(m) \/ Reacts(m)
            /\ semantic'.accepted = semantic.accepted
            /\ semantic'.received = semantic.received + One(m.kind \in Semantic)
            /\ sent' = sent
        BY <3>1 DEF ClientTake
      <3>3. /\ lane'["client"].queue \in Seq(Messages)
            /\ \A i \in DOMAIN lane'["client"].queue :
                  \E o \in DOMAIN lane["client"].queue :
                     lane'["client"].queue[i] = lane["client"].queue[o]
            /\ m.kind \in Semantic =>
                  1 \in DOMAIN lane["client"].queue /\ m = lane["client"].queue[1]
        BY <1>2, <3>2, TakenQueue
      <3>4. CASE Greets(m)
        <4>1. /\ phase = "handshake" /\ Running /\ m.kind = "welcome"
              /\ m.kind \in Semantic
          BY <1>3, <3>3, <3>4 DEF Greets, Greeted, Running
        <4>2. /\ phase' = "initial" /\ Running'
              /\ UNCHANGED <<up, current, awaiting, covers>>
          BY <3>4, <4>1 DEF Greets, Running
        <4>3. /\ up = <<>> /\ \A i \in DOMAIN events : events[i].kind = "gone"
              /\ media = 0 /\ inputBarrier = NoSerial /\ awaiting = NoSerial
              /\ semantic.accepted = 1 /\ semantic.received = One(FALSE)
              /\ sent.inputs = 0 /\ covers = 0
          BY <4>1 DEF Greeting
        <4>4. semantic'.accepted = 1 /\ semantic'.received = 1
          BY <3>2, <4>1, <4>3 DEF One
        <4>5. B
          BY <2>1, <3>2, <4>2, <4>3, <4>4 DEF One
        <4>6. InPipe' = 0
          <5>1. Balanced'
            BY BalancedNext
          <5>2. 1 = 1 + InPipe'
            BY <4>2, <4>4, <5>1 DEF Balanced
          <5>3. PICK x \in Nat, y \in {0, 1}, z \in Nat, k \in Nat :
                   /\ x = Len(lane'["host"].queue)
                   /\ y = One(writing'.kind \in Semantic)
                   /\ z = Count(wire', Semantic)
                   /\ k = Len(lane'["client"].queue)
            <6>1. /\ One(writing'.kind \in Semantic) \in {0, 1}
                  /\ Len(lane'["client"].queue) \in Nat
              BY <3>3, LenProperties DEF One
            <6>2. Len(lane'["host"].queue) \in Nat
              BY <1>2, <2>1, LenProperties
            <6>3. Count(wire', Semantic) \in Nat
              BY <1>2, <2>1, CountNat
            <6> QED
              BY <6>1, <6>2, <6>3
          <5>4. InPipe' = x + y + z + k
            BY <5>3 DEF InPipe
          <5>5. x + y + z + k \in Nat
            OBVIOUS
          <5> QED
            BY <5>2, <5>4, <5>5
        <4>7. /\ lane'["host"].queue = <<>> /\ lane'["client"].queue = <<>>
              /\ writing'.kind \notin Semantic
              /\ \A i \in DOMAIN wire' : wire'[i].kind \notin Semantic
          <5>1. Len(lane'["host"].queue) + One(writing'.kind \in Semantic)
                   + Count(wire', Semantic) + Len(lane'["client"].queue) = 0
            BY <4>6 DEF InPipe
          <5>2. /\ lane'["host"].queue \in Seq(Messages) /\ wire' \in Seq(Messages)
                /\ lane'["client"].queue \in Seq(Messages)
            BY <1>2, <2>1, <3>3
          <5> QED
            BY <5>1, <5>2, EmptyPipe
        <4>8. A
          BY <4>7 DEF Greeted
        <4> QED
          BY <1>5, <4>5, <4>8
      <3>5. CASE Reacts(m)
        <4>1. phase' \in {"launch", "loop", "finished", "unexpected", "refused"}
          BY <3>2, <3>5, Reactions
        <4>2. phase # "handshake" /\ phase' # "handshake" /\ Running
          BY <3>5, <4>1 DEF Reacts, Running
        <4>3. \A n : Greeted(n)' <=> Greeted(n)
          BY <4>2 DEF Greeted
        <4>4. A
          BY <1>3, <2>1, <3>3, <4>2 DEF Greeted
        <4>5. B
          BY <4>1
        <4> QED
          BY <1>5, <4>4, <4>5
      <3> QED
        BY <3>2, <3>4, <3>5
    <2>3. CASE ClientPoll
      <3>1. /\ lane'["client"].queue = lane["client"].queue
            /\ UNCHANGED <<phase, awaiting, covers, up, sent, semantic>>
        BY <2>3 DEF ClientPoll, Still, clientVars
      <3>2. A
        BY <1>1, <1>3, <2>1, <3>1 DEF Greeted
      <3>3. B
        BY <2>1, <3>1 DEF Greeting
      <3> QED
        BY <1>5, <3>2, <3>3
    <2>4. CASE ClientAct
      <3>1. /\ lane'["client"].queue = lane["client"].queue
            /\ phase = "loop" /\ phase' = "loop"
        BY <2>4 DEF ClientAct, Still
      <3>2. A
        BY <1>1, <1>3, <2>1, <3>1 DEF Greeted
      <3>3. B
        BY <3>1
      <3> QED
        BY <1>5, <3>2, <3>3
    <2>5. CASE ClientQuit
      <3>1. ~Running' /\ phase' \in {"left", "lost"}
        BY <2>5 DEF ClientQuit, Running
      <3> QED
        BY <1>5, <3>1
    <2> QED
      BY <1>9, <2>2, <2>3, <2>4, <2>5 DEF ClientMove
  <1>10. CASE UNCHANGED vars
    BY <1>10 DEF vars, hostVars, taskVars, clientVars, Greeting, Greeted, Running
  <1> QED
    BY <1>1, <1>6, <1>7, <1>8, <1>9, <1>10

-----------------------------------------------------------------------------
(* The fourth layer: the damage a client that falls behind meets *)

\* The host's slot is ahead of what the task has written, and what the task
\* writes is between the two.
SlotAhead ==
    /\ delivered <= lane["host"].slot.id
    /\ ~lane["host"].seen => delivered < lane["host"].slot.id
    /\ IsVisual(writing) =>
          delivered < writing.id /\ writing.id <= lane["host"].slot.id
    /\ ~lane["host"].seen /\ IsVisual(writing) =>
          writing.id < lane["host"].slot.id

\* The lanes the client finds.
LEMMA InitLane ==
    ASSUME Init
    PROVE  /\ lane["host"].slot \in
                 {NoMessage, Message("frame", 1, NoFrame, NoSerial)}
           /\ lane["host"].slot.id = lastFrame
           /\ lane["host"].seen \/ lane["host"].slot.id = 1
           /\ lane["client"].seen
           /\ ~IsVisual(NoMessage) /\ NoMessage.kind = "none"
  <1> DEFINE w == Message("welcome", NoFrame, NoFrame, NoSerial)
             f == Message("frame", 1, NoFrame, NoSerial)
             l == Put(EmptyLane, w)
  <1>1. l = [EmptyLane EXCEPT !.queue = Append(@, w)]
    BY DEF Put, Message, IsVisual, IsFinal
  <1>2. IsVisual(f) /\ f.id = 1
    BY DEF Message, IsVisual
  <1> HIDE DEF w, f
  <1>3. l.slot = NoMessage /\ l.seen = TRUE /\ {"slot", "seen"} \subseteq DOMAIN l
    BY <1>1 DEF EmptyLane
  <1> HIDE DEF l
  <1>4. Put(l, f) = [l EXCEPT !.slot = f, !.seen = FALSE]
    BY <1>2 DEF Put
  <1>5. Put(l, f).slot = f
    BY <1>3, <1>4
  <1>6. /\ lane["host"] = IF refilling THEN l ELSE Put(l, f)
        /\ lastFrame = IF refilling THEN 0 ELSE 1
    BY DEF Init, l, w, f
  <1>7. NoMessage.id = 0 /\ NoMessage.kind = "none" /\ ~IsVisual(NoMessage)
    BY DEF NoMessage, Message, NoFrame, IsVisual
  <1>8. lane["client"].seen
    BY DEF Init, EmptyLane
  <1> QED
    BY <1>2, <1>3, <1>5, <1>6, <1>7, <1>8 DEF f

LEMMA SlotAheadInit == Init => SlotAhead
  <1> SUFFICES ASSUME Init PROVE SlotAhead
    OBVIOUS
  <1>1. delivered = 0 /\ writing = NoMessage
    BY DEF Init, NoFrame
  <1>2. lane["host"].slot.id \in {0, 1}
    <2>1. NoMessage.id = 0 /\ Message("frame", 1, NoFrame, NoSerial).id = 1
      BY DEF NoMessage, Message, NoFrame
    <2> QED
      BY <2>1, InitLane
  <1>3. /\ lane["host"].seen \/ lane["host"].slot.id = 1
        /\ ~IsVisual(NoMessage)
    BY InitLane
  <1> QED
    BY <1>1, <1>2, <1>3 DEF SlotAhead

LEMMA SlotAheadNext == Typed /\ SlotAhead /\ [Next]_vars => SlotAhead'
  <1> SUFFICES ASSUME Typed, SlotAhead, [Next]_vars PROVE SlotAhead'
    OBVIOUS
  <1>1. HostMoves \/ TaskMove \/ ReaderMove \/ ClientMove \/ UNCHANGED vars
    BY Moves
  <1>2. /\ NoMessage.kind = "none" /\ ~IsVisual(NoMessage)
        /\ nextFrame \in Nat /\ delivered \in Nat /\ delivered < nextFrame
        /\ writing.id \in Nat /\ writing.id < nextFrame
        /\ lane["host"].slot.id \in Nat
    <2>1. NoMessage.kind = "none" /\ ~IsVisual(NoMessage) /\ nextFrame \in Nat
      BY Groups DEF HostTyped, IsVisual
    <2>2. /\ delivered \in 0 .. nextFrame - 1 /\ Formed(writing, nextFrame)
          /\ Formed(lane["host"].slot, nextFrame)
      BY Groups DEF AllTyped, TaskTyped, LanesTyped, LaneFormed
    <2>3. \A m : Formed(m, nextFrame) => m.id \in Nat /\ m.id < nextFrame
      BY DEF Formed, Messages
    <2> QED
      BY <2>1, <2>2, <2>3
  <1>3. CASE HostMoves
    <2>1. PICK j \in Nat, m \in Messages, last \in 0 .. nextFrame - 1,
               barrier \in Int, mm \in Nat : HostMove(j, m, last, barrier, mm)
      BY <1>3 DEF HostMoves
    <2>2. /\ lane'["host"].slot = IF IsVisual(m) THEN m ELSE lane["host"].slot
          /\ lane'["host"].seen <=> lane["host"].seen /\ ~IsVisual(m)
      BY <2>1 DEF HostMove, Effect, TakesIn
    <2>3. UNCHANGED <<delivered, writing>>
      BY <1>3 DEF HostMoves, taskVars
    <2>4. IsVisual(m) => m.id = nextFrame
      BY <1>2, <2>1 DEF HostMove, Unpublished, Published, IsVisual
    <2>5. CASE IsVisual(m)
      BY <1>2, <2>2, <2>3, <2>4, <2>5 DEF SlotAhead
    <2>6. CASE ~IsVisual(m)
      BY <2>2, <2>3, <2>6 DEF SlotAhead
    <2> QED
      BY <2>5, <2>6
  <1>4. CASE TaskMove
    <2>1. CASE \E m : TaskTake(m)
      <3>1. PICK m : TaskTake(m)
        BY <2>1
      <3>2. /\ Takes(lane["host"], m, lane'["host"]) /\ writing' = m
            /\ delivered' = delivered
        BY <3>1 DEF TaskTake
      <3>3. lane'["host"].slot = lane["host"].slot
        BY <3>2 DEF Takes
      <3>4. CASE IsVisual(m)
        <4>1. m = lane["host"].slot /\ ~lane["host"].seen /\ lane'["host"].seen
          BY <3>2, <3>4 DEF Takes, Semantic, IsVisual, IsFinal
        <4> QED
          BY <1>2, <3>2, <3>3, <4>1 DEF SlotAhead
      <3>5. CASE ~IsVisual(m)
        <4>1. lane'["host"].seen = lane["host"].seen
          BY <3>2, <3>5 DEF Takes
        <4> QED
          BY <3>2, <3>3, <3>5, <4>1 DEF SlotAhead
      <3> QED
        BY <3>4, <3>5
    <2>2. CASE TaskPoll \/ TaskRead
      BY <2>2 DEF TaskPoll, TaskRead, Still, taskVars, SlotAhead
    <2>3. CASE TaskWrite
      <3>1. /\ delivered' = IF IsVisual(writing) THEN writing.id ELSE delivered
            /\ writing' = NoMessage /\ lane' = lane
        BY <2>3 DEF TaskWrite
      <3> QED
        BY <1>2, <3>1 DEF SlotAhead
    <2>4. CASE TaskEnd
      BY <1>2, <2>4 DEF TaskEnd, SlotAhead
    <2> QED
      BY <1>4, <2>1, <2>2, <2>3, <2>4 DEF TaskMove
  <1>5. CASE ReaderMove \/ ClientMove \/ UNCHANGED vars
    BY <1>5 DEF ReaderMove, ClientMove, vars, taskVars, SlotAhead
  <1> QED
    BY <1>1, <1>3, <1>4, <1>5

\* Before the place i of s, the frame shown last is id; n before all of s.
BuildsOn(s, n, i, id) ==
    \/ /\ \A j \in DOMAIN s : j < i => ~IsVisual(s[j])
       /\ id = n
    \/ \E j \in DOMAIN s :
          /\ j < i /\ IsVisual(s[j]) /\ s[j].id = id
          /\ \A k \in DOMAIN s : j < k /\ k < i => ~IsVisual(s[k])

\* What is put at the end changes nothing before it.
LEMMA BuildsAppend ==
    ASSUME NEW s \in Seq(Messages), NEW m \in Messages, NEW n
    PROVE  /\ \A i \in 1 .. Len(s) + 1 : \A id :
                 BuildsOn(s, n, i, id) => BuildsOn(Append(s, m), n, i, id)
           /\ \A id : BuildsOn(s, n, Len(s) + 1, id) =>
                 BuildsOn(Append(s, m), n, Len(s) + 2,
                          IF IsVisual(m) THEN m.id ELSE id)
  <1> DEFINE r == Append(s, m)
             e == Len(s) + 1
  <1>1. /\ e \in DOMAIN r /\ r[e] = m /\ e \in Nat
        /\ \A i \in DOMAIN s : /\ i \in Nat /\ i < e
                               /\ i \in DOMAIN r /\ r[i] = s[i]
        /\ \A i \in DOMAIN r : i \in DOMAIN s \/ i = e
    BY AppendAt, LenProperties
  <1>2. Len(s) + 2 = e + 1 /\ 1 .. Len(s) + 1 \subseteq Nat
    BY LenProperties
  <1> HIDE DEF r, e
  <1>3. ASSUME NEW i \in Nat, i <= e, NEW id, BuildsOn(s, n, i, id)
        PROVE  BuildsOn(r, n, i, id)
    <2>1. \A j \in DOMAIN r : j < i => j \in DOMAIN s /\ r[j] = s[j]
      BY <1>1, <1>3
    <2>2. CASE id = n /\ \A j \in DOMAIN s : j < i => ~IsVisual(s[j])
      BY <2>1, <2>2 DEF BuildsOn
    <2>3. CASE \E j \in DOMAIN s :
                  /\ j < i /\ IsVisual(s[j]) /\ s[j].id = id
                  /\ \A k \in DOMAIN s : j < k /\ k < i => ~IsVisual(s[k])
      <3>1. PICK j \in DOMAIN s :
                  /\ j < i /\ IsVisual(s[j]) /\ s[j].id = id
                  /\ \A k \in DOMAIN s : j < k /\ k < i => ~IsVisual(s[k])
        BY <2>3
      <3>2. /\ j \in DOMAIN r /\ j < i /\ IsVisual(r[j]) /\ r[j].id = id
            /\ \A k \in DOMAIN r : j < k /\ k < i => ~IsVisual(r[k])
        BY <1>1, <2>1, <3>1
      <3> QED
        BY <3>2 DEF BuildsOn
    <2> QED
      BY <1>3, <2>2, <2>3 DEF BuildsOn
  <1>4. ASSUME NEW id, BuildsOn(s, n, e, id)
        PROVE  BuildsOn(r, n, e + 1, IF IsVisual(m) THEN m.id ELSE id)
    <2>1. \A j \in DOMAIN r : j < e + 1
      BY <1>1
    <2>2. CASE IsVisual(m)
      <3>1. /\ e \in DOMAIN r /\ e < e + 1 /\ IsVisual(r[e]) /\ r[e].id = m.id
            /\ \A k \in DOMAIN r : ~(e < k /\ k < e + 1)
        BY <1>1, <2>2
      <3>2. BuildsOn(r, n, e + 1, m.id)
        BY <3>1 DEF BuildsOn
      <3> QED
        BY <2>2, <3>2
    <2>3. CASE ~IsVisual(m)
      <3>1. BuildsOn(r, n, e, id)
        BY <1>1, <1>3, <1>4
      <3>2. \A j \in DOMAIN r : j < e \/ (j = e /\ ~IsVisual(r[j]))
        BY <1>1, <2>3
      <3>3. CASE id = n /\ \A j \in DOMAIN r : j < e => ~IsVisual(r[j])
        BY <2>3, <3>2, <3>3 DEF BuildsOn
      <3>4. CASE \E j \in DOMAIN r :
                    /\ j < e /\ IsVisual(r[j]) /\ r[j].id = id
                    /\ \A k \in DOMAIN r : j < k /\ k < e => ~IsVisual(r[k])
        <4>1. PICK j \in DOMAIN r :
                    /\ j < e /\ IsVisual(r[j]) /\ r[j].id = id
                    /\ \A k \in DOMAIN r : j < k /\ k < e => ~IsVisual(r[k])
          BY <3>4
        <4>2. j < e + 1 /\ \A k \in DOMAIN r : j < k => ~IsVisual(r[k])
          BY <2>1, <3>2, <4>1
        <4> QED
          BY <2>3, <4>1, <4>2 DEF BuildsOn
      <3> QED
        BY <3>1, <3>3, <3>4 DEF BuildsOn
    <2> QED
      BY <2>2, <2>3
  <1>5. \A i \in 1 .. Len(s) + 1 : i \in Nat /\ i <= e
    BY LenProperties DEF e
  <1> QED
    BY <1>2, <1>3, <1>4, <1>5 DEF r, e

\* A reader that takes the first message has what is before the next.
LEMMA BuildsTail ==
    ASSUME NEW s \in Seq(Messages), s # <<>>, NEW n
    PROVE  /\ \A i \in Nat \ {0} : \A id : BuildsOn(s, n, i + 1, id) =>
                 BuildsOn(Tail(s), IF IsVisual(Head(s)) THEN Head(s).id ELSE n,
                          i, id)
           /\ \A id : BuildsOn(s, n, 1, id) => id = n
  <1> DEFINE t == Tail(s)
             h == Head(s)
  <1>1. /\ 1 \in DOMAIN s /\ h = s[1]
        /\ \A i \in DOMAIN t :
              i \in Nat \ {0} /\ i + 1 \in DOMAIN s /\ t[i] = s[i + 1]
        /\ \A j \in DOMAIN s :
              /\ j \in Nat \ {0}
              /\ j = 1 \/ (j - 1 \in DOMAIN t /\ t[j - 1] = s[j])
    BY TailAt
  <1> HIDE DEF t, h
  <1>2. ASSUME NEW id, BuildsOn(s, n, 1, id)
        PROVE  id = n
    BY <1>1, <1>2 DEF BuildsOn
  <1>3. ASSUME NEW i \in Nat \ {0}, NEW id, BuildsOn(s, n, i + 1, id)
        PROVE  BuildsOn(t, IF IsVisual(h) THEN h.id ELSE n, i, id)
    <2>1. CASE id = n /\ \A j \in DOMAIN s : j < i + 1 => ~IsVisual(s[j])
      <3>1. \A j \in DOMAIN t : j < i => ~IsVisual(t[j])
        <4> TAKE j \in DOMAIN t
        <4> HAVE j < i
        <4>1. j + 1 < i + 1 /\ j + 1 \in DOMAIN s
          BY <1>1
        <4> QED
          BY <1>1, <2>1, <4>1
      <3>2. 1 < i + 1
        OBVIOUS
      <3>3. ~IsVisual(h)
        BY <1>1, <2>1, <3>2
      <3> QED
        BY <2>1, <3>1, <3>3 DEF BuildsOn
    <2>2. CASE \E j \in DOMAIN s :
                  /\ j < i + 1 /\ IsVisual(s[j]) /\ s[j].id = id
                  /\ \A k \in DOMAIN s : j < k /\ k < i + 1 => ~IsVisual(s[k])
      <3>1. PICK j \in DOMAIN s :
                  /\ j < i + 1 /\ IsVisual(s[j]) /\ s[j].id = id
                  /\ \A k \in DOMAIN s : j < k /\ k < i + 1 => ~IsVisual(s[k])
        BY <2>2
      <3>2. \A k \in DOMAIN t : j < k + 1 /\ k < i => ~IsVisual(t[k])
        <4> TAKE k \in DOMAIN t
        <4> HAVE j < k + 1 /\ k < i
        <4>1. k + 1 < i + 1 /\ k + 1 \in DOMAIN s /\ t[k] = s[k + 1]
          BY <1>1
        <4> QED
          BY <3>1, <4>1
      <3>3. CASE j = 1
        <4>1. IsVisual(h) /\ h.id = id
          BY <1>1, <3>1, <3>3
        <4>2. \A k \in DOMAIN t : k < i => ~IsVisual(t[k])
          BY <1>1, <3>2, <3>3
        <4> QED
          BY <4>1, <4>2 DEF BuildsOn
      <3>4. CASE j # 1
        <4>1. j - 1 \in DOMAIN t /\ t[j - 1] = s[j] /\ j - 1 < i
          BY <1>1, <3>1, <3>4
        <4>2. \A k \in DOMAIN t : j - 1 < k /\ k < i => ~IsVisual(t[k])
          BY <1>1, <3>2
        <4> QED
          BY <3>1, <4>1, <4>2 DEF BuildsOn
      <3> QED
        BY <3>3, <3>4
    <2> QED
      BY <1>3, <2>1, <2>2 DEF BuildsOn
  <1> QED
    BY <1>2, <1>3 DEF t, h

-----------------------------------------------------------------------------
(* Damage that fits *)

\* What a terminal client never sends.
Apart == {"barrier", "launch", "resync"}
Plain ==
    client = "terminal" =>
        /\ \A i \in DOMAIN up : up[i].kind \notin Apart
        /\ \A i \in DOMAIN events : events[i].kind \notin Apart

\* As long as no frame takes the way of the barriers, the damage that the
\* reader meets is for the frame it has: what the task writes builds on what it
\* wrote before, each visual of the socket on the one before it, and the first
\* on the reader's.  So the client's loop is given complete frames alone.
Calm == Running /\ (client = "terminal" \/ phase \in {"handshake", "initial"})
AtHost ==
    /\ inputBarrier = NoSerial
    /\ lastFrame = lane["host"].slot.id
    /\ writing.kind = "damage" => writing.base = delivered
    /\ ~lane["host"].seen /\ lane["host"].slot.kind = "damage" =>
          lane["host"].slot.base = delivered /\ ~IsVisual(writing)
OnSocket ==
    /\ \A i \in DOMAIN wire : wire[i].kind = "damage" =>
          BuildsOn(wire, latest, i, wire[i].base)
    /\ BuildsOn(wire, latest, Len(wire) + 1, delivered)
AtClient == ~lane["client"].seen => lane["client"].slot.kind = "frame"
Chain == Calm => AtHost /\ OnSocket /\ AtClient

LEMMA ChainInit == Init => Plain /\ Chain
  <1> SUFFICES ASSUME Init PROVE Plain /\ Chain
    OBVIOUS
  <1>1. /\ up = <<>> /\ events = <<>> /\ wire = <<>> /\ writing = NoMessage
        /\ delivered = latest /\ inputBarrier = NoSerial
    BY DEF Init
  <1>2. /\ lane["host"].slot \in
              {NoMessage, Message("frame", 1, NoFrame, NoSerial)}
        /\ lane["host"].slot.id = lastFrame
        /\ lane["client"].seen
        /\ NoMessage.kind = "none"
    BY InitLane
  <1>3. Plain
    BY <1>1 DEF Plain
  <1>4. AtHost
    <2>1. lane["host"].slot.kind # "damage"
      BY <1>2 DEF Message
    <2> QED
      BY <1>1, <1>2, <2>1 DEF AtHost
  <1>5. OnSocket
    BY <1>1 DEF OnSocket, BuildsOn
  <1>6. AtClient
    BY <1>2 DEF AtClient
  <1> QED
    BY <1>3, <1>4, <1>5, <1>6 DEF Chain

\* A client was calm before if it is after.
LEMMA CalmBefore == Typed /\ [Next]_vars /\ Calm' => Calm
  <1> SUFFICES ASSUME Typed, [Next]_vars, Calm' PROVE Calm
    OBVIOUS
  <1>1. /\ HostMoves \/ TaskMove \/ ReaderMove \/ ClientMove \/ UNCHANGED vars
        /\ Running
    BY Moves DEF Calm
  <1>2. client' = client
    BY <1>1 DEF HostMoves, TaskMove, ReaderMove, ClientMove, vars
  <1>3. phase' \in {"handshake", "initial"} => phase \in {"handshake", "initial"}
    <2>1. CASE ClientMove
      <3>1. CASE \E m : ClientTake(m)
        <4>1. PICK m : ClientTake(m)
          BY <3>1
        <4>2. Formed(m, nextFrame) /\ m.kind # "none" /\ (Greets(m) \/ Reacts(m))
          BY <4>1 DEF ClientTake
        <4>3. Greets(m) => phase = "handshake"
          BY DEF Greets
        <4>4. Reacts(m) => phase' \notin {"handshake", "initial"}
          BY <4>2, Reactions
        <4> QED
          BY <4>2, <4>3, <4>4
      <3>2. CASE ClientPoll \/ ClientAct \/ ClientQuit
        BY <3>2 DEF ClientPoll, ClientAct, ClientQuit, clientVars
      <3> QED
        BY <2>1, <3>1, <3>2 DEF ClientMove
    <2>2. CASE HostMoves \/ TaskMove \/ ReaderMove \/ UNCHANGED vars
      BY <2>2 DEF HostMoves, TaskMove, ReaderMove, clientVars, vars
    <2> QED
      BY <1>1, <2>1, <2>2
  <1> QED
    BY <1>1, <1>2, <1>3 DEF Calm

\* A terminal client asks for no complete frame: it is given nothing else.
LEMMA PlainNext == Typed /\ Plain /\ Chain /\ [Next]_vars => Plain'
  <1> SUFFICES ASSUME Typed, Plain, Chain, [Next]_vars PROVE Plain'
    OBVIOUS
  <1>1. HostMoves \/ TaskMove \/ ReaderMove \/ ClientMove \/ UNCHANGED vars
    BY Moves
  <1>2. up \in Seq(Requests) /\ events \in Seq(Requests)
    BY Groups DEF AllTyped, RequestsTyped
  <1>3. CASE HostMoves
    <2>1. /\ UNCHANGED <<client, up>>
          /\ events' = events \/ (events # <<>> /\ events' = Tail(events))
      BY <1>3 DEF HostMoves
    <2>2. \A i \in DOMAIN events' : \E o \in DOMAIN events : events'[i] = events[o]
      BY <1>2, <2>1, TailAt
    <2> QED
      BY <2>1, <2>2 DEF Plain
  <1>4. CASE TaskMove
    <2>0. client' = client
      BY <1>4 DEF TaskMove
    <2>1. CASE (\E m : TaskTake(m)) \/ TaskPoll \/ TaskWrite
      <3>1. UNCHANGED <<up, events>>
        BY <2>1 DEF TaskTake, TaskPoll, TaskWrite
      <3> QED
        BY <2>0, <3>1 DEF Plain
    <2>2. CASE TaskRead
      <3>1. up # <<>> /\ events' = Append(events, Head(up)) /\ up' = Tail(up)
        BY <2>2 DEF TaskRead
      <3>2. /\ 1 \in DOMAIN up /\ Head(up) = up[1]
            /\ \A i \in DOMAIN up' : \E o \in DOMAIN up : up'[i] = up[o]
        BY <1>2, <3>1, TailAt
      <3>3. Head(up) \in Requests
        BY <1>2, <3>1, HeadTailProperties
      <3>4. \A i \in DOMAIN events' :
               (i \in DOMAIN events /\ events'[i] = events[i]) \/ events'[i] = up[1]
        BY <1>2, <3>1, <3>2, <3>3, AppendAt
      <3> QED
        BY <2>0, <3>2, <3>4 DEF Plain
    <2>3. CASE TaskEnd
      <3> DEFINE g == Request("gone", NoSerial)
      <3>1. g \in Requests /\ g.kind \notin Apart
        BY DEF Request, Requests, NoSerial, Apart
      <3>2. up' = up /\ events' = Append(events, g)
        BY <2>3 DEF TaskEnd
      <3> HIDE DEF g
      <3>3. \A i \in DOMAIN events' :
               (i \in DOMAIN events /\ events'[i] = events[i]) \/ events'[i] = g
        BY <1>2, <3>1, <3>2, AppendAt
      <3> QED
        BY <2>0, <3>1, <3>2, <3>3 DEF Plain
    <2> QED
      BY <1>4, <2>1, <2>2, <2>3 DEF TaskMove
  <1>5. CASE ClientMove
    <2>1. client' = client /\ events' = events
      BY <1>5 DEF ClientMove
    <2>2. ASSUME client = "terminal", NEW x \in Requests, x.kind \notin Apart,
                 ClientSends(<<x>>)
          PROVE  Plain'
      <3>1. up' = Append(up, x)
        BY <1>2, <2>2, SentRequests DEF ClientSends
      <3>2. \A i \in DOMAIN up' : (i \in DOMAIN up /\ up'[i] = up[i]) \/ up'[i] = x
        BY <1>2, <3>1, AppendAt
      <3> QED
        BY <2>1, <2>2, <3>2 DEF Plain
    <2>3. CASE up' = up
      BY <2>1, <2>3 DEF Plain
    <2>4. CASE client # "terminal"
      BY <2>1, <2>4 DEF Plain
    <2>5. ASSUME client = "terminal", NEW m, ClientTake(m)
          PROVE  up' = up
      <3>1. /\ Takes(lane["client"], m, lane'["client"])
            /\ Greets(m) \/ Reacts(m)
        BY <2>5 DEF ClientTake
      <3>2. CASE Greets(m)
        BY <3>2 DEF Greets
      <3>3. CASE Reacts(m)
        <4>1. Running
          BY <3>3 DEF Reacts, Running
        <4>2. AtClient
          BY <2>5, <4>1 DEF Chain, Calm
        <4>3. m.kind # "damage"
          <5>1. IsVisual(m) => m = lane["client"].slot /\ ~lane["client"].seen
            BY <3>1 DEF Takes, Semantic, IsVisual, IsFinal
          <5> QED
            BY <4>2, <5>1 DEF AtClient, IsVisual
        <4>4. ~Launch
          BY <2>5 DEF Launch
        <4> QED
          BY <3>3, <4>3, <4>4 DEF Reacts, OnInitial, OnLaunching, OnResponse
      <3> QED
        BY <3>1, <3>2, <3>3
    <2>6. CASE ClientPoll \/ ClientQuit
      BY <2>3, <2>6 DEF ClientPoll, ClientQuit
    <2>7. CASE ClientAct /\ client = "terminal"
      <3>1. \A k \in {"input", "ask", "detach"} :
               Request(k, NoSerial) \in Requests /\ Request(k, NoSerial).kind = k
        BY DEF Request, Requests, NoSerial
      <3>2. ClientInputs /\ phase' = "loop"
        BY <2>7 DEF ClientAct
      <3>3. CASE \E barrier \in BOOLEAN : ClientInput(barrier)
        <4>1. PICK barrier \in BOOLEAN : ClientInput(barrier)
          BY <3>3
        <4>2. ~barrier
          BY <2>7, <4>1 DEF ClientInput, Window
        <4>3. sent.inputs \in Nat
          BY Groups DEF AllTyped, NotesTyped
        <4>4. ClientSends(<<Request("input", NoSerial)>>)
          BY <4>1, <4>2, <4>3, InputSends
        <4> QED
          BY <2>2, <2>7, <3>1, <4>4 DEF Apart
      <3>4. CASE ClientAsks
        <4>1. ClientSends(<<Request("ask", NoSerial)>>)
          BY <3>4 DEF ClientAsks, ClientActs
        <4> QED
          BY <2>2, <2>7, <3>1, <4>1 DEF Apart
      <3>5. CASE ClientDetaches
        <4>1. ClientSends(<<Request("detach", NoSerial)>>)
          BY <3>5 DEF ClientDetaches, ClientActs
        <4> QED
          BY <2>2, <2>7, <3>1, <4>1 DEF Apart
      <3>6. CASE ClientLeaves
        BY <2>3, <3>6 DEF ClientLeaves
      <3> QED
        BY <3>2, <3>3, <3>4, <3>5, <3>6 DEF ClientInputs
    <2> QED
      BY <1>5, <2>3, <2>4, <2>5, <2>6, <2>7 DEF ClientMove
  <1>6. CASE ReaderMove \/ UNCHANGED vars
    BY <1>6 DEF ReaderMove, vars, Plain
  <1> QED
    BY <1>1, <1>3, <1>4, <1>5, <1>6

-----------------------------------------------------------------------------
(* The frames in a row *)

\* A calm client asks for nothing that changes what a frame builds on.
LEMMA CalmHost ==
    ASSUME Typed, HostMoves, Greeting, Plain, Calm
    PROVE  \A k \in Apart : ~Serves(k)
  <1>1. events # <<>> => 1 \in DOMAIN events /\ Head(events) = events[1]
    BY TailAt, Groups DEF AllTyped, RequestsTyped
  <1>2. CASE client = "terminal"
    BY <1>1, <1>2 DEF Plain, Serves
  <1>3. CASE phase \in {"handshake", "initial"}
    <2>1. \A i \in DOMAIN events : events[i].kind = "gone"
      BY <1>3 DEF Greeting
    <2> QED
      BY <1>1, <2>1 DEF Serves, Apart
  <1> QED
    BY <1>2, <1>3 DEF Calm

LEMMA ChainNext ==
    ASSUME Typed, Greeting, SlotAhead, Plain, Chain, EndsInTurn, [Next]_vars
    PROVE  Chain'
  <1> SUFFICES ASSUME Calm'
               PROVE  AtHost' /\ OnSocket' /\ AtClient'
    BY DEF Chain
  <1>1. /\ HostMoves \/ TaskMove \/ ReaderMove \/ ClientMove \/ UNCHANGED vars
        /\ Calm /\ AtHost /\ OnSocket /\ AtClient /\ Running
    BY Moves, CalmBefore DEF Chain, Calm
  <1>2. /\ NoMessage.kind = "none" /\ ~IsVisual(NoMessage)
        /\ wire \in Seq(Messages) /\ writing \in Messages
    BY Groups DEF HostTyped, AllTyped, WireTyped, TaskTyped, Formed, IsVisual
  <1>3. CASE HostMoves
    <2>1. PICK j \in Nat, m \in Messages, last \in 0 .. nextFrame - 1,
               barrier \in Int, mm \in Nat :
             /\ HostMove(j, m, last, barrier, mm)
             /\ last # lastFrame => Serves("resync")
             /\ barrier # inputBarrier => Serves("barrier") \/ Serves("launch")
      BY <1>3 DEF HostMoves
    <2>2. last = lastFrame /\ barrier = NoSerial /\ inputBarrier = NoSerial
      BY <1>1, <1>3, <2>1, CalmHost DEF Apart, AtHost
    <2>3. /\ lane'["host"].slot = IF IsVisual(m) THEN m ELSE lane["host"].slot
          /\ lane'["host"].seen <=> lane["host"].seen /\ ~IsVisual(m)
          /\ lane'["client"] = lane["client"]
      BY <2>1 DEF HostMove, Effect, TakesIn
    <2>4. UNCHANGED <<delivered, writing, wire, latest>>
      BY <1>3 DEF HostMoves, taskVars, readVars
    <2>5. CASE IsVisual(m)
      <3>1. m.kind \in {"frame", "damage"} /\ m # NoMessage
        BY <1>2, <2>5 DEF IsVisual
      <3>2. /\ lastFrame' = nextFrame /\ inputBarrier' = NoSerial
            /\ m.id = nextFrame
            /\ m.kind = "damage" => m.base = last /\ ~VisualPending
        BY <2>1, <3>1 DEF HostMove, Unpublished, Published
      <3>3. m.kind = "damage" => m.base = delivered /\ ~IsVisual(writing)
        <4>1. m.kind = "damage" =>
                 m.base = lane["host"].slot.id /\ lane["host"].slot.id = delivered
          BY <1>1, <2>2, <3>2 DEF VisualPending, AtHost
        <4>2. lane["host"].slot.id = delivered => ~IsVisual(writing)
          <5>1. delivered \in Nat /\ writing.id \in Nat
            BY <1>2, Groups DEF HostTyped, AllTyped, TaskTyped, Messages
          <5> QED
            BY <5>1 DEF SlotAhead
        <4> QED
          BY <4>1, <4>2
      <3> QED
        BY <1>1, <2>3, <2>4, <2>5, <3>2, <3>3 DEF AtHost, OnSocket, AtClient
    <2>6. CASE ~IsVisual(m)
      <3>1. lastFrame' = lastFrame /\ inputBarrier' = NoSerial
        <4>1. CASE Unpublished(j, m, last, barrier, mm)
          BY <2>2, <4>1 DEF Unpublished
        <4>2. CASE Published(j, m, last, barrier, mm)
          <5>1. m = NoMessage
            BY <2>2, <2>6, <4>2 DEF Published, IsVisual
          <5> QED
            BY <2>2, <4>2, <5>1 DEF Published
        <4> QED
          BY <2>1, <4>1, <4>2 DEF HostMove
      <3> QED
        BY <1>1, <2>3, <2>4, <2>6, <3>1 DEF AtHost, OnSocket, AtClient
    <2> QED
      BY <2>5, <2>6
  <1>4. CASE TaskMove
    <2>1. /\ UNCHANGED <<inputBarrier, lastFrame, latest>>
          /\ lane'["client"] = lane["client"]
      BY <1>4 DEF TaskMove, hostVars, readVars
    <2>2. CASE \E m : TaskTake(m)
      <3>1. PICK m : TaskTake(m)
        BY <2>2
      <3>2. /\ Takes(lane["host"], m, lane'["host"]) /\ writing' = m
            /\ UNCHANGED <<delivered, wire>>
        BY <3>1 DEF TaskTake
      <3>3. lane'["host"].slot = lane["host"].slot
        BY <3>2 DEF Takes
      <3>4. CASE IsVisual(m)
        <4>1. m = lane["host"].slot /\ ~lane["host"].seen /\ lane'["host"].seen
          BY <3>2, <3>4 DEF Takes, Semantic, IsVisual, IsFinal
        <4> QED
          BY <1>1, <2>1, <3>2, <3>3, <4>1 DEF AtHost, OnSocket, AtClient
      <3>5. CASE ~IsVisual(m)
        <4>1. lane'["host"].seen = lane["host"].seen /\ m.kind # "damage"
          BY <3>2, <3>5 DEF Takes, IsVisual
        <4> QED
          BY <1>1, <2>1, <3>2, <3>3, <3>5, <4>1 DEF AtHost, OnSocket, AtClient
      <3> QED
        BY <3>4, <3>5
    <2>3. CASE TaskPoll \/ TaskRead
      BY <1>1, <2>1, <2>3
         DEF TaskPoll, TaskRead, Still, taskVars, AtHost, OnSocket, AtClient
    <2>4. CASE TaskWrite
      <3>1. /\ delivered' = IF IsVisual(writing) THEN writing.id ELSE delivered
            /\ writing' = NoMessage /\ lane' = lane
            /\ wire' = Append(wire, writing)
        BY <2>4 DEF TaskWrite
      <3>2. AtHost'
        BY <1>1, <1>2, <2>1, <3>1 DEF AtHost
      <3>3. OnSocket'
        <4> DEFINE e == Len(wire) + 1
        <4>1. /\ e \in 1 .. Len(wire) + 1 /\ Len(wire') + 1 = Len(wire) + 2
              /\ DOMAIN wire \subseteq 1 .. Len(wire) + 1
          BY <1>2, <3>1, LenProperties, AppendProperties
        <4>2. /\ wire'[e] = writing
              /\ \A i \in DOMAIN wire : i \in DOMAIN wire' /\ wire'[i] = wire[i]
              /\ \A i \in DOMAIN wire' : i \in DOMAIN wire \/ i = e
          BY <1>2, <3>1, AppendAt
        <4>3. /\ \A i \in 1 .. Len(wire) + 1 : \A id :
                    BuildsOn(wire, latest, i, id) => BuildsOn(wire', latest, i, id)
              /\ \A id : BuildsOn(wire, latest, e, id) =>
                    BuildsOn(wire', latest, Len(wire) + 2,
                             IF IsVisual(writing) THEN writing.id ELSE id)
          BY <1>2, <3>1, BuildsAppend
        <4> HIDE DEF e
        <4>4. \A i \in DOMAIN wire' : wire'[i].kind = "damage" =>
                 BuildsOn(wire', latest, i, wire'[i].base)
          <5> TAKE i \in DOMAIN wire'
          <5> HAVE wire'[i].kind = "damage"
          <5>1. CASE i \in DOMAIN wire
            <6>1. BuildsOn(wire, latest, i, wire[i].base)
              BY <1>1, <4>2, <5>1 DEF OnSocket
            <6> QED
              BY <4>1, <4>2, <4>3, <5>1, <6>1
          <5>2. CASE i = e
            <6>1. writing.kind = "damage" /\ writing.base = delivered
              BY <1>1, <4>2, <5>2 DEF AtHost
            <6>2. BuildsOn(wire, latest, e, delivered)
              BY <1>1 DEF OnSocket, e
            <6> QED
              BY <4>1, <4>2, <4>3, <5>2, <6>1, <6>2
          <5> QED
            BY <4>2, <5>1, <5>2
        <4>5. BuildsOn(wire', latest, Len(wire') + 1, delivered')
          <5>1. BuildsOn(wire, latest, e, delivered)
            BY <1>1 DEF OnSocket, e
          <5> QED
            BY <3>1, <4>1, <4>3, <5>1
        <4> QED
          BY <2>1, <4>4, <4>5 DEF OnSocket
      <3> QED
        BY <1>1, <3>1, <3>2, <3>3 DEF AtClient
    <2>5. CASE TaskEnd
      BY <1>1, <2>1, <2>5 DEF TaskEnd, AtHost, OnSocket, AtClient
    <2> QED
      BY <1>4, <2>2, <2>3, <2>4, <2>5 DEF TaskMove
  <1>5. CASE ReaderMove
    <2>1. /\ UNCHANGED <<inputBarrier, lastFrame, delivered, writing>>
          /\ lane'["host"] = lane["host"]
      BY <1>5 DEF ReaderMove, hostVars, taskVars
    <2>2. AtHost'
      BY <1>1, <2>1 DEF AtHost
    <2>3. CASE ReaderEnd
      BY <1>1, <2>1, <2>2, <2>3 DEF ReaderEnd, OnSocket, AtClient
    <2>4. CASE \E h, c : ReaderRead(h, c)
      <3>1. PICK h, c : ReaderRead(h, c)
        BY <2>4
      <3>2. /\ wire # <<>> /\ h = Head(wire) /\ wire' = Tail(wire)
            /\ c = Coalesced(h) /\ latest' = Folded(h)
            /\ PutIn(lane["client"], c, lane'["client"])
            /\ c = h \/ (h.kind = "damage" /\ c.kind = "frame" /\ c.id = h.id)
        BY <3>1 DEF ReaderRead
      <3>3. /\ 1 \in DOMAIN wire /\ h = wire[1]
            /\ \A i \in DOMAIN wire' :
                  i \in Nat \ {0} /\ i + 1 \in DOMAIN wire /\ wire'[i] = wire[i + 1]
        BY <1>2, <3>2, TailAt
      <3>4. /\ \A i \in Nat \ {0} : \A id : BuildsOn(wire, latest, i + 1, id) =>
                 BuildsOn(wire', IF IsVisual(h) THEN h.id ELSE latest, i, id)
            /\ \A id : BuildsOn(wire, latest, 1, id) => id = latest
        BY <1>2, <3>2, BuildsTail
      <3>5. h.kind = "damage" => h.base = latest
        BY <1>1, <3>3, <3>4 DEF OnSocket
      <3>6. c.kind = "frame" <=> IsVisual(h)
        <4>1. CASE h.kind = "damage"
          <5>1. c = Message("frame", h.id, NoFrame, NoSerial)
            BY <3>2, <3>5, <4>1 DEF Coalesced
          <5> QED
            BY <4>1, <5>1 DEF Message, IsVisual
        <4>2. CASE h.kind # "damage"
          BY <3>2, <4>2 DEF IsVisual
        <4> QED
          BY <4>1, <4>2
      <3>7. latest' = IF IsVisual(h) THEN h.id ELSE latest
        BY <3>2, <3>6 DEF Folded
      <3>8. AtClient'
        <4>1. IsVisual(c) => c.kind = "frame"
          BY <3>2, <3>6 DEF IsVisual
        <4> QED
          BY <1>1, <3>2, <4>1 DEF AtClient, PutIn
      <3>9. OnSocket'
        <4>1. \A i \in DOMAIN wire' : wire'[i].kind = "damage" =>
                 BuildsOn(wire', latest', i, wire'[i].base)
          <5> TAKE i \in DOMAIN wire'
          <5> HAVE wire'[i].kind = "damage"
          <5>1. BuildsOn(wire, latest, i + 1, wire[i + 1].base)
            BY <1>1, <3>3 DEF OnSocket
          <5> QED
            BY <3>3, <3>4, <3>7, <5>1
        <4>2. Len(wire') + 1 \in Nat \ {0} /\ Len(wire) + 1 = (Len(wire') + 1) + 1
          BY <1>2, <3>2, HeadTailProperties, LenProperties
        <4>3. BuildsOn(wire', latest', Len(wire') + 1, delivered')
          <5>1. BuildsOn(wire, latest, (Len(wire') + 1) + 1, delivered)
            BY <1>1, <4>2 DEF OnSocket
          <5> QED
            BY <2>1, <3>4, <3>7, <4>2, <5>1
        <4> QED
          BY <4>1, <4>3 DEF OnSocket
      <3> QED
        BY <2>2, <3>8, <3>9
    <2> QED
      BY <1>5, <2>3, <2>4 DEF ReaderMove
  <1>6. CASE ClientMove
    <2>1. /\ UNCHANGED <<inputBarrier, lastFrame, delivered, writing, wire, latest>>
          /\ lane'["host"] = lane["host"]
      BY <1>6 DEF ClientMove, hostVars, taskVars, readVars
    <2>2. AtHost' /\ OnSocket'
      BY <1>1, <2>1 DEF AtHost, OnSocket
    <2>3. CASE \E m : ClientTake(m)
      <3>1. PICK m : ClientTake(m)
        BY <2>3
      <3>2. Takes(lane["client"], m, lane'["client"])
        BY <3>1 DEF ClientTake
      <3>3. /\ lane'["client"].slot = lane["client"].slot
            /\ lane["client"].seen => lane'["client"].seen
        BY <3>2 DEF Takes
      <3>4. AtClient'
        BY <1>1, <3>3 DEF AtClient
      <3> QED
        BY <2>2, <3>4
    <2>4. CASE ClientPoll \/ ClientAct \/ ClientQuit
      BY <1>1, <2>2, <2>4 DEF ClientPoll, ClientAct, ClientQuit, Still, AtClient
    <2> QED
      BY <1>6, <2>3, <2>4 DEF ClientMove
  <1>7. CASE UNCHANGED vars
    BY <1>1, <1>7 DEF vars, hostVars, taskVars, readVars, AtHost, OnSocket, AtClient
  <1> QED
    BY <1>1, <1>3, <1>4, <1>5, <1>6, <1>7

-----------------------------------------------------------------------------
(* How an attachment ends *)

Explained ==
    /\ phase = "finished" => semantic.received = semantic.accepted
    /\ phase = "lost" => ~ended
    /\ phase = "unexpected" => ended

\* A client that waits for its first frame has nothing in its queue.
LEMMA InitialQueue ==
    ASSUME Typed, Balanced, Greeting, phase = "initial"
    PROVE  lane["client"].queue = <<>>
  <1>1. semantic.accepted = 1 /\ semantic.received = 1
    BY DEF Greeting, One
  <1>2. 1 = 1 + InPipe
    BY <1>1 DEF Balanced, Running
  <1>3. PICK x \in Nat, y \in {0, 1}, z \in Nat, k \in Nat :
           /\ x = Len(lane["host"].queue) /\ y = One(writing.kind \in Semantic)
           /\ z = Count(wire, Semantic) /\ k = Len(lane["client"].queue)
    BY PipeNumbers
  <1>4. InPipe = x + y + z + k
    BY <1>3 DEF InPipe
  <1>5. k = 0
    BY <1>2, <1>4
  <1> QED
    BY <1>3, <1>5, PipeNumbers, EmptySeq

\* The final reply comes when nothing is left to be received.
LEMMA FinalReceived ==
    ASSUME Typed, FinalIsLast, Balanced, Running,
           Carries(lane["client"]), lane["client"].queue = <<>>
    PROVE  semantic.received = semantic.accepted
  <1>1. /\ lane["host"].queue = <<>> /\ writing.kind \notin Semantic
        /\ \A i \in DOMAIN wire : wire[i].kind \notin Semantic
    BY DEF FinalIsLast, QuietHost, Last
  <1>2. /\ Len(lane["host"].queue) = 0 /\ Len(lane["client"].queue) = 0
        /\ One(writing.kind \in Semantic) = 0
    BY <1>1 DEF One
  <1>3. Count(wire, Semantic) = 0
    BY <1>1, PipeNumbers, CountNat
  <1>4. InPipe = 0
    BY <1>2, <1>3 DEF InPipe
  <1> QED
    BY <1>4, PipeNumbers DEF Balanced

LEMMA ExplainedNext ==
    ASSUME Typed, EndsInTurn, FinalIsLast, Balanced, Greeting, Chain, Explained,
           [Next]_vars
    PROVE  Explained'
  <1>1. HostMoves \/ TaskMove \/ ReaderMove \/ ClientMove \/ UNCHANGED vars
    BY Moves
  <1>2. CASE HostMoves
    <2>1. /\ phase' = phase
          /\ ~attached => UNCHANGED <<ended, semantic>>
          /\ ended' = ended \/ ended'
      BY <1>2, HostLane DEF clientVars
    <2>2. phase \in {"finished", "lost"} => ~attached
      BY DEF EndsInTurn
    <2>3. ended => ~attached
      BY DEF EndsInTurn
    <2> QED
      BY <2>1, <2>2, <2>3 DEF Explained
  <1>3. CASE TaskMove
    BY <1>3 DEF TaskMove, clientVars, Explained
  <1>4. CASE ReaderMove
    BY <1>4 DEF ReaderMove, clientVars, Explained
  <1>5. CASE ClientMove
    <2>1. ended' = ended
      BY <1>5 DEF ClientMove
    <2>2. CASE \E m : ClientTake(m)
      <3>1. PICK m : ClientTake(m)
        BY <2>2
      <3>2. /\ Takes(lane["client"], m, lane'["client"])
            /\ Formed(m, nextFrame) /\ m.kind # "none"
            /\ Greets(m) \/ Reacts(m)
            /\ semantic'.accepted = semantic.accepted
            /\ semantic'.received = semantic.received + One(m.kind \in Semantic)
        BY <3>1 DEF ClientTake
      <3>3. /\ Running /\ phase' # "lost"
            /\ phase' = "finished" => IsFinal(m) /\ phase = "loop"
        <4>1. Greets(m) => Running /\ phase' \in {"initial", "unexpected"}
          BY DEF Greets, Running
        <4>2. Reacts(m) =>
                 /\ Running
                 /\ phase' \in {"launch", "loop", "finished", "unexpected", "refused"}
                 /\ phase' = "finished" => IsFinal(m) /\ phase = "loop"
          <5>1. Reacts(m) => phase' \in {"launch", "loop", "finished", "unexpected",
                                         "refused"}
            BY <3>2, Reactions
          <5>2. Reacts(m) => Running
            BY DEF Reacts, Running
          <5>3. Reacts(m) /\ phase' = "finished" => IsFinal(m) /\ phase = "loop"
            BY DEF Reacts, OnInitial, OnLaunching, OnResponse, Goes, IsFinal
          <5> QED
            BY <5>1, <5>2, <5>3
        <4> QED
          BY <3>2, <4>1, <4>2
      <3>4. /\ IsFinal(m) => Carries(lane["client"]) /\ lane["client"].queue = <<>>
            /\ m.kind \in Semantic =>
                  lane["client"].queue # <<>> /\ m = Head(lane["client"].queue)
            /\ IsVisual(m) => m = lane["client"].slot /\ ~lane["client"].seen
        BY <3>2 DEF Takes, Semantic, IsVisual, IsFinal
      <3>5. phase' = "finished" => semantic'.received = semantic'.accepted
        <4> SUFFICES ASSUME phase' = "finished"
                     PROVE  semantic'.received = semantic'.accepted
          OBVIOUS
        <4>1. semantic.received = semantic.accepted
          BY <3>3, <3>4, FinalReceived
        <4>2. One(m.kind \in Semantic) = 0
          BY <3>3 DEF One, IsFinal, Semantic
        <4> QED
          BY <3>2, <4>1, <4>2, PipeNumbers
      <3>6. IsFinal(m) => ended
        BY <3>4 DEF FinalIsLast
      <3>7. m.kind \in Semantic => Greeted(m)
        <4>1. lane["client"].queue # <<>> =>
                 /\ 1 \in DOMAIN lane["client"].queue
                 /\ Head(lane["client"].queue) = lane["client"].queue[1]
          BY PipeNumbers, TailAt
        <4> QED
          BY <3>3, <3>4, <4>1 DEF Greeting
      <3>8. CASE Greets(m)
        <4>1. phase' = "initial"
          BY <3>7, <3>8 DEF Greets, Greeted
        <4> QED
          BY <3>5, <4>1 DEF Explained
      <3>9. CASE Reacts(m) /\ phase = "initial"
        <4>1. lane["client"].queue = <<>>
          BY <3>9, InitialQueue
        <4>2. AtClient
          BY <3>3, <3>9 DEF Chain, Calm
        <4>3. m.kind = "frame" \/ IsFinal(m)
          <5>1. m \in Messages
            BY <3>2 DEF Formed
          <5>2. m.kind \in Semantic \/ IsVisual(m) \/ IsFinal(m)
            BY <3>2, <5>1 DEF Messages, Semantic, IsVisual, IsFinal
          <5> QED
            BY <3>4, <4>1, <4>2, <5>2 DEF AtClient
        <4>4. phase' = "unexpected" => m.kind # "frame"
          BY <3>9 DEF Reacts, OnInitial, Goes
        <4> QED
          BY <2>1, <3>3, <3>5, <3>6, <4>3, <4>4 DEF Explained
      <3>10. CASE Reacts(m) /\ phase # "initial"
        <4>1. phase' = "unexpected" =>
                 /\ phase = "launch"
                 /\ m.kind \notin {"barrier", "frame", "damage", "reply"}
          BY <3>10 DEF Reacts, OnLaunching, OnResponse, Goes, IsVisual
        <4>2. phase = "launch" => m.kind # "welcome"
          BY <3>7 DEF Greeted, Semantic
        <4>3. m \in Messages
          BY <3>2 DEF Formed
        <4>4. phase' = "unexpected" => IsFinal(m)
          BY <3>2, <4>1, <4>2, <4>3 DEF Messages, IsFinal
        <4> QED
          BY <2>1, <3>3, <3>5, <3>6, <4>4 DEF Explained
      <3> QED
        BY <3>2, <3>8, <3>9, <3>10
    <2>3. CASE ClientPoll \/ ClientAct
      BY <2>1, <2>3 DEF ClientPoll, ClientAct, clientVars, Explained
    <2>4. CASE ClientQuit
      <3>1. phase' = "lost" => ~ended
        <4> SUFFICES ASSUME phase' = "lost", ended PROVE FALSE
          OBVIOUS
        <4>1. Running /\ ~reading /\ Drained(lane["client"])
          BY <2>4 DEF ClientQuit
        <4>2. task = "closed" /\ wire = <<>>
          BY <4>1 DEF EndsInTurn
        <4>3. Drained(lane["host"]) /\ writing = NoMessage
          BY <4>1, <4>2 DEF EndsInTurn
        <4>4. ~Carries(lane["host"]) /\ ~Carries(lane["client"])
          BY <4>1, <4>3 DEF Drained, Carries
        <4>5. ~IsFinal(writing) /\ \A i \in DOMAIN wire : ~IsFinal(wire[i])
          BY <4>2, <4>3, Groups DEF HostTyped, IsFinal
        <4> QED
          BY <4>1, <4>4, <4>5 DEF FinalIsLast
      <3>2. phase' \in {"left", "lost"}
        BY <2>4 DEF ClientQuit
      <3> QED
        BY <2>1, <3>1, <3>2 DEF Explained
    <2> QED
      BY <1>5, <2>2, <2>3, <2>4 DEF ClientMove
  <1>6. CASE UNCHANGED vars
    BY <1>6 DEF vars, clientVars, Explained
  <1> QED
    BY <1>1, <1>2, <1>3, <1>4, <1>5, <1>6

\* The first four layers together.
Delivering ==
    /\ Typed /\ EndsInTurn /\ FinalIsLast /\ Balanced /\ Greeting
    /\ SlotAhead /\ Plain /\ Chain /\ Explained

LEMMA DeliveringInit == Init => Delivering
  <1>1. Init => Explained
    BY DEF Init, Explained
  <1> QED
    BY <1>1, TypedInit, EndsInit, GreetingInit, SlotAheadInit, ChainInit
       DEF Delivering

LEMMA DeliveringNext == Delivering /\ [Next]_vars => Delivering'
  <1> SUFFICES ASSUME Delivering, [Next]_vars PROVE Delivering'
    OBVIOUS
  <1>1. Typed /\ EndsInTurn /\ FinalIsLast /\ Balanced /\ Greeting
    BY DEF Delivering
  <1>2. SlotAhead /\ Plain /\ Chain /\ Explained
    BY DEF Delivering
  <1>3. Typed' /\ EndsInTurn' /\ FinalIsLast'
    BY <1>1, TypedNext, EndsNext
  <1>4. Balanced' /\ Greeting'
    BY <1>1, BalancedNext, GreetingNext
  <1>5. SlotAhead' /\ Plain' /\ Chain'
    BY <1>1, <1>2, SlotAheadNext, PlainNext, ChainNext
  <1>6. Explained'
    BY <1>1, <1>2, ExplainedNext
  <1> QED
    BY <1>3, <1>4, <1>5, <1>6 DEF Delivering

-----------------------------------------------------------------------------
\* An attachment that the host ended is never reported as a lost connection;
\* when the final reply ends the client's loop it has received every semantic
\* reply; and the order of arrival confuses it only while the host ends the
\* attachment (semantic_before_final, recv_handshake, run_attached).
THEOREM EndExplained == Spec => []EndIsExplained
  <1>1. Delivering => EndIsExplained
    BY DEF Delivering, Typed, Explained, EndIsExplained
  <1> QED
    BY <1>1, DeliveringInit, DeliveringNext, PTL DEF Spec

\* A terminal client never meets damage that does not fit, however far it
\* falls behind (publish_attached_frame, FrameCoalescer::coalesce).
THEOREM DamageAlwaysFits == Spec => []DamageFits
  <1>1. Delivering => DamageFits
    BY DEF Delivering, Plain, Apart, DamageFits, Window
  <1> QED
    BY <1>1, DeliveringInit, DeliveringNext, PTL DEF Spec

-----------------------------------------------------------------------------
(* The fifth layer: the barrier that a window waits for *)

\* It is in one place at most: asked for, noted by the host, or on its way back.
Asked == {"barrier", "launch"}
Barrier == {"barrier"}
Barriers ==
    Count(up, Asked) + Count(events, Asked) + One(inputBarrier # NoSerial)
      + Count(lane["host"].queue, Barrier) + One(writing.kind \in Barrier)
      + Count(wire, Barrier) + Count(lane["client"].queue, Barrier)
OneBarrier == Running => Barriers <= One(awaiting # NoSerial)

\* The places of the barrier have numbers.
LEMMA BarrierNumbers ==
    ASSUME Typed
    PROVE  /\ Count(up, Asked) \in Nat /\ Count(events, Asked) \in Nat
           /\ One(inputBarrier # NoSerial) \in {0, 1}
           /\ Count(lane["host"].queue, Barrier) \in Nat
           /\ One(writing.kind \in Barrier) \in {0, 1}
           /\ Count(wire, Barrier) \in Nat
           /\ Count(lane["client"].queue, Barrier) \in Nat
           /\ up \in Seq(Requests) /\ events \in Seq(Requests)
  <1>1. up \in Seq(Requests) /\ events \in Seq(Requests)
    BY Groups DEF AllTyped, RequestsTyped
  <1>2. Count(up, Asked) \in Nat /\ Count(events, Asked) \in Nat
    BY <1>1, CountNat
  <1>3. /\ Count(lane["host"].queue, Barrier) \in Nat
        /\ Count(wire, Barrier) \in Nat
        /\ Count(lane["client"].queue, Barrier) \in Nat
    BY PipeNumbers, CountNat
  <1>4. /\ One(inputBarrier # NoSerial) \in {0, 1}
        /\ One(writing.kind \in Barrier) \in {0, 1}
    BY DEF One
  <1> QED
    BY <1>1, <1>2, <1>3, <1>4

\* A client that waits for none finds none.
LEMMA NoBarriers ==
    ASSUME Typed, OneBarrier, Running, awaiting = NoSerial
    PROVE  /\ \A i \in DOMAIN up : up[i].kind \notin Asked
           /\ \A i \in DOMAIN events : events[i].kind \notin Asked
           /\ inputBarrier = NoSerial
           /\ \A k \in {"host", "client"} : \A i \in DOMAIN lane[k].queue :
                 lane[k].queue[i].kind \notin Barrier
           /\ writing.kind \notin Barrier
           /\ \A i \in DOMAIN wire : wire[i].kind \notin Barrier
           /\ Barriers = 0
  <1>1. PICK u \in Nat, v \in Nat, b \in {0, 1}, h \in Nat, w \in {0, 1},
             n \in Nat, c \in Nat :
           /\ u = Count(up, Asked) /\ v = Count(events, Asked)
           /\ b = One(inputBarrier # NoSerial)
           /\ h = Count(lane["host"].queue, Barrier)
           /\ w = One(writing.kind \in Barrier)
           /\ n = Count(wire, Barrier)
           /\ c = Count(lane["client"].queue, Barrier)
    BY BarrierNumbers
  <1>2. Barriers = u + v + b + h + w + n + c
    BY <1>1 DEF Barriers
  <1>3. One(awaiting # NoSerial) = 0
    BY DEF One
  <1>4. u + v + b + h + w + n + c <= 0
    BY <1>2, <1>3 DEF OneBarrier
  <1>5. u = 0 /\ v = 0 /\ b = 0 /\ h = 0 /\ w = 0 /\ n = 0 /\ c = 0
    BY <1>4
  <1>6. /\ \A i \in DOMAIN up : up[i].kind \notin Asked
        /\ \A i \in DOMAIN events : events[i].kind \notin Asked
    BY <1>1, <1>5, BarrierNumbers, CountNat
  <1>7. /\ \A i \in DOMAIN lane["host"].queue :
              lane["host"].queue[i].kind \notin Barrier
        /\ \A i \in DOMAIN lane["client"].queue :
              lane["client"].queue[i].kind \notin Barrier
        /\ \A i \in DOMAIN wire : wire[i].kind \notin Barrier
    BY <1>1, <1>5, PipeNumbers, CountNat
  <1>8. inputBarrier = NoSerial /\ writing.kind \notin Barrier
    BY <1>1, <1>5 DEF One
  <1>9. Barriers = 0
    BY <1>2, <1>5
  <1> QED
    BY <1>6, <1>7, <1>8, <1>9

\* One more at the end of what the client sends.
LEMMA SendsOne ==
    ASSUME Typed, NEW x \in Requests, ClientSends(<<x>>)
    PROVE  /\ up' = Append(up, x)
           /\ Count(up', Asked) = Count(up, Asked) + One(x.kind \in Asked)
           /\ \A i \in DOMAIN up : i \in DOMAIN up' /\ up'[i] = up[i]
           /\ \A i \in DOMAIN up' :
                 /\ i \in Nat /\ i <= Len(up) + 1
                 /\ \/ i \in DOMAIN up /\ up'[i] = up[i] /\ i < Len(up) + 1
                    \/ i = Len(up) + 1 /\ up'[i] = x
  <1>1. up \in Seq(Requests) /\ Len(up) \in Nat
    BY BarrierNumbers, LenProperties
  <1>2. up' = Append(up, x)
    BY <1>1, SentRequests DEF ClientSends
  <1>3. Count(up', Asked) = Count(up, Asked) + One(x.kind \in Asked)
    BY <1>1, <1>2, CountAppend
  <1>4. /\ up'[Len(up) + 1] = x
        /\ \A i \in DOMAIN up : /\ i \in Nat \ {0} /\ i < Len(up) + 1
                                /\ i \in DOMAIN up' /\ up'[i] = up[i]
        /\ \A i \in DOMAIN up' : i \in DOMAIN up \/ i = Len(up) + 1
    BY <1>1, <1>2, AppendAt
  <1> QED
    BY <1>1, <1>2, <1>3, <1>4

\* An input and its barrier.
LEMMA SendsBarrier ==
    ASSUME Typed, NEW x \in Requests, NEW y \in Requests, ClientSends(<<x, y>>)
    PROVE  /\ up' = Append(Append(up, x), y) /\ Append(up, x) \in Seq(Requests)
           /\ Count(up', Asked) = Count(up, Asked) + One(x.kind \in Asked)
                                                   + One(y.kind \in Asked)
  <1>1. up \in Seq(Requests)
    BY BarrierNumbers
  <1>2. up' = Append(Append(up, x), y)
    BY <1>1, SentRequests DEF ClientSends
  <1>3. /\ Append(up, x) \in Seq(Requests)
        /\ Count(Append(up, x), Asked) = Count(up, Asked) + One(x.kind \in Asked)
    BY <1>1, CountAppend
  <1>4. Count(Append(Append(up, x), y), Asked)
           = Count(Append(up, x), Asked) + One(y.kind \in Asked)
    BY <1>3, CountAppend, ZenonT(60)
  <1> QED
    BY <1>2, <1>3, <1>4

\* A receiver takes it from its queue.
LEMMA TakenBarrier ==
    ASSUME NEW l, NEW m, NEW k, l.queue \in Seq(Messages), Takes(l, m, k)
    PROVE  Count(l.queue, Barrier) = Count(k.queue, Barrier) + One(m.kind \in Barrier)
  <1>1. CASE m.kind \in Semantic
    <2>1. l.queue # <<>> /\ m = Head(l.queue) /\ k.queue = Tail(l.queue)
      BY <1>1 DEF Takes, Semantic, IsVisual, IsFinal
    <2>2. Count(l.queue, Barrier) = One(m.kind \in Barrier) + Count(k.queue, Barrier)
      BY <2>1, CountTail
    <2>3. Count(k.queue, Barrier) \in Nat /\ One(m.kind \in Barrier) \in {0, 1}
      <3>1. Tail(l.queue) \in Seq(Messages)
        BY <2>1, HeadTailProperties
      <3> QED
        BY <2>1, <3>1, CountNat DEF One
    <2> QED
      BY <2>2, <2>3
  <1>2. CASE m.kind \notin Semantic
    <2>1. k.queue = l.queue /\ One(m.kind \in Barrier) = 0
      BY <1>2 DEF Takes, Semantic, Barrier, One
    <2>2. PICK x \in Nat : x = Count(l.queue, Barrier)
      BY CountNat
    <2>3. x = x + 0
      OBVIOUS
    <2> QED
      BY <2>1, <2>2, <2>3
  <1> QED
    BY <1>1, <1>2

\* The host's step moves it from the events to the noted, and from there to the
\* queue; or drops it.
LEMMA HostBarrier ==
    ASSUME Typed, HostMoves
    PROVE  Count(events', Asked) + One(inputBarrier' # NoSerial)
              + Count(lane'["host"].queue, Barrier)
           <= Count(events, Asked) + One(inputBarrier # NoSerial)
              + Count(lane["host"].queue, Barrier)
  <1>1. PICK j \in Nat, m \in Messages, last \in 0 .. nextFrame - 1,
             barrier \in Int, mm \in Nat :
           /\ HostMove(j, m, last, barrier, mm)
           /\ barrier # inputBarrier =>
                 attached /\ (Serves("barrier") \/ Serves("launch"))
    BY DEF HostMoves
  <1>2. /\ events \in Seq(Requests) /\ lane["host"].queue \in Seq(Messages)
        /\ NoMessage.kind = "none"
    BY BarrierNumbers, PipeNumbers, Groups DEF HostTyped
  <1>3. PICK v \in Nat, b \in {0, 1}, h \in Nat :
           /\ v = Count(events, Asked) /\ b = One(inputBarrier # NoSerial)
           /\ h = Count(lane["host"].queue, Barrier)
    BY BarrierNumbers
  <1>4. PICK o \in {0, 1}, a \in {0, 1} :
           o = One(m.kind \in Barrier) /\ a = One(barrier # NoSerial)
    BY DEF One
  <1>5. Count(lane'["host"].queue, Barrier) = h + o
    <2> DEFINE q == lane["host"].queue
               r == q \o Replies(j)
    <2>1. lane'["host"].queue = IF m.kind \in Semantic THEN Append(r, m) ELSE r
      BY <1>1 DEF HostMove, Effect, TakesIn
    <2>2. /\ Replies(j) \in Seq(Messages)
          /\ \A i \in DOMAIN Replies(j) : Replies(j)[i].kind \notin Barrier
      <3>1. Reply \in Messages /\ Reply.kind \notin Barrier
        BY DEF Reply, Message, Messages, NoFrame, NoSerial, Barrier
      <3>2. Replies(j) \in [1 .. j -> Messages]
        BY <3>1 DEF Replies
      <3>3. Replies(j) \in Seq(Messages)
        BY <3>2, SeqDef
      <3> QED
        BY <3>1, <3>2, <3>3 DEF Replies
    <2>3. r \in Seq(Messages) /\ Count(r, Barrier) = h
      BY <1>2, <1>3, <2>2, CountConcat
    <2> HIDE DEF q, r
    <2>4. Count(Append(r, m), Barrier) = h + o
      BY <1>4, <2>3, CountAppend
    <2>5. m.kind \notin Semantic => o = 0
      BY <1>4 DEF One, Semantic, Barrier
    <2> QED
      BY <2>1, <2>3, <2>4, <2>5
  <1>6. PICK s \in {0, 1} :
           /\ Count(events', Asked) + s = v
           /\ Serves("barrier") \/ Serves("launch") => s = 1
           /\ Count(events', Asked) \in Nat
    <2>1. CASE events # <<>> /\ events' = Tail(events)
      <3>1. v = One(Head(events).kind \in Asked) + Count(events', Asked)
        BY <1>2, <1>3, <2>1, CountTail
      <3>2. Count(events', Asked) \in Nat
        BY <1>2, <2>1, HeadTailProperties, CountNat
      <3>3. One(Head(events).kind \in Asked) \in {0, 1}
        BY DEF One
      <3>4. Serves("barrier") \/ Serves("launch") =>
               One(Head(events).kind \in Asked) = 1
        BY DEF Serves, Asked, One
      <3> QED
        BY <3>1, <3>2, <3>3, <3>4
    <2>2. CASE events' = events
      <3>1. ~(Serves("barrier") \/ Serves("launch"))
        <4>1. events # <<>> => Len(Tail(events)) # Len(events)
          BY <1>2, HeadTailProperties, LenProperties
        <4> QED
          BY <2>2, <4>1 DEF Serves
      <3> QED
        BY <1>3, <2>2, <3>1
    <2> QED
      BY <2>1, <2>2 DEF HostMoves
  <1>7. PICK x \in {0, 1} : x = One(inputBarrier' # NoSerial)
    BY DEF One
  <1>8. (x = b /\ o = 0) \/ x + o <= a
    <2>1. CASE Unpublished(j, m, last, barrier, mm)
      <3>1. o = 0
        BY <1>4, <2>1 DEF Unpublished, Barrier, One
      <3>2. inputBarrier' = inputBarrier \/ inputBarrier' = barrier
        BY <2>1 DEF Unpublished
      <3> QED
        BY <1>3, <1>4, <1>7, <3>1, <3>2
    <2>2. CASE Published(j, m, last, barrier, mm) /\ m = NoMessage
      <3>1. o = 0 /\ inputBarrier' = barrier
        BY <1>2, <1>4, <2>2 DEF Published, Barrier, One
      <3> QED
        BY <1>4, <1>7, <3>1
    <2>3. CASE Published(j, m, last, barrier, mm) /\ m # NoMessage
      <3>1. x = 0
        BY <1>7, <2>3 DEF Published, One
      <3>2. barrier = NoSerial => o = 0
        BY <1>4, <2>3 DEF Published, One, Barrier
      <3>3. barrier # NoSerial => a = 1
        BY <1>4 DEF One
      <3> QED
        BY <3>1, <3>2, <3>3
    <2> QED
      BY <1>1, <2>1, <2>2, <2>3 DEF HostMove
  <1>9. s = 1 \/ a = b
    BY <1>1, <1>3, <1>4, <1>6
  <1>10. PICK y \in Nat : y = Count(events', Asked) /\ y + s = v
    BY <1>6
  <1>11. y + x + (h + o) <= v + b + h
    BY <1>8, <1>9, <1>10
  <1> QED
    BY <1>3, <1>5, <1>7, <1>10, <1>11

\* There is one barrier at most, in one place, while a window waits for it.
LEMMA OneBarrierNext ==
    ASSUME Typed, Greeting, OneBarrier, [Next]_vars
    PROVE  OneBarrier'
  <1> SUFFICES ASSUME Running'
               PROVE  Barriers' <= One(awaiting' # NoSerial)
    BY DEF OneBarrier
  <1>1. /\ HostMoves \/ TaskMove \/ ReaderMove \/ ClientMove \/ UNCHANGED vars
        /\ Running /\ Barriers <= One(awaiting # NoSerial)
    BY Moves DEF OneBarrier
  <1>2. PICK u \in Nat, v \in Nat, b \in {0, 1}, h \in Nat, w \in {0, 1},
             n \in Nat, c \in Nat, z \in {0, 1} :
           /\ u = Count(up, Asked) /\ v = Count(events, Asked)
           /\ b = One(inputBarrier # NoSerial)
           /\ h = Count(lane["host"].queue, Barrier)
           /\ w = One(writing.kind \in Barrier)
           /\ n = Count(wire, Barrier)
           /\ c = Count(lane["client"].queue, Barrier)
           /\ z = One(awaiting # NoSerial)
    <2>1. One(awaiting # NoSerial) \in {0, 1}
      BY DEF One
    <2> QED
      BY <2>1, BarrierNumbers
  <1>3. u + v + b + h + w + n + c <= z
    BY <1>1, <1>2 DEF Barriers
  <1>4. /\ lane["host"].queue \in Seq(Messages)
        /\ lane["client"].queue \in Seq(Messages)
        /\ wire \in Seq(Messages) /\ writing \in Messages
        /\ up \in Seq(Requests) /\ events \in Seq(Requests)
        /\ NoMessage.kind \notin Barrier
    BY PipeNumbers, BarrierNumbers, Groups DEF HostTyped, Barrier
  <1>5. CASE HostMoves
    <2>1. /\ UNCHANGED <<up, writing, wire, awaiting>>
          /\ lane'["client"] = lane["client"]
      BY <1>5, HostLane DEF taskVars, clientVars
    <2>2. events' \in Seq(Requests) /\ lane'["host"].queue \in Seq(Messages)
      <3>1. PICK j \in Nat, m \in Messages : Effect(j, m)
        BY <1>5 DEF HostMoves, HostMove
      <3>2. events' = events \/ (events # <<>> /\ events' = Tail(events))
        BY <1>5 DEF HostMoves
      <3> QED
        BY <1>4, <3>1, <3>2, HostQueue, HeadTailProperties, ZenonT(60)
    <2>3. PICK x \in Nat, y \in {0, 1}, s \in Nat :
             /\ x = Count(events', Asked) /\ y = One(inputBarrier' # NoSerial)
             /\ s = Count(lane'["host"].queue, Barrier) /\ x + y + s <= v + b + h
      <3>1. Count(events', Asked) \in Nat
        BY <2>2, CountNat
      <3>2. Count(lane'["host"].queue, Barrier) \in Nat
        BY <2>2, CountNat
      <3>3. One(inputBarrier' # NoSerial) \in {0, 1}
        BY DEF One
      <3> QED
        BY <1>2, <1>5, <3>1, <3>2, <3>3, HostBarrier
    <2>4. Barriers' = u + x + y + s + w + n + c
      BY <1>2, <2>1, <2>3 DEF Barriers
    <2>5. u + x + y + s + w + n + c <= z
      BY <1>3, <2>3
    <2> QED
      BY <1>2, <2>1, <2>4, <2>5
  <1>6. CASE TaskMove
    <2>1. /\ UNCHANGED <<inputBarrier, awaiting>>
          /\ lane'["client"] = lane["client"]
      BY <1>6 DEF TaskMove, hostVars, clientVars
    <2>2. CASE \E m : TaskTake(m)
      <3>1. PICK m : TaskTake(m)
        BY <2>2
      <3>2. /\ Takes(lane["host"], m, lane'["host"]) /\ m.kind # "none"
            /\ writing = NoMessage /\ writing' = m /\ UNCHANGED <<wire, up, events>>
        BY <3>1 DEF TaskTake
      <3>3. PICK o \in {0, 1} : o = One(m.kind \in Barrier)
        BY DEF One
      <3>4. PICK x \in Nat : x = Count(lane'["host"].queue, Barrier)
        BY <1>4, <3>2, TakenQueue, CountNat
      <3>5. h = x + o
        BY <1>2, <1>4, <3>2, <3>3, <3>4, TakenBarrier
      <3>6. w = 0
        BY <1>2, <1>4, <3>2 DEF One
      <3>7. Barriers' = u + v + b + x + o + n + c
        BY <1>2, <2>1, <3>2, <3>3, <3>4 DEF Barriers
      <3>8. u + v + b + x + o + n + c <= z
        BY <1>3, <3>5, <3>6
      <3> QED
        BY <1>2, <2>1, <3>7, <3>8
    <2>3. CASE TaskPoll
      <3>1. /\ lane'["host"].queue = lane["host"].queue
            /\ UNCHANGED <<writing, wire, up, events>>
        BY <2>3 DEF TaskPoll, taskVars, Still
      <3> QED
        BY <1>1, <2>1, <3>1 DEF Barriers
    <2>4. CASE TaskWrite
      <3>1. /\ wire' = Append(wire, writing) /\ writing' = NoMessage
            /\ UNCHANGED <<lane, up, events>>
        BY <2>4 DEF TaskWrite
      <3>2. Count(wire', Barrier) = n + w
        BY <1>2, <1>4, <3>1, CountAppend
      <3>3. One(writing'.kind \in Barrier) = 0
        BY <1>4, <3>1 DEF One
      <3>4. Barriers' = u + v + b + h + 0 + (n + w) + c
        BY <1>2, <2>1, <3>1, <3>2, <3>3 DEF Barriers
      <3>5. u + v + b + h + 0 + (n + w) + c <= z
        BY <1>3
      <3> QED
        BY <1>2, <2>1, <3>4, <3>5
    <2>5. CASE TaskRead
      <3>1. /\ lane'["host"].queue = lane["host"].queue
            /\ UNCHANGED <<writing, wire>> /\ up # <<>>
            /\ events' = Append(events, Head(up)) /\ up' = Tail(up)
        BY <2>5 DEF TaskRead, taskVars, Still
      <3>2. Head(up) \in Requests /\ Tail(up) \in Seq(Requests)
        BY <1>4, <3>1, HeadTailProperties
      <3>3. PICK o \in {0, 1}, x \in Nat :
               o = One(Head(up).kind \in Asked) /\ x = Count(up', Asked)
        <4>1. One(Head(up).kind \in Asked) \in {0, 1}
          BY DEF One
        <4> QED
          BY <3>1, <3>2, <4>1, CountNat
      <3>4. u = o + x
        BY <1>2, <1>4, <3>1, <3>3, CountTail
      <3>5. Count(events', Asked) = v + o
        BY <1>2, <1>4, <3>1, <3>2, <3>3, CountAppend, SMTT(60)
      <3>6. Barriers' = x + (v + o) + b + h + w + n + c
        BY <1>2, <2>1, <3>1, <3>3, <3>5 DEF Barriers
      <3>7. x + (v + o) + b + h + w + n + c <= z
        BY <1>3, <3>4
      <3> QED
        BY <1>2, <2>1, <3>6, <3>7
    <2>6. CASE TaskEnd
      <3> DEFINE g == Request("gone", NoSerial)
      <3>1. g \in Requests /\ g.kind \notin Asked
        BY DEF Request, Requests, NoSerial, Asked
      <3>2. /\ UNCHANGED <<lane, wire, up>> /\ writing' = NoMessage
            /\ events' = Append(events, g) /\ writing = NoMessage
        BY <1>1, <2>6 DEF TaskEnd
      <3> HIDE DEF g
      <3>3. Count(events', Asked) = v + 0
        BY <1>2, <1>4, <3>1, <3>2, CountAppend DEF One
      <3>4. Barriers' = u + (v + 0) + b + h + w + n + c
        BY <1>2, <2>1, <3>2, <3>3 DEF Barriers
      <3>5. u + (v + 0) + b + h + w + n + c <= z
        BY <1>3
      <3> QED
        BY <1>2, <2>1, <3>4, <3>5
    <2> QED
      BY <1>6, <2>2, <2>3, <2>4, <2>5, <2>6 DEF TaskMove
  <1>7. CASE ReaderMove
    <2>1. /\ UNCHANGED <<inputBarrier, awaiting, writing, up, events>>
          /\ lane'["host"] = lane["host"]
      BY <1>7 DEF ReaderMove, hostVars, taskVars, clientVars
    <2>2. CASE ReaderEnd
      <3>1. UNCHANGED <<lane, wire>>
        BY <2>2 DEF ReaderEnd
      <3> QED
        BY <1>1, <2>1, <3>1 DEF Barriers
    <2>3. CASE \E x, y : ReaderRead(x, y)
      <3>1. PICK x, y : ReaderRead(x, y)
        BY <2>3
      <3>2. /\ wire # <<>> /\ x = Head(wire) /\ wire' = Tail(wire)
            /\ PutIn(lane["client"], y, lane'["client"])
            /\ y = x \/ (x.kind = "damage" /\ y.kind = "frame")
        BY <3>1 DEF ReaderRead
      <3>3. x \in Messages /\ Tail(wire) \in Seq(Messages)
        BY <1>4, <3>2, HeadTailProperties
      <3>4. PICK o \in {0, 1}, s \in Nat :
               o = One(x.kind \in Barrier) /\ s = Count(wire', Barrier)
        <4>1. One(x.kind \in Barrier) \in {0, 1}
          BY DEF One
        <4> QED
          BY <3>2, <3>3, <4>1, CountNat
      <3>5. n = o + s
        BY <1>2, <1>4, <3>2, <3>4, CountTail
      <3>6. Count(lane'["client"].queue, Barrier) = c + o
        <4>1. CASE x.kind \in Semantic
          <5>1. y = x
            BY <3>2, <4>1 DEF Semantic
          <5>2. lane'["client"].queue = Append(lane["client"].queue, x)
            BY <3>2, <4>1, <5>1 DEF PutIn
          <5>3. lane["client"].queue \in Seq(Messages)
            BY <1>4
          <5>4. Count(lane'["client"].queue, Barrier)
                    = Count(lane["client"].queue, Barrier)
                      + One(x.kind \in Barrier)
            BY <3>3, <5>2, <5>3, CountAppend
          <5> QED
            BY <1>2, <3>4, <5>4
        <4>2. CASE x.kind \notin Semantic
          <5>1. y.kind \notin Semantic /\ o = 0
            BY <3>2, <3>4, <4>2 DEF Semantic, Barrier, One
          <5>2. lane'["client"].queue = lane["client"].queue
            BY <3>2, <5>1 DEF PutIn
          <5>3. c = c + o
            BY <5>1
          <5> QED
            BY <1>2, <5>2, <5>3
        <4> QED
          BY <4>1, <4>2
      <3>7. Barriers' = u + v + b + h + w + s + (c + o)
        BY <1>2, <2>1, <3>4, <3>6 DEF Barriers
      <3>8. u + v + b + h + w + s + (c + o) <= z
        BY <1>3, <3>5
      <3> QED
        BY <1>2, <2>1, <3>7, <3>8
    <2> QED
      BY <1>7, <2>2, <2>3 DEF ReaderMove
  <1>8. CASE ClientMove
    <2>1. /\ UNCHANGED <<inputBarrier, writing, wire, events>>
          /\ lane'["host"] = lane["host"]
      BY <1>8 DEF ClientMove, hostVars, taskVars
    <2>2. CASE \E m : ClientTake(m)
      <3>1. PICK m : ClientTake(m)
        BY <2>2
      <3>2. /\ Takes(lane["client"], m, lane'["client"]) /\ m.kind # "none"
            /\ Greets(m) \/ Reacts(m)
        BY <3>1 DEF ClientTake
      <3>3. PICK o \in {0, 1} : o = One(m.kind \in Barrier)
        BY DEF One
      <3>4. PICK x \in Nat : x = Count(lane'["client"].queue, Barrier)
        BY <1>4, <3>2, TakenQueue, CountNat
      <3>5. c = x + o
        BY <1>2, <1>4, <3>2, <3>3, <3>4, TakenBarrier
      <3>6. CASE UNCHANGED <<up, awaiting>>
        <4>1. Barriers' = u + v + b + h + w + n + x
          BY <1>2, <2>1, <3>4, <3>6 DEF Barriers
        <4>2. u + v + b + h + w + n + x <= z
          BY <1>3, <3>5
        <4> QED
          BY <1>2, <3>6, <4>1, <4>2
      <3>7. CASE up' = up /\ m.kind = "barrier"
        <4>1. o = 1
          BY <3>3, <3>7 DEF One, Barrier
        <4>2. Barriers' = u + v + b + h + w + n + x
          BY <1>2, <2>1, <3>4, <3>7 DEF Barriers
        <4>3. u + v + b + h + w + n + x <= 0
          BY <1>3, <3>5, <4>1
        <4>4. One(awaiting' # NoSerial) \in {0, 1}
          BY DEF One
        <4> QED
          BY <4>2, <4>3, <4>4
      <3>8. ASSUME NEW k \in {"launch", "resync"},
                   ClientSends(<<Request(k, NoSerial)>>),
                   k = "launch" => awaiting = NoSerial /\ awaiting' # NoSerial,
                   k = "resync" => awaiting' = awaiting
            PROVE  Barriers' <= One(awaiting' # NoSerial)
        <4>1. Request(k, NoSerial) \in Requests /\ Request(k, NoSerial).kind = k
          BY DEF Request, Requests, NoSerial
        <4>2. PICK s \in {0, 1} : s = One(k \in Asked)
          BY DEF One
        <4>3. Count(up', Asked) = u + s
          BY <1>2, <3>8, <4>1, <4>2, SendsOne
        <4>4. Barriers' = (u + s) + v + b + h + w + n + x
          BY <1>2, <2>1, <3>4, <4>3 DEF Barriers
        <4>5. PICK y \in {0, 1} : y = One(awaiting' # NoSerial)
          BY DEF One
        <4>6. (k = "launch" => z = 0 /\ y = 1) /\ (k = "resync" => s = 0 /\ y = z)
          BY <1>2, <3>8, <4>2, <4>5 DEF One, Asked
        <4>7. (u + s) + v + b + h + w + n + x <= y
          BY <1>3, <3>5, <4>6
        <4> QED
          BY <4>4, <4>5, <4>7
      <3>9. CASE Greets(m)
        BY <3>6, <3>9 DEF Greets
      <3>10. CASE phase = "initial" /\ OnInitial(m)
        <4>1. awaiting = NoSerial
          BY <3>10 DEF Greeting
        <4>2. CASE m.kind = "frame" /\ Launch
          <5>1. ClientSends(<<Request("launch", NoSerial)>>) /\ awaiting' = 0
            BY <3>10, <4>2 DEF OnInitial
          <5> QED
            BY <3>8, <4>1, <5>1 DEF NoSerial
        <4>3. CASE ~(m.kind = "frame" /\ Launch)
          BY <3>6, <3>10, <4>3 DEF OnInitial
        <4> QED
          BY <4>2, <4>3
      <3>11. CASE phase = "launch" /\ OnLaunching(m)
        BY <3>6, <3>7, <3>11 DEF OnLaunching
      <3>12. CASE phase = "loop" /\ OnResponse(m)
        <4>1. \/ UNCHANGED <<up, awaiting>>
              \/ up' = up /\ m.kind = "barrier"
              \/ Resynchronize /\ awaiting' = awaiting
          BY <3>12 DEF OnResponse
        <4> QED
          BY <3>6, <3>7, <3>8, <4>1 DEF Resynchronize
      <3> QED
        BY <3>2, <3>9, <3>10, <3>11, <3>12 DEF Reacts
    <2>3. CASE ClientPoll
      <3>1. /\ lane'["client"].queue = lane["client"].queue
            /\ UNCHANGED <<up, awaiting>>
        BY <2>3 DEF ClientPoll, clientVars, Still
      <3> QED
        BY <1>1, <2>1, <3>1 DEF Barriers
    <2>4. CASE ClientAct
      <3>1. /\ lane'["client"].queue = lane["client"].queue /\ ClientInputs
            /\ phase' = "loop"
        BY <2>4 DEF ClientAct, Still
      <3>2. ASSUME NEW k \in {"input", "ask", "detach"},
                   ClientSends(<<Request(k, NoSerial)>>), awaiting' = awaiting
            PROVE  Barriers' <= One(awaiting' # NoSerial)
        <4>1. Request(k, NoSerial) \in Requests /\ Request(k, NoSerial).kind = k
          BY DEF Request, Requests, NoSerial
        <4>2. One(k \in Asked) = 0
          BY DEF One, Asked
        <4>3. Count(up', Asked) = u + 0
          BY <1>2, <3>2, <4>1, <4>2, SendsOne
        <4>4. Barriers' = (u + 0) + v + b + h + w + n + c
          BY <1>2, <2>1, <3>1, <4>3 DEF Barriers
        <4> QED
          BY <1>2, <1>3, <3>2, <4>4
      <3>3. CASE \E barrier \in BOOLEAN : ClientInput(barrier)
        <4>1. PICK barrier \in BOOLEAN : ClientInput(barrier)
          BY <3>3
        <4>2. sent.inputs \in Nat
          BY Groups DEF AllTyped, NotesTyped
        <4>3. awaiting = NoSerial
          BY <4>1 DEF ClientInput
        <4>4. CASE ~barrier
          <5>1. ClientSends(<<Request("input", NoSerial)>>)
            BY <4>1, <4>2, <4>4, InputSends
          <5>2. awaiting' = awaiting
            BY <4>1, <4>3, <4>4 DEF ClientInput
          <5> QED
            BY <3>2, <5>1, <5>2
        <4>5. CASE barrier
          <5> DEFINE r == Request("input", NoSerial)
                     s == Request("barrier", sent.inputs + 1)
          <5>1. r \in Requests /\ s \in Requests /\ ClientSends(<<r, s>>)
            BY <4>1, <4>2, <4>5, InputSends
          <5>2. One(r.kind \in Asked) = 0 /\ One(s.kind \in Asked) = 1
            BY DEF Request, Asked, One
          <5> HIDE DEF r, s
          <5>3. Count(up', Asked) = u + 0 + 1
            BY <1>2, <5>1, <5>2, SendsBarrier
          <5>4. awaiting' = sent.inputs + 1
            BY <4>1, <4>5 DEF ClientInput
          <5>5. One(awaiting' # NoSerial) = 1
            BY <4>2, <5>4 DEF One, NoSerial
          <5>6. z = 0
            BY <1>2, <4>3 DEF One
          <5>7. Barriers' = (u + 0 + 1) + v + b + h + w + n + c
            BY <1>2, <2>1, <3>1, <5>3 DEF Barriers
          <5>8. (u + 0 + 1) + v + b + h + w + n + c <= 1
            BY <1>3, <5>6
          <5> QED
            BY <5>5, <5>7, <5>8
        <4> QED
          BY <4>4, <4>5
      <3>4. CASE ClientAsks
        BY <3>2, <3>4 DEF ClientAsks, ClientActs
      <3>5. CASE ClientDetaches
        BY <3>2, <3>5 DEF ClientDetaches, ClientActs
      <3>6. CASE ClientLeaves
        BY <3>1, <3>6 DEF ClientLeaves, Goes
      <3> QED
        BY <3>1, <3>3, <3>4, <3>5, <3>6 DEF ClientInputs
    <2>5. CASE ClientQuit
      BY <2>5 DEF ClientQuit, Running
    <2> QED
      BY <1>8, <2>2, <2>3, <2>4, <2>5 DEF ClientMove
  <1>9. CASE UNCHANGED vars
    BY <1>1, <1>9 DEF vars, hostVars, taskVars, clientVars, Barriers
  <1> QED
    BY <1>1, <1>5, <1>6, <1>7, <1>8, <1>9

-----------------------------------------------------------------------------
(* The input a barrier covers *)

\* The frames show ever more of the input, and the barrier is asked for after
\* the input that it covers: the frame that answers it shows all of it.
Shown(m) == m.kind = "barrier" => covers <= shows[m.id]
FramesGrow ==
    /\ \A i, j \in 1 .. nextFrame - 1 : i <= j => shows[i] <= shows[j]
    /\ \A i \in 1 .. nextFrame - 1 : shows[i] <= applied
AskedAfter ==
    /\ \A i \in DOMAIN up : up[i].kind \in Asked =>
          \A j \in DOMAIN up : i < j => up[j].kind # "input"
    /\ \A i \in DOMAIN events : events[i].kind \in Asked =>
          /\ \A j \in DOMAIN events : i < j => events[j].kind # "input"
          /\ \A j \in DOMAIN up : up[j].kind # "input"
Answered ==
    /\ inputBarrier # NoSerial => covers <= applied
    /\ \A k \in {"host", "client"} :
          \A i \in DOMAIN lane[k].queue : Shown(lane[k].queue[i])
    /\ Shown(writing)
    /\ \A i \in DOMAIN wire : Shown(wire[i])
Covered ==
    /\ FramesGrow /\ covers <= sent.inputs
    /\ Running => AskedAfter /\ Answered

\* When the host takes the barrier's request it has handled all the input.
LEMMA AllApplied ==
    ASSUME Typed, AskedAfter, attached, events # <<>>,
           Head(events).kind \in Asked
    PROVE  applied = sent.inputs
  <1>1. /\ 1 \in DOMAIN events /\ Head(events) = events[1]
        /\ \A j \in DOMAIN events : j \in Nat \ {0}
    BY BarrierNumbers, TailAt
  <1>2. /\ \A j \in DOMAIN events : 1 < j => events[j].kind # "input"
        /\ \A j \in DOMAIN up : up[j].kind # "input"
    BY <1>1 DEF AskedAfter
  <1>3. \A j \in DOMAIN events : events[j].kind \notin {"input"}
    <2> TAKE j \in DOMAIN events
    <2>1. CASE j = 1
      BY <1>1, <2>1 DEF Asked
    <2>2. CASE j # 1
      <3>1. 1 < j
        BY <1>1, <2>2
      <3> QED
        BY <1>2, <3>1
    <2> QED
      BY <2>1, <2>2
  <1>4. Count(events, {"input"}) = 0 /\ Count(up, {"input"}) = 0
    <2>1. Count(events, {"input"}) = 0
      BY <1>3, BarrierNumbers, CountNat
    <2>2. Count(up, {"input"}) = 0
      BY <1>2, BarrierNumbers, CountNat
    <2> QED
      BY <2>1, <2>2
  <1>5. applied + Count(events, {"input"}) + Count(up, {"input"}) = sent.inputs
    BY Groups DEF Counted
  <1>6. applied \in Nat
    BY Groups DEF HostTyped
  <1> QED
    BY <1>4, <1>5, <1>6

\* The frames that the host publishes.
LEMMA FramesNext ==
    ASSUME Typed, HostMoves, FramesGrow
    PROVE  /\ FramesGrow'
           /\ applied \in Nat /\ applied' \in Nat /\ applied <= applied'
           /\ \A i \in 1 .. nextFrame - 1 : shows'[i] = shows[i]
           /\ nextFrame' = nextFrame + 1 => shows'[nextFrame] = applied'
  <1>1. /\ nextFrame \in Nat \ {0} /\ applied \in Nat
        /\ shows \in Seq(Nat) /\ Len(shows) = nextFrame - 1
    BY DEF Typed, TypeOK
  <1>2. applied' \in Nat /\ applied <= applied'
    <2>1. \/ applied' = applied
          \/ applied' = applied + One(attached /\ Head(events).kind = "input")
      BY DEF HostMoves
    <2>2. One(attached /\ Head(events).kind = "input") \in {0, 1}
      BY DEF One
    <2> QED
      BY <1>1, <2>1, <2>2
  <1>3. PICK j \in Nat, m \in Messages, last \in 0 .. nextFrame - 1,
             barrier \in Int, mm \in Nat : HostMove(j, m, last, barrier, mm)
    BY DEF HostMoves
  <1>4. CASE UNCHANGED <<nextFrame, shows>>
    <2>1. \A i \in 1 .. nextFrame - 1 : shows[i] \in Nat
      BY <1>1, LenProperties
    <2>2. \A i \in 1 .. nextFrame - 1 : shows[i] <= applied'
      BY <1>1, <1>2, <2>1 DEF FramesGrow
    <2> QED
      BY <1>1, <1>2, <1>4, <2>2 DEF FramesGrow
  <1>5. CASE nextFrame' = nextFrame + 1 /\ shows' = Append(shows, applied')
    <2>1. /\ \A i \in 1 .. nextFrame - 1 : shows'[i] = shows[i]
          /\ shows'[nextFrame] = applied'
          /\ \A i \in 1 .. nextFrame - 1 : shows[i] \in Nat
      BY <1>1, <1>2, <1>5, AppendProperties, LenProperties
    <2>2. \A i \in 1 .. nextFrame - 1 : shows'[i] <= applied'
      BY <1>1, <1>2, <2>1 DEF FramesGrow
    <2>3. \A i \in 1 .. nextFrame' - 1 : i \in 1 .. nextFrame - 1 \/ i = nextFrame
      BY <1>1, <1>5
    <2>4. \A i \in 1 .. nextFrame' - 1 : shows'[i] <= applied'
      BY <1>2, <2>1, <2>2, <2>3
    <2>5. \A i, k \in 1 .. nextFrame' - 1 : i <= k => shows'[i] <= shows'[k]
      <3> TAKE i, k \in 1 .. nextFrame' - 1
      <3> HAVE i <= k
      <3>1. CASE k = nextFrame
        BY <2>1, <2>4, <3>1
      <3>2. CASE k \in 1 .. nextFrame - 1
        <4>1. i \in 1 .. nextFrame - 1
          BY <1>1, <2>3, <3>2
        <4> QED
          BY <2>1, <3>2, <4>1 DEF FramesGrow
      <3> QED
        BY <2>3, <3>1, <3>2
    <2>6. FramesGrow'
      BY <2>4, <2>5 DEF FramesGrow
    <2> QED
      BY <1>1, <1>2, <2>1, <2>6
  <1> QED
    BY <1>3, <1>4, <1>5 DEF HostMove, Unpublished, Published

\* The barrier that the host notes or answers covers what it has handled.
LEMMA BarrierDue ==
    ASSUME Typed, HostMoves, FramesGrow, AskedAfter, Answered,
           covers <= sent.inputs, NEW barrier \in Int, barrier # NoSerial,
           barrier # inputBarrier =>
              attached /\ (Serves("barrier") \/ Serves("launch"))
    PROVE  covers <= applied'
  <1>1. applied \in Nat /\ applied' \in Nat /\ applied <= applied'
    BY FramesNext
  <1>2. covers \in Nat
    BY Groups DEF AllTyped, ClientTyped
  <1>3. covers <= applied
    <2>1. CASE barrier = inputBarrier
      BY <2>1 DEF Answered
    <2>2. CASE barrier # inputBarrier
      <3>1. attached /\ events # <<>> /\ Head(events).kind \in Asked
        BY <2>2 DEF Serves, Asked
      <3> QED
        BY <3>1, AllApplied
    <2> QED
      BY <2>1, <2>2
  <1> QED
    BY <1>1, <1>2, <1>3

\* A request behind the others, that is not an input, comes after every input;
\* and so does any request when there is no barrier before it.
LEMMA AskedSends ==
    ASSUME Typed, NEW x \in Requests, ClientSends(<<x>>), events' = events,
           \/ AskedAfter /\ x.kind # "input"
           \/ /\ \A i \in DOMAIN up : up[i].kind \notin Asked
              /\ \A i \in DOMAIN events : events[i].kind \notin Asked
    PROVE  AskedAfter'
  <1>1. /\ \A i \in DOMAIN up' :
                 /\ i \in Nat /\ i <= Len(up) + 1
                 /\ \/ i \in DOMAIN up /\ up'[i] = up[i] /\ i < Len(up) + 1
                    \/ i = Len(up) + 1 /\ up'[i] = x
        /\ Len(up) \in Nat
    BY SendsOne, BarrierNumbers, LenProperties
  <1>2. CASE AskedAfter /\ x.kind # "input"
    <2>1. \A i \in DOMAIN up' : up'[i].kind \in Asked =>
             \A j \in DOMAIN up' : i < j => up'[j].kind # "input"
      <3> TAKE i \in DOMAIN up'
      <3> HAVE up'[i].kind \in Asked
      <3> TAKE j \in DOMAIN up'
      <3> HAVE i < j
      <3>1. i # Len(up) + 1
        BY <1>1
      <3>2. i \in DOMAIN up /\ up[i].kind \in Asked
        BY <1>1, <3>1
      <3> QED
        BY <1>1, <1>2, <3>2 DEF AskedAfter
    <2>2. \A i \in DOMAIN events' : events'[i].kind \in Asked =>
             /\ \A j \in DOMAIN events' : i < j => events'[j].kind # "input"
             /\ \A j \in DOMAIN up' : up'[j].kind # "input"
      BY <1>1, <1>2 DEF AskedAfter
    <2> QED
      BY <2>1, <2>2 DEF AskedAfter
  <1>3. CASE /\ \A i \in DOMAIN up : up[i].kind \notin Asked
             /\ \A i \in DOMAIN events : events[i].kind \notin Asked
    <2>1. \A i \in DOMAIN up' : up'[i].kind \in Asked => i = Len(up) + 1
      BY <1>1, <1>3
    <2>2. \A i, j \in DOMAIN up' : i = Len(up) + 1 => ~(i < j)
      BY <1>1
    <2> QED
      BY <1>3, <2>1, <2>2 DEF AskedAfter
  <1> QED
    BY <1>2, <1>3

\* The task takes a request from the socket to the events.
LEMMA AskedRead ==
    ASSUME Typed, AskedAfter, TaskRead
    PROVE  AskedAfter'
  <1>1. /\ up \in Seq(Requests) /\ events \in Seq(Requests)
        /\ up # <<>> /\ events' = Append(events, Head(up)) /\ up' = Tail(up)
    BY BarrierNumbers DEF TaskRead
  <1>2. /\ 1 \in DOMAIN up /\ Head(up) = up[1]
        /\ \A i \in DOMAIN up' :
              i \in Nat \ {0} /\ i + 1 \in DOMAIN up /\ up'[i] = up[i + 1]
        /\ Head(up) \in Requests
    BY <1>1, TailAt, HeadTailProperties
  <1>3. \A i \in DOMAIN events' :
           /\ i \in Nat /\ i <= Len(events) + 1
           /\ \/ i \in DOMAIN events /\ events'[i] = events[i]
              \/ i = Len(events) + 1 /\ events'[i] = up[1]
    <2>1. /\ events'[Len(events) + 1] = up[1] /\ Len(events) \in Nat
          /\ \A i \in DOMAIN events : /\ i \in Nat \ {0} /\ i < Len(events) + 1
                                      /\ events'[i] = events[i]
          /\ \A i \in DOMAIN events' : i \in DOMAIN events \/ i = Len(events) + 1
      BY <1>1, <1>2, AppendAt, LenProperties
    <2> QED
      BY <2>1
  <1>4. \A i \in DOMAIN up' : up'[i].kind \in Asked =>
           \A j \in DOMAIN up' : i < j => up'[j].kind # "input"
    <2> TAKE i \in DOMAIN up'
    <2> HAVE up'[i].kind \in Asked
    <2> TAKE j \in DOMAIN up'
    <2> HAVE i < j
    <2>1. i + 1 < j + 1
      BY <1>2
    <2> QED
      BY <1>2, <2>1 DEF AskedAfter
  <1>5. \A i \in DOMAIN events' : events'[i].kind \in Asked =>
           /\ \A j \in DOMAIN events' : i < j => events'[j].kind # "input"
           /\ \A j \in DOMAIN up' : up'[j].kind # "input"
    <2> TAKE i \in DOMAIN events'
    <2> HAVE events'[i].kind \in Asked
    <2>1. CASE i \in DOMAIN events /\ events'[i] = events[i]
      <3>1. /\ \A j \in DOMAIN events : i < j => events[j].kind # "input"
            /\ \A j \in DOMAIN up : up[j].kind # "input"
        BY <2>1 DEF AskedAfter
      <3> QED
        BY <1>2, <1>3, <3>1
    <2>2. CASE i = Len(events) + 1 /\ events'[i] = up[1]
      <3>1. \A j \in DOMAIN up : 1 < j => up[j].kind # "input"
        BY <1>2, <2>2 DEF AskedAfter
      <3>2. \A j \in DOMAIN up' : up'[j].kind # "input"
        <4> TAKE j \in DOMAIN up'
        <4>1. 1 < j + 1
          BY <1>2
        <4> QED
          BY <1>2, <3>1, <4>1
      <3>3. \A j \in DOMAIN events' : ~(i < j)
        BY <1>3, <2>2
      <3> QED
        BY <3>2, <3>3
    <2> QED
      BY <1>3, <2>1, <2>2
  <1> QED
    BY <1>4, <1>5 DEF AskedAfter

\* The host takes a request from the events, or the task ends.
LEMMA AskedEvents ==
    ASSUME Typed, AskedAfter, up' = up,
           \/ events' = events
           \/ events # <<>> /\ events' = Tail(events)
           \/ events' = Append(events, Request("gone", NoSerial))
    PROVE  AskedAfter'
  <1>1. events \in Seq(Requests)
    BY BarrierNumbers
  <1>2. CASE events' = events
    BY <1>2 DEF AskedAfter
  <1>3. CASE events # <<>> /\ events' = Tail(events)
    <2>1. \A i \in DOMAIN events' :
             /\ i \in Nat \ {0} /\ i + 1 \in DOMAIN events
             /\ events'[i] = events[i + 1]
      BY <1>1, <1>3, TailAt
    <2>2. \A i, j \in DOMAIN events' : i < j => i + 1 < j + 1
      BY <2>1
    <2>3. \A i \in DOMAIN events' : events'[i].kind \in Asked =>
             /\ \A j \in DOMAIN events' : i < j => events'[j].kind # "input"
             /\ \A j \in DOMAIN up' : up'[j].kind # "input"
      <3> TAKE i \in DOMAIN events'
      <3> HAVE events'[i].kind \in Asked
      <3>1. /\ \A j \in DOMAIN events : i + 1 < j => events[j].kind # "input"
            /\ \A j \in DOMAIN up : up[j].kind # "input"
        BY <2>1 DEF AskedAfter
      <3> QED
        BY <2>1, <2>2, <3>1
    <2> QED
      BY <2>3 DEF AskedAfter
  <1>4. CASE events' = Append(events, Request("gone", NoSerial))
    <2> DEFINE g == Request("gone", NoSerial)
    <2>1. g \in Requests /\ g.kind \notin Asked /\ g.kind # "input"
      BY DEF Request, Requests, NoSerial, Asked
    <2>2. events' = Append(events, g)
      BY <1>4
    <2> HIDE DEF g
    <2>3. \A i \in DOMAIN events' :
             (i \in DOMAIN events /\ events'[i] = events[i]) \/ events'[i] = g
      BY <1>1, <2>1, <2>2, AppendAt
    <2>4. \A i \in DOMAIN events' : events'[i].kind \in Asked =>
             /\ \A j \in DOMAIN events' : i < j => events'[j].kind # "input"
             /\ \A j \in DOMAIN up' : up'[j].kind # "input"
      BY <2>1, <2>3 DEF AskedAfter
    <2> QED
      BY <2>4 DEF AskedAfter
  <1> QED
    BY <1>2, <1>3, <1>4

-----------------------------------------------------------------------------
\* Before the first frame is shown nothing is asked for.
LEMMA BarrierInit == Init => OneBarrier /\ Covered
  <1> SUFFICES ASSUME Init PROVE OneBarrier /\ Covered
    OBVIOUS
  <1>1. Typed /\ Greeting
    BY TypedInit, GreetingInit
  <1>2. /\ phase = "handshake" /\ Running /\ up = <<>> /\ events = <<>>
        /\ wire = <<>> /\ inputBarrier = NoSerial /\ covers = 0 /\ applied = 0
        /\ sent.inputs = 0 /\ writing.kind \notin Barrier
    BY DEF Init, Running, NoMessage, Message, Barrier
  <1>3. \A k \in {"host", "client"} : \A i \in DOMAIN lane[k].queue :
           lane[k].queue[i].kind \notin Barrier
    BY <1>1, <1>2 DEF Greeting, Greeted, Semantic, Barrier
  <1>4. OneBarrier
    <2>1. Count(up, Asked) = 0 /\ Count(events, Asked) = 0
      <3>1. <<>> \in Seq(Requests) /\ DOMAIN <<>> = {}
        OBVIOUS
      <3> QED
        BY <1>2, <3>1, CountNat
    <2>2. Count(wire, Barrier) = 0
      <3>1. <<>> \in Seq(Messages) /\ DOMAIN <<>> = {}
        OBVIOUS
      <3> QED
        BY <1>2, <3>1, CountNat
    <2>3. Count(lane["host"].queue, Barrier) = 0
      BY <1>1, <1>3, PipeNumbers, CountNat
    <2>4. Count(lane["client"].queue, Barrier) = 0
      BY <1>1, <1>3, PipeNumbers, CountNat
    <2>5. One(inputBarrier # NoSerial) = 0 /\ One(writing.kind \in Barrier) = 0
      BY <1>2 DEF One
    <2>6. Barriers = 0 + 0 + 0 + 0 + 0 + 0 + 0
      BY <2>1, <2>2, <2>3, <2>4, <2>5 DEF Barriers
    <2>7. One(awaiting # NoSerial) \in {0, 1}
      BY DEF One
    <2> QED
      BY <2>6, <2>7 DEF OneBarrier
  <1>5. FramesGrow
    <2>1. CASE refilling
      <3>1. nextFrame = 1
        BY <2>1 DEF Init
      <3> QED
        BY <3>1 DEF FramesGrow
    <2>2. CASE ~refilling
      <3>1. nextFrame = 2 /\ shows = <<0>>
        BY <2>2 DEF Init
      <3>2. shows[1] = 0 /\ \A i \in 1 .. nextFrame - 1 : i = 1
        BY <3>1
      <3> QED
        BY <1>2, <3>2 DEF FramesGrow
    <2> QED
      BY <2>1, <2>2
  <1>6. AskedAfter
    BY <1>2 DEF AskedAfter
  <1>7. Answered
    BY <1>2, <1>3 DEF Answered, Shown, Barrier
  <1> QED
    BY <1>2, <1>4, <1>5, <1>6, <1>7 DEF Covered

\* The barrier of an input is behind all the others.
LEMMA AskedBarrier ==
    ASSUME Typed, NEW x \in Requests, NEW y \in Requests, ClientSends(<<x, y>>),
           events' = events, x.kind \notin Asked,
           \A i \in DOMAIN up : up[i].kind \notin Asked,
           \A i \in DOMAIN events : events[i].kind \notin Asked
    PROVE  AskedAfter'
  <1> DEFINE s == Append(up, x)
  <1>1. up \in Seq(Requests) /\ s \in Seq(Requests) /\ up' = Append(s, y)
    BY BarrierNumbers, SendsBarrier
  <1>2. \A i \in DOMAIN s : s[i].kind \notin Asked
    <2>1. \A i \in DOMAIN s : (i \in DOMAIN up /\ s[i] = up[i]) \/ s[i] = x
      BY <1>1, AppendAt
    <2> QED
      BY <2>1
  <1> HIDE DEF s
  <1>3. /\ Len(s) \in Nat
        /\ \A i \in DOMAIN up' :
              /\ i \in Nat /\ i <= Len(s) + 1
              /\ (i \in DOMAIN s /\ up'[i] = s[i]) \/ i = Len(s) + 1
    <2>1. /\ Len(s) \in Nat
          /\ \A i \in DOMAIN s : /\ i \in Nat \ {0} /\ i < Len(s) + 1
                                 /\ up'[i] = s[i]
          /\ \A i \in DOMAIN up' : i \in DOMAIN s \/ i = Len(s) + 1
      BY <1>1, AppendAt, LenProperties
    <2> QED
      BY <2>1
  <1>4. \A i \in DOMAIN up' : up'[i].kind \in Asked => i = Len(s) + 1
    BY <1>2, <1>3
  <1>5. \A i, j \in DOMAIN up' : i = Len(s) + 1 => ~(i < j)
    BY <1>3
  <1> QED
    BY <1>4, <1>5 DEF AskedAfter

\* The host answers the barrier with a frame that shows the input it covers.
LEMMA HostAnswers ==
    ASSUME Typed, Covered, HostMoves, Running
    PROVE  Answered'
  <1>1. /\ FramesGrow /\ AskedAfter /\ Answered /\ covers <= sent.inputs
    BY DEF Covered
  <1>2. PICK j \in Nat, m \in Messages, last \in 0 .. nextFrame - 1,
             barrier \in Int, mm \in Nat :
           /\ HostMove(j, m, last, barrier, mm)
           /\ barrier # inputBarrier =>
                 attached /\ (Serves("barrier") \/ Serves("launch"))
    BY DEF HostMoves
  <1>3. /\ UNCHANGED <<covers, writing, wire>>
        /\ lane'["client"] = lane["client"]
        /\ Effect(j, m)
    BY <1>2, HostLane DEF clientVars, taskVars, HostMove
  <1>4. barrier # NoSerial => covers <= applied'
    BY <1>1, <1>2, BarrierDue
  <1>5. /\ applied \in Nat /\ applied' \in Nat /\ applied <= applied'
        /\ \A i \in 1 .. nextFrame - 1 : shows'[i] = shows[i]
        /\ nextFrame' = nextFrame + 1 => shows'[nextFrame] = applied'
    BY <1>1, FramesNext
  <1>6. covers \in Nat /\ nextFrame \in Nat \ {0}
    BY Groups DEF AllTyped, ClientTyped, HostTyped
  <1>7. inputBarrier' # NoSerial => covers' <= applied'
    <2>1. \/ inputBarrier' = inputBarrier \/ inputBarrier' = barrier
          \/ inputBarrier' = NoSerial
      BY <1>2 DEF HostMove, Unpublished, Published
    <2>2. inputBarrier # NoSerial => covers <= applied
      BY <1>1 DEF Answered
    <2>3. inputBarrier # NoSerial => covers <= applied'
      BY <1>5, <1>6, <2>2
    <2> QED
      BY <1>3, <1>4, <2>1, <2>3
  <1>8. ASSUME NEW n, Formed(n, nextFrame), Shown(n)
        PROVE  Shown(n)'
    <2> SUFFICES ASSUME n.kind = "barrier" PROVE covers' <= shows'[n.id]
      BY DEF Shown
    <2>1. n.id \in 1 .. nextFrame - 1
      BY <1>6, <1>8 DEF Formed, Messages
    <2> QED
      BY <1>3, <1>5, <1>8, <2>1 DEF Shown
  <1>9. m.kind = "barrier" => covers' <= shows'[m.id]
    <2> SUFFICES ASSUME m.kind = "barrier" PROVE covers' <= shows'[m.id]
      OBVIOUS
    <2>1. /\ Published(j, m, last, barrier, mm)
      BY <1>2 DEF HostMove, Unpublished
    <2>2. m # NoMessage
      BY DEF NoMessage, Message
    <2>3. m.id = nextFrame /\ barrier # NoSerial /\ nextFrame' = nextFrame + 1
      BY <2>1, <2>2 DEF Published
    <2> QED
      BY <1>3, <1>4, <1>5, <2>3
  <1>10. /\ \A i \in DOMAIN lane["host"].queue :
               Formed(lane["host"].queue[i], nextFrame) /\ Shown(lane["host"].queue[i])
         /\ \A i \in DOMAIN lane["client"].queue :
               /\ Formed(lane["client"].queue[i], nextFrame)
               /\ Shown(lane["client"].queue[i])
         /\ Formed(writing, nextFrame) /\ Shown(writing)
         /\ \A i \in DOMAIN wire : Formed(wire[i], nextFrame) /\ Shown(wire[i])
    BY <1>1, Groups
       DEF AllTyped, LanesTyped, LaneFormed, TaskTyped, WireTyped, Answered
  <1>11. \A i \in DOMAIN lane'["host"].queue : Shown(lane["host"].queue[i])'
    <2> TAKE i \in DOMAIN lane'["host"].queue
    <2>1. \/ /\ i \in DOMAIN lane["host"].queue
             /\ lane'["host"].queue[i] = lane["host"].queue[i]
          \/ lane'["host"].queue[i] = Reply
          \/ lane'["host"].queue[i] = m
      BY <1>3, HostQueue
    <2>2. Reply.kind # "barrier"
      BY DEF Reply, Message
    <2> QED
      BY <1>8, <1>9, <1>10, <2>1, <2>2 DEF Shown
  <1>12. \A i \in DOMAIN lane'["client"].queue : Shown(lane["client"].queue[i])'
    BY <1>3, <1>8, <1>10 DEF Shown
  <1>13. Shown(writing)' /\ \A i \in DOMAIN wire' : Shown(wire[i])'
    BY <1>3, <1>8, <1>10 DEF Shown
  <1> QED
    BY <1>7, <1>11, <1>12, <1>13 DEF Answered

-----------------------------------------------------------------------------
\* What the barrier covers, while nothing but the places of messages changes.
LEMMA AnswersMove ==
    ASSUME Answered, UNCHANGED <<inputBarrier, applied, shows, covers>>,
           \A k \in {"host", "client"} : \A i \in DOMAIN lane'[k].queue :
              Shown(lane'[k].queue[i]),
           Shown(writing'), \A i \in DOMAIN wire' : Shown(wire'[i])
    PROVE  Answered'
  BY DEF Answered, Shown

\* The invariant of the fifth layer.
LEMMA CoveredNext ==
    ASSUME Typed, Greeting, OneBarrier, Covered, [Next]_vars
    PROVE  Covered'
  <1>1. /\ HostMoves \/ TaskMove \/ ReaderMove \/ ClientMove \/ UNCHANGED vars
        /\ Running' => Running
    BY Moves
  <1>2. /\ lane["host"].queue \in Seq(Messages)
        /\ lane["client"].queue \in Seq(Messages)
        /\ wire \in Seq(Messages) /\ writing \in Messages
        /\ ~(NoMessage.kind = "barrier")
        /\ covers \in Nat /\ sent.inputs \in Nat
    BY PipeNumbers, Groups, SMTT(60)
       DEF HostTyped, AllTyped, ClientTyped, NotesTyped
  <1>3. FramesGrow /\ covers <= sent.inputs /\ (Running => AskedAfter /\ Answered)
    BY DEF Covered
  <1>4. Running =>
          /\ inputBarrier # NoSerial => covers <= applied
          /\ \A i \in DOMAIN lane["host"].queue : Shown(lane["host"].queue[i])
          /\ \A i \in DOMAIN lane["client"].queue : Shown(lane["client"].queue[i])
          /\ Shown(writing)
          /\ \A i \in DOMAIN wire : Shown(wire[i])
    BY <1>3 DEF Answered
  <1>5. ASSUME UNCHANGED hostVars
        PROVE  FramesGrow'
    BY <1>3, <1>5 DEF hostVars, FramesGrow
  <1>6. CASE HostMoves
    <2>1. UNCHANGED <<covers, up, phase>> /\ sent'.inputs = sent.inputs
      BY <1>6, HostLane DEF clientVars, HostMoves
    <2>2. FramesGrow'
      BY <1>3, <1>6, FramesNext
    <2>3. Running' => AskedAfter'
      <3>1. events' = events \/ (events # <<>> /\ events' = Tail(events))
        BY <1>6 DEF HostMoves
      <3> QED
        BY <1>1, <1>3, <2>1, <3>1, AskedEvents
    <2>4. Running' => Answered'
      BY <1>1, <1>6, HostAnswers
    <2> QED
      BY <1>3, <2>1, <2>2, <2>3, <2>4 DEF Covered
  <1>7. CASE TaskMove
    <2>1. /\ UNCHANGED <<inputBarrier, applied, shows, covers, sent, phase>>
          /\ lane'["client"] = lane["client"] /\ UNCHANGED hostVars
      BY <1>7 DEF TaskMove, clientVars, hostVars
    <2>2. FramesGrow' /\ covers' <= sent'.inputs
      BY <1>3, <1>5, <2>1
    <2> SUFFICES ASSUME Running' PROVE AskedAfter' /\ Answered'
      BY <2>2 DEF Covered
    <2>3. Running /\ AskedAfter
      BY <1>1, <1>3
    <2>4. CASE \E m : TaskTake(m)
      <3>1. PICK m : TaskTake(m)
        BY <2>4
      <3>2. /\ Takes(lane["host"], m, lane'["host"]) /\ m.kind # "none"
            /\ writing' = m /\ UNCHANGED <<wire, up, events>>
        BY <3>1 DEF TaskTake
      <3>3. /\ \A i \in DOMAIN lane'["host"].queue :
                  \E o \in DOMAIN lane["host"].queue :
                     lane'["host"].queue[i] = lane["host"].queue[o]
            /\ m.kind \in Semantic =>
                  1 \in DOMAIN lane["host"].queue /\ m = lane["host"].queue[1]
        BY <1>2, <3>2, TakenQueue
      <3>4. Shown(m)
        BY <1>4, <2>3, <3>3 DEF Shown, Semantic
      <3>5. /\ \A i \in DOMAIN lane'["host"].queue : Shown(lane'["host"].queue[i])
            /\ \A i \in DOMAIN lane'["client"].queue : Shown(lane'["client"].queue[i])
            /\ \A i \in DOMAIN wire' : Shown(wire'[i])
        BY <1>4, <2>1, <2>3, <3>2, <3>3
      <3>6. Answered'
        BY <1>3, <2>1, <2>3, <3>2, <3>4, <3>5, AnswersMove
      <3>7. AskedAfter'
        BY <2>3, <3>2, AskedEvents
      <3> QED
        BY <3>6, <3>7
    <2>5. CASE TaskPoll
      <3>1. /\ lane'["host"].queue = lane["host"].queue
            /\ UNCHANGED <<writing, wire, up, events>>
        BY <2>5 DEF TaskPoll, Still, taskVars
      <3>2. Answered'
        BY <1>3, <1>4, <2>1, <2>3, <3>1, AnswersMove
      <3>3. AskedAfter'
        BY <2>3, <3>1, AskedEvents
      <3> QED
        BY <3>2, <3>3
    <2>6. CASE TaskWrite
      <3>1. /\ wire' = Append(wire, writing) /\ writing' = NoMessage
            /\ UNCHANGED <<lane, up, events>>
        BY <2>6 DEF TaskWrite
      <3>2. \A i \in DOMAIN wire' :
               (i \in DOMAIN wire /\ wire'[i] = wire[i]) \/ wire'[i] = writing
        BY <1>2, <3>1, AppendAt
      <3>3. Shown(writing') /\ \A i \in DOMAIN wire' : Shown(wire'[i])
        <4>1. Shown(NoMessage)
          BY <1>2 DEF Shown
        <4> QED
          BY <1>4, <2>3, <3>1, <3>2, <4>1
      <3>4. Answered'
        BY <1>3, <1>4, <2>1, <2>3, <3>1, <3>3, AnswersMove
      <3>5. AskedAfter'
        BY <2>3, <3>1, AskedEvents
      <3> QED
        BY <3>4, <3>5
    <2>7. CASE TaskRead
      <3>1. /\ lane'["host"].queue = lane["host"].queue
            /\ UNCHANGED <<writing, wire>>
        BY <2>7 DEF TaskRead, Still, taskVars
      <3>2. Answered'
        BY <1>3, <1>4, <2>1, <2>3, <3>1, AnswersMove
      <3>3. AskedAfter'
        BY <2>3, <2>7, AskedRead
      <3> QED
        BY <3>2, <3>3
    <2>8. CASE TaskEnd
      <3>1. /\ UNCHANGED <<lane, wire, up>> /\ writing' = NoMessage
            /\ events' = Append(events, Request("gone", NoSerial))
        BY <2>8 DEF TaskEnd
      <3>2. Shown(writing')
        BY <1>2, <3>1 DEF Shown
      <3>3. Answered'
        BY <1>3, <1>4, <2>1, <2>3, <3>1, <3>2, AnswersMove
      <3>4. AskedAfter'
        BY <2>3, <3>1, AskedEvents
      <3> QED
        BY <3>3, <3>4
    <2> QED
      BY <1>7, <2>4, <2>5, <2>6, <2>7, <2>8 DEF TaskMove
  <1>8. CASE ReaderMove
    <2>1. /\ UNCHANGED <<inputBarrier, applied, shows, covers, sent, phase, writing,
                         up, events>>
          /\ lane'["host"] = lane["host"] /\ UNCHANGED hostVars
      BY <1>8 DEF ReaderMove, clientVars, hostVars, taskVars
    <2>2. FramesGrow' /\ covers' <= sent'.inputs
      BY <1>3, <1>5, <2>1
    <2> SUFFICES ASSUME Running' PROVE AskedAfter' /\ Answered'
      BY <2>2 DEF Covered
    <2>3. Running /\ AskedAfter
      BY <1>1, <1>3
    <2>4. AskedAfter'
      BY <2>1, <2>3, AskedEvents
    <2>5. CASE ReaderEnd
      <3>1. UNCHANGED <<lane, wire>>
        BY <2>5 DEF ReaderEnd
      <3>2. Answered'
        BY <1>3, <1>4, <2>1, <2>3, <3>1, AnswersMove
      <3> QED
        BY <2>4, <3>2
    <2>6. CASE \E x, y : ReaderRead(x, y)
      <3>1. PICK x, y : ReaderRead(x, y)
        BY <2>6
      <3>2. /\ wire # <<>> /\ x = Head(wire) /\ wire' = Tail(wire)
            /\ PutIn(lane["client"], y, lane'["client"])
            /\ y = x \/ (x.kind = "damage" /\ y.kind = "frame")
        BY <3>1 DEF ReaderRead
      <3>3. /\ 1 \in DOMAIN wire /\ x = wire[1]
            /\ \A i \in DOMAIN wire' : i + 1 \in DOMAIN wire /\ wire'[i] = wire[i + 1]
        BY <1>2, <3>2, TailAt
      <3>4. Shown(x) /\ \A i \in DOMAIN wire' : Shown(wire'[i])
        BY <1>4, <2>3, <3>3
      <3>5. \A i \in DOMAIN lane'["client"].queue : Shown(lane'["client"].queue[i])
        <4>1. CASE y.kind \in Semantic
          <5>1. y = x /\ lane'["client"].queue = Append(lane["client"].queue, x)
            BY <3>2, <4>1 DEF PutIn, Semantic
          <5>2. x \in Messages
            BY <1>2, <3>3, LenProperties
          <5>3. \A i \in DOMAIN lane'["client"].queue :
                   \/ /\ i \in DOMAIN lane["client"].queue
                      /\ lane'["client"].queue[i] = lane["client"].queue[i]
                   \/ lane'["client"].queue[i] = x
            BY <1>2, <5>1, <5>2, AppendAt
          <5> QED
            BY <1>4, <2>3, <3>4, <5>3
        <4>2. CASE y.kind \notin Semantic
          <5>1. lane'["client"].queue = lane["client"].queue
            BY <3>2, <4>2 DEF PutIn
          <5> QED
            BY <1>4, <2>3, <5>1
        <4> QED
          BY <4>1, <4>2
      <3>6. Answered'
        BY <1>3, <1>4, <2>1, <2>3, <3>4, <3>5, AnswersMove
      <3> QED
        BY <2>4, <3>6
    <2> QED
      BY <1>8, <2>5, <2>6 DEF ReaderMove
  <1>9. CASE ClientMove
    <2>1. /\ UNCHANGED <<inputBarrier, applied, shows, writing, wire, events>>
          /\ lane'["host"] = lane["host"] /\ UNCHANGED hostVars
      BY <1>9 DEF ClientMove, hostVars, taskVars
    <2>2. FramesGrow'
      BY <1>5, <2>1
    <2>3. CASE \E m : ClientTake(m)
      <3>1. PICK m : ClientTake(m)
        BY <2>3
      <3>2. /\ Takes(lane["client"], m, lane'["client"]) /\ m.kind # "none"
            /\ Formed(m, nextFrame) /\ (Greets(m) \/ Reacts(m)) /\ sent' = sent
        BY <3>1 DEF ClientTake
      <3>3. Running
        BY <3>2 DEF Greets, Reacts, Running
      <3>4. \A i \in DOMAIN lane'["client"].queue :
               \E o \in DOMAIN lane["client"].queue :
                  lane'["client"].queue[i] = lane["client"].queue[o]
        BY <1>2, <3>2, TakenQueue
      <3>5. covers' = covers
        BY <3>2, Reactions DEF Greets
      <3>6. Answered'
        <4>1. /\ \A i \in DOMAIN lane'["host"].queue : Shown(lane'["host"].queue[i])
              /\ \A i \in DOMAIN lane'["client"].queue :
                    Shown(lane'["client"].queue[i])
              /\ Shown(writing') /\ \A i \in DOMAIN wire' : Shown(wire'[i])
          BY <1>4, <2>1, <3>3, <3>4
        <4> QED
          BY <1>3, <2>1, <3>3, <3>5, <4>1, AnswersMove
      <3>7. AskedAfter'
        <4>1. CASE up' = up
          BY <1>3, <2>1, <3>3, <4>1, AskedEvents
        <4>2. ASSUME NEW k \in {"launch", "resync"},
                     ClientSends(<<Request(k, NoSerial)>>)
              PROVE  AskedAfter'
          <5>1. Request(k, NoSerial) \in Requests /\ Request(k, NoSerial).kind = k
            BY DEF Request, Requests, NoSerial
          <5> QED
            BY <1>3, <2>1, <3>3, <4>2, <5>1, AskedSends
        <4>3. up' = up \/ Requesting
          BY <3>2, Reactions DEF Greets
        <4> QED
          BY <4>1, <4>2, <4>3 DEF Requesting
      <3> QED
        BY <1>3, <2>2, <3>2, <3>5, <3>6, <3>7 DEF Covered
    <2>4. CASE ClientPoll
      <3>1. /\ lane'["client"].queue = lane["client"].queue
            /\ UNCHANGED <<covers, up, sent, phase>>
        BY <2>4 DEF ClientPoll, Still, clientVars
      <3>2. Running => Answered'
        BY <1>3, <1>4, <2>1, <3>1, AnswersMove
      <3>3. Running => AskedAfter'
        BY <1>3, <2>1, <3>1, AskedEvents
      <3> QED
        BY <1>1, <1>3, <2>2, <3>1, <3>2, <3>3 DEF Covered
    <2>5. CASE ClientAct
      <3>1. /\ lane'["client"].queue = lane["client"].queue
            /\ phase = "loop" /\ phase' = "loop" /\ Running /\ ClientInputs
        BY <2>5 DEF ClientAct, Still, Running
      <3>2. ASSUME covers' = covers
            PROVE  Answered'
        BY <1>3, <1>4, <2>1, <3>1, <3>2, AnswersMove
      <3>3. CASE \E barrier \in BOOLEAN : ClientInput(barrier)
        <4>1. PICK barrier \in BOOLEAN : ClientInput(barrier)
          BY <3>3
        <4>2. /\ awaiting = NoSerial /\ sent' = [sent EXCEPT !.inputs = @ + 1]
              /\ covers' = IF barrier THEN sent.inputs + 1 ELSE covers
          BY <4>1 DEF ClientInput
        <4>3. sent'.inputs = sent.inputs + 1
          BY <4>2, Groups DEF AllTyped, NotesTyped
        <4>4. covers' <= sent'.inputs
          BY <1>2, <1>3, <4>2, <4>3
        <4>5. /\ \A i \in DOMAIN up : up[i].kind \notin Asked
              /\ \A i \in DOMAIN events : events[i].kind \notin Asked
              /\ inputBarrier = NoSerial
              /\ \A k \in {"host", "client"} : \A i \in DOMAIN lane[k].queue :
                    lane[k].queue[i].kind \notin Barrier
              /\ writing.kind \notin Barrier
              /\ \A i \in DOMAIN wire : wire[i].kind \notin Barrier
          BY <3>1, <4>2, NoBarriers
        <4>6. Answered'
          BY <2>1, <3>1, <4>5 DEF Answered, Shown, Barrier
        <4>7. AskedAfter'
          <5> DEFINE r == Request("input", NoSerial)
                     s == Request("barrier", sent.inputs + 1)
          <5>1. /\ r \in Requests /\ s \in Requests
                /\ barrier => ClientSends(<<r, s>>)
                /\ ~barrier => ClientSends(<<r>>)
            BY <1>2, <4>1, InputSends
          <5>2. r.kind \notin Asked
            BY DEF Request, Asked
          <5> HIDE DEF r, s
          <5>3. CASE barrier
            BY <2>1, <4>5, <5>1, <5>2, <5>3, AskedBarrier
          <5>4. CASE ~barrier
            BY <2>1, <4>5, <5>1, <5>4, AskedSends
          <5> QED
            BY <5>3, <5>4
        <4> QED
          BY <2>2, <4>4, <4>6, <4>7 DEF Covered
      <3>4. ASSUME NEW k \in {"ask", "detach"}, sent' = [sent EXCEPT !.asks = @ + 1],
                   ClientActs(<<Request(k, NoSerial)>>), covers' = covers
            PROVE  Covered'
        <4>1. sent'.inputs = sent.inputs
          BY <3>4, Groups DEF AllTyped, NotesTyped
        <4>2. Request(k, NoSerial) \in Requests /\ Request(k, NoSerial).kind = k
          BY DEF Request, Requests, NoSerial
        <4>3. ClientSends(<<Request(k, NoSerial)>>)
          BY <3>4 DEF ClientActs
        <4>4. AskedAfter'
          BY <1>3, <2>1, <3>1, <4>2, <4>3, AskedSends
        <4> QED
          BY <1>3, <2>2, <3>2, <3>4, <4>1, <4>4 DEF Covered
      <3>5. CASE ClientAsks
        BY <3>4, <3>5 DEF ClientAsks
      <3>6. CASE ClientDetaches
        BY <3>4, <3>6 DEF ClientDetaches
      <3>7. CASE ClientLeaves
        BY <3>1, <3>7 DEF ClientLeaves, Goes
      <3> QED
        BY <3>1, <3>3, <3>5, <3>6, <3>7 DEF ClientInputs
    <2>6. CASE ClientQuit
      <3>1. ~Running' /\ UNCHANGED <<covers, sent>>
        BY <2>6 DEF ClientQuit, Running
      <3> QED
        BY <1>3, <2>2, <3>1 DEF Covered
    <2> QED
      BY <1>9, <2>3, <2>4, <2>5, <2>6 DEF ClientMove
  <1>10. CASE UNCHANGED vars
    BY <1>3, <1>10
       DEF vars, hostVars, taskVars, clientVars, Covered, FramesGrow, AskedAfter,
           Answered, Shown, Running
  <1> QED
    BY <1>1, <1>6, <1>7, <1>8, <1>9, <1>10

-----------------------------------------------------------------------------
\* A window that has its barrier answered shows every input it sent before
\* (publish_attached_frame, Request::InputBarrier, run_attached).
THEOREM BarrierCovers == Spec => BarrierCoversInput
  <1> DEFINE P == awaiting # NoSerial /\ awaiting' = NoSerial =>
                     shows'[current'] >= covers
             I == Delivering /\ OneBarrier /\ Covered
  <1>1. Init => I
    BY DeliveringInit, BarrierInit
  <1>2. I /\ [Next]_vars => I'
    BY DeliveringNext, OneBarrierNext, CoveredNext DEF Delivering
  <1>3. I /\ [Next]_vars => [P]_vars
    <2> SUFFICES ASSUME I, [Next]_vars, awaiting # NoSerial, awaiting' = NoSerial
                 PROVE  shows'[current'] >= covers
      OBVIOUS
    <2>1. /\ Typed /\ FramesGrow /\ (Running => Answered)
      BY DEF Delivering, Covered
    <2>2. HostMoves \/ TaskMove \/ ReaderMove \/ ClientMove \/ UNCHANGED vars
      BY <2>1, Moves
    <2>3. ClientMove
      BY <2>2 DEF HostMoves, TaskMove, ReaderMove, clientVars, vars
    <2>4. PICK m : ClientTake(m)
      BY <2>3 DEF ClientMove, ClientPoll, ClientAct, ClientQuit, ClientInputs,
                  ClientInput, ClientAsks, ClientDetaches, ClientLeaves, clientVars
    <2>5. /\ Takes(lane["client"], m, lane'["client"]) /\ m.kind # "none"
          /\ Formed(m, nextFrame) /\ Reacts(m) /\ Running
      BY <2>4 DEF ClientTake, Greets, Reacts, Running
    <2>6. m.kind = "barrier" /\ current' \in {m.id, Newest(m.id)}
      BY <2>5 DEF Reacts, OnInitial, OnLaunching, OnResponse, Goes, NoSerial
    <2>7. covers <= shows[m.id]
      <3>1. 1 \in DOMAIN lane["client"].queue /\ m = lane["client"].queue[1]
        BY <2>1, <2>5, <2>6, TakenQueue, PipeNumbers DEF Semantic
      <3> QED
        BY <2>1, <2>5, <2>6, <3>1 DEF Answered, Shown
    <2>8. /\ nextFrame \in Nat \ {0} /\ current \in 0 .. nextFrame - 1
          /\ covers \in Nat
          /\ \A i \in 1 .. nextFrame - 1 : shows[i] \in Nat
      <3>1. /\ nextFrame \in Nat \ {0} /\ current \in 0 .. nextFrame - 1
            /\ covers \in Nat /\ shows \in Seq(Nat) /\ Len(shows) = nextFrame - 1
        BY <2>1, Groups DEF AllTyped, ClientTyped, HostTyped
      <3> QED
        BY <3>1, LenProperties
    <2>9. m.id \in 1 .. nextFrame - 1
      BY <2>5, <2>6, <2>8 DEF Formed, Messages
    <2>10. current' \in 1 .. nextFrame - 1 /\ m.id <= current'
      BY <2>6, <2>8, <2>9 DEF Newest
    <2>11. shows[m.id] <= shows[current']
      BY <2>1, <2>9, <2>10 DEF FramesGrow
    <2>12. shows' = shows
      BY <2>3 DEF ClientMove, hostVars
    <2> QED
      BY <2>7, <2>8, <2>9, <2>10, <2>11, <2>12
  <1>4. BarrierCoversInput <=> [][P]_vars
    BY DEF BarrierCoversInput
  <1> HIDE DEF I
  <1> QED
    BY <1>1, <1>2, <1>3, <1>4, PTL DEF Spec
=============================================================================
