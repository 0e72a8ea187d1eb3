----------------------------- MODULE NodeProofs -----------------------------
(***************************************************************************)
(* Proofs about what the threads of a node share, for every size.          *)
(* skynet-src/skynet_mq.c: the indices of the ring stay inside it, it      *)
(* implements the FIFO queue of MessageFIFO, and its overload threshold is *)
(* the smallest level that covers the longest backlog.                     *)
(* skynet-src/skynet_start.c: m->sleep, which wakeup reads without the     *)
(* mutex, is exact, the mutex has one owner, and nobody waits once quit is *)
(* set.                                                                    *)
(* skynet-src/rwlock.h: the lock of the handle storage excludes.           *)
(* The three are components of one process; their states are disjoint.     *)
(***************************************************************************)
EXTENDS MessageQueue, WorkerPool, RWLock, WellFoundedInduction, FiniteSetTheorems, TLAPS

-----------------------------------------------------------------------------
(* The message queue of a service.                                         *)

(* An index at most one lap past the start of a ring of c slots wraps by   *)
(* one subtraction: the arithmetic behind every index of skynet_mq.c.      *)
LEMMA WrapOnce ==
  ASSUME NEW c \in Nat \ {0}, NEW x \in 0 .. 2 * c - 1
  PROVE  x % c = IF x < c THEN x ELSE x - c
<1>1. CASE x < c
  <2>1. x = c * 0 + x /\ 0 <= x /\ x < c
    BY <1>1
  <2> QED BY <1>1, <2>1
<1>2. CASE x >= c
  <2>1. x = c * 1 + (x - c) /\ 0 <= x - c /\ x - c < c
    BY <1>2
  <2> QED BY <1>2, <2>1, Z3
<1> QED BY <1>1, <1>2

(* The effect of skynet_mq_pop on the ring, apart from the overload        *)
(* bookkeeping.                                                            *)
LEMMA PopRing ==
  ASSUME skynet_mq_pop
  PROVE  /\ head # tail
         /\ ret' = queue[head]
         /\ head' = IF head + 1 >= cap THEN 0 ELSE head + 1
         /\ UNCHANGED <<cap, tail, queue>>
BY Zenon DEF skynet_mq_pop

(* Every operation of skynet_mq.c keeps head and tail inside the ring and  *)
(* writes only messages into its slots, growth in expand_queue included.   *)
THEOREM RingTypeCorrect == RingSpec => []RingTypeOK
<1>1. RingInit => RingTypeOK
  BY SizeAssumption DEF RingInit, skynet_mq_create, RingTypeOK
<1>2. RingTypeOK /\ [RingNext]_ringVars => RingTypeOK'
  <2> SUFFICES ASSUME RingTypeOK, [RingNext]_ringVars
               PROVE  RingTypeOK'
    OBVIOUS
  <2> USE DEF RingTypeOK
  <2>1. CASE \E m \in Message : skynet_mq_push(m)
    <3> PICK m \in Message : skynet_mq_push(m)
      BY <2>1
    <3> DEFINE written == [queue EXCEPT ![tail] = m]
               next    == IF tail + 1 >= cap THEN 0 ELSE tail + 1
    <3>1. written \in [0 .. cap - 1 -> Message \cup {Nothing}]
      OBVIOUS
    <3>2. next \in 0 .. cap - 1
      OBVIOUS
    <3>3. UNCHANGED ret
      BY DEF skynet_mq_push
    <3>4. CASE next = head /\ expand_queue(written)
      <4>1. \A i \in 0 .. cap - 1 : (head + i) % cap \in 0 .. cap - 1
        BY WrapOnce
      <4>2. queue' \in [0 .. 2 * cap - 1 -> Message \cup {Nothing}]
        BY <3>1, <3>4, <4>1 DEF expand_queue
      <4> QED BY <3>3, <3>4, <4>2 DEF expand_queue
    <3>5. CASE /\ queue' = written
               /\ tail' = next
               /\ UNCHANGED <<cap, head>>
      BY <3>1, <3>2, <3>3, <3>5
    <3> QED BY <3>4, <3>5 DEF skynet_mq_push
  <2>2. CASE skynet_mq_pop
    <3>1. /\ head # tail
          /\ ret' = queue[head]
          /\ head' = IF head + 1 >= cap THEN 0 ELSE head + 1
          /\ UNCHANGED <<cap, tail, queue>>
      BY <2>2, PopRing
    <3> QED BY <3>1
  <2>3. CASE skynet_mq_pop_empty
    BY <2>3 DEF skynet_mq_pop_empty
  <2>4. CASE skynet_mq_overload
    BY <2>4 DEF skynet_mq_overload
  <2>5. CASE UNCHANGED ringVars
    BY <2>5 DEF ringVars
  <2> QED BY <2>1, <2>2, <2>3, <2>4, <2>5 DEF RingNext
<1> QED BY <1>1, <1>2, PTL DEF RingSpec

-----------------------------------------------------------------------------
(* The slot of the i-th message after head, by one wrap at most. *)
Slot(i) ==
  IF head + i - 1 < cap THEN head + i - 1 ELSE head + i - 1 - cap

(* The number of messages skynet_mq_length counts fits in the ring, and    *)
(* Content lists that many slots of the ring.                              *)
ContentOK ==
  /\ skynet_mq_length \in 0 .. cap - 1
  /\ Content \in Seq(Message \cup {Nothing})
  /\ Len(Content) = skynet_mq_length
  /\ \A i \in 1 .. skynet_mq_length : Content[i] = queue[Slot(i)]

(* A well-formed ring has a well-formed content.                           *)
LEMMA ContentShape == RingTypeOK => ContentOK
<1> SUFFICES ASSUME RingTypeOK PROVE ContentOK
  OBVIOUS
<1> USE DEF RingTypeOK
<1>1. skynet_mq_length \in 0 .. cap - 1
  BY DEF skynet_mq_length
<1>2. ASSUME NEW i \in 1 .. skynet_mq_length
      PROVE  /\ (head + (i - 1)) % cap = Slot(i)
             /\ Slot(i) \in 0 .. cap - 1
  <2> DEFINE x == head + (i - 1)
  <2>1. x \in 0 .. 2 * cap - 1
    BY <1>1
  <2>2. x % cap = IF x < cap THEN x ELSE x - cap
    <3> HIDE DEF x
    <3> QED BY <2>1, WrapOnce
  <2> QED BY <1>1, <2>1, <2>2 DEF Slot
<1>3. Content = [i \in 1 .. skynet_mq_length |-> queue[Slot(i)]]
  BY <1>2, Zenon DEF Content
<1>4. Content \in [1 .. skynet_mq_length -> Message \cup {Nothing}]
  BY <1>1, <1>2, <1>3
<1>5. Content \in Seq(Message \cup {Nothing}) /\ Len(Content) = skynet_mq_length
  BY <1>1, <1>4
<1> QED BY <1>1, <1>3, <1>5 DEF ContentOK

(* A push appends one message to the content of the ring, whether the ring *)
(* had room or expand_queue copied it into twice the slots.                *)
LEMMA PushAppends ==
  ASSUME RingTypeOK, RingTypeOK', NEW m \in Message, skynet_mq_push(m)
  PROVE  Content' = Append(Content, m)
<1> USE DEF RingTypeOK
<1> DEFINE len     == skynet_mq_length
           written == [queue EXCEPT ![tail] = m]
           next    == IF tail + 1 >= cap THEN 0 ELSE tail + 1
<1>1. ContentOK
  BY ContentShape
<1>2. ContentOK'
  BY ContentShape, PTL
<1> USE DEF ContentOK, Slot
<1>3. /\ \A i \in 1 .. len : written[Slot(i)] = queue[Slot(i)]
      /\ written[Slot(len + 1)] = m
  BY <1>1 DEF skynet_mq_length
<1>4. /\ skynet_mq_length' = len + 1
      /\ \A i \in 1 .. len + 1 : Content'[i] = written[Slot(i)]
  <2>1. CASE next = head /\ expand_queue(written)
    <3>1. len = cap - 1
      BY <2>1 DEF skynet_mq_length
    <3>2. /\ head' = 0
          /\ tail' = cap
          /\ cap' = 2 * cap
      BY <2>1 DEF expand_queue
    <3>3. skynet_mq_length' = len + 1
      BY <3>1, <3>2 DEF skynet_mq_length
    <3>4. \A i \in 1 .. cap : queue'[i - 1] = written[Slot(i)]
      <4> SUFFICES ASSUME NEW i \in 1 .. cap
                   PROVE  queue'[i - 1] = written[Slot(i)]
        OBVIOUS
      <4> DEFINE x == head + (i - 1)
      <4>1. /\ i - 1 \in 0 .. 2 * cap - 1
            /\ i - 1 < cap
            /\ x \in 0 .. 2 * cap - 1
        OBVIOUS
      <4>2. queue'[i - 1] = written[x % cap]
        BY <2>1, <4>1 DEF expand_queue
      <4>3. x % cap = IF x < cap THEN x ELSE x - cap
        <5> HIDE DEF x
        <5> QED BY <4>1, WrapOnce
      <4> QED BY <4>2, <4>3, SMTT(30)
    <3> QED BY <1>2, <3>1, <3>2, <3>3, <3>4
  <2>2. CASE /\ next # head
             /\ queue' = written
             /\ tail' = next
             /\ UNCHANGED <<cap, head>>
    <3>1. skynet_mq_length' = len + 1
      BY <2>2 DEF skynet_mq_length
    <3> QED BY <1>2, <2>2, <3>1
  <2> QED BY <2>1, <2>2 DEF skynet_mq_push
<1>5. \A i \in 1 .. len + 1 : Content'[i] = Append(Content, m)[i]
  <2>1. /\ len \in Nat
        /\ Content \in Seq(Message \cup {Nothing})
        /\ Len(Content) = len
        /\ \A i \in 1 .. len : Content'[i] = Content[i]
        /\ Content'[len + 1] = m
    <3> HIDE DEF RingTypeOK, Slot, written
    <3> QED BY <1>1, <1>3, <1>4, SMTT(30)
  <2> HIDE DEF len, ContentOK, Slot
  <2> QED BY <2>1
<1>6. /\ Append(Content, m) \in Seq(Message \cup {Nothing})
      /\ Len(Append(Content, m)) = len + 1
  BY <1>1
<1> HIDE DEF len
<1> QED BY <1>1, <1>2, <1>4, <1>5, <1>6

(* A pop takes the oldest message off the content of the ring and hands it *)
(* out.                                                                    *)
LEMMA PopTakesHead ==
  ASSUME RingTypeOK, RingTypeOK', skynet_mq_pop
  PROVE  /\ Content # <<>>
         /\ ret' = Head(Content)
         /\ Content' = Tail(Content)
<1> USE DEF RingTypeOK
<1>1. /\ head # tail
      /\ ret' = queue[head]
      /\ head' = IF head + 1 >= cap THEN 0 ELSE head + 1
      /\ UNCHANGED <<cap, tail, queue>>
  BY PopRing
<1>2. ContentOK
  BY ContentShape
<1>3. ContentOK'
  BY ContentShape, PTL
<1> USE DEF ContentOK, Slot
<1>4. /\ skynet_mq_length > 0
      /\ skynet_mq_length' = skynet_mq_length - 1
  BY <1>1 DEF skynet_mq_length
<1>5. Content # <<>> /\ ret' = Head(Content)
  BY <1>1, <1>2, <1>4, SMTT(30)
<1>6. \A i \in 1 .. skynet_mq_length - 1 : Content'[i] = Content[i + 1]
  <2> SUFFICES ASSUME NEW i \in 1 .. skynet_mq_length - 1
               PROVE  Content'[i] = Content[i + 1]
    OBVIOUS
  <2>1. Content'[i] = queue[Slot(i)']
    BY <1>1, <1>2, <1>3, <1>4
  <2>2. Content[i + 1] = queue[Slot(i + 1)]
    BY <1>2
  <2>3. Slot(i)' = Slot(i + 1)
    BY <1>1, <1>2
  <2> HIDE DEF Slot
  <2> QED BY <2>1, <2>2, <2>3
<1>7. /\ Tail(Content) \in Seq(Message \cup {Nothing})
      /\ Len(Tail(Content)) = skynet_mq_length - 1
      /\ \A i \in 1 .. skynet_mq_length - 1 : Tail(Content)[i] = Content[i + 1]
  BY <1>2, <1>4, <1>5
<1> QED BY <1>2, <1>3, <1>4, <1>5, <1>6, <1>7

(* The growing ring buffer of skynet_mq.c implements the first-in          *)
(* first-out queue of MessageFIFO: no message is lost, duplicated or       *)
(* reordered by the wrap-around or by expand_queue.                        *)
THEOREM RingImplementsFIFO == RingSpec => ImplementsFIFO
<1>1. RingInit => FIFO!Init
  <2> SUFFICES ASSUME RingInit PROVE FIFO!Init
    OBVIOUS
  <2>1. skynet_mq_length = 0 /\ ret = Nothing
    BY DEF RingInit, skynet_mq_create, skynet_mq_length
  <2>2. Content = <<>>
    BY <2>1 DEF Content
  <2> QED BY <2>1, <2>2 DEF FIFO!Init
<1>2. RingTypeOK /\ RingTypeOK' /\ [RingNext]_ringVars => [FIFO!Next]_(FIFO!vars)
  <2> SUFFICES ASSUME RingTypeOK, RingTypeOK', [RingNext]_ringVars
               PROVE  [FIFO!Next]_(FIFO!vars)
    OBVIOUS
  <2>1. ASSUME NEW m \in Message, skynet_mq_push(m)
        PROVE  FIFO!Push(m)
    BY <2>1, PushAppends DEF FIFO!Push, skynet_mq_push
  <2>2. CASE skynet_mq_pop
    BY <2>2, PopTakesHead DEF FIFO!Next, FIFO!PopSome
  <2>3. CASE skynet_mq_pop_empty
    <3>1. skynet_mq_length = 0 /\ ret' = Nothing
      BY <2>3 DEF skynet_mq_pop_empty, skynet_mq_length, RingTypeOK
    <3>2. Content = <<>>
      BY <3>1 DEF Content
    <3>3. UNCHANGED Content
      BY <2>3 DEF skynet_mq_pop_empty, Content, skynet_mq_length
    <3> QED BY <3>1, <3>2, <3>3 DEF FIFO!Next, FIFO!PopNone
  <2>4. CASE skynet_mq_overload \/ UNCHANGED ringVars
    <3>1. UNCHANGED <<cap, head, tail, queue, ret>>
      BY <2>4 DEF skynet_mq_overload, ringVars
    <3>2. UNCHANGED <<Content, ret>>
      BY <3>1 DEF Content, skynet_mq_length
    <3> QED BY <3>2 DEF FIFO!vars
  <2> QED BY <2>1, <2>2, <2>3, <2>4 DEF RingNext, FIFO!Next
<1>3. RingSpec => []RingTypeOK
  BY RingTypeCorrect
<1> QED BY <1>1, <1>2, <1>3, PTL DEF RingSpec, ImplementsFIFO, FIFO!Spec


-----------------------------------------------------------------------------
(***************************************************************************)
(* The overload threshold.  The loop of skynet_mq_pop and the levels are   *)
(* recursive functions: each is shown to exist, then to be what it should  *)
(* by induction, which is the choice of a least counterexample.            *)
(***************************************************************************)
LEMMA LeastNat ==
  ASSUME NEW S \in SUBSET Nat, S # {}
  PROVE  \E x \in S : \A y \in S : x <= y
<1> DEFINE R == {ss \in Nat \X Nat : ss[1] < ss[2]}
<1>1. IsWellFoundedOn(R, Nat)
  BY NatLessThanWellFounded DEF OpToRel
<1>2. PICK x \in S : \A y \in S : <<y, x>> \notin R
  <2> HIDE DEF R
  <2> QED BY <1>1, WFMin
<1>3. ASSUME NEW y \in S
      PROVE  x <= y
  <2>1. <<y, x>> \in Nat \X Nat /\ x \in Nat /\ y \in Nat
    OBVIOUS
  <2>2. ~ (y < x)
    BY <1>2, <2>1
  <2>3. QED
    BY <2>1, <2>2
<1>4. QED
  BY <1>2, <1>3

(* What doublings reach from a threshold.                                  *)
Closed(W) == W \subseteq Nat /\ \A y \in W : 2 * y \in W
Reach(th) == {w \in Nat : \A W : Closed(W) /\ th \in W => w \in W}

LEMMA ReachFacts ==
  ASSUME NEW th \in Nat \ {0}
  PROVE  /\ Reach(th) \subseteq Nat /\ th \in Reach(th) /\ Closed(Reach(th))
         /\ \A w \in Reach(th) : w >= th
         /\ \A w \in Reach(th) : w = th \/ \E y \in Reach(th) : w = 2 * y
         /\ 2 * th \in Nat \ {0}
         /\ \A w \in Reach(th) : w = th \/ w \in Reach(2 * th)
         /\ Reach(2 * th) \subseteq Reach(th)
<1>1. Reach(th) \subseteq Nat /\ th \in Reach(th) /\ 2 * th \in Nat \ {0} /\ th \in Nat
  BY DEF Reach
<1>2. ASSUME NEW W, Closed(W), th \in W PROVE Reach(th) \subseteq W
  BY <1>2 DEF Reach
<1>3. Closed(Reach(th))
  <2>1. ASSUME NEW y \in Reach(th) PROVE 2 * y \in Reach(th)
    <3>1. y \in Nat /\ 2 * y \in Nat
      BY <1>1
    <3>2. \A W : Closed(W) /\ th \in W => 2 * y \in W
      BY DEF Reach, Closed
    <3>3. QED
      BY <3>1, <3>2 DEF Reach
  <2>2. QED
    BY <1>1, <2>1 DEF Closed
<1>4. \A w \in Reach(th) : w >= th
  <2>1. PICK W : W = {y \in Nat : y >= th}
    OBVIOUS
  <2>2. Closed(W) /\ th \in W
    BY <1>1, <2>1 DEF Closed
  <2>3. QED
    BY <1>2, <2>1, <2>2
<1>5. \A w \in Reach(th) : w = th \/ \E y \in Reach(th) : w = 2 * y
  <2>1. PICK W : W = {th} \cup {2 * y : y \in Reach(th)}
    OBVIOUS
  <2>2. W \subseteq Reach(th)
    BY <1>1, <1>3, <2>1 DEF Closed
  <2>3. \A y \in W : 2 * y \in W
    BY <2>1, <2>2
  <2>4. Closed(W) /\ th \in W
    BY <1>1, <2>1, <2>2, <2>3 DEF Closed
  <2>5. QED
    BY <1>2, <2>1, <2>4
<1>6. \A w \in Reach(th) : w = th \/ w \in Reach(2 * th)
  <2>1. PICK W : W = {th} \cup Reach(2 * th)
    OBVIOUS
  <2>2. Reach(2 * th) \subseteq Nat /\ 2 * th \in Reach(2 * th)
    BY <1>1 DEF Reach
  <2>3. ASSUME NEW y \in Reach(2 * th) PROVE 2 * y \in Reach(2 * th)
    <3>1. y \in Nat /\ 2 * y \in Nat
      BY <2>2
    <3>2. \A V : Closed(V) /\ 2 * th \in V => 2 * y \in V
      BY DEF Reach, Closed
    <3>3. QED
      BY <3>1, <3>2 DEF Reach
  <2>4. W \subseteq Nat /\ \A y \in W : 2 * y \in W
    BY <1>1, <2>1, <2>2, <2>3
  <2>5. Closed(W) /\ th \in W
    BY <2>1, <2>4 DEF Closed
  <2>6. QED
    BY <1>2, <2>1, <2>5
<1>7. Reach(2 * th) \subseteq Reach(th)
  <2>1. 2 * th \in Reach(th)
    BY <1>1, <1>3 DEF Closed
  <2>2. \A w \in Reach(2 * th) : w \in Reach(th)
    BY <1>3, <2>1 DEF Reach
  <2>3. QED
    BY <2>2
<1>8. QED
  BY <1>1, <1>3, <1>4, <1>5, <1>6, <1>7

LEMMA ReachBeyond ==
  ASSUME NEW th \in Nat \ {0}, NEW len \in Nat
  PROVE  \E w \in Reach(th) : w >= len
<1>1. SUFFICES ASSUME ~\E w \in Reach(th) : w >= len PROVE FALSE
  OBVIOUS
<1> DEFINE S == {n \in Nat : ~\E w \in Reach(th) : w >= n}
<1>2. PICK n \in S : \A m \in S : n <= m
  <2>1. S \subseteq Nat /\ S # {}
    BY <1>1
  <2> HIDE DEF S
  <2> QED BY <2>1, LeastNat
<1>3. n \in Nat /\ ~\E w \in Reach(th) : w >= n
  OBVIOUS
<1>4. Reach(th) \subseteq Nat /\ th \in Reach(th) /\ \A w \in Reach(th) : w >= th /\ 2 * w \in Reach(th)
  BY ReachFacts DEF Closed
<1>5. n # 0
  BY <1>3, <1>4
<1>6. n - 1 \in Nat /\ n - 1 \notin S
  <2>1. n - 1 \in Nat /\ ~(n <= n - 1)
    BY <1>3, <1>5
  <2> HIDE DEF S
  <2> QED BY <1>2, <2>1
<1>7. PICK w \in Reach(th) : w >= n - 1
  BY <1>6
<1>8. 2 * w \in Reach(th) /\ 2 * w >= n
  <2>1. w \in Nat /\ w >= th /\ 2 * w \in Reach(th) /\ th > 0 /\ th \in Nat
    BY <1>4, <1>7
  <2>2. QED
    BY <1>3, <1>7, <2>1
<1>9. QED
  BY <1>3, <1>8

(* The first of them that covers len.                                      *)
Covers(th, len, w) == w \in Reach(th) /\ w >= len /\ \A v \in Reach(th) : v >= len => w <= v
First(th, len) == CHOOSE w \in Nat : Covers(th, len, w)

LEMMA FirstCovers ==
  ASSUME NEW th \in Nat \ {0}, NEW len \in Nat
  PROVE  /\ First(th, len) \in Nat /\ Covers(th, len, First(th, len))
         /\ \A w \in Nat : Covers(th, len, w) => w = First(th, len)
<1>1. PICK S : S = {w \in Reach(th) : w >= len}
  OBVIOUS
<1>2. S \subseteq Nat /\ S # {}
  BY <1>1, ReachFacts, ReachBeyond
<1>3. PICK x \in S : \A y \in S : x <= y
  BY <1>2, LeastNat
<1>4. x \in Nat /\ Covers(th, len, x)
  BY <1>1, <1>2, <1>3 DEF Covers
<1>5. First(th, len) \in Nat /\ Covers(th, len, First(th, len))
  BY <1>4 DEF First
<1>6. ASSUME NEW w \in Nat, Covers(th, len, w), NEW v \in Nat, Covers(th, len, v) PROVE w = v
  <2>1. w <= v /\ v <= w
    BY <1>6 DEF Covers
  <2>2. QED
    BY <2>1
<1>7. QED
  BY <1>5, <1>6

LEMMA FirstStep ==
  ASSUME NEW th \in Nat \ {0}, NEW len \in Nat
  PROVE  First(th, len) = IF len > th THEN First(2 * th, len) ELSE th
<1>1. th \in Nat /\ th > 0 /\ 2 * th \in Nat \ {0}
  OBVIOUS
<1>2. CASE len > th
  <2>1. PICK w : w = First(2 * th, len) /\ w \in Nat /\ Covers(2 * th, len, w)
    BY <1>1, FirstCovers
  <2>2. \A v \in Reach(th) : v >= len => v \in Reach(2 * th)
    BY <1>1, <1>2, ReachFacts
  <2>3. Covers(th, len, w)
    BY <2>1, <2>2, ReachFacts DEF Covers
  <2>4. QED
    BY <1>2, <2>1, <2>3, FirstCovers
<1>3. CASE ~(len > th)
  <2>1. th >= len
    BY <1>1, <1>3
  <2>2. Covers(th, len, th)
    BY <2>1, ReachFacts DEF Covers
  <2>3. QED
    BY <1>1, <1>3, <2>2, FirstCovers
<1>4. QED
  BY <1>2, <1>3

(* The loop ends at it.                                                    *)
LEMMA DoubledIsFirst ==
  ASSUME NEW th \in Nat \ {0}, NEW len \in Nat
  PROVE  Doubled(len, th) = First(th, len)
<1> DEFINE Eqn(s) == s = [x \in Nat \ {0} |-> IF len > x THEN s[2 * x] ELSE x]
<1>1. Doubled(len, th) = (CHOOSE s : Eqn(s))[th]
  BY DEF Doubled
<1>2. PICK f : f = [x \in Nat \ {0} |-> First(x, len)]
  OBVIOUS
<1>3. \A x \in Nat \ {0} : 2 * x \in Nat \ {0}
  OBVIOUS
<1>4. \A x \in Nat \ {0} : First(x, len) = IF len > x THEN f[2 * x] ELSE x
  BY <1>2, <1>3, FirstStep
<1>5. Eqn(f)
  BY <1>2, <1>4
<1>6. PICK s : s = (CHOOSE ss : Eqn(ss)) /\ Eqn(s)
  BY <1>5
<1>7. \A x \in Nat \ {0} : s[x] = IF len > x THEN s[2 * x] ELSE x
  BY <1>6
<1>8. \A x \in Nat \ {0} : s[x] = First(x, len)
  <2>1. SUFFICES ASSUME NEW x0 \in Nat \ {0}, s[x0] # First(x0, len) PROVE FALSE
    OBVIOUS
  <2> DEFINE S == {n \in Nat : \E x \in Nat \ {0} : n = len - x /\ s[x] # First(x, len)}
  <2>2. \A x \in Nat \ {0} : s[x] # First(x, len) => len > x
    BY <1>7, FirstStep
  <2>3. \A x \in Nat \ {0} : s[x] # First(x, len) => len - x \in Nat
    BY <2>2
  <2>4. S \subseteq Nat /\ S # {}
    BY <2>1, <2>3
  <2>5. PICK n \in S : \A m \in S : n <= m
    <3> HIDE DEF S
    <3> QED BY <2>4, LeastNat
  <2>6. PICK x \in Nat \ {0} : n = len - x /\ s[x] # First(x, len)
    OBVIOUS
  <2>7. len > x
    BY <2>2, <2>6
  <2>8. s[2 * x] # First(2 * x, len)
    BY <1>7, <2>6, <2>7, FirstStep
  <2>9. len - 2 * x \in S
    BY <1>3, <2>3, <2>8
  <2>10. n <= len - 2 * x
    <3> HIDE DEF S
    <3> QED BY <2>5, <2>9
  <2>11. QED
    BY <2>6, <2>10
<1>9. QED
  BY <1>1, <1>6, <1>8

(* What skynet_mq_pop needs to know of its new threshold.                  *)
LEMMA DoubledFacts ==
  ASSUME NEW th \in Nat \ {0}, NEW len \in Nat
  PROVE  /\ Doubled(len, th) \in Nat \ {0} /\ Doubled(len, th) \in Reach(th)
         /\ Doubled(len, th) >= len
         /\ len <= th => Doubled(len, th) = th
         /\ len > th => Doubled(len, th) < 2 * len /\ Doubled(len, th) > th
<1>1. PICK v : v = Doubled(len, th) /\ v \in Nat /\ Covers(th, len, v)
  BY DoubledIsFirst, FirstCovers
<1>2. v \in Reach(th) /\ v >= len /\ v >= th
  BY <1>1, ReachFacts DEF Covers
<1>3. len <= th => v = th
  BY <1>1, DoubledIsFirst, FirstStep
<1>4. ASSUME len > th PROVE v < 2 * len /\ v > th
  <2>1. v # th /\ v > th
    BY <1>1, <1>2, <1>4
  <2>2. PICK y \in Reach(th) : v = 2 * y
    BY <1>2, <2>1, ReachFacts
  <2>3. y \in Nat /\ y >= th
    BY ReachFacts
  <2>4. y < v
    BY <2>2, <2>3
  <2>5. ~(y >= len)
    BY <1>1, <2>2, <2>3, <2>4 DEF Covers
  <2>6. QED
    BY <2>1, <2>2, <2>3, <2>5
<1>5. QED
  BY <1>1, <1>2, <1>3, <1>4

(* The levels up to n, as a table.                                         *)
Table(n, g) == /\ g \in [0 .. n -> Nat] /\ g[0] = MQ_OVERLOAD
               /\ \A k \in 1 .. n : g[k] = 2 * g[k - 1]

LEMMA TableExists ==
  ASSUME NEW n \in Nat
  PROVE  \E g : Table(n, g)
<1>1. SUFFICES ASSUME ~\E g : Table(n, g) PROVE FALSE
  OBVIOUS
<1>2. PICK S : S = {m \in Nat : ~\E g : Table(m, g)}
  OBVIOUS
<1>3. PICK m \in S : \A y \in S : m <= y
  <2>1. S \subseteq Nat /\ S # {}
    BY <1>1, <1>2
  <2>2. QED
    BY <2>1, LeastNat
<1>4. m \in Nat /\ ~\E g : Table(m, g)
  BY <1>2
<1>5. m # 0
  <2>1. SUFFICES ASSUME m = 0 PROVE FALSE
    OBVIOUS
  <2>2. PICK g : g = [k \in 0 .. 0 |-> MQ_OVERLOAD]
    OBVIOUS
  <2>3. Table(0, g)
    BY <2>2, OverloadAssumption DEF Table
  <2>4. QED
    BY <1>4, <2>1, <2>3
<1>6. m - 1 \in Nat /\ ~(m <= m - 1)
  BY <1>4, <1>5
<1>7. m - 1 \notin S
  BY <1>3, <1>6
<1>8. PICK g : Table(m - 1, g)
  BY <1>2, <1>6, <1>7
<1>9. PICK h : h = [k \in 0 .. m |-> IF k = m THEN 2 * g[m - 1] ELSE g[k]]
  OBVIOUS
<1>10. \A k \in 0 .. m : k # m => k \in 0 .. m - 1
  BY <1>4
<1>11. h \in [0 .. m -> Nat]
  <2>1. m - 1 \in 0 .. m - 1 /\ \A k \in 0 .. m - 1 : g[k] \in Nat
    BY <1>6, <1>8 DEF Table
  <2>2. 2 * g[m - 1] \in Nat
    BY <2>1
  <2>3. QED
    BY <1>9, <1>10, <2>1, <2>2
<1>12. h[0] = MQ_OVERLOAD
  BY <1>4, <1>5, <1>8, <1>9 DEF Table
<1>13. ASSUME NEW k \in 1 .. m PROVE h[k] = 2 * h[k - 1]
  <2>1. k \in 0 .. m /\ k - 1 \in 0 .. m /\ k - 1 # m /\ h[k - 1] = g[k - 1]
    BY <1>4, <1>9
  <2>2. CASE k = m
    BY <1>9, <2>1, <2>2
  <2>3. CASE k # m
    <3>1. k \in 1 .. m - 1
      BY <1>4, <2>3
    <3>2. QED
      BY <1>8, <1>9, <2>1, <2>3, <3>1 DEF Table
  <2>4. QED
    BY <2>2, <2>3
<1>14. Table(m, h)
  BY <1>11, <1>12, <1>13 DEF Table
<1>15. QED
  BY <1>4, <1>14

LEMMA TableUnique ==
  ASSUME NEW n \in Nat, NEW g, Table(n, g), NEW m \in Nat, NEW h, Table(m, h),
         NEW k \in Nat, k <= n, k <= m
  PROVE  g[k] = h[k]
<1>1. SUFFICES ASSUME g[k] # h[k] PROVE FALSE
  OBVIOUS
<1>2. PICK S : S = {i \in Nat : i <= n /\ i <= m /\ g[i] # h[i]}
  OBVIOUS
<1>3. PICK i \in S : \A y \in S : i <= y
  <2>1. S \subseteq Nat /\ S # {}
    BY <1>1, <1>2
  <2>2. QED
    BY <2>1, LeastNat
<1>4. i \in Nat /\ i <= n /\ i <= m /\ g[i] # h[i]
  BY <1>2
<1>5. i # 0
  BY <1>4 DEF Table
<1>6. i - 1 \in Nat /\ i - 1 <= n /\ i - 1 <= m /\ ~(i <= i - 1) /\ i \in 1 .. n /\ i \in 1 .. m
  BY <1>4, <1>5
<1>7. i - 1 \notin S
  BY <1>3, <1>6
<1>8. g[i - 1] = h[i - 1]
  BY <1>2, <1>6, <1>7
<1>9. QED
  BY <1>4, <1>6, <1>8 DEF Table

(* The levels are what their recursion says, and unbounded.                *)
LEMMA LevelEquation ==
  /\ Level[0] = MQ_OVERLOAD
  /\ \A k \in Nat : Level[k + 1] = 2 * Level[k]
<1> DEFINE Eqn(s) == s = [k \in Nat |-> IF k = 0 THEN MQ_OVERLOAD ELSE 2 * s[k - 1]]
<1>1. Level = CHOOSE s : Eqn(s)
  BY DEF Level
<1>2. PICK T : T = [n \in Nat |-> CHOOSE g : Table(n, g)]
  OBVIOUS
<1>3. \A n \in Nat : Table(n, T[n])
  BY <1>2, TableExists
<1>4. PICK p : p = [n \in Nat |-> T[n][n]]
  OBVIOUS
<1>5. ASSUME NEW n \in Nat
      PROVE  T[n][n] = IF n = 0 THEN MQ_OVERLOAD ELSE 2 * p[n - 1]
  <2>1. CASE n = 0
    BY <1>3, <2>1 DEF Table
  <2>2. CASE n # 0
    <3>1. n - 1 \in Nat /\ n - 1 <= n - 1 /\ n - 1 <= n /\ n \in 1 .. n
      BY <2>2
    <3>2. T[n][n] = 2 * T[n][n - 1]
      BY <1>3, <3>1 DEF Table
    <3>3. T[n][n - 1] = T[n - 1][n - 1]
      BY <1>3, <3>1, TableUnique
    <3>4. QED
      BY <1>4, <2>2, <3>1, <3>2, <3>3
  <2>3. QED
    BY <2>1, <2>2
<1>6. Eqn(p)
  BY <1>4, <1>5
<1>7. Eqn(Level)
  <2> HIDE DEF Eqn
  <2> QED BY <1>1, <1>6
<1>8. \A k \in Nat : Level[k] = IF k = 0 THEN MQ_OVERLOAD ELSE 2 * Level[k - 1]
  BY <1>7
<1>9. \A k \in Nat : k + 1 \in Nat /\ k + 1 # 0 /\ (k + 1) - 1 = k
  OBVIOUS
<1>10. QED
  BY <1>8, <1>9

LEMMA LevelGrows ==
  ASSUME NEW k \in Nat
  PROVE  Level[k] \in Nat /\ Level[k] >= k + 1 /\ Level[k] >= MQ_OVERLOAD
<1> DEFINE Good(i) == Level[i] \in Nat /\ Level[i] >= i + 1 /\ Level[i] >= MQ_OVERLOAD
<1>1. SUFFICES ASSUME ~Good(k) PROVE FALSE
  OBVIOUS
<1>2. PICK S : S = {i \in Nat : ~Good(i)}
  OBVIOUS
<1>3. PICK i \in S : \A y \in S : i <= y
  <2>1. S \subseteq Nat /\ S # {}
    BY <1>1, <1>2
  <2>2. QED
    BY <2>1, LeastNat
<1>4. i \in Nat /\ ~Good(i)
  BY <1>2
<1>5. i # 0
  BY <1>4, LevelEquation, OverloadAssumption
<1>6. i - 1 \in Nat /\ ~(i <= i - 1)
  BY <1>4, <1>5
<1>7. i - 1 \notin S
  BY <1>3, <1>6
<1>8. Good(i - 1)
  <2> HIDE DEF Good
  <2> QED BY <1>2, <1>6, <1>7
<1>9. PICK j \in Nat : i = j + 1 /\ j = i - 1
  BY <1>4, <1>6
<1>10. Level[j + 1] = 2 * Level[j]
  BY LevelEquation
<1>11. PICK a, b : a = Level[j] /\ b = Level[i]
  OBVIOUS
<1>12. a \in Nat /\ a >= j + 1 /\ a >= MQ_OVERLOAD /\ b = 2 * a
  BY <1>8, <1>9, <1>10, <1>11
<1>13. b \in Nat /\ b >= i + 1 /\ b >= MQ_OVERLOAD
  BY <1>9, <1>12, OverloadAssumption
<1>14. QED
  BY <1>4, <1>11, <1>13

LEMMA LevelsClosed == Closed({Level[k] : k \in Nat})
<1>1. \A k \in Nat : k + 1 \in Nat /\ 2 * Level[k] = Level[k + 1] /\ Level[k] \in Nat
  BY LevelEquation, LevelGrows
<1>2. QED
  BY <1>1 DEF Closed

(* The inductive invariant of the overload bookkeeping.                    *)
OverloadInv ==
  /\ overload \in Nat
  /\ overload_threshold \in Nat \ {0}
  /\ peak \in Nat
  /\ peak <= overload_threshold
  /\ \E k \in Nat : overload_threshold = Level[k]
  /\ overload_threshold > MQ_OVERLOAD => 2 * peak > overload_threshold

(* The level reached is at most one per message of the longest backlog.    *)
LEMMA OverloadInvTracks == RingTypeOK /\ OverloadInv => ThresholdTracksPeak
<1>1. SUFFICES ASSUME RingTypeOK, OverloadInv PROVE ThresholdTracksPeak
  OBVIOUS
<1>2. PICK k \in Nat : overload_threshold = Level[k]
  BY <1>1 DEF OverloadInv
<1>3. k \in 0 .. peak
  <2>1. peak \in Nat
    BY <1>1 DEF OverloadInv
  <2>2. CASE k = 0
    BY <2>1, <2>2
  <2>3. CASE k # 0
    <3>1. PICK j \in Nat : k = j + 1
      <4>1. k - 1 \in Nat /\ k = (k - 1) + 1
        BY <2>3
      <4>2. QED
        BY <4>1
    <3>2. Level[k] = 2 * Level[j] /\ Level[j] \in Nat /\ Level[j] >= j + 1
      BY <3>1, LevelEquation, LevelGrows
    <3>3. overload_threshold > MQ_OVERLOAD
      <4>1. Level[j] >= MQ_OVERLOAD
        BY LevelGrows
      <4>2. QED
        BY <1>2, <3>2, <4>1, OverloadAssumption
    <3>4. 2 * peak > overload_threshold
      BY <1>1, <3>3 DEF OverloadInv
    <3>5. QED
      BY <1>2, <2>1, <3>1, <3>2, <3>4
  <2>4. QED
    BY <2>2, <2>3
<1>4. QED
  BY <1>1, <1>2, <1>3 DEF OverloadInv, ThresholdTracksPeak, QueueTypeOK

LEMMA OverloadStart == RingInit => OverloadInv
<1>1. SUFFICES ASSUME RingInit PROVE OverloadInv
  OBVIOUS
<1>2. overload = 0 /\ overload_threshold = MQ_OVERLOAD /\ peak = 0
  BY <1>1 DEF RingInit, skynet_mq_create
<1>3. Level[0] = MQ_OVERLOAD /\ 0 \in Nat
  BY LevelEquation
<1>4. QED
  BY <1>2, <1>3, OverloadAssumption DEF OverloadInv

(* What skynet_mq_pop leaves behind: a backlog within the new threshold,   *)
(* and, when the threshold moved, within a factor of two of it.            *)
LEMMA OverloadPop == RingTypeOK /\ OverloadInv /\ skynet_mq_pop => OverloadInv'
<1>1. SUFFICES ASSUME RingTypeOK, OverloadInv, skynet_mq_pop PROVE OverloadInv'
  OBVIOUS
<1>2. PICK hd : hd = IF head + 1 >= cap THEN 0 ELSE head + 1
  OBVIOUS
<1>3. PICK length : length = IF tail - hd < 0 THEN tail - hd + cap ELSE tail - hd
  OBVIOUS
<1>4. /\ overload' = IF length > overload_threshold THEN length ELSE overload
      /\ overload_threshold' = Doubled(length, overload_threshold)
      /\ peak' = IF length > peak THEN length ELSE peak
  BY <1>1, <1>2, <1>3, ZenonT(60) DEF skynet_mq_pop
<1>5. length \in Nat
  BY <1>1, <1>2, <1>3 DEF RingTypeOK
<1>6. PICK th : th = overload_threshold
  OBVIOUS
<1>7. /\ th \in Nat \ {0} /\ overload \in Nat /\ peak \in Nat /\ peak <= th
      /\ th > MQ_OVERLOAD => 2 * peak > th
  BY <1>1, <1>6 DEF OverloadInv
<1>8. PICK v : v = Doubled(length, th)
  OBVIOUS
<1>9. /\ v \in Nat \ {0} /\ v \in Reach(th) /\ v >= length
      /\ length <= th => v = th
      /\ length > th => v < 2 * length /\ v > th
  BY <1>5, <1>7, <1>8, DoubledFacts
<1>10. \E k \in Nat : v = Level[k]
  <2>1. PICK W : W = {Level[k] : k \in Nat}
    OBVIOUS
  <2>2. Closed(W)
    BY <2>1, LevelsClosed
  <2>3. th \in W
    BY <1>1, <1>6, <2>1 DEF OverloadInv
  <2>4. v \in W
    BY <1>9, <2>2, <2>3 DEF Reach
  <2>5. QED
    BY <2>1, <2>4
<1>11. overload_threshold' = v
  BY <1>4, <1>6, <1>8
<1>12. overload' \in Nat /\ peak' \in Nat /\ peak' <= v
  BY <1>4, <1>5, <1>6, <1>7, <1>9
<1>13. v > MQ_OVERLOAD => 2 * peak' > v
  BY <1>4, <1>5, <1>7, <1>9, OverloadAssumption
<1>14. QED
  BY <1>9, <1>10, <1>11, <1>12, <1>13 DEF OverloadInv

LEMMA OverloadStep == RingTypeOK /\ OverloadInv /\ [RingNext]_ringVars => OverloadInv'
<1>1. SUFFICES ASSUME RingTypeOK, OverloadInv, [RingNext]_ringVars PROVE OverloadInv'
  OBVIOUS
<1>2. CASE UNCHANGED <<overload, overload_threshold, peak>>
  BY <1>1, <1>2 DEF OverloadInv
<1>3. CASE \E m \in Message : skynet_mq_push(m)
  <2>1. UNCHANGED <<overload, overload_threshold, peak>>
    BY <1>3, Zenon DEF skynet_mq_push
  <2>2. QED
    BY <1>2, <2>1
<1>4. CASE skynet_mq_pop
  BY <1>1, <1>4, OverloadPop
<1>5. CASE skynet_mq_pop_empty
  <2>1. overload' = overload /\ overload_threshold' = MQ_OVERLOAD /\ peak' = 0
    BY <1>5 DEF skynet_mq_pop_empty
  <2>2. Level[0] = MQ_OVERLOAD /\ 0 \in Nat /\ overload \in Nat
    BY <1>1, LevelEquation DEF OverloadInv
  <2>3. QED
    BY <2>1, <2>2, OverloadAssumption DEF OverloadInv
<1>6. CASE skynet_mq_overload
  <2>1. overload' = 0 /\ UNCHANGED <<overload_threshold, peak>>
    BY <1>6 DEF skynet_mq_overload
  <2>2. QED
    BY <1>1, <2>1 DEF OverloadInv
<1>7. CASE UNCHANGED ringVars
  <2>1. UNCHANGED <<overload, overload_threshold, peak>>
    BY <1>7 DEF ringVars
  <2>2. QED
    BY <1>2, <2>1
<1>8. QED
  BY <1>1, <1>3, <1>4, <1>5, <1>6, <1>7 DEF RingNext

(* After the doublings of skynet_mq_pop the overload threshold is the      *)
(* smallest MQ_OVERLOAD * 2^k that covers the longest backlog since the    *)
(* queue was last found empty, for every capacity, bound and history.      *)
THEOREM ThresholdFollowsPeak == RingSpec => []ThresholdTracksPeak
<1>1. RingSpec => []RingTypeOK
  BY RingTypeCorrect
<1>2. RingInit => OverloadInv
  BY OverloadStart
<1>3. RingTypeOK /\ OverloadInv /\ [RingNext]_ringVars => OverloadInv'
  BY OverloadStep
<1>4. RingTypeOK /\ OverloadInv => ThresholdTracksPeak
  BY OverloadInvTracks
<1>5. QED
  BY <1>1, <1>2, <1>3, <1>4, PTL DEF RingSpec

-----------------------------------------------------------------------------
(* The workers.                                                            *)

Asleep == {w \in Worker : pc[w] \in {"locked", "wait", "wake"}}

(* The strengthening: the work in the run queue was scheduled within the   *)
(* bound, and a worker is between lock and unlock exactly while it owns    *)
(* the mutex.                                                              *)
PoolInv ==
  /\ SleepIsExact
  /\ NobodyWaitsAfterQuit
  /\ made \in 0 .. MaxWork
  /\ run <= made
  /\ \A w \in Worker : pc[w] \in {"locked", "wake"} <=> mutex = w

(* The workers in m->sleep can be counted, and there are at most all.      *)
LEMMA AsleepFinite ==
  ASSUME NEW S, S \subseteq Worker
  PROVE  /\ IsFiniteSet(S)
         /\ Cardinality(S) \in 0 .. Cardinality(Worker)
<1>1. /\ IsFiniteSet(S)
      /\ Cardinality(S) <= Cardinality(Worker)
  BY WorkerAssumption, FS_Subset
<1> QED BY <1>1, WorkerAssumption, FS_CardinalityType

(* A worker that goes to sleep is counted, one that wakes is taken off.    *)
LEMMA AsleepChanges ==
  ASSUME NEW S, S \subseteq Worker, NEW w \in Worker
  PROVE  /\ w \notin S => Cardinality(S \cup {w}) = Cardinality(S) + 1
         /\ w \in S => Cardinality(S \ {w}) = Cardinality(S) - 1
BY AsleepFinite, FS_AddElement, FS_RemoveElement

(* Before the threads run, nobody sleeps and nothing is scheduled.         *)
LEMMA PoolInit == Init => PoolInv
<1> SUFFICES ASSUME Init PROVE PoolInv
  OBVIOUS
<1>1. Asleep = {}
  BY DEF Init, Asleep
<1>2. Cardinality(Asleep) = 0
  BY <1>1, FS_EmptySet
<1>3. sleep = Cardinality(Asleep) /\ sleep \in 0 .. Cardinality(Worker)
  BY <1>2, AsleepFinite DEF Init, Asleep
<1>4. TypeOK
  <2>1. run \in 0 .. MaxWork /\ total \in 0 .. Services
    BY BoundAssumption DEF Init
  <2>2. pc \in [Worker -> Points] /\ waiting \subseteq Worker
    BY DEF Init, Points
  <2>3. mutex \in Worker \cup {Free} /\ quit \in BOOLEAN
    BY Zenon DEF Init
  <2> QED BY <1>3, <2>1, <2>2, <2>3 DEF TypeOK
<1>5. SleepIsExact
  BY <1>3, <1>4 DEF Init, SleepIsExact, Asleep
<1>6. \A w \in Worker : pc[w] \in {"locked", "wake"} <=> mutex = w
  BY WorkerAssumption DEF Init
<1>7. NobodyWaitsAfterQuit /\ made \in 0 .. MaxWork /\ run <= made
  BY BoundAssumption DEF Init, NobodyWaitsAfterQuit
<1> QED BY <1>5, <1>6, <1>7 DEF PoolInv

(* Steps that change neither the program counters nor the mutex.           *)
LEMMA PoolIdle ==
  ASSUME PoolInv, UNCHANGED <<pc, mutex, sleep>>,
         waiting' \subseteq waiting,
         quit' \in BOOLEAN, quit' => waiting' = {},
         made' \in 0 .. MaxWork, run' \in 0 .. made', total' \in 0 .. Services
  PROVE  PoolInv'
<1>1. Asleep' = Asleep
  BY DEF Asleep
<1> QED
  BY <1>1, BoundAssumption DEF PoolInv, SleepIsExact, NobodyWaitsAfterQuit, TypeOK, Asleep

(* Steps of a worker that leave it asleep, or awake, as it was.            *)
LEMMA PoolMoves ==
  ASSUME PoolInv, NEW w \in Worker, NEW p \in Points,
         pc' = [pc EXCEPT ![w] = p],
         pc[w] \in {"locked", "wait", "wake"} <=> p \in {"locked", "wait", "wake"},
         UNCHANGED <<sleep, quit, total, made>>,
         run' \in 0 .. made,
         mutex' \in Worker \cup {Free},
         \A v \in Worker : pc'[v] \in {"locked", "wake"} <=> mutex' = v,
         waiting' \subseteq {v \in Worker : pc'[v] = "wait"},
         quit => waiting' = {}
  PROVE  PoolInv'
<1>1. pc \in [Worker -> Points] /\ made \in 0 .. MaxWork
  BY DEF PoolInv, SleepIsExact, TypeOK
<1>2. Asleep' = Asleep
  BY <1>1 DEF Asleep
<1>3. pc' \in [Worker -> Points]
  BY <1>1
<1> QED
  BY <1>1, <1>2, <1>3, BoundAssumption
  DEF PoolInv, SleepIsExact, NobodyWaitsAfterQuit, TypeOK, Asleep

(* Every step of every thread preserves the strengthened invariant.        *)
LEMMA PoolStep == PoolInv /\ [Next]_vars => PoolInv'
<1> SUFFICES ASSUME PoolInv, [Next]_vars PROVE PoolInv'
  OBVIOUS
<1> DEFINE sleeping == {"locked", "wait", "wake"}
<1>t. /\ TypeOK
      /\ sleep = Cardinality(Asleep)
      /\ waiting \subseteq {w \in Worker : pc[w] = "wait"}
      /\ quit => waiting = {}
      /\ made \in 0 .. MaxWork /\ run \in 0 .. made
      /\ \A w \in Worker : pc[w] \in {"locked", "wake"} <=> mutex = w
  BY BoundAssumption DEF PoolInv, SleepIsExact, NobodyWaitsAfterQuit, TypeOK, Asleep
<1>1. ASSUME NEW w \in Worker,
             WorkerCheck(w) \/ WorkerDispatch(w) \/ DispatchReturns(w)
      PROVE  PoolInv'
  <2>1. CASE WorkerCheck(w)
    <3>1. PICK p \in {"exited", "dispatch"} : pc' = [pc EXCEPT ![w] = p]
      BY <2>1 DEF WorkerCheck
    <3> QED BY <1>t, <2>1, <3>1, PoolMoves DEF WorkerCheck, TypeOK, Points
  <2>2. CASE WorkerDispatch(w)
    <3>1. PICK p \in {"busy", "lock"} : pc' = [pc EXCEPT ![w] = p]
      BY <2>2 DEF WorkerDispatch
    <3>2. run' \in 0 .. made
      BY <1>t, <2>2, BoundAssumption DEF WorkerDispatch, TypeOK
    <3> QED BY <1>t, <2>2, <3>1, <3>2, PoolMoves DEF WorkerDispatch, TypeOK, Points
  <2>3. CASE DispatchReturns(w)
    BY <1>t, <2>3, PoolMoves DEF DispatchReturns, TypeOK, Points
  <2> QED BY <1>1, <2>1, <2>2, <2>3
<1>2. ASSUME NEW w \in Worker, CallbackSchedules(w) \/ CallbackEndsService(w)
      PROVE  PoolInv'
  BY <1>t, <1>2, BoundAssumption, PoolIdle
  DEF CallbackSchedules, CallbackEndsService, Schedule, pool, TypeOK
<1>3. ASSUME NEW w \in Worker, WorkerLock(w) PROVE PoolInv'
  <2>1. Asleep' = Asleep \cup {w} /\ w \notin Asleep
    BY <1>t, <1>3 DEF WorkerLock, TypeOK, Asleep
  <2>2. sleep' = Cardinality(Asleep') /\ sleep' \in 0 .. Cardinality(Worker)
    <3>1. Asleep \subseteq Worker /\ Asleep' \subseteq Worker
      BY DEF Asleep
    <3>2. Cardinality(Asleep') = Cardinality(Asleep) + 1
      BY <2>1, <3>1, AsleepChanges
    <3> QED BY <1>t, <1>3, <3>1, <3>2, AsleepFinite DEF WorkerLock
  <2>3. \A v \in Worker : pc'[v] \in {"locked", "wake"} <=> mutex' = v
    BY <1>t, <1>3, WorkerAssumption DEF WorkerLock, TypeOK
  <2>4. pc' \in [Worker -> Points] /\ waiting' \subseteq {v \in Worker : pc'[v] = "wait"}
    BY <1>t, <1>3 DEF WorkerLock, TypeOK, Points
  <2> QED
    BY <1>t, <1>3, <2>2, <2>3, <2>4, BoundAssumption
    DEF WorkerLock, PoolInv, SleepIsExact, NobodyWaitsAfterQuit, TypeOK, Asleep
<1>4. ASSUME NEW w \in Worker, WorkerWait(w) PROVE PoolInv'
  <2>1. CASE quit
    BY <1>t, <1>4, <2>1, PoolMoves DEF WorkerWait, TypeOK, Points
  <2>2. CASE ~quit
    <3>1. pc' = [pc EXCEPT ![w] = "wait"] /\ mutex' = Free /\ waiting' = waiting \cup {w}
      BY <1>4, <2>2 DEF WorkerWait
    <3>2. \A v \in Worker : pc'[v] \in {"locked", "wake"} <=> mutex' = v
      BY <1>t, <1>4, <3>1, WorkerAssumption DEF WorkerWait, TypeOK
    <3>3. waiting' \subseteq {v \in Worker : pc'[v] = "wait"}
      BY <1>t, <3>1 DEF TypeOK
    <3> QED BY <1>t, <1>4, <2>2, <3>1, <3>2, <3>3, PoolMoves DEF WorkerWait, TypeOK, Points
  <2> QED BY <2>1, <2>2
<1>5. ASSUME NEW w \in Worker, SpuriousWakeup(w) PROVE PoolInv'
  BY <1>t, <1>5, PoolIdle DEF SpuriousWakeup, TypeOK
<1>6. ASSUME NEW w \in Worker, WorkerWoken(w) PROVE PoolInv'
  <2>1. \A v \in Worker : pc'[v] \in {"locked", "wake"} <=> mutex' = v
    BY <1>t, <1>6, WorkerAssumption DEF WorkerWoken, TypeOK
  <2>2. waiting' \subseteq {v \in Worker : pc'[v] = "wait"}
    BY <1>t, <1>6 DEF WorkerWoken, TypeOK
  <2> QED BY <1>t, <1>6, <2>1, <2>2, PoolMoves DEF WorkerWoken, TypeOK, Points
<1>7. ASSUME NEW w \in Worker, WorkerUnlock(w) PROVE PoolInv'
  <2>1. Asleep' = Asleep \ {w} /\ w \in Asleep
    BY <1>t, <1>7 DEF WorkerUnlock, TypeOK, Asleep
  <2>2. sleep' = Cardinality(Asleep') /\ sleep' \in 0 .. Cardinality(Worker)
    <3>1. Asleep \subseteq Worker /\ Asleep' \subseteq Worker
      BY DEF Asleep
    <3>2. Cardinality(Asleep') = Cardinality(Asleep) - 1
      BY <2>1, <3>1, AsleepChanges
    <3> QED BY <1>t, <1>7, <3>1, <3>2, AsleepFinite DEF WorkerUnlock
  <2>3. \A v \in Worker : pc'[v] \in {"locked", "wake"} <=> mutex' = v
    BY <1>t, <1>7, WorkerAssumption DEF WorkerUnlock, TypeOK
  <2>4. pc' \in [Worker -> Points] /\ waiting' \subseteq {v \in Worker : pc'[v] = "wait"}
    BY <1>t, <1>7 DEF WorkerUnlock, TypeOK, Points
  <2> QED
    BY <1>t, <1>7, <2>2, <2>3, <2>4, BoundAssumption
    DEF WorkerUnlock, PoolInv, SleepIsExact, NobodyWaitsAfterQuit, TypeOK, Asleep
<1>8. CASE TimerUpdate \/ SocketEvent
  BY <1>t, <1>8, BoundAssumption, PoolIdle DEF TimerUpdate, SocketEvent, Schedule, pool, TypeOK
<1>9. CASE TimerSignal \/ SocketSignal
  <2>1. waiting' \subseteq waiting
    BY <1>9 DEF TimerSignal, SocketSignal, Signal
  <2> QED BY <1>t, <1>9, <2>1, PoolIdle DEF TimerSignal, SocketSignal, TypeOK
<1>10. CASE \/ TimerCheck \/ TimerWakeup \/ skynet_socket_exit \/ MonitorStep
            \/ SocketIdle \/ SocketCheck \/ SocketWakeup \/ SocketExit \/ UNCHANGED vars
  BY <1>t, <1>10, PoolIdle
  DEF TimerCheck, TimerWakeup, skynet_socket_exit, MonitorStep, SocketIdle, SocketCheck, SocketWakeup,
      SocketExit, pool, vars, TypeOK
<1>11. CASE TimerQuit
  BY <1>t, <1>11, PoolIdle DEF TimerQuit, TypeOK
<1> QED
  BY <1>1, <1>2, <1>3, <1>4, <1>5, <1>6, <1>7, <1>8, <1>9, <1>10, <1>11
  DEF Next, WorkerStep, TimerStep

(* For any number of workers m->sleep is the number of those between       *)
(* ++sleep and --sleep, and only such a worker waits on the condition.     *)
THEOREM SleepIsAlwaysExact == Spec => []SleepIsExact
<1>1. PoolInv => SleepIsExact
  BY DEF PoolInv
<1> QED BY <1>1, PoolInit, PoolStep, PTL DEF Spec

(* For any number of workers nobody waits after the broadcast of the quit. *)
THEOREM QuitWakesAll == Spec => []NobodyWaitsAfterQuit
<1>1. PoolInv => NobodyWaitsAfterQuit
  BY DEF PoolInv
<1> QED BY <1>1, PoolInit, PoolStep, PTL DEF Spec

-----------------------------------------------------------------------------
(* The lock of rwlock.h, used by any number of threads.                    *)

(* The set of announced readers is finite, so that it can be counted.      *)
LEMMA CountedFinite ==
  /\ IsFiniteSet(Counted)
  /\ Cardinality(Counted) \in Nat
  /\ Cardinality(Counted) = 0 <=> Counted = {}
<1>1. IsFiniteSet(Counted)
  BY ThreadAssumption, FS_Subset DEF Counted
<1> QED BY <1>1, FS_CardinalityType, FS_EmptySet

(* Every step of rwlock.h preserves the strengthened invariant.            *)
THEOREM LockInvInductive == LockInv /\ [LockNext]_lockVars => LockInv'
<1> SUFFICES ASSUME LockInv, [LockNext]_lockVars PROVE LockInv'
  OBVIOUS
<1> USE DEF LockInv, LockTypeOK, Writers
<1>1. /\ IsFiniteSet(Counted)
      /\ Cardinality(Counted) \in Nat
      /\ Cardinality(Counted) = 0 <=> Counted = {}
  BY CountedFinite
<1>2. ASSUME NEW t \in Thread, Enter(t) PROVE LockInv'
  <2>1. Counted' = Counted
    BY <1>2 DEF Enter, Go, Counted
  <2> QED BY <1>2, <2>1 DEF Enter, Go
<1>3. ASSUME NEW t \in Thread, RSpin(t) PROVE LockInv'
  <2>1. Counted' = Counted
    BY <1>3 DEF RSpin, Go, Counted
  <2> QED BY <1>3, <2>1 DEF RSpin, Go
<1>4. ASSUME NEW t \in Thread, RAdd(t) PROVE LockInv'
  <2>1. Counted' = Counted \cup {t} /\ t \notin Counted
    BY <1>4 DEF RAdd, Go, Counted
  <2>2. Cardinality(Counted') = Cardinality(Counted) + 1
    BY <1>1, <2>1, FS_AddElement
  <2> QED BY <1>1, <1>4, <2>2 DEF RAdd, Go
<1>5. ASSUME NEW t \in Thread, RCheck(t) PROVE LockInv'
  <2>1. Counted' = Counted
    BY <1>5 DEF RCheck, Go, Counted
  <2> QED BY <1>5, <2>1 DEF RCheck, Go
<1>6. ASSUME NEW t \in Thread, RUndo(t) \/ rwlock_runlock(t) PROVE LockInv'
  <2>1. Counted' = Counted \ {t} /\ t \in Counted
    BY <1>6 DEF RUndo, rwlock_runlock, Go, Counted
  <2>2. Cardinality(Counted') = Cardinality(Counted) - 1
    BY <1>1, <2>1, FS_RemoveElement
  <2>3. Cardinality(Counted) # 0
    BY <1>1, <2>1
  <2> QED BY <1>1, <1>6, <2>2, <2>3 DEF RUndo, rwlock_runlock, Go
<1>7. ASSUME NEW t \in Thread, WSet(t) PROVE LockInv'
  <2>1. Counted' = Counted
    BY <1>7 DEF WSet, Go, Counted
  <2> QED BY <1>7, <2>1 DEF WSet, Go
<1>8. ASSUME NEW t \in Thread, WDrain(t) PROVE LockInv'
  <2>1. Counted' = Counted
    BY <1>8 DEF WDrain, Go, Counted
  <2>2. \A u \in Thread : at[u] # "reading"
    BY <1>1, <1>8 DEF WDrain, Counted
  <2> QED BY <1>8, <2>1, <2>2 DEF WDrain, Go
<1>9. ASSUME NEW t \in Thread, rwlock_wunlock(t) PROVE LockInv'
  <2>1. Counted' = Counted
    BY <1>9 DEF rwlock_wunlock, Go, Counted
  <2> QED BY <1>9, <2>1 DEF rwlock_wunlock, Go
<1>10. CASE UNCHANGED lockVars
  BY <1>10 DEF lockVars, Counted
<1> QED
  BY <1>2, <1>3, <1>4, <1>5, <1>6, <1>7, <1>8, <1>9, <1>10 DEF LockNext, Step

(* The lock of rwlock.h never lets a reader or a second writer in while a  *)
(* writer holds it, however many threads use it.                           *)
THEOREM LockExcludes == LockSpec => []Exclusion
<1>1. LockInit => LockInv
  <2> SUFFICES ASSUME LockInit PROVE LockInv
    OBVIOUS
  <2>1. Counted = {}
    BY DEF LockInit, Counted
  <2> QED BY <2>1, CountedFinite DEF LockInit, LockInv, LockTypeOK, Writers
<1>2. LockInv => Exclusion
  BY DEF LockInv, Writers, Exclusion
<1>3. LockInv /\ [LockNext]_lockVars => LockInv'
  BY LockInvInductive
<1> QED BY <1>1, <1>2, <1>3, PTL DEF LockSpec
=============================================================================
