---------------------------- MODULE MessageQueue ----------------------------
(***************************************************************************)
(* skynet-src/skynet_mq.c: the growing ring buffer that holds one          *)
(* service's messages.  Every operation runs under the queue's spinlock,   *)
(* so each one is a single action.  The flags in_global and release, which *)
(* tie the queue to the global run queue, are modelled in Dispatch.        *)
(***************************************************************************)
EXTENDS Integers, Sequences

CONSTANTS
  Message,              \* what a service can be sent
  Nothing,              \* an unwritten slot, or the answer of an empty pop
  DEFAULT_QUEUE_SIZE,   \* initial capacity (64 in the code)
  MQ_OVERLOAD,          \* initial overload threshold (1024 in the code)
  MaxMessages           \* bound on the messages queued at one time

ASSUME SizeAssumption == DEFAULT_QUEUE_SIZE \in Nat \ {0}
ASSUME OverloadAssumption == MQ_OVERLOAD \in Nat \ {0}
ASSUME MessagesAssumption == MaxMessages \in Nat \ {0}
ASSUME NothingAssumption == Nothing \notin Message

VARIABLES
  cap,                  \* number of slots
  head, tail,           \* next slot to read, next slot to write
  queue,                \* the slots, 0 .. cap-1
  overload,             \* backlog to be reported, 0 when there is none
  overload_threshold,   \* backlog above which the next report is due
  ret,                  \* what the last skynet_mq_pop returned
  peak                  \* ghost: longest backlog a pop has left behind since
                        \* the queue was last found empty

ringVars == <<cap, head, tail, queue, overload, overload_threshold, ret, peak>>

(* skynet_mq_length: the number of messages between head and tail. *)
skynet_mq_length ==
  IF head <= tail THEN tail - head ELSE tail + cap - head

(* skynet_mq_create: an empty ring of the default size. *)
skynet_mq_create ==
  /\ cap = DEFAULT_QUEUE_SIZE
  /\ head = 0
  /\ tail = 0
  /\ queue = [i \in 0 .. DEFAULT_QUEUE_SIZE - 1 |-> Nothing]
  /\ overload = 0
  /\ overload_threshold = MQ_OVERLOAD
  /\ ret = Nothing
  /\ peak = 0

(* Mutant: the slots copied where they are, not from head on. *)
expand_queue_in_place(q) ==
  /\ queue' = [i \in 0 .. 2 * cap - 1 |-> IF i < cap THEN q[i] ELSE Nothing]
  /\ head' = 0
  /\ tail' = cap
  /\ cap' = 2 * cap

(* expand_queue: twice the slots, the messages of the full ring q moved to *)
(* the front in the order in which they will be read.                      *)
expand_queue(q) ==
  /\ queue' = [i \in 0 .. 2 * cap - 1 |->
                 IF i < cap THEN q[(head + i) % cap] ELSE Nothing]
  /\ head' = 0
  /\ tail' = cap
  /\ cap' = 2 * cap

(* skynet_mq_push: write at tail, then grow the ring if that filled it. *)
skynet_mq_push(m) ==
  LET written == [queue EXCEPT ![tail] = m]
      next    == IF tail + 1 >= cap THEN 0 ELSE tail + 1
  IN  /\ skynet_mq_length < MaxMessages
      /\ \/ /\ next = head
            /\ expand_queue(written)
         \/ /\ next # head
            /\ queue' = written
            /\ tail' = next
            /\ UNCHANGED <<cap, head>>
      /\ UNCHANGED <<overload, overload_threshold, ret, peak>>

(* The threshold after the doublings of skynet_mq_pop's while loop: the    *)
(* first of threshold, 2*threshold, 4*threshold ... that covers length.    *)
Doubled(length, threshold) ==
  LET loop[th \in Nat \ {0}] == IF length > th THEN loop[2 * th] ELSE th
  IN  loop[threshold]

(* skynet_mq_pop on a queue that holds a message. *)
skynet_mq_pop ==
  LET read   == IF head + 1 >= cap THEN 0 ELSE head + 1
      length == IF tail - read < 0 THEN tail - read + cap ELSE tail - read
  IN  /\ head # tail
      /\ ret' = queue[head]
      /\ head' = read
      /\ overload' = IF length > overload_threshold THEN length ELSE overload
      /\ overload_threshold' = Doubled(length, overload_threshold)
      /\ peak' = IF length > peak THEN length ELSE peak
      /\ UNCHANGED <<cap, tail, queue>>

(* Mutant: the empty pop forgets to reset the threshold. *)
skynet_mq_pop_no_reset ==
  /\ head = tail
  /\ ret' = Nothing
  /\ peak' = 0
  /\ UNCHANGED <<cap, head, tail, queue, overload, overload_threshold>>

(* skynet_mq_pop on an empty queue resets the threshold. *)
skynet_mq_pop_empty ==
  /\ head = tail
  /\ ret' = Nothing
  /\ overload_threshold' = MQ_OVERLOAD
  /\ peak' = 0
  /\ UNCHANGED <<cap, head, tail, queue, overload>>

(* skynet_mq_overload hands out a pending report once. *)
skynet_mq_overload ==
  /\ overload # 0
  /\ overload' = 0
  /\ UNCHANGED <<cap, head, tail, queue, overload_threshold, ret, peak>>

RingInit == skynet_mq_create

RingNext ==
  \/ \E m \in Message : skynet_mq_push(m)
  \/ skynet_mq_pop
  \/ skynet_mq_pop_empty
  \/ skynet_mq_overload

RingSpec == RingInit /\ [][RingNext]_ringVars

-----------------------------------------------------------------------------
(* The state of the queue is well formed: indices inside the ring, every   *)
(* slot a message or unwritten.                                            *)
RingTypeOK ==
  /\ cap \in Nat \ {0}
  /\ head \in 0 .. cap - 1
  /\ tail \in 0 .. cap - 1
  /\ queue \in [0 .. cap - 1 -> Message \cup {Nothing}]
  /\ ret \in Message \cup {Nothing}

(* Type correctness of the whole queue record of skynet_mq.c. *)
QueueTypeOK ==
  /\ RingTypeOK
  /\ overload \in Nat
  /\ overload_threshold \in Nat \ {0}
  /\ peak \in Nat

(* The messages of the ring in the order in which they will be popped. *)
Content == [i \in 1 .. skynet_mq_length |-> queue[(head + (i - 1)) % cap]]

FIFO == INSTANCE MessageFIFO WITH fifo <- Content

(* The ring buffer with its wrap-around and its growth in expand_queue     *)
(* behaves as a first-in first-out queue: no message is lost, duplicated,  *)
(* reordered or read from a slot that was never written.                   *)
ImplementsFIFO == FIFO!Spec

(* The threshold after k doublings. *)
Level[k \in Nat] == IF k = 0 THEN MQ_OVERLOAD ELSE 2 * Level[k - 1]

(* After skynet_mq_pop's doublings the overload threshold is the smallest  *)
(* MQ_OVERLOAD * 2^k that covers the longest backlog seen since the queue  *)
(* was last found empty: no backlog level is reported twice, none is       *)
(* skipped silently, and a drained queue starts over.                      *)
ThresholdTracksPeak ==
  /\ QueueTypeOK
  /\ peak <= overload_threshold
  /\ \E k \in 0 .. peak : overload_threshold = Level[k]
  /\ overload_threshold > MQ_OVERLOAD => 2 * peak > overload_threshold
=============================================================================
