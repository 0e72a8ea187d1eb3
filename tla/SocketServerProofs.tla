------------------------- MODULE SocketServerProofs -------------------------
(***************************************************************************)
(* Proofs about skynet-src/socket_server.c: who a slot of the socket table *)
(* belongs to, and what follows for descriptors, reports and write events; *)
(* and what is written to a socket and buffered for it.  For any number of *)
(* workers, slots, ids, packets and commands, and any packet size.         *)
(***************************************************************************)
EXTENDS SocketServer, FiniteSetTheorems, SequenceTheorems, WellFoundedInduction, TLAPS

(* The commands that turn a reserved slot into a socket.                   *)
Opening == {"O", "L", "B", "U"}

Commands == [c : Opening \cup {"D", "P", "S", "K"}, id : Id, x : Nat]
Events   == [s : Slots, r : BOOLEAN, w : BOOLEAN]

IsSocket(s) ==
  s = [type |-> s.type, id |-> s.id, proto |-> s.proto, high |-> s.high,
       low |-> s.low, wb |-> s.wb, wr |-> s.wr]

(* A worker has reserved the id, or its command is in the pipe, or its     *)
(* open has failed and is not yet reported.                                *)
Reserved(id) == \E w \in Worker : req[w] # <<>> /\ req[w][2] = id
Waiting(id)  == \E n \in DOMAIN pipe : pipe[n].c \in Opening /\ pipe[n].id = id
Failing(id)  == pc = "fail" /\ arg = id

(* The types of what the threads share.                                    *)
TableTypes ==
  /\ slot = [i \in Slots |-> slot[i]]
  /\ \A i \in Slots : IsSocket(slot[i]) /\ slot[i].type \in Types
  /\ alloc \in Nat /\ Known \subseteq Id /\ told \subseteq Known /\ fds \subseteq Id
  /\ pc \in {"poll", "event", "clear", "fail", "abort"}
  /\ ev \in Seq(Events)

(* A command is about an id that was given to a service, and the one that  *)
(* opens it comes before every other.                                      *)
PipeInv ==
  /\ pipe \in Seq(Commands)
  /\ \A n \in DOMAIN pipe : pipe[n].id \in Known
  /\ \A n \in DOMAIN pipe : pipe[n].c \in Opening => how[pipe[n].id] = pipe[n].c
  /\ \A m, n \in DOMAIN pipe : m < n /\ pipe[n].c \in Opening => pipe[m].id # pipe[n].id

(* An id that is reserved is new and one worker's.                         *)
ReqInv ==
  /\ req \in [Worker -> {<<>>} \cup (Opening \X Id)]
  /\ \A id \in Known : id <= alloc
  /\ \A w \in Worker : req[w] # <<>> => req[w][2] \notin Known /\ req[w][2] <= alloc
  /\ \A v, w \in Worker : v # w /\ req[v] # <<>> /\ req[w] # <<>> => req[v][2] # req[w][2]

(* An id that is reserved or about to be opened has a slot of its own.     *)
ClaimInv ==
  /\ \A id \in Id : Reserved(id) \/ Waiting(id) => slot[HASH_ID(id)].type = "RESERVE"
  /\ \A id, jd \in Id :
       /\ Reserved(id) \/ Waiting(id)
       /\ Reserved(jd) \/ Waiting(jd)
       /\ HASH_ID(id) = HASH_ID(jd)
       => id = jd

(* What an open socket is, when h says how the ids came about.             *)
SocketOK(h, i, s) ==
  s.type \in Open =>
    /\ s.id \in DOMAIN h /\ HASH_ID(s.id) = i
    /\ s.type = "BIND" => h[s.id] = "B"
    /\ s.type = "CONNECTING" => s.wr
    /\ s.type \in {"PLISTEN", "LISTEN"} => h[s.id] = "L"
    /\ s.type \in {"PLISTEN", "PACCEPT", "LISTEN"} => Empty(s)
    /\ ~Empty(s) /\ h[s.id] # "B" => s.wr

OpenInv == \A i \in Slots : SocketOK(how, i, slot[i])

(* An open that failed is neither in the pipe nor in a slot.               *)
FailInv ==
  pc = "fail" => /\ arg \in Known /\ ~Waiting(arg)
                 /\ how[arg] \in {"O", "U"}
                 /\ slot[HASH_ID(arg)].type \notin Open

(* ClosedIffTold, by where an id is.                                       *)
ToldInv ==
  \A id \in Known :
    /\ id \in told => ~Holds(id) /\ ~Waiting(id) /\ ~Failing(id)
    /\ ~Holds(id) /\ ~Waiting(id) /\ ~Failing(id) /\ how[id] # "U" => id \in told

(* An id whose accept failed is that of a listening socket, opened.        *)
WarnInv == \A id \in warned : id \in Known /\ how[id] = "L" /\ ~Waiting(id)

(* DescriptorsOwned, by where an id is.                                    *)
FdInv ==
  \A id \in Id :
    id \in fds <=>
      \/ id \in Known /\ how[id] # "B" /\ Holds(id)
      \/ id \in Known /\ how[id] \in {"L", "U"} /\ Waiting(id)
      \/ \E w \in Worker : req[w] # <<>> /\ req[w][2] = id /\ req[w][1] \in {"L", "U"}

Owned == /\ TableTypes /\ PipeInv /\ ReqInv /\ ClaimInv /\ OpenInv
         /\ FailInv /\ ToldInv /\ FdInv

(* The packets that were sent.                                             *)
Packets == [id : Id, low : BOOLEAN, taken : BOOLEAN]

(* The inductive invariant.  After an assertion has failed the process is  *)
(* gone, and nothing moves.                                                *)
SocketInv == lost \/ (OpenInv /\ (pc = "abort" \/ (Owned /\ WarnInv /\ pkts \in Seq(Packets))))

-----------------------------------------------------------------------------
(* Lemmas about the operators.                                             *)

LEMMA HashType == ASSUME NEW id \in Nat PROVE HASH_ID(id) \in Slots
<1>1. NSlot \in Nat /\ NSlot > 0
  BY SocketServerAssumption
<1>2. id % NSlot \in 0..NSlot - 1
  BY <1>1
<1>3. QED
  BY <1>2 DEF HASH_ID, Slots

LEMMA LeastNat == ASSUME NEW S \in SUBSET Nat, S # {} PROVE Min(S) \in S
<1> DEFINE R == {ss \in Nat \X Nat : ss[1] < ss[2]}
<1>1. IsWellFoundedOn(R, Nat)
  BY NatLessThanWellFounded DEF OpToRel
<1>2. PICK x \in S : \A y \in S : <<y, x>> \notin R
  <2> HIDE DEF R
  <2> QED BY <1>1, WFMin
<1>3. ASSUME NEW y \in S
      PROVE  x <= y
  <2>1. <<y, x>> \in Nat \X Nat /\ x \in Nat /\ y \in Nat
    OBVIOUS
  <2>2. ~ (y < x)
    BY <1>2, <2>1
  <2>3. QED
    BY <2>1, <2>2
<1>4. QED
  BY <1>2, <1>3 DEF Min

(* reserve_id gives out a larger id than ever before.                      *)
LEMMA TriedLeast ==
  ASSUME alloc \in Nat, Tried # {}
  PROVE  /\ Min(Tried) \in Nat /\ Min(Tried) > alloc
         /\ slot[HASH_ID(Min(Tried))].type = "INVALID"
<1>1. Tried \in SUBSET Nat
  BY SocketServerAssumption DEF Tried
<1>2. Min(Tried) \in Tried
  BY <1>1, LeastNat
<1>3. \A id \in Tried : id \in Nat /\ id > alloc /\ slot[HASH_ID(id)].type = "INVALID"
  BY SocketServerAssumption DEF Tried
<1>4. QED
  BY <1>2, <1>3

(* Changing the lists of a socket leaves the rest of it.                   *)
LEMMA ListsEdited ==
  ASSUME NEW s, IsSocket(s), NEW h, NEW l, NEW b
  PROVE  [s EXCEPT !.high = h, !.low = l, !.wb = b] =
           [type |-> s.type, id |-> s.id, proto |-> s.proto, high |-> h,
            low |-> l, wb |-> b, wr |-> s.wr]
<1> DEFINE t == [s EXCEPT !.high = h, !.low = l, !.wb = b]
           F == {"type", "id", "proto", "high", "low", "wb", "wr"}
<1>1. s = [f \in F |-> s[f]]
  BY DEF IsSocket
<1>2. t = [f \in F |-> IF f = "wb" THEN b ELSE IF f = "low" THEN l
                      ELSE IF f = "high" THEN h ELSE s[f]]
  BY <1>1
<1>3. QED
  BY <1>2

(* What send_buffer leaves is the same socket; what is not empty after it  *)
(* was not empty before and still waits for the write event.               *)
LEMMA SendBufferKeeps ==
  ASSUME NEW s, IsSocket(s), NEW o \in send_buffer(s)
  PROVE  /\ o.end \in {"abort", "closed", "open"}
         /\ o.end = "open" => /\ IsSocket(o.s) /\ o.s.type = s.type /\ o.s.id = s.id
                              /\ ~Empty(o.s) => ~Empty(s) /\ o.s.wr = s.wr
<1> DEFINE end(e) == [end |-> e, s |-> s, units |-> <<>>]
           cuts   == {c \in Written(s, s.high) \X Written(s, s.low) : c[1] < Len(s.high) => c[2] = 0}
           after(k, j) ==
             IF Emptied(s, k) /\ s.type = "HALFCLOSE" THEN end("closed")
             ELSE [end |-> "open", units |-> SentUnits(s, k, j),
                   s |-> IF Emptied(s, k) THEN [Sent(s, k, j) EXCEPT !.wr = FALSE] ELSE Sent(s, k, j)]
<1>1. \/ o = end("abort") \/ o = end("closed")
      \/ \E c \in cuts : o = after(c[1], c[2])
  BY DEF send_buffer
<1>2. CASE o = end("abort") \/ o = end("closed")
  BY <1>2
<1>3. ASSUME NEW c \in cuts, o = after(c[1], c[2])
      PROVE  /\ o.end \in {"abort", "closed", "open"}
             /\ o.end = "open" => /\ IsSocket(o.s) /\ o.s.type = s.type /\ o.s.id = s.id
                                  /\ ~Empty(o.s) => ~Empty(s) /\ o.s.wr = s.wr
  <2> DEFINE k == c[1]
             j == c[2]
  <2>1. k \in Written(s, s.high) /\ j \in Written(s, s.low)
    OBVIOUS
  <2>2. CASE Emptied(s, k) /\ s.type = "HALFCLOSE"
    BY <1>3, <2>2
  <2>3. ASSUME NEW t, IsSocket(t)
        PROVE  /\ IsSocket(Raised(t)) /\ Raised(t).type = t.type /\ Raised(t).id = t.id
               /\ Raised(t).wr = t.wr
               /\ t.low = <<>> => Raised(t) = t
    <3>1. CASE list_uncomplete(t.low)
      <4>1. Raised(t) = [t EXCEPT !.high = HeadOf(t.low), !.low = Drop(t.low, Len(HeadOf(t.low)))]
        BY <3>1 DEF Raised
      <4>2. t.low # <<>>
        BY <3>1 DEF list_uncomplete
      <4>3. QED
        BY <2>3, <4>1, <4>2 DEF IsSocket
    <3>2. CASE ~list_uncomplete(t.low)
      BY <2>3, <3>2 DEF Raised
    <3>3. QED
      BY <3>1, <3>2
  <2>4. /\ IsSocket(Sent(s, k, j)) /\ Sent(s, k, j).type = s.type
        /\ Sent(s, k, j).id = s.id /\ Sent(s, k, j).wr = s.wr
    <3>1. CASE k < Len(s.high)
      BY <3>1 DEF Sent, IsSocket
    <3>2. CASE ~(k < Len(s.high))
      <4> DEFINE t == [s EXCEPT !.high = <<>>, !.low = Drop(s.low, j), !.wb = @ - k - j]
      <4>1. Sent(s, k, j) = Raised(t)
        BY <3>2 DEF Sent
      <4>2. t = [type |-> s.type, id |-> s.id, proto |-> s.proto, high |-> <<>>,
                 low |-> Drop(s.low, j), wb |-> s.wb - k - j, wr |-> s.wr]
        <5> DEFINE b == s.wb - k - j
                   l == Drop(s.low, j)
        <5>1. t = [s EXCEPT !.high = <<>>, !.low = l, !.wb = b]
          OBVIOUS
        <5> HIDE DEF b, l, t
        <5>2. t = [type |-> s.type, id |-> s.id, proto |-> s.proto, high |-> <<>>,
                   low |-> l, wb |-> b, wr |-> s.wr]
          BY <5>1, ListsEdited
        <5>3. QED
          BY <5>2 DEF b, l
      <4>3. IsSocket(t) /\ t.type = s.type /\ t.id = s.id /\ t.wr = s.wr
        BY <4>2 DEF IsSocket
      <4> HIDE DEF t
      <4>4. QED
        BY <2>3, <4>1, <4>3
    <3>3. QED
      BY <3>1, <3>2
  <2>5. CASE Emptied(s, k) /\ s.type # "HALFCLOSE"
    <3>1. k = Len(s.high) /\ s.low = <<>>
      BY <2>5 DEF Emptied
    <3>2. j \in 0..Len(<<>>)
      BY <2>1, <3>1 DEF Written
    <3>3. Drop(<<>>, j) = <<>> /\ Len(<<>>) = 0
      BY <3>2 DEF Drop
    <3>4. ~(k < Len(s.high))
      <4>1. k \in 0..Len(s.high)
        BY <2>1 DEF Written
      <4>2. QED
        BY <3>1, <4>1
    <3> DEFINE t == [s EXCEPT !.high = <<>>, !.low = Drop(s.low, j), !.wb = @ - k - j]
    <3>5. Sent(s, k, j) = Raised(t)
      BY <3>4 DEF Sent
    <3>6. IsSocket(t) /\ t.high = <<>> /\ t.low = <<>>
      <4>1. t = [type |-> s.type, id |-> s.id, proto |-> s.proto, high |-> <<>>,
                 low |-> Drop(s.low, j), wb |-> s.wb - k - j, wr |-> s.wr]
        <5> DEFINE b == s.wb - k - j
                   l == Drop(s.low, j)
        <5>1. t = [s EXCEPT !.high = <<>>, !.low = l, !.wb = b]
          OBVIOUS
        <5> HIDE DEF b, l, t
        <5>2. t = [type |-> s.type, id |-> s.id, proto |-> s.proto, high |-> <<>>,
                   low |-> l, wb |-> b, wr |-> s.wr]
          BY <5>1, ListsEdited
        <5>3. QED
          BY <5>2 DEF b, l
      <4>2. QED
        BY <3>1, <3>3, <4>1 DEF IsSocket
    <3> HIDE DEF t
    <3>7. Sent(s, k, j).high = <<>> /\ Sent(s, k, j).low = <<>>
      BY <2>3, <3>5, <3>6
    <3>8. o.end = "open" /\ o.s = [Sent(s, k, j) EXCEPT !.wr = FALSE]
      BY <1>3, <2>5
    <3>9. o.s.high = <<>> /\ o.s.low = <<>> /\ IsSocket(o.s) /\ o.s.type = s.type /\ o.s.id = s.id
      BY <2>4, <3>7, <3>8 DEF IsSocket
    <3>10. QED
      BY <3>8, <3>9 DEF Empty
  <2>6. CASE ~Emptied(s, k)
    <3>1. o.end = "open" /\ o.s = Sent(s, k, j)
      BY <1>3, <2>6
    <3>2. ~Empty(s)
      <4>1. SUFFICES ASSUME Empty(s) PROVE FALSE
        OBVIOUS
      <4>2. s.high = <<>> /\ s.low = <<>>
        BY <4>1 DEF Empty
      <4>3. k \in 0..Len(<<>>)
        BY <2>1, <4>2 DEF Written
      <4>4. QED
        BY <2>6, <4>2, <4>3 DEF Emptied
    <3>3. QED
      BY <2>4, <3>1, <3>2
  <2>7. QED
    BY <2>2, <2>5, <2>6
<1>4. QED
  BY <1>1, <1>2, <1>3


(* The socket thread takes the oldest command: the id it opens is no       *)
(* longer waited for, and one it does not open was not.                    *)
LEMMA Popped ==
  ASSUME PipeInv, pipe # <<>>, pipe' = Tail(pipe), how' = how
  PROVE  /\ PipeInv'
         /\ Head(pipe) \in Commands /\ Head(pipe).id \in Known
         /\ Head(pipe).c \in Opening => Waiting(Head(pipe).id) /\ how[Head(pipe).id] = Head(pipe).c
         /\ Head(pipe).c \notin Opening => ~Waiting(Head(pipe).id)
         /\ \A id : Waiting(id)' <=> Waiting(id) /\ ~(Head(pipe).c \in Opening /\ id = Head(pipe).id)
<1>1. /\ pipe \in Seq(Commands) /\ Len(pipe) \in Nat /\ Len(pipe) > 0
      /\ Head(pipe) = pipe[1] /\ DOMAIN pipe = 1..Len(pipe) /\ 1 \in DOMAIN pipe
  BY DEF PipeInv
<1>2. /\ pipe' \in Seq(Commands) /\ DOMAIN pipe' = 1..Len(pipe) - 1
      /\ \A n \in 1..Len(pipe) - 1 : pipe'[n] = pipe[n + 1]
  BY <1>1
<1>3. Known' = Known
  BY DEF Known
<1>4. \A n \in DOMAIN pipe' : n + 1 \in DOMAIN pipe /\ pipe'[n] = pipe[n + 1]
  BY <1>1, <1>2
<1>5. PipeInv'
  <2>1. \A n \in DOMAIN pipe' : pipe'[n].id \in Known'
    BY <1>3, <1>4 DEF PipeInv
  <2>2. \A n \in DOMAIN pipe' : pipe'[n].c \in Opening => how'[pipe'[n].id] = pipe'[n].c
    BY <1>4 DEF PipeInv
  <2>3. \A m, n \in DOMAIN pipe' : m < n /\ pipe'[n].c \in Opening => pipe'[m].id # pipe'[n].id
    <3>1. TAKE m \in DOMAIN pipe', n \in DOMAIN pipe'
    <3>2. HAVE m < n /\ pipe'[n].c \in Opening
    <3>3. m + 1 < n + 1
      BY <1>2, <3>2
    <3>4. QED
      BY <1>4, <3>2, <3>3 DEF PipeInv
  <2>4. QED
    BY <1>2, <2>1, <2>2, <2>3 DEF PipeInv
<1>6. \A n \in DOMAIN pipe : n # 1 => n - 1 \in DOMAIN pipe' /\ pipe'[n - 1] = pipe[n]
  BY <1>1, <1>2
<1>7. \A n \in DOMAIN pipe : n # 1 /\ pipe[n].c \in Opening => pipe[1].id # pipe[n].id
  BY <1>1 DEF PipeInv
<1>8. ASSUME NEW id
      PROVE  Waiting(id)' <=> Waiting(id) /\ ~(Head(pipe).c \in Opening /\ id = Head(pipe).id)
  <2>1. ASSUME NEW n \in DOMAIN pipe', pipe'[n].c \in Opening, pipe'[n].id = id
        PROVE  Waiting(id) /\ ~(Head(pipe).c \in Opening /\ id = Head(pipe).id)
    <3>1. n + 1 \in DOMAIN pipe /\ pipe'[n] = pipe[n + 1] /\ n + 1 # 1
      BY <1>2, <1>4
    <3>2. QED
      BY <1>1, <1>7, <2>1, <3>1 DEF Waiting
  <2>2. ASSUME NEW n \in DOMAIN pipe, pipe[n].c \in Opening, pipe[n].id = id,
               ~(Head(pipe).c \in Opening /\ id = Head(pipe).id)
        PROVE  \E m \in DOMAIN pipe' : pipe'[m].c \in Opening /\ pipe'[m].id = id
    <3>1. n # 1
      BY <1>1, <2>2
    <3>2. QED
      BY <1>6, <2>2, <3>1
  <2>3. QED
    BY <2>1, <2>2 DEF Waiting
<1>9. Head(pipe) \in Commands /\ Head(pipe).id \in Known
  BY <1>1 DEF PipeInv
<1>10. Head(pipe).c \in Opening => Waiting(Head(pipe).id) /\ how[Head(pipe).id] = Head(pipe).c
  BY <1>1 DEF PipeInv, Waiting
<1>11. Head(pipe).c \notin Opening => ~Waiting(Head(pipe).id)
  BY <1>1, <1>7 DEF Waiting
<1>12. QED
  BY <1>5, <1>8, <1>9, <1>10, <1>11

(* A worker appends a command.                                             *)
LEMMA Appended ==
  ASSUME PipeInv, NEW e \in Commands, pipe' = Append(pipe, e),
         Known \subseteq Known', e.id \in Known', \A id \in Known : how'[id] = how[id],
         e.c \in Opening => e.id \notin Known /\ how'[e.id] = e.c
  PROVE  /\ PipeInv'
         /\ \A id : Waiting(id)' <=> Waiting(id) \/ (e.c \in Opening /\ id = e.id)
<1>1. pipe \in Seq(Commands) /\ Len(pipe) \in Nat /\ DOMAIN pipe = 1..Len(pipe)
  BY DEF PipeInv
<1>2. /\ pipe' \in Seq(Commands) /\ DOMAIN pipe' = 1..Len(pipe) + 1
      /\ \A n \in 1..Len(pipe) : pipe'[n] = pipe[n]
      /\ pipe'[Len(pipe) + 1] = e
  BY <1>1
<1>3. \A n \in DOMAIN pipe' : (n \in DOMAIN pipe /\ pipe'[n] = pipe[n]) \/ (n = Len(pipe) + 1 /\ pipe'[n] = e)
  BY <1>1, <1>2
<1>4. PipeInv'
  <2>1. \A n \in DOMAIN pipe' : pipe'[n].id \in Known'
    BY <1>3 DEF PipeInv
  <2>2. \A n \in DOMAIN pipe' : pipe'[n].c \in Opening => how'[pipe'[n].id] = pipe'[n].c
    BY <1>3 DEF PipeInv
  <2>3. ASSUME NEW m \in DOMAIN pipe', NEW n \in DOMAIN pipe', m < n, pipe'[n].c \in Opening
        PROVE  pipe'[m].id # pipe'[n].id
    <3>1. m \in DOMAIN pipe /\ pipe'[m] = pipe[m]
      BY <1>1, <1>2, <2>3
    <3>2. CASE n \in DOMAIN pipe /\ pipe'[n] = pipe[n]
      BY <2>3, <3>1, <3>2 DEF PipeInv
    <3>3. CASE pipe'[n] = e
      BY <2>3, <3>1, <3>3 DEF PipeInv
    <3>4. QED
      BY <1>3, <3>2, <3>3
  <2>4. QED
    BY <1>2, <2>1, <2>2, <2>3 DEF PipeInv
<1>5. ASSUME NEW id
      PROVE  Waiting(id)' <=> Waiting(id) \/ (e.c \in Opening /\ id = e.id)
  <2>1. Len(pipe) + 1 \in DOMAIN pipe' /\ DOMAIN pipe \subseteq DOMAIN pipe'
    BY <1>1, <1>2
  <2>2. \A n \in DOMAIN pipe : pipe'[n] = pipe[n]
    BY <1>1, <1>2
  <2>3. QED
    BY <1>2, <1>3, <2>1, <2>2 DEF Waiting
<1>6. QED
  BY <1>4, <1>5


-----------------------------------------------------------------------------
(* What the steps do to the invariant, whatever action takes them.         *)

(* One slot is written.                                                    *)
LEMMA SlotWritten ==
  ASSUME TableTypes, OpenInv, NEW i \in Slots, NEW s, IsSocket(s), s.type \in Types,
         slot' = [slot EXCEPT ![i] = s], SocketOK(how', i, s),
         Known \subseteq Known', \A id \in Known : how'[id] = how[id]
  PROVE  /\ OpenInv'
         /\ slot' = [j \in Slots |-> slot'[j]]
         /\ \A j \in Slots : IsSocket(slot'[j]) /\ slot'[j].type \in Types
         /\ \A j \in Slots : slot'[j] = IF j = i THEN s ELSE slot[j]
         /\ \A id \in Id : Holds(id)' <=> IF HASH_ID(id) = i THEN s.id = id /\ s.type \in Open
                                          ELSE Holds(id)
<1>1. slot = [j \in Slots |-> slot[j]] /\ \A j \in Slots : IsSocket(slot[j]) /\ slot[j].type \in Types
  BY DEF TableTypes
<1>2. slot' = [j \in Slots |-> IF j = i THEN s ELSE slot[j]]
  BY <1>1
<1>3. \A j \in Slots : slot'[j] = IF j = i THEN s ELSE slot[j]
  BY <1>2
<1>4. slot' = [j \in Slots |-> slot'[j]]
  BY <1>2, <1>3
<1>5. \A j \in Slots : IsSocket(slot'[j]) /\ slot'[j].type \in Types
  BY <1>1, <1>3
<1>6. OpenInv'
  <2>1. ASSUME NEW j \in Slots
        PROVE  SocketOK(how', j, slot'[j])
    <3>1. CASE j = i
      BY <1>3, <3>1
    <3>2. CASE j # i
      <4>1. slot'[j] = slot[j] /\ SocketOK(how, j, slot[j])
        BY <1>3, <3>2 DEF OpenInv
      <4>2. QED
        BY <4>1 DEF SocketOK, Known
    <3>3. QED
      BY <3>1, <3>2
  <2>2. QED
    BY <2>1 DEF OpenInv
<1>7. ASSUME NEW id \in Id
      PROVE  Holds(id)' <=> IF HASH_ID(id) = i THEN s.id = id /\ s.type \in Open ELSE Holds(id)
  <2>1. HASH_ID(id) \in Slots
    BY HashType DEF Id
  <2>2. QED
    BY <1>3, <2>1 DEF Holds
<1>8. QED
  BY <1>3, <1>4, <1>5, <1>6, <1>7

(* Whoever still waits for a slot finds it reserved.                       *)
LEMMA ClaimsKept ==
  ASSUME ClaimInv,
         \A id \in Id : Reserved(id)' \/ Waiting(id)' =>
            (Reserved(id) \/ Waiting(id)) /\ slot'[HASH_ID(id)].type = "RESERVE"
  PROVE  ClaimInv'
  BY DEF ClaimInv

(* The socket thread goes on without touching what workers reserve.        *)
Steady ==
  /\ UNCHANGED <<req, alloc, how>>
  /\ PipeInv' /\ \A id : Waiting(id)' <=> Waiting(id)
  /\ pc # "fail" /\ pc' \in {"poll", "event", "clear"}
  /\ ev' \in Seq(Events)

(* A socket changes, but neither its id nor whether it is one.             *)
LEMMA KeepStep ==
  ASSUME Owned, Steady, UNCHANGED <<told, fds>>,
         NEW i \in Slots, NEW s, slot' = [slot EXCEPT ![i] = s],
         IsSocket(s), s.type \in Types, s.id = slot[i].id,
         s.type \in Open <=> slot[i].type \in Open,
         slot[i].type = "RESERVE" => s.type = "RESERVE", SocketOK(how, i, s)
  PROVE  Owned'
<1>1. TableTypes /\ PipeInv /\ ReqInv /\ ClaimInv /\ OpenInv /\ FailInv /\ ToldInv /\ FdInv
  BY DEF Owned
<1>2. Known' = Known /\ how' = how /\ req' = req
  BY DEF Steady, Known
<1>3. /\ OpenInv'
      /\ slot' = [j \in Slots |-> slot'[j]]
      /\ \A j \in Slots : IsSocket(slot'[j]) /\ slot'[j].type \in Types
      /\ \A j \in Slots : slot'[j] = IF j = i THEN s ELSE slot[j]
      /\ \A id \in Id : Holds(id)' <=> IF HASH_ID(id) = i THEN s.id = id /\ s.type \in Open
                                       ELSE Holds(id)
  BY <1>1, <1>2, SlotWritten
<1>4. \A id \in Id : Holds(id)' <=> Holds(id)
  BY <1>3 DEF Holds
<1>5. TableTypes'
  BY <1>1, <1>2, <1>3 DEF TableTypes, Steady
<1>6. ReqInv'
  BY <1>1, <1>2 DEF ReqInv, Steady
<1>7. ClaimInv'
  <2>1. \A id \in Id : HASH_ID(id) \in Slots
    BY HashType DEF Id
  <2>2. \A id \in Id : Reserved(id)' <=> Reserved(id)
    BY <1>2 DEF Reserved
  <2>3. \A id \in Id : Waiting(id)' <=> Waiting(id)
    BY DEF Steady
  <2>4. QED
    BY <1>1, <1>3, <2>1, <2>2, <2>3, ClaimsKept DEF ClaimInv
<1>8. FailInv'
  BY DEF FailInv, Steady
<1>9. ToldInv'
  <2>1. \A id \in Known : id \in Id /\ ~Failing(id) /\ ~Failing(id)'
    BY <1>1 DEF TableTypes, Failing, Steady
  <2>2. QED
    BY <1>1, <1>2, <1>4, <2>1 DEF ToldInv, Steady
<1>10. FdInv'
  BY <1>1, <1>2, <1>4 DEF FdInv, Steady
<1>11. QED
  BY <1>3, <1>5, <1>6, <1>7, <1>8, <1>9, <1>10 DEF Owned, Steady

(* No slot is written; an id whose socket is gone may be reported again.   *)
LEMMA SameStep ==
  ASSUME Owned, Steady, UNCHANGED <<slot, fds>>,
         NEW gone \in SUBSET Known, told' = told \cup gone,
         \A id \in gone : ~Holds(id) /\ ~Waiting(id)
  PROVE  Owned'
<1>1. TableTypes /\ PipeInv /\ ReqInv /\ ClaimInv /\ OpenInv /\ FailInv /\ ToldInv /\ FdInv
  BY DEF Owned
<1>2. Known' = Known /\ how' = how /\ req' = req
  BY DEF Steady, Known
<1>3. \A id : Holds(id)' <=> Holds(id)
  BY DEF Holds
<1>4. TableTypes'
  BY <1>1, <1>2 DEF TableTypes, Steady
<1>5. ReqInv'
  BY <1>1, <1>2 DEF ReqInv, Steady
<1>6. ClaimInv'
  <2>1. \A id \in Id : Reserved(id)' <=> Reserved(id)
    BY <1>2 DEF Reserved
  <2>2. \A id \in Id : Waiting(id)' <=> Waiting(id)
    BY DEF Steady
  <2>3. QED
    BY <1>1, <2>1, <2>2, ClaimsKept DEF ClaimInv
<1>7. OpenInv' /\ FailInv'
  BY <1>1, <1>2 DEF OpenInv, FailInv, Steady
<1>8. ToldInv'
  <2>1. \A id \in Known : ~Failing(id) /\ ~Failing(id)'
    BY DEF Failing, Steady
  <2>2. QED
    BY <1>1, <1>2, <1>3, <2>1 DEF ToldInv, Steady
<1>9. FdInv'
  BY <1>1, <1>2, <1>3 DEF FdInv, Steady
<1>10. QED
  BY <1>4, <1>5, <1>6, <1>7, <1>8, <1>9 DEF Owned, Steady


(* No slot is written and nothing is told.                                 *)
LEMMA IdleStep ==
  ASSUME Owned, Steady, UNCHANGED <<slot, fds, told>>
  PROVE  Owned'
<1>1. PICK gone \in SUBSET Known : gone = {}
  OBVIOUS
<1>2. told' = told \cup gone /\ \A id \in gone : ~Holds(id) /\ ~Waiting(id)
  BY <1>1
<1>3. QED
  BY <1>2, SameStep

(* force_close of an open socket.                                          *)
LEMMA CloseStep ==
  ASSUME Owned, Steady, NEW i \in Slots, slot[i].type \in Open, force_close(i)
  PROVE  Owned'
<1>1. TableTypes /\ PipeInv /\ ReqInv /\ ClaimInv /\ OpenInv /\ FailInv /\ ToldInv /\ FdInv
  BY DEF Owned
<1>2. Known' = Known /\ how' = how /\ req' = req
  BY DEF Steady, Known
<1>3. PICK x : x = slot[i].id
  OBVIOUS
<1>4. x \in Known /\ x \in Id /\ HASH_ID(x) = i /\ (slot[i].type = "BIND" => how[x] = "B")
  BY <1>1, <1>3 DEF OpenInv, SocketOK, TableTypes, Known
<1>5. PICK s : s = Invalid(i)
  OBVIOUS
<1>6. IsSocket(s) /\ s.type = "INVALID" /\ s.type \in Types /\ s.type \notin Open
  BY <1>5 DEF Invalid, NewFd, IsSocket, Types, Open
<1>7. /\ slot' = [slot EXCEPT ![i] = s] /\ fds' = Freed(i) /\ told' = told \cup {x}
  BY <1>3, <1>5 DEF force_close, Tell
<1>8. SocketOK(how', i, s)
  BY <1>6 DEF SocketOK
<1>9. /\ OpenInv'
      /\ slot' = [j \in Slots |-> slot'[j]]
      /\ \A j \in Slots : IsSocket(slot'[j]) /\ slot'[j].type \in Types
      /\ \A j \in Slots : slot'[j] = IF j = i THEN s ELSE slot[j]
      /\ \A id \in Id : Holds(id)' <=> IF HASH_ID(id) = i THEN s.id = id /\ s.type \in Open
                                       ELSE Holds(id)
  BY <1>1, <1>2, <1>6, <1>7, <1>8, SlotWritten
<1>10. \A id \in Id : Holds(id)' <=> Holds(id) /\ id # x
  BY <1>3, <1>4, <1>6, <1>9 DEF Holds
<1>11. \A id \in Id : HASH_ID(id) \in Slots
  BY HashType DEF Id
<1>12. \A id \in Id : Reserved(id) \/ Waiting(id) => HASH_ID(id) # i
  BY <1>1 DEF ClaimInv, Open
<1>13. /\ \A id : Reserved(id)' <=> Reserved(id)
       /\ \A id : Waiting(id)' <=> Waiting(id)
  BY <1>2 DEF Reserved, Steady
<1>14. ~Waiting(x) /\ ~Reserved(x)
  BY <1>4, <1>12
<1>15. TableTypes'
  <2>1. fds' \subseteq Id
    BY <1>1, <1>7 DEF Freed, TableTypes
  <2>2. told' \subseteq Known'
    BY <1>1, <1>2, <1>4, <1>7 DEF TableTypes
  <2>3. QED
    BY <1>1, <1>2, <1>9, <2>1, <2>2 DEF TableTypes, Steady
<1>16. ReqInv'
  BY <1>1, <1>2 DEF ReqInv, Steady
<1>17. ClaimInv'
  BY <1>1, <1>9, <1>11, <1>12, <1>13, ClaimsKept DEF ClaimInv
<1>18. FailInv'
  BY DEF FailInv, Steady
<1>19. ToldInv'
  <2>1. \A id \in Known : id \in Id /\ ~Failing(id) /\ ~Failing(id)'
    BY <1>1 DEF Failing, Steady, TableTypes
  <2>2. QED
    BY <1>1, <1>2, <1>7, <1>10, <1>13, <1>14, <2>1 DEF ToldInv
<1>20. FdInv'
  <2>1. ASSUME NEW id \in Id, id # x
        PROVE  id \in fds' <=>
                 \/ id \in Known' /\ how'[id] # "B" /\ Holds(id)'
                 \/ id \in Known' /\ how'[id] \in {"L", "U"} /\ Waiting(id)'
                 \/ \E w \in Worker : req'[w] # <<>> /\ req'[w][2] = id /\ req'[w][1] \in {"L", "U"}
    <3>1. id \in fds' <=> id \in fds
      BY <1>3, <1>7, <2>1 DEF Freed
    <3>2. Holds(id)' <=> Holds(id)
      BY <1>10, <2>1
    <3>3. QED
      BY <1>1, <1>2, <1>13, <3>1, <3>2 DEF FdInv
  <2>2. /\ x \notin fds'
        /\ ~Holds(x)' /\ ~Waiting(x)'
        /\ ~\E w \in Worker : req'[w] # <<>> /\ req'[w][2] = x /\ req'[w][1] \in {"L", "U"}
    <3>1. ~Holds(x)' /\ ~Waiting(x)'
      BY <1>4, <1>10, <1>13, <1>14
    <3>2. ~\E w \in Worker : req[w] # <<>> /\ req[w][2] = x
      BY <1>14 DEF Reserved
    <3>3. CASE slot[i].type = "BIND"
      BY <1>1, <1>2, <1>4, <1>7, <1>14, <3>1, <3>2, <3>3 DEF FdInv, Freed
    <3>4. CASE slot[i].type # "BIND"
      BY <1>2, <1>3, <1>7, <3>1, <3>2, <3>4 DEF Freed
    <3>5. QED
      BY <3>3, <3>4
  <2>3. QED
    BY <2>1, <2>2 DEF FdInv
<1>21. QED
  BY <1>9, <1>15, <1>16, <1>17, <1>18, <1>19, <1>20 DEF Owned, Steady

(* What holds when the socket thread takes a command that opens.           *)
LEMMA TakesOpening ==
  ASSUME Owned, NEW c \in Opening, Cmd(c)
  PROVE  /\ cid \in Known /\ cid \in Id /\ cs \in Slots /\ how[cid] = c
         /\ slot[cs].type = "RESERVE" /\ Waiting(cid) /\ ~Reserved(cid)
         /\ cid \notin told /\ pc = "poll"
         /\ \A id \in Id : Holds(id) => HASH_ID(id) # cs
         /\ \A id \in Id : (Reserved(id) \/ Waiting(id)) /\ id # cid => HASH_ID(id) # cs
         /\ UNCHANGED <<req, alloc, how, ev>> /\ PipeInv' /\ ReqInv'
         /\ \A id : Reserved(id)' <=> Reserved(id)
         /\ \A id : Waiting(id)' <=> Waiting(id) /\ id # cid
<1>1. TableTypes /\ PipeInv /\ ReqInv /\ ClaimInv /\ OpenInv /\ FailInv /\ ToldInv /\ FdInv
  BY DEF Owned
<1>2. /\ pc = "poll" /\ pipe # <<>> /\ Head(pipe).c = c /\ pipe' = Tail(pipe)
      /\ UNCHANGED <<req, alloc, how, ev>>
  BY DEF Cmd
<1>3. /\ PipeInv' /\ cid \in Known /\ Waiting(cid) /\ how[cid] = c
      /\ \A id : Waiting(id)' <=> Waiting(id) /\ id # cid
  BY <1>1, <1>2, Popped DEF cid
<1>4. cid \in Id /\ cs \in Slots
  BY <1>1, <1>3, HashType DEF TableTypes, Id, cs
<1>5. slot[cs].type = "RESERVE"
  BY <1>1, <1>3, <1>4 DEF ClaimInv, cs
<1>6. ~Reserved(cid)
  BY <1>1, <1>3 DEF ReqInv, Reserved
<1>7. cid \notin told
  BY <1>1, <1>3 DEF ToldInv
<1>8. \A id \in Id : Holds(id) => HASH_ID(id) # cs
  BY <1>5 DEF Holds, Open
<1>9. \A id \in Id : (Reserved(id) \/ Waiting(id)) /\ id # cid => HASH_ID(id) # cs
  BY <1>1, <1>3, <1>4 DEF ClaimInv, cs
<1>10. ReqInv'
  BY <1>1, <1>2 DEF ReqInv, Known
<1>11. \A id : Reserved(id)' <=> Reserved(id)
  BY <1>2 DEF Reserved
<1>12. QED
  BY <1>2, <1>3, <1>4, <1>5, <1>6, <1>7, <1>8, <1>9, <1>10, <1>11


(* The slot of the command becomes a socket.                               *)
LEMMA OpenedStep ==
  ASSUME Owned, NEW c \in Opening, Cmd(c), pc' = "poll", UNCHANGED told,
         NEW type \in Open, NEW proto, NEW wr, Opened(type, proto, wr),
         type = "BIND" => c = "B", type = "CONNECTING" => wr, type \in {"PLISTEN", "LISTEN"} => c = "L",
         fds' = IF c = "O" THEN fds \cup {cid} ELSE fds
  PROVE  Owned'
<1>1. TableTypes /\ PipeInv /\ ReqInv /\ ClaimInv /\ OpenInv /\ FailInv /\ ToldInv /\ FdInv
  BY DEF Owned
<1>2. PICK x \in Id : x = cid
  BY TakesOpening
<1>3. PICK i \in Slots : i = cs
  BY TakesOpening
<1>4. /\ x \in Known /\ how[x] = c /\ HASH_ID(x) = i
      /\ slot[i].type = "RESERVE" /\ Waiting(x) /\ ~Reserved(x)
      /\ x \notin told /\ pc = "poll"
      /\ \A id \in Id : Holds(id) => HASH_ID(id) # i
      /\ \A id \in Id : (Reserved(id) \/ Waiting(id)) /\ id # x => HASH_ID(id) # i
      /\ UNCHANGED <<req, alloc, how, ev>> /\ PipeInv' /\ ReqInv'
      /\ \A id : Reserved(id)' <=> Reserved(id)
      /\ \A id : Waiting(id)' <=> Waiting(id) /\ id # x
  BY <1>2, <1>3, TakesOpening DEF cs
<1>5. Known' = Known
  BY <1>4 DEF Known
<1>6. PICK s : s = NewFd(type, x, proto, wr)
  OBVIOUS
<1>7. IsSocket(s) /\ s.type = type /\ s.type \in Types /\ s.id = x /\ Empty(s) /\ s.wr = wr
  BY <1>6 DEF NewFd, IsSocket, Types, Empty
<1>8. slot' = [slot EXCEPT ![i] = s]
  BY <1>2, <1>3, <1>6 DEF Opened
<1>9. SocketOK(how', i, s)
  BY <1>4, <1>7 DEF SocketOK, Known
<1>10. /\ OpenInv'
       /\ slot' = [j \in Slots |-> slot'[j]]
       /\ \A j \in Slots : IsSocket(slot'[j]) /\ slot'[j].type \in Types
       /\ \A j \in Slots : slot'[j] = IF j = i THEN s ELSE slot[j]
       /\ \A id \in Id : Holds(id)' <=> IF HASH_ID(id) = i THEN s.id = id /\ s.type \in Open
                                        ELSE Holds(id)
  BY <1>1, <1>4, <1>5, <1>7, <1>8, <1>9, SlotWritten, ZenonT(60)
<1>11. \A id \in Id : Holds(id)' <=> Holds(id) \/ id = x
  BY <1>4, <1>7, <1>10
<1>12. \A id \in Id : HASH_ID(id) \in Slots
  BY HashType DEF Id
<1>13. TableTypes'
  <2>1. fds' \subseteq Id
    BY <1>1, <1>2 DEF TableTypes
  <2>2. QED
    BY <1>1, <1>4, <1>5, <1>10, <2>1 DEF TableTypes
<1>14. ClaimInv'
  BY <1>1, <1>4, <1>10, <1>12, ClaimsKept DEF ClaimInv
<1>15. FailInv'
  BY DEF FailInv
<1>16. ToldInv'
  <2>1. \A id \in Known : id \in Id /\ ~Failing(id) /\ ~Failing(id)'
    BY <1>1, <1>4 DEF Failing, TableTypes
  <2>2. QED
    BY <1>1, <1>4, <1>5, <1>11, <2>1 DEF ToldInv
<1>17. FdInv'
  <2>1. ASSUME NEW id \in Id, id # x
        PROVE  id \in fds' <=>
                 \/ id \in Known' /\ how'[id] # "B" /\ Holds(id)'
                 \/ id \in Known' /\ how'[id] \in {"L", "U"} /\ Waiting(id)'
                 \/ \E w \in Worker : req'[w] # <<>> /\ req'[w][2] = id /\ req'[w][1] \in {"L", "U"}
    <3>1. id \in fds' <=> id \in fds
      BY <1>2, <2>1
    <3>2. (Holds(id)' <=> Holds(id)) /\ (Waiting(id)' <=> Waiting(id))
      BY <1>4, <1>11, <2>1
    <3>3. QED
      BY <1>1, <1>4, <1>5, <3>1, <3>2 DEF FdInv
  <2>2. x \in fds' <=> c # "B"
    <3>1. x \in fds <=> c \in {"L", "U"}
      <4>1. ~\E w \in Worker : req[w] # <<>> /\ req[w][2] = x
        BY <1>4 DEF Reserved
      <4>2. ~Holds(x)
        BY <1>4
      <4>3. QED
        BY <1>1, <1>4, <4>1, <4>2 DEF FdInv
    <3>2. QED
      BY <1>2, <3>1 DEF Opening
  <2>3. Holds(x)' /\ ~Waiting(x)' /\ x \in Known' /\ how'[x] = c
    BY <1>4, <1>5, <1>11
  <2>4. ~\E w \in Worker : req'[w] # <<>> /\ req'[w][2] = x /\ req'[w][1] \in {"L", "U"}
    BY <1>4 DEF Reserved
  <2>5. QED
    BY <2>1, <2>2, <2>3, <2>4 DEF FdInv
<1>18. QED
  BY <1>4, <1>10, <1>13, <1>14, <1>15, <1>16, <1>17 DEF Owned

(* The open fails and the slot of the command is given back: the service   *)
(* is told at once, or the failure goes on (OpenFailed).                   *)
LEMMA GivenBackStep ==
  ASSUME Owned, NEW c \in Opening, Cmd(c), Clobber(cs),
         \/ pc' \in {"poll", "clear"} /\ told' = told \cup {cid} /\ c \in {"O", "B"}
         \/ pc' = "fail" /\ arg' = cid /\ told' = told /\ c \in {"O", "U"},
         fds' = IF c = "U" THEN fds \ {cid} ELSE fds
  PROVE  Owned'
<1>1. TableTypes /\ PipeInv /\ ReqInv /\ ClaimInv /\ OpenInv /\ FailInv /\ ToldInv /\ FdInv
  BY DEF Owned
<1>2. PICK x \in Id : x = cid
  BY TakesOpening
<1>3. PICK i \in Slots : i = cs
  BY TakesOpening
<1>4. /\ x \in Known /\ how[x] = c /\ HASH_ID(x) = i
      /\ slot[i].type = "RESERVE" /\ Waiting(x) /\ ~Reserved(x)
      /\ x \notin told /\ pc = "poll"
      /\ \A id \in Id : Holds(id) => HASH_ID(id) # i
      /\ \A id \in Id : (Reserved(id) \/ Waiting(id)) /\ id # x => HASH_ID(id) # i
      /\ UNCHANGED <<req, alloc, how, ev>> /\ PipeInv' /\ ReqInv'
      /\ \A id : Reserved(id)' <=> Reserved(id)
      /\ \A id : Waiting(id)' <=> Waiting(id) /\ id # x
  BY <1>2, <1>3, TakesOpening DEF cs
<1>5. Known' = Known
  BY <1>4 DEF Known
<1>6. PICK s : s = [slot[i] EXCEPT !.type = "INVALID"]
  OBVIOUS
<1>7. IsSocket(s) /\ s.type = "INVALID" /\ s.type \in Types /\ s.type \notin Open
  BY <1>1, <1>6 DEF TableTypes, IsSocket, Types, Open
<1>8. slot' = [slot EXCEPT ![i] = s]
  BY <1>3, <1>6 DEF Clobber
<1>9. SocketOK(how', i, s)
  BY <1>7 DEF SocketOK
<1>10. /\ OpenInv'
       /\ slot' = [j \in Slots |-> slot'[j]]
       /\ \A j \in Slots : IsSocket(slot'[j]) /\ slot'[j].type \in Types
       /\ \A j \in Slots : slot'[j] = IF j = i THEN s ELSE slot[j]
       /\ \A id \in Id : Holds(id)' <=> IF HASH_ID(id) = i THEN s.id = id /\ s.type \in Open
                                        ELSE Holds(id)
  BY <1>1, <1>4, <1>5, <1>7, <1>8, <1>9, SlotWritten
<1>11. \A id \in Id : Holds(id)' <=> Holds(id)
  BY <1>4, <1>7, <1>10
<1>12. \A id \in Id : HASH_ID(id) \in Slots
  BY HashType DEF Id
<1>13. \/ pc' \in {"poll", "clear"} /\ told' = told \cup {x} /\ c \in {"O", "B"}
       \/ pc' = "fail" /\ arg' = x /\ told' = told /\ c \in {"O", "U"}
  BY <1>2
<1>14. TableTypes'
  <2>1. fds' \subseteq Id
    BY <1>1 DEF TableTypes
  <2>2. told' \subseteq Known'
    BY <1>1, <1>4, <1>5, <1>13 DEF TableTypes
  <2>3. pc' \in {"poll", "event", "clear", "fail", "abort"}
    BY <1>13
  <2>4. QED
    BY <1>1, <1>4, <1>5, <1>10, <2>1, <2>2, <2>3 DEF TableTypes
<1>15. ClaimInv'
  BY <1>1, <1>4, <1>10, <1>12, ClaimsKept DEF ClaimInv
<1>16. FailInv'
  <2>1. ASSUME pc' = "fail"
        PROVE  /\ arg' \in Known' /\ ~Waiting(x)' /\ how'[arg'] \in {"O", "U"} /\ arg' = x
               /\ slot'[HASH_ID(arg')].type \notin Open
    BY <1>4, <1>5, <1>7, <1>10, <1>13, <2>1
  <2>2. ASSUME pc' = "fail"
        PROVE  ~Waiting(arg)'
    BY <2>1, <2>2 DEF Waiting
  <2>3. QED
    BY <2>1, <2>2 DEF FailInv
<1>17. ToldInv'
  <2>1. \A id \in Known : id \in Id /\ ~Failing(id)
    BY <1>1, <1>4 DEF Failing, TableTypes
  <2>2. ASSUME NEW id \in Known, id # x
        PROVE  (id \in told' <=> id \in told) /\ ~Failing(id)'
    BY <1>13, <2>2 DEF Failing
  <2>3. \/ x \in told' /\ ~Failing(x)'
        \/ x \notin told' /\ Failing(x)'
    BY <1>4, <1>13 DEF Failing
  <2>4. ~Holds(x) /\ ~Waiting(x)'
    BY <1>4
  <2>5. ASSUME NEW id \in Known', id # x
        PROVE  /\ id \in told' => ~Holds(id)' /\ ~Waiting(id)' /\ ~Failing(id)'
               /\ ~Holds(id)' /\ ~Waiting(id)' /\ ~Failing(id)' /\ how'[id] # "U" => id \in told'
    BY <1>1, <1>4, <1>5, <1>11, <2>1, <2>2, <2>5 DEF ToldInv
  <2>6. /\ x \in told' => ~Holds(x)' /\ ~Waiting(x)' /\ ~Failing(x)'
        /\ ~Holds(x)' /\ ~Waiting(x)' /\ ~Failing(x)' /\ how'[x] # "U" => x \in told'
    BY <1>11, <2>3, <2>4
  <2>7. QED
    BY <2>5, <2>6 DEF ToldInv
<1>18. FdInv'
  <2>1. ASSUME NEW id \in Id, id # x
        PROVE  id \in fds' <=>
                 \/ id \in Known' /\ how'[id] # "B" /\ Holds(id)'
                 \/ id \in Known' /\ how'[id] \in {"L", "U"} /\ Waiting(id)'
                 \/ \E w \in Worker : req'[w] # <<>> /\ req'[w][2] = id /\ req'[w][1] \in {"L", "U"}
    <3>1. id \in fds' <=> id \in fds
      BY <1>2, <2>1
    <3>2. (Holds(id)' <=> Holds(id)) /\ (Waiting(id)' <=> Waiting(id))
      BY <1>4, <1>11, <2>1
    <3>3. QED
      BY <1>1, <1>4, <1>5, <3>1, <3>2 DEF FdInv
  <2>2. x \notin fds'
    <3>1. CASE c = "U"
      BY <1>2, <3>1
    <3>2. CASE c # "U"
      <4>1. ~\E w \in Worker : req[w] # <<>> /\ req[w][2] = x
        BY <1>4 DEF Reserved
      <4>2. ~Holds(x) /\ c \notin {"L", "U"}
        BY <1>4, <1>13, <3>2
      <4>3. QED
        BY <1>1, <1>4, <3>2, <4>1, <4>2 DEF FdInv
    <3>3. QED
      BY <3>1, <3>2
  <2>3. ~Holds(x)' /\ ~Waiting(x)'
    BY <1>4, <1>11
  <2>4. ~\E w \in Worker : req'[w] # <<>> /\ req'[w][2] = x /\ req'[w][1] \in {"L", "U"}
    BY <1>4 DEF Reserved
  <2>5. QED
    BY <2>1, <2>2, <2>3, <2>4 DEF FdInv
<1>19. QED
  BY <1>4, <1>10, <1>14, <1>15, <1>16, <1>17, <1>18 DEF Owned


(* The failure of an open goes on.  If nobody has reserved the slot in the *)
(* meantime the second store changes nothing.                              *)
LEMMA FailedStep ==
  ASSUME Owned, OpenFailed, ~Reclaims
  PROVE  Owned'
<1>1. TableTypes /\ PipeInv /\ ReqInv /\ ClaimInv /\ OpenInv /\ FailInv /\ ToldInv /\ FdInv
  BY DEF Owned
<1>2. /\ pc = "fail" /\ pc' \in {"poll", "clear"}
      /\ UNCHANGED <<alloc, req, pipe, ev, fds, how>>
      /\ IF how[arg] = "O" THEN told' = told \cup {arg} ELSE told' = told
  BY DEF OpenFailed, Tell, Ended, Goes
<1>3. PICK x \in Known : x = arg
  BY <1>1, <1>2 DEF FailInv
<1>4. x \in Id /\ HASH_ID(x) \in Slots
  BY <1>1, HashType DEF TableTypes, Id
<1>5. slot[HASH_ID(x)].type = "INVALID"
  BY <1>2, <1>3 DEF Reclaims
<1>6. slot' = slot
  <2>1. /\ slot' = [slot EXCEPT ![HASH_ID(x)].type = "INVALID"]
        /\ slot = [j \in Slots |-> slot[j]]
        /\ IsSocket(slot[HASH_ID(x)])
    BY <1>1, <1>3, <1>4 DEF OpenFailed, Clobber, TableTypes
  <2>2. [slot[HASH_ID(x)] EXCEPT !.type = "INVALID"] = slot[HASH_ID(x)]
    BY <1>5, <2>1 DEF IsSocket
  <2>3. QED
    BY <2>1, <2>2
<1>7. /\ ~Waiting(x) /\ ~Holds(x) /\ how[x] \in {"O", "U"}
      /\ IF how[x] = "O" THEN told' = told \cup {x} ELSE told' = told
  BY <1>1, <1>2, <1>3, <1>5 DEF FailInv, Holds, Open
<1>8. /\ Known' = Known /\ how' = how
      /\ \A id : Holds(id)' <=> Holds(id)
      /\ \A id : Waiting(id)' <=> Waiting(id)
      /\ \A id : Reserved(id)' <=> Reserved(id)
      /\ \A id : ~Failing(id)'
      /\ \A id : Failing(id) <=> id = x
  BY <1>2, <1>3, <1>6 DEF Known, Holds, Waiting, Reserved, Failing
<1>9. TableTypes'
  <2>1. told' \subseteq Known'
    BY <1>1, <1>7, <1>8 DEF TableTypes
  <2>2. QED
    BY <1>1, <1>2, <1>6, <1>8, <2>1 DEF TableTypes
<1>10. PipeInv' /\ ReqInv'
  BY <1>1, <1>2, <1>8 DEF PipeInv, ReqInv
<1>11. ClaimInv'
  BY <1>1, <1>6, <1>8, ClaimsKept DEF ClaimInv
<1>12. OpenInv'
  BY <1>1, <1>6, <1>8 DEF OpenInv
<1>13. FailInv'
  BY <1>2 DEF FailInv
<1>14. ToldInv'
  BY <1>1, <1>7, <1>8 DEF ToldInv
<1>15. FdInv'
  BY <1>1, <1>2, <1>8 DEF FdInv
<1>16. QED
  BY <1>9, <1>10, <1>11, <1>12, <1>13, <1>14, <1>15 DEF Owned

-----------------------------------------------------------------------------
(* Worker threads.                                                         *)

(* A command of a service, for an id it was given.                         *)
LEMMA SendStep ==
  ASSUME Owned, NEW c \in {"D", "P", "S", "K"}, NEW id \in Known, NEW x \in Nat,
         SendRequest(c, id, x), pc # "abort"
  PROVE  Owned'
<1>1. TableTypes /\ PipeInv /\ ReqInv /\ ClaimInv /\ OpenInv /\ FailInv /\ ToldInv /\ FdInv
  BY DEF Owned
<1>2. /\ pipe' = Append(pipe, [c |-> c, id |-> id, x |-> x])
      /\ UNCHANGED <<slot, alloc, req, pc, ev, arg, fds, how, told>>
  BY DEF SendRequest
<1>3. Known' = Known
  BY <1>2 DEF Known
<1>4. PICK e \in Commands : e = [c |-> c, id |-> id, x |-> x]
  BY <1>1 DEF Commands, TableTypes
<1>5. e.c \notin Opening /\ e.id \in Known' /\ pipe' = Append(pipe, e)
  BY <1>2, <1>3, <1>4 DEF Opening
<1>6. PipeInv' /\ \A jd : Waiting(jd)' <=> Waiting(jd) \/ (e.c \in Opening /\ jd = e.id)
  BY <1>1, <1>2, <1>3, <1>5, Appended
<1>7. \A jd : Waiting(jd)' <=> Waiting(jd)
  BY <1>5, <1>6
<1>8. /\ \A jd : Holds(jd)' <=> Holds(jd)
      /\ \A jd : Reserved(jd)' <=> Reserved(jd)
      /\ \A jd : Failing(jd)' <=> Failing(jd)
  BY <1>2 DEF Holds, Reserved, Failing
<1>9. TableTypes' /\ ReqInv' /\ OpenInv'
  BY <1>1, <1>2, <1>3 DEF TableTypes, ReqInv, OpenInv
<1>10. ClaimInv'
  BY <1>1, <1>2, <1>7, <1>8, ClaimsKept DEF ClaimInv
<1>11. FailInv'
  <2>1. Waiting(arg)' <=> Waiting(arg)
    <3>1. PICK a : a = arg
      OBVIOUS
    <3>2. Waiting(a)' <=> Waiting(a)
      BY <1>7
    <3>3. QED
      BY <1>2, <3>1, <3>2 DEF Waiting
  <2>2. QED
    BY <1>1, <1>2, <1>3, <2>1 DEF FailInv
<1>12. ToldInv' /\ FdInv'
  BY <1>1, <1>2, <1>3, <1>7, <1>8 DEF ToldInv, FdInv
<1>13. QED
  BY <1>6, <1>9, <1>10, <1>11, <1>12 DEF Owned

(* reserve_id: a free slot is taken for a new id.                          *)
LEMMA ReserveStep ==
  ASSUME Owned, NEW w \in Worker, NEW kind \in Opening, reserve_id(w, kind)
  PROVE  Owned'
<1>1. TableTypes /\ PipeInv /\ ReqInv /\ ClaimInv /\ OpenInv /\ FailInv /\ ToldInv /\ FdInv
  BY DEF Owned
<1>2. PICK x \in Id : x = Min(Tried) /\ x > alloc /\ slot[HASH_ID(x)].type = "INVALID"
  <2>1. alloc \in Nat /\ Tried # {} /\ Min(Tried) <= MaxId
    BY <1>1 DEF TableTypes, reserve_id
  <2>2. /\ Min(Tried) \in Nat /\ Min(Tried) > alloc
        /\ slot[HASH_ID(Min(Tried))].type = "INVALID"
    BY <2>1, TriedLeast
  <2>3. MaxId \in Nat
    BY SocketServerAssumption
  <2>4. Min(Tried) \in Id
    BY <2>1, <2>2, <2>3 DEF Id
  <2>5. QED
    BY <2>2, <2>4
<1>3. PICK i \in Slots : i = HASH_ID(x)
  BY HashType DEF Id
<1>4. PICK r : r = <<kind, x>>
  OBVIOUS
<1>5. r \in Opening \X Id /\ r # <<>> /\ r[1] = kind /\ r[2] = x
  BY <1>4
<1>6. PICK s : s = [slot[i] EXCEPT !.type = "RESERVE"]
  OBVIOUS
<1>7. /\ req[w] = <<>> /\ alloc' = x /\ req' = [req EXCEPT ![w] = r]
      /\ slot' = [slot EXCEPT ![i] = s]
      /\ fds' = IF kind \in {"L", "U"} THEN fds \cup {x} ELSE fds
      /\ UNCHANGED <<pipe, pc, ev, arg, how, told>>
  BY <1>2, <1>3, <1>4, <1>6 DEF reserve_id
<1>8. IsSocket(s) /\ s.type = "RESERVE" /\ s.type \in Types /\ s.type \notin Open
  BY <1>1, <1>6 DEF TableTypes, IsSocket, Types, Open
<1>9. SocketOK(how', i, s)
  BY <1>8 DEF SocketOK
<1>10. Known' = Known /\ \A id \in Known : how'[id] = how[id]
  BY <1>7 DEF Known
<1>11. /\ OpenInv'
       /\ slot' = [j \in Slots |-> slot'[j]]
       /\ \A j \in Slots : IsSocket(slot'[j]) /\ slot'[j].type \in Types
       /\ \A j \in Slots : slot'[j] = IF j = i THEN s ELSE slot[j]
       /\ \A id \in Id : Holds(id)' <=> IF HASH_ID(id) = i THEN s.id = id /\ s.type \in Open
                                        ELSE Holds(id)
  BY <1>1, <1>7, <1>8, <1>9, <1>10, SlotWritten
<1>12. \A id \in Id : Holds(id)' <=> Holds(id)
  BY <1>2, <1>3, <1>8, <1>11 DEF Holds, Open
<1>13. \A id \in Id : HASH_ID(id) \in Slots
  BY HashType DEF Id
<1>14. \A v \in Worker : req'[v] = IF v = w THEN r ELSE req[v]
  BY <1>1, <1>7 DEF ReqInv
<1>15. /\ \A id : Waiting(id)' <=> Waiting(id)
       /\ \A id : Failing(id)' <=> Failing(id)
  BY <1>7 DEF Waiting, Failing
<1>16. \A id : Reserved(id)' <=> Reserved(id) \/ id = x
  BY <1>5, <1>7, <1>14 DEF Reserved
<1>17. /\ x \notin Known /\ ~Reserved(x) /\ ~Waiting(x)
  <2>1. \A id \in Known : id \in Nat
    BY <1>1 DEF TableTypes, Id
  <2>2. x \notin Known
    BY <1>1, <1>2, <2>1 DEF ReqInv, TableTypes, Id
  <2>3. ~Waiting(x)
    BY <1>1, <2>2 DEF PipeInv, Waiting
  <2>4. \A v \in Worker : req[v] # <<>> => req[v][2] \in Nat /\ req[v][2] <= alloc
    BY <1>1 DEF ReqInv, Id
  <2>5. QED
    BY <1>1, <1>2, <2>2, <2>3, <2>4 DEF Reserved, TableTypes, Id
<1>18. TableTypes'
  <2>1. fds' \subseteq Id /\ alloc' \in Nat
    BY <1>1, <1>7 DEF TableTypes, Id
  <2>2. QED
    BY <1>1, <1>7, <1>10, <1>11, <2>1 DEF TableTypes
<1>19. PipeInv'
  BY <1>1, <1>7, <1>10 DEF PipeInv
<1>20. ReqInv'
  <2>1. req' \in [Worker -> {<<>>} \cup (Opening \X Id)]
    BY <1>1, <1>5, <1>7 DEF ReqInv
  <2>2. \A id \in Known' : id <= alloc'
    BY <1>1, <1>2, <1>7, <1>10 DEF ReqInv, TableTypes, Id
  <2>3. ASSUME NEW v \in Worker, req'[v] # <<>>
        PROVE  req'[v][2] \notin Known' /\ req'[v][2] <= alloc'
    <3>1. CASE v = w
      BY <1>5, <1>7, <1>10, <1>14, <1>17, <3>1 DEF Id
    <3>2. CASE v # w
      <4>1. req[v] # <<>> /\ req[v] = req'[v] /\ req[v][2] \in Nat
        BY <1>1, <1>14, <2>3, <3>2 DEF ReqInv, Id
      <4>2. QED
        BY <1>1, <1>2, <1>7, <1>10, <4>1 DEF ReqInv, TableTypes, Id
    <3>3. QED
      BY <3>1, <3>2
  <2>4. ASSUME NEW u \in Worker, NEW v \in Worker, u # v, req'[u] # <<>>, req'[v] # <<>>
        PROVE  req'[u][2] # req'[v][2]
    <3>1. CASE u = w
      BY <1>5, <1>14, <1>17, <2>4, <3>1 DEF Reserved
    <3>2. CASE v = w
      BY <1>5, <1>14, <1>17, <2>4, <3>2 DEF Reserved
    <3>3. CASE u # w /\ v # w
      BY <1>1, <1>14, <2>4, <3>3 DEF ReqInv
    <3>4. QED
      BY <3>1, <3>2, <3>3
  <2>5. QED
    BY <2>1, <2>2, <2>3, <2>4 DEF ReqInv
<1>21. ClaimInv'
  <2>1. \A id \in Id : Reserved(id) \/ Waiting(id) => HASH_ID(id) # i
    BY <1>1, <1>2, <1>3 DEF ClaimInv
  <2>2. ASSUME NEW id \in Id, Reserved(id)' \/ Waiting(id)'
        PROVE  slot'[HASH_ID(id)].type = "RESERVE"
    <3>1. CASE id = x
      BY <1>3, <1>8, <1>11, <3>1
    <3>2. CASE id # x
      BY <1>1, <1>11, <1>13, <1>15, <1>16, <2>1, <2>2, <3>2 DEF ClaimInv
    <3>3. QED
      BY <3>1, <3>2
  <2>3. ASSUME NEW id \in Id, NEW jd \in Id, Reserved(id)' \/ Waiting(id)',
               Reserved(jd)' \/ Waiting(jd)', HASH_ID(id) = HASH_ID(jd)
        PROVE  id = jd
    BY <1>1, <1>3, <1>15, <1>16, <2>1, <2>3 DEF ClaimInv
  <2>4. QED
    BY <2>2, <2>3 DEF ClaimInv
<1>22. FailInv'
  <2>1. ASSUME pc' = "fail"
        PROVE  /\ arg' \in Known' /\ how'[arg'] \in {"O", "U"} /\ ~Waiting(arg)
               /\ slot'[HASH_ID(arg')].type \notin Open
    <3>1. arg \in Known /\ how[arg] \in {"O", "U"} /\ ~Waiting(arg) /\ slot[HASH_ID(arg)].type \notin Open
      BY <1>1, <1>7, <2>1 DEF FailInv
    <3>2. HASH_ID(arg) \in Slots
      BY <1>1, <1>13, <3>1 DEF TableTypes
    <3>3. QED
      BY <1>7, <1>8, <1>10, <1>11, <3>1, <3>2
  <2>2. Waiting(arg)' <=> Waiting(arg)
    BY <1>7 DEF Waiting
  <2>3. QED
    BY <2>1, <2>2 DEF FailInv
<1>23. ToldInv'
  <2>1. \A id \in Known : id \in Id
    BY <1>1 DEF TableTypes
  <2>2. QED
    BY <1>1, <1>7, <1>10, <1>12, <1>15, <2>1 DEF ToldInv
<1>24. FdInv'
  <2>1. ASSUME NEW id \in Id, id # x
        PROVE  id \in fds' <=>
                 \/ id \in Known' /\ how'[id] # "B" /\ Holds(id)'
                 \/ id \in Known' /\ how'[id] \in {"L", "U"} /\ Waiting(id)'
                 \/ \E v \in Worker : req'[v] # <<>> /\ req'[v][2] = id /\ req'[v][1] \in {"L", "U"}
    <3>1. id \in fds' <=> id \in fds
      BY <1>7, <2>1
    <3>2. (\E v \in Worker : req'[v] # <<>> /\ req'[v][2] = id /\ req'[v][1] \in {"L", "U"})
          <=> (\E v \in Worker : req[v] # <<>> /\ req[v][2] = id /\ req[v][1] \in {"L", "U"})
      BY <1>5, <1>7, <1>14, <2>1
    <3>3. QED
      BY <1>1, <1>7, <1>10, <1>12, <1>15, <3>1, <3>2 DEF FdInv
  <2>2. x \in fds' <=> kind \in {"L", "U"}
    <3>1. x \notin fds
      BY <1>1, <1>17 DEF FdInv, Reserved
    <3>2. QED
      BY <1>7, <3>1
  <2>3. (\E v \in Worker : req'[v] # <<>> /\ req'[v][2] = x /\ req'[v][1] \in {"L", "U"})
        <=> kind \in {"L", "U"}
    BY <1>5, <1>14, <1>17 DEF Reserved
  <2>4. x \notin Known'
    BY <1>10, <1>17
  <2>5. QED
    BY <2>1, <2>2, <2>3, <2>4 DEF FdInv
<1>25. QED
  BY <1>11, <1>18, <1>19, <1>20, <1>21, <1>22, <1>23, <1>24 DEF Owned

(* The worker writes the id and sends the command.                         *)
LEMMA RequestStep ==
  ASSUME Owned, NEW w \in Worker, Requested(w)
  PROVE  Owned'
<1>1. TableTypes /\ PipeInv /\ ReqInv /\ ClaimInv /\ OpenInv /\ FailInv /\ ToldInv /\ FdInv
  BY DEF Owned
<1>2. req[w] # <<>> /\ req[w] \in Opening \X Id
  BY <1>1 DEF Requested, ReqInv
<1>3. PICK x \in Id : x = req[w][2]
  BY <1>2
<1>4. PICK k \in Opening : k = req[w][1]
  BY <1>2
<1>5. PICK i \in Slots : i = HASH_ID(x)
  BY HashType DEF Id
<1>6. PICK e \in Commands : e = [c |-> k, id |-> x, x |-> 0]
  BY DEF Commands
<1>7. PICK s : s = [slot[i] EXCEPT !.id = x]
  OBVIOUS
<1>8. /\ slot' = [slot EXCEPT ![i] = s] /\ pipe' = Append(pipe, e)
      /\ how' = [j \in Known \cup {x} |-> IF j = x THEN k ELSE how[j]]
      /\ req' = [req EXCEPT ![w] = <<>>]
      /\ UNCHANGED <<alloc, pc, ev, arg, fds, told>>
  BY <1>3, <1>4, <1>5, <1>6, <1>7 DEF Requested
<1>9. Reserved(x) /\ x \notin Known /\ x <= alloc /\ slot[i].type = "RESERVE"
  BY <1>1, <1>2, <1>3, <1>5 DEF ReqInv, ClaimInv, Reserved
<1>10. /\ Known' = Known \cup {x} /\ how'[x] = k
       /\ \A id \in Known : how'[id] = how[id]
  BY <1>8, <1>9 DEF Known
<1>11. IsSocket(s) /\ s.type = "RESERVE" /\ s.type \in Types /\ s.type \notin Open
  BY <1>1, <1>7, <1>9 DEF TableTypes, IsSocket, Types, Open
<1>12. SocketOK(how', i, s)
  BY <1>11 DEF SocketOK
<1>13. /\ OpenInv'
       /\ slot' = [j \in Slots |-> slot'[j]]
       /\ \A j \in Slots : IsSocket(slot'[j]) /\ slot'[j].type \in Types
       /\ \A j \in Slots : slot'[j] = IF j = i THEN s ELSE slot[j]
       /\ \A id \in Id : Holds(id)' <=> IF HASH_ID(id) = i THEN s.id = id /\ s.type \in Open
                                        ELSE Holds(id)
  BY <1>1, <1>8, <1>10, <1>11, <1>12, SlotWritten
<1>14. \A id \in Id : Holds(id)' <=> Holds(id)
  BY <1>9, <1>11, <1>13 DEF Holds, Open
<1>15. \A id \in Id : HASH_ID(id) \in Slots
  BY HashType DEF Id
<1>16. \A v \in Worker : req'[v] = IF v = w THEN <<>> ELSE req[v]
  BY <1>1, <1>8 DEF ReqInv
<1>17. PipeInv' /\ \A id : Waiting(id)' <=> Waiting(id) \/ id = x
  <2>1. e.c = k /\ e.id = x
    BY <1>6
  <2>2. PipeInv' /\ \A id : Waiting(id)' <=> Waiting(id) \/ (e.c \in Opening /\ id = e.id)
    BY <1>1, <1>8, <1>9, <1>10, <2>1, Appended
  <2>3. QED
    BY <2>1, <2>2
<1>18. \A v \in Worker : v # w /\ req[v] # <<>> => req[v][2] # x
  BY <1>1, <1>2, <1>3 DEF ReqInv
<1>19. \A id : Reserved(id)' <=> Reserved(id) /\ id # x
  BY <1>2, <1>3, <1>16, <1>18 DEF Reserved
<1>20. TableTypes'
  <2>1. told' \subseteq Known' /\ Known' \subseteq Id
    BY <1>1, <1>8, <1>10 DEF TableTypes
  <2>2. QED
    BY <1>1, <1>8, <1>13, <2>1 DEF TableTypes
<1>21. ReqInv'
  <2>1. req' \in [Worker -> {<<>>} \cup (Opening \X Id)]
    BY <1>1, <1>8 DEF ReqInv
  <2>2. \A id \in Known' : id <= alloc'
    BY <1>1, <1>8, <1>9, <1>10 DEF ReqInv
  <2>3. \A v \in Worker : req'[v] # <<>> => req'[v][2] \notin Known' /\ req'[v][2] <= alloc'
    BY <1>1, <1>8, <1>10, <1>16, <1>18 DEF ReqInv
  <2>4. \A u, v \in Worker : u # v /\ req'[u] # <<>> /\ req'[v] # <<>> => req'[u][2] # req'[v][2]
    BY <1>1, <1>16 DEF ReqInv
  <2>5. QED
    BY <2>1, <2>2, <2>3, <2>4 DEF ReqInv
<1>22. ClaimInv'
  <2>1. ASSUME NEW id \in Id, Reserved(id)' \/ Waiting(id)'
        PROVE  (Reserved(id) \/ Waiting(id)) /\ slot'[HASH_ID(id)].type = "RESERVE"
    <3>1. Reserved(id) \/ Waiting(id)
      BY <1>9, <1>17, <1>19, <2>1
    <3>2. slot[HASH_ID(id)].type = "RESERVE"
      BY <1>1, <3>1 DEF ClaimInv
    <3>3. QED
      BY <1>11, <1>13, <1>15, <3>1, <3>2
  <2>2. QED
    BY <1>1, <2>1, ClaimsKept
<1>23. FailInv'
  <2>1. ASSUME pc' = "fail"
        PROVE  /\ arg' \in Known' /\ how'[arg'] \in {"O", "U"} /\ ~Waiting(arg) /\ arg # x
               /\ slot'[HASH_ID(arg')].type \notin Open
    <3>1. arg \in Known /\ how[arg] \in {"O", "U"} /\ ~Waiting(arg) /\ slot[HASH_ID(arg)].type \notin Open
      BY <1>1, <1>8, <2>1 DEF FailInv
    <3>2. HASH_ID(arg) \in Slots
      BY <1>1, <1>15, <3>1 DEF TableTypes
    <3>3. QED
      BY <1>8, <1>9, <1>10, <1>11, <1>13, <3>1, <3>2
  <2>2. Waiting(arg)' <=> Waiting(arg) \/ arg = x
    <3>1. PICK a : a = arg
      OBVIOUS
    <3>2. Waiting(a)' <=> Waiting(a) \/ a = x
      BY <1>17
    <3>3. QED
      BY <1>8, <3>1, <3>2 DEF Waiting
  <2>3. QED
    BY <2>1, <2>2 DEF FailInv
<1>24. \A id : Failing(id)' <=> Failing(id)
  BY <1>8 DEF Failing
<1>25. ToldInv'
  <2>1. \A id \in Known : id \in Id /\ id # x
    BY <1>1, <1>9 DEF TableTypes
  <2>2. x \notin told' /\ Waiting(x)'
    BY <1>1, <1>8, <1>9, <1>17 DEF TableTypes
  <2>3. QED
    BY <1>1, <1>8, <1>10, <1>14, <1>17, <1>24, <2>1, <2>2 DEF ToldInv
<1>26. FdInv'
  <2>1. ASSUME NEW id \in Id, id # x
        PROVE  id \in fds' <=>
                 \/ id \in Known' /\ how'[id] # "B" /\ Holds(id)'
                 \/ id \in Known' /\ how'[id] \in {"L", "U"} /\ Waiting(id)'
                 \/ \E v \in Worker : req'[v] # <<>> /\ req'[v][2] = id /\ req'[v][1] \in {"L", "U"}
    <3>1. (\E v \in Worker : req'[v] # <<>> /\ req'[v][2] = id /\ req'[v][1] \in {"L", "U"})
          <=> (\E v \in Worker : req[v] # <<>> /\ req[v][2] = id /\ req[v][1] \in {"L", "U"})
      BY <1>2, <1>3, <1>16, <2>1
    <3>2. (id \in Known' <=> id \in Known) /\ (Waiting(id)' <=> Waiting(id))
      BY <1>10, <1>17, <2>1
    <3>3. QED
      BY <1>1, <1>8, <1>10, <1>14, <3>1, <3>2 DEF FdInv
  <2>2. x \in fds' <=> k \in {"L", "U"}
    <3>1. (\E v \in Worker : req[v] # <<>> /\ req[v][2] = x /\ req[v][1] \in {"L", "U"})
          <=> k \in {"L", "U"}
      BY <1>2, <1>3, <1>4, <1>18
    <3>2. QED
      BY <1>1, <1>8, <1>9, <3>1 DEF FdInv
  <2>3. ~Holds(x)' /\ Waiting(x)'
    BY <1>5, <1>11, <1>13, <1>17
  <2>4. ~\E v \in Worker : req'[v] # <<>> /\ req'[v][2] = x /\ req'[v][1] \in {"L", "U"}
    BY <1>16, <1>18
  <2>5. x \in Known' /\ how'[x] = k
    BY <1>10
  <2>6. QED
    BY <2>1, <2>2, <2>3, <2>4, <2>5 DEF FdInv
<1>27. QED
  BY <1>13, <1>17, <1>20, <1>21, <1>22, <1>23, <1>25, <1>26 DEF Owned

-----------------------------------------------------------------------------
(* The socket thread.                                                      *)

(* A listening socket accepts: a free slot becomes a socket at once.       *)
LEMMA AcceptStep ==
  ASSUME Owned, Tried # {}, Min(Tried) <= MaxId, alloc' = Min(Tried),
         slot' = [slot EXCEPT ![HASH_ID(Min(Tried))] = NewFd("PACCEPT", Min(Tried), "tcp", FALSE)],
         fds' = fds \cup {Min(Tried)},
         how' = [j \in Known \cup {Min(Tried)} |-> IF j = Min(Tried) THEN "accepted" ELSE how[j]],
         pc # "fail", pc' = "poll", ev' \in Seq(Events), UNCHANGED <<req, pipe, told>>
  PROVE  Owned'
<1>1. TableTypes /\ PipeInv /\ ReqInv /\ ClaimInv /\ OpenInv /\ FailInv /\ ToldInv /\ FdInv
  BY DEF Owned
<1>2. PICK x \in Id : x = Min(Tried) /\ x > alloc /\ slot[HASH_ID(x)].type = "INVALID"
  <2>1. /\ Min(Tried) \in Nat /\ Min(Tried) > alloc
        /\ slot[HASH_ID(Min(Tried))].type = "INVALID"
    BY <1>1, TriedLeast DEF TableTypes
  <2>2. MaxId \in Nat /\ alloc \in Nat
    BY <1>1, SocketServerAssumption DEF TableTypes
  <2>3. Min(Tried) \in Id
    BY <2>1, <2>2 DEF Id
  <2>4. QED
    BY <2>1, <2>3
<1>3. PICK i \in Slots : i = HASH_ID(x)
  BY HashType DEF Id
<1>4. PICK s : s = NewFd("PACCEPT", x, "tcp", FALSE)
  OBVIOUS
<1>5. /\ alloc' = x /\ slot' = [slot EXCEPT ![i] = s] /\ fds' = fds \cup {x}
      /\ how' = [j \in Known \cup {x} |-> IF j = x THEN "accepted" ELSE how[j]]
  BY <1>2, <1>3, <1>4
<1>6. /\ x \notin Known /\ ~Reserved(x) /\ ~Waiting(x)
  <2>1. \A id \in Known : id \in Nat
    BY <1>1 DEF TableTypes, Id
  <2>2. x \notin Known
    BY <1>1, <1>2, <2>1 DEF ReqInv, TableTypes, Id
  <2>3. ~Waiting(x)
    BY <1>1, <2>2 DEF PipeInv, Waiting
  <2>4. \A v \in Worker : req[v] # <<>> => req[v][2] \in Nat /\ req[v][2] <= alloc
    BY <1>1 DEF ReqInv, Id
  <2>5. QED
    BY <1>1, <1>2, <2>2, <2>3, <2>4 DEF Reserved, TableTypes, Id
<1>7. /\ Known' = Known \cup {x} /\ how'[x] = "accepted"
      /\ \A id \in Known : how'[id] = how[id]
  BY <1>5, <1>6 DEF Known
<1>8. /\ IsSocket(s) /\ s.type = "PACCEPT" /\ s.type \in Types /\ s.type \in Open
      /\ s.id = x /\ Empty(s)
  BY <1>4 DEF NewFd, IsSocket, Types, Open, Empty
<1>9. SocketOK(how', i, s)
  BY <1>3, <1>7, <1>8 DEF SocketOK, Known
<1>10. /\ OpenInv'
       /\ slot' = [j \in Slots |-> slot'[j]]
       /\ \A j \in Slots : IsSocket(slot'[j]) /\ slot'[j].type \in Types
       /\ \A j \in Slots : slot'[j] = IF j = i THEN s ELSE slot[j]
       /\ \A id \in Id : Holds(id)' <=> IF HASH_ID(id) = i THEN s.id = id /\ s.type \in Open
                                        ELSE Holds(id)
  BY <1>1, <1>5, <1>7, <1>8, <1>9, SlotWritten
<1>11. \A id \in Id : HASH_ID(id) = i => ~Holds(id)
  BY <1>2, <1>3 DEF Holds, Open
<1>12. \A id \in Id : Holds(id)' <=> Holds(id) \/ id = x
  BY <1>3, <1>8, <1>10, <1>11
<1>13. \A id \in Id : HASH_ID(id) \in Slots
  BY HashType DEF Id
<1>14. /\ \A id : Reserved(id)' <=> Reserved(id)
       /\ \A id : Waiting(id)' <=> Waiting(id)
  BY DEF Reserved, Waiting
<1>15. TableTypes'
  <2>1. told' \subseteq Known' /\ Known' \subseteq Id /\ fds' \subseteq Id /\ alloc' \in Nat
    BY <1>1, <1>5, <1>7 DEF TableTypes, Id
  <2>2. QED
    BY <1>1, <1>10, <2>1 DEF TableTypes
<1>16. PipeInv'
  BY <1>1, <1>7 DEF PipeInv
<1>17. ReqInv'
  <2>1. \A id \in Known' : id <= alloc'
    BY <1>1, <1>2, <1>5, <1>7 DEF ReqInv, TableTypes, Id
  <2>2. ASSUME NEW v \in Worker, req'[v] # <<>>
        PROVE  req'[v][2] \notin Known' /\ req'[v][2] <= alloc'
    <3>1. req[v] # <<>> /\ req[v] = req'[v] /\ req[v][2] \in Nat
      BY <1>1, <2>2 DEF ReqInv, Id
    <3>2. req[v][2] # x
      BY <1>6, <3>1 DEF Reserved
    <3>3. QED
      BY <1>1, <1>2, <1>5, <1>7, <3>1, <3>2 DEF ReqInv, TableTypes, Id
  <2>3. QED
    BY <1>1, <2>1, <2>2 DEF ReqInv
<1>18. ClaimInv'
  BY <1>1, <1>2, <1>3, <1>10, <1>13, <1>14, ClaimsKept DEF ClaimInv
<1>19. FailInv'
  BY DEF FailInv
<1>20. ToldInv'
  <2>1. \A id \in Known : id \in Id /\ id # x /\ ~Failing(id) /\ ~Failing(id)'
    BY <1>1, <1>6 DEF TableTypes, Failing
  <2>2. x \notin told' /\ Holds(x)'
    BY <1>1, <1>6, <1>12 DEF TableTypes
  <2>3. QED
    BY <1>1, <1>7, <1>12, <1>14, <2>1, <2>2 DEF ToldInv
<1>21. FdInv'
  <2>1. ASSUME NEW id \in Id, id # x
        PROVE  id \in fds' <=>
                 \/ id \in Known' /\ how'[id] # "B" /\ Holds(id)'
                 \/ id \in Known' /\ how'[id] \in {"L", "U"} /\ Waiting(id)'
                 \/ \E v \in Worker : req'[v] # <<>> /\ req'[v][2] = id /\ req'[v][1] \in {"L", "U"}
    <3>1. (id \in fds' <=> id \in fds) /\ (id \in Known' <=> id \in Known) /\ (Holds(id)' <=> Holds(id))
      BY <1>5, <1>7, <1>12, <2>1
    <3>2. QED
      BY <1>1, <1>7, <1>14, <3>1 DEF FdInv
  <2>2. x \in fds' /\ Holds(x)' /\ x \in Known' /\ how'[x] = "accepted"
    BY <1>5, <1>7, <1>12
  <2>3. QED
    BY <2>1, <2>2, ZenonT(60) DEF FdInv
<1>22. QED
  BY <1>10, <1>15, <1>16, <1>17, <1>18, <1>19, <1>20, <1>21 DEF Owned

(* A failed assertion leaves the sockets as they are.                      *)
LEMMA AbortStep ==
  ASSUME OpenInv, Abort, UNCHANGED how
  PROVE  OpenInv' /\ pc' = "abort"
  BY DEF Abort, OpenInv

(* What holds when the socket thread takes a command that does not open.   *)
LEMMA TakesOther ==
  ASSUME Owned, NEW c \in {"D", "P", "S", "K"}, Cmd(c), pc' \in {"poll", "clear"}
  PROVE  /\ Steady /\ cid \in Known /\ cid \in Id /\ cs \in Slots /\ ~Waiting(cid)
         /\ Stale => ~Holds(cid)
<1>1. TableTypes /\ PipeInv
  BY DEF Owned
<1>2. /\ pc = "poll" /\ pipe # <<>> /\ Head(pipe).c = c /\ pipe' = Tail(pipe)
      /\ UNCHANGED <<req, alloc, how, ev>>
  BY DEF Cmd
<1>3. c \notin Opening
  BY DEF Opening
<1>4. PipeInv' /\ cid \in Known /\ ~Waiting(cid) /\ \A id : Waiting(id)' <=> Waiting(id)
  BY <1>1, <1>2, <1>3, Popped DEF cid
<1>5. cid \in Id /\ cs \in Slots
  BY <1>1, <1>4, HashType DEF TableTypes, Id, cs
<1>6. Stale => ~Holds(cid)
  BY DEF Stale, Holds, cs, Open
<1>7. Steady
  BY <1>1, <1>2, <1>4 DEF Steady, TableTypes
<1>8. QED
  BY <1>4, <1>5, <1>6, <1>7

(* What holds when the socket thread takes an event.                       *)
LEMMA TakesEvent ==
  ASSUME Owned, NEW types, At(types)
  PROVE  /\ es \in Slots /\ slot[es].type \in types /\ pc \in {"poll", "event"}
         /\ Tail(ev) \in Seq(Events)
         /\ [ev EXCEPT ![1].r = FALSE] \in Seq(Events)
         /\ UNCHANGED pipe
         /\ UNCHANGED <<req, alloc, how>> /\ pc' = "poll" /\ ev' \in Seq(Events) => Steady
<1>1. TableTypes /\ PipeInv
  BY DEF Owned
<1>2. /\ ev # <<>> /\ pc \in {"poll", "event"} /\ slot[es].type \in types /\ UNCHANGED pipe
  BY DEF At, NoCommand, es
<1>3. ev \in Seq(Events)
  BY <1>1 DEF TableTypes
<1>4. Head(ev) = ev[1] /\ ev[1] \in Events /\ Tail(ev) \in Seq(Events)
  BY <1>2, <1>3
<1>5. es \in Slots
  BY <1>4 DEF es, Events
<1>6. [ev EXCEPT ![1].r = FALSE] \in Seq(Events)
  <2>1. [ev[1] EXCEPT !.r = FALSE] \in Events
    BY <1>4 DEF Events
  <2>2. PICK e \in Events : e = [ev[1] EXCEPT !.r = FALSE]
    BY <2>1
  <2>3. [ev EXCEPT ![1] = e] \in Seq(Events)
    BY <1>2, <1>3, ExceptSeq
  <2>4. QED
    BY <2>2, <2>3
<1>7. ASSUME UNCHANGED <<req, alloc, how>>, pc' = "poll", ev' \in Seq(Events)
      PROVE  Steady
  <2>1. \A id : Waiting(id)' <=> Waiting(id)
    BY <1>2 DEF Waiting
  <2>2. PipeInv'
    BY <1>1, <1>2, <1>7 DEF PipeInv, Known
  <2>3. QED
    BY <1>2, <1>7, <2>1, <2>2 DEF Steady
<1>8. QED
  BY <1>2, <1>4, <1>5, <1>6, <1>7

(* sp_wait: the events of a batch are of different slots, so it is finite. *)
LEMMA BatchType == ASSUME sp_wait PROVE ev' \in Seq(Events)
<1>1. PICK batch \in SUBSET Signalled :
        /\ \A d, e \in batch : d # e => d.s # e.s
        /\ ev' \in SetToSeqs(batch)
  BY DEF sp_wait
<1>2. batch \subseteq Events
  BY DEF Signalled, Event, Events
<1>3. IsFiniteSet(batch)
  <2>1. IsFiniteSet(Slots)
    <3>1. 0 \in Int /\ NSlot - 1 \in Int
      BY SocketServerAssumption
    <3>2. QED
      BY <3>1, FS_Interval DEF Slots
  <2>2. PICK f : f = [e \in batch |-> e.s]
    OBVIOUS
  <2>3. f \in Injection(batch, Slots)
    BY <1>1, <1>2, <2>2 DEF Injection, IsInjective, Events
  <2>4. QED
    BY <2>1, <2>3, FS_Injection
<1>4. Cardinality(batch) \in Nat
  BY <1>3, FS_CardinalityType
<1>5. ev' \in [1..Cardinality(batch) -> Events]
  BY <1>1, <1>2 DEF SetToSeqs
<1>6. QED
  BY <1>4, <1>5

LEMMA WaitStep == ASSUME Owned, sp_wait PROVE Owned'
<1>1. TableTypes /\ PipeInv
  BY DEF Owned
<1>2. ev' \in Seq(Events)
  BY BatchType
<1>3. pc = "poll" /\ pc' \in {"poll", "event"} /\ UNCHANGED <<slot, alloc, req, pipe, fds, how, told>>
  BY DEF sp_wait, NoCommand
<1>4. Steady
  <2>1. \A id : Waiting(id)' <=> Waiting(id)
    BY <1>3 DEF Waiting
  <2>2. PipeInv'
    BY <1>1, <1>3 DEF PipeInv, Known
  <2>3. QED
    BY <1>2, <1>3, <2>1, <2>2 DEF Steady
<1>5. QED
  BY <1>3, <1>4, IdleStep

(* clear_closed_event drops one of the events.                             *)
LEMMA ClearedType == ASSUME ev \in Seq(Events) PROVE Cleared \in Seq(Events)
<1>1. Len(ev) \in Nat /\ DOMAIN ev = 1..Len(ev)
  OBVIOUS
<1> DEFINE gone == {n \in DOMAIN ev : slot[ev[n].s].type = "INVALID" /\ slot[ev[n].s].id = arg}
<1>2. CASE gone = {}
  BY <1>2 DEF Cleared
<1>3. CASE gone # {}
  <2>1. gone \in SUBSET Nat /\ gone \subseteq 1..Len(ev)
    BY <1>1
  <2> HIDE DEF gone
  <2>2. PICK n \in 1..Len(ev) : n = Min(gone)
    BY <1>3, <2>1, LeastNat
  <2>3. SubSeq(ev, 1, n - 1) \in Seq(Events) /\ SubSeq(ev, n + 1, Len(ev)) \in Seq(Events)
    BY <1>1
  <2>4. Cleared = SubSeq(ev, 1, n - 1) \o SubSeq(ev, n + 1, Len(ev))
    BY <1>3, <2>2 DEF Cleared, RemoveAt, gone
  <2>5. QED
    BY <2>3, <2>4
<1>4. QED
  BY <1>2, <1>3

LEMMA ClearStep == ASSUME Owned, clear_closed_event PROVE Owned'
<1>1. TableTypes /\ PipeInv
  BY DEF Owned
<1>2. /\ pc = "clear" /\ ev' = Cleared /\ pc' = "poll"
      /\ UNCHANGED <<slot, alloc, req, pipe, fds, how, told>>
  BY DEF clear_closed_event, Goes
<1>3. Cleared \in Seq(Events)
  BY <1>1, ClearedType DEF TableTypes
<1>4. Steady
  <2>1. \A id : Waiting(id)' <=> Waiting(id)
    BY <1>2 DEF Waiting
  <2>2. PipeInv'
    BY <1>1, <1>2 DEF PipeInv, Known
  <2>3. QED
    BY <1>2, <1>3, <2>1, <2>2 DEF Steady
<1>5. QED
  BY <1>2, <1>4, IdleStep

(* A socket that is gone is reported, perhaps again.                       *)
LEMMA GoneStep ==
  ASSUME Owned, NEW c \in {"S", "K"}, Cmd(c), Stale, Tell(cid), Ended(cid), UNCHANGED <<slot, fds>>
  PROVE  Owned'
<1>1. pc' \in {"poll", "clear"}
  BY DEF Ended
<1>2. Steady /\ cid \in Known /\ ~Waiting(cid) /\ ~Holds(cid)
  BY <1>1, TakesOther
<1>3. PICK gone \in SUBSET Known : gone = {cid}
  BY <1>2
<1>4. told' = told \cup gone /\ \A id \in gone : ~Holds(id) /\ ~Waiting(id)
  BY <1>2, <1>3 DEF Tell
<1>5. QED
  BY <1>2, <1>4, SameStep

LEMMA OpenSocketStep ==
  ASSUME Owned, open_socket
  PROVE  Owned' \/ (OpenInv' /\ pc' = "abort")
<1>1. Cmd("O") /\ "O" \in Opening /\ how' = how
  BY DEF open_socket, Opening, Cmd
<1>2. CASE Clobber(cs) /\ Tell(cid) /\ Ended(cid) /\ UNCHANGED fds
  <2>1. pc' \in {"poll", "clear"} /\ told' = told \cup {cid}
    BY <1>2 DEF Ended, Tell
  <2>2. QED
    BY <1>1, <1>2, <2>1, GivenBackStep
<1>3. CASE SpAddFails /\ pc' = "fail" /\ arg' = cid /\ UNCHANGED <<told, fds>>
  BY <1>1, <1>3, GivenBackStep DEF SpAddFails
<1>4. CASE NewFdOk /\ Opened("CONNECTED", "tcp", FALSE) /\ Goes /\ UNCHANGED told /\ fds' = fds \cup {cid}
  <2>1. "CONNECTED" \in Open
    BY DEF Open
  <2>2. QED
    BY <1>1, <1>4, <2>1, OpenedStep DEF Goes
<1>5. CASE NewFdOk /\ Opened("CONNECTING", "tcp", TRUE) /\ Goes /\ fds' = fds \cup {cid} /\ UNCHANGED told
  <2>1. "CONNECTING" \in Open
    BY DEF Open
  <2>2. QED
    BY <1>1, <1>5, <2>1, OpenedStep DEF Goes
<1>6. CASE Abort
  BY <1>1, <1>6, AbortStep DEF Owned
<1>7. QED
  BY <1>2, <1>3, <1>4, <1>5, <1>6 DEF open_socket

LEMMA UdpSocketStep ==
  ASSUME Owned, add_udp_socket
  PROVE  Owned' \/ (OpenInv' /\ pc' = "abort")
<1>1. Cmd("U") /\ "U" \in Opening /\ how' = how /\ UNCHANGED told
  BY DEF add_udp_socket, Opening, Cmd
<1>2. CASE SpAddFails /\ pc' = "fail" /\ arg' = cid /\ fds' = fds \ {cid}
  BY <1>1, <1>2, GivenBackStep DEF SpAddFails
<1>3. CASE NewFdOk /\ Opened("CONNECTED", "udp", FALSE) /\ Goes /\ UNCHANGED fds
  <2>1. "CONNECTED" \in Open
    BY DEF Open
  <2>2. QED
    BY <1>1, <1>3, <2>1, OpenedStep DEF Goes
<1>4. CASE Abort
  BY <1>1, <1>4, AbortStep DEF Owned
<1>5. QED
  BY <1>2, <1>3, <1>4 DEF add_udp_socket

LEMMA ListenSocketStep ==
  ASSUME Owned, listen_socket
  PROVE  Owned' \/ (OpenInv' /\ pc' = "abort")
<1>1. Cmd("L") /\ "L" \in Opening /\ how' = how /\ UNCHANGED <<told, fds>>
  BY DEF listen_socket, Opening, Cmd
<1>2. CASE NewFdOk /\ Opened("PLISTEN", "tcp", FALSE) /\ Goes
  <2>1. "PLISTEN" \in Open
    BY DEF Open
  <2>2. QED
    BY <1>1, <1>2, <2>1, OpenedStep DEF Goes
<1>3. CASE Abort
  BY <1>1, <1>3, AbortStep DEF Owned
<1>4. QED
  BY <1>2, <1>3 DEF listen_socket

LEMMA BindSocketStep ==
  ASSUME Owned, bind_socket
  PROVE  Owned' \/ (OpenInv' /\ pc' = "abort")
<1>1. Cmd("B") /\ "B" \in Opening /\ how' = how /\ UNCHANGED fds
  BY DEF bind_socket, Opening, Cmd
<1>2. CASE SpAddFails /\ Tell(cid) /\ Ended(cid)
  <2>1. pc' \in {"poll", "clear"} /\ told' = told \cup {cid} /\ Clobber(cs)
    BY <1>2 DEF Ended, Tell, SpAddFails
  <2>2. QED
    BY <1>1, <2>1, GivenBackStep
<1>3. CASE NewFdOk /\ Opened("BIND", "tcp", FALSE) /\ Goes /\ UNCHANGED told
  <2>1. "BIND" \in Open
    BY DEF Open
  <2>2. QED
    BY <1>1, <1>3, <2>1, OpenedStep DEF Goes
<1>4. CASE Abort
  BY <1>1, <1>4, AbortStep DEF Owned
<1>5. QED
  BY <1>2, <1>3, <1>4 DEF bind_socket

LEMMA StartSocketStep ==
  ASSUME Owned, start_socket
  PROVE  Owned'
<1>1. Cmd("S") /\ "S" \in {"S", "K"} /\ "S" \in {"D", "P", "S", "K"}
  BY DEF start_socket
<1>2. CASE Stale /\ Tell(cid) /\ Ended(cid) /\ UNCHANGED <<slot, fds, wire>>
  BY <1>1, <1>2, GoneStep
<1>3. CASE ~Stale /\ slot[cs].type \in {"PACCEPT", "PLISTEN"} /\ force_close(cs) /\ Ended(cid)
  <2>1. pc' \in {"poll", "clear"}
    BY <1>3 DEF Ended
  <2>2. Steady /\ cs \in Slots
    BY <1>1, <2>1, TakesOther
  <2>3. slot[cs].type \in Open
    BY <1>3 DEF Open
  <2>4. PICK i \in Slots : i = cs
    BY <2>2
  <2>5. force_close(i) /\ slot[i].type \in Open
    BY <1>3, <2>3, <2>4 DEF force_close, Invalid, Freed, Tell
  <2>6. QED
    BY <2>2, <2>5, CloseStep
<1>4. CASE /\ ~Stale /\ slot[cs].type \in {"PACCEPT", "PLISTEN"} /\ Goes /\ UNCHANGED <<told, fds, wire>>
           /\ slot' = [slot EXCEPT ![cs].type = IF slot[cs].type = "PACCEPT" THEN "CONNECTED" ELSE "LISTEN"]
  <2>1. Steady /\ cs \in Slots
    BY <1>1, <1>4, TakesOther DEF Goes
  <2>2. PICK i \in Slots : i = cs
    BY <2>1
  <2>3. PICK t : t = IF slot[i].type = "PACCEPT" THEN "CONNECTED" ELSE "LISTEN"
    OBVIOUS
  <2>4. PICK s : s = [slot[i] EXCEPT !.type = t]
    OBVIOUS
  <2>5. slot' = [slot EXCEPT ![i] = s]
    BY <1>4, <2>2, <2>3, <2>4
  <2>6. IsSocket(slot[i]) /\ SocketOK(how, i, slot[i])
    BY DEF Owned, TableTypes, OpenInv
  <2>7. /\ IsSocket(s) /\ s.type = t /\ s.id = slot[i].id /\ s.high = slot[i].high
        /\ s.low = slot[i].low /\ s.wr = slot[i].wr
    BY <2>4, <2>6 DEF IsSocket
  <2>8. slot[i].type \in {"PACCEPT", "PLISTEN"} /\ slot[i].type \in Open
    BY <1>4, <2>2 DEF Open
  <2>9. /\ t \in {"CONNECTED", "LISTEN"} /\ t \in Open /\ t \in Types
        /\ t = "LISTEN" => slot[i].type = "PLISTEN"
    BY <2>3, <2>8 DEF Open, Types
  <2>10. SocketOK(how, i, s)
    BY <2>6, <2>7, <2>8, <2>9 DEF SocketOK, Empty
  <2>11. QED
    BY <1>4, <2>1, <2>5, <2>7, <2>8, <2>9, <2>10, KeepStep
<1>5. CASE Goes /\ UNCHANGED <<slot, fds, told, wire>>
  BY <1>1, <1>5, TakesOther, IdleStep DEF Goes
<1>6. QED
  BY <1>2, <1>3, <1>4, <1>5 DEF start_socket

(* What send_buffer leaves of an open socket, and of one to be closed.     *)
LEMMA SendBufferOK ==
  ASSUME Owned, NEW i \in Slots, NEW o \in send_buffer(slot[i])
  PROVE  /\ o.end \in {"abort", "closed", "open"}
         /\ o.end = "open" =>
              /\ IsSocket(o.s) /\ o.s.type = slot[i].type /\ o.s.id = slot[i].id
              /\ ~Empty(o.s) \/ slot[i].type # "CONNECTING" => SocketOK(how, i, o.s)
<1>1. IsSocket(slot[i]) /\ SocketOK(how, i, slot[i])
  BY DEF Owned, TableTypes, OpenInv
<1>2. PICK s : s = slot[i]
  OBVIOUS
<1>3. IsSocket(s) /\ SocketOK(how, i, s) /\ o \in send_buffer(s)
  BY <1>1, <1>2
<1>4. /\ o.end \in {"abort", "closed", "open"}
      /\ o.end = "open" => /\ IsSocket(o.s) /\ o.s.type = s.type /\ o.s.id = s.id
                           /\ ~Empty(o.s) => ~Empty(s) /\ o.s.wr = s.wr
  BY <1>3, SendBufferKeeps
<1>5. QED
  BY <1>2, <1>3, <1>4 DEF SocketOK

LEMMA CloseSocketStep ==
  ASSUME Owned, close_socket
  PROVE  Owned' \/ (OpenInv' /\ pc' = "abort")
<1>1. Cmd("K") /\ "K" \in {"S", "K"} /\ "K" \in {"D", "P", "S", "K"} /\ how' = how
  BY DEF close_socket, Cmd
<1>2. CASE Stale /\ Tell(cid) /\ Ended(cid) /\ UNCHANGED <<slot, fds, wire>>
  BY <1>1, <1>2, GoneStep
<1>3. CASE Abort
  BY <1>1, <1>3, AbortStep DEF Owned
<1>4. cs \in Slots
  <2>1. TableTypes /\ PipeInv /\ pipe # <<>> /\ Head(pipe) = pipe[1] /\ 1 \in DOMAIN pipe
    BY <1>1 DEF Owned, Cmd, PipeInv
  <2>2. cid \in Nat
    BY <2>1 DEF PipeInv, TableTypes, cid, Id
  <2>3. QED
    BY <2>2, HashType DEF cs
<1>5. PICK i \in Slots : i = cs
  BY <1>4
<1>6. ~Stale /\ slot[cs].type # "RESERVE" => slot[i].type \in Open
  BY <1>5 DEF Owned, TableTypes, Types, Stale
<1>7. ASSUME ~Stale, slot[cs].type # "RESERVE", force_close(cs), Ended(cid)
      PROVE  Owned'
  <2>1. pc' \in {"poll", "clear"}
    BY <1>7 DEF Ended
  <2>2. Steady
    BY <1>1, <2>1, TakesOther
  <2>3. force_close(i) /\ slot[i].type \in Open
    BY <1>5, <1>6, <1>7 DEF force_close, Invalid, Freed, Tell
  <2>4. QED
    BY <2>2, <2>3, CloseStep
<1>8. ASSUME ~Stale, slot[cs].type # "RESERVE", ~Empty(slot[cs]), NEW o \in send_buffer(slot[cs]),
             o.end = "open", CloseOrWait(o.s, o.units)
      PROVE  Owned'
  <2>1. CASE Head(pipe).x = 1 \/ Empty(o.s)
    BY <1>7, <1>8, <2>1 DEF CloseOrWait
  <2>2. CASE ~(Head(pipe).x = 1 \/ Empty(o.s))
    <3>1. PICK s : s = [o.s EXCEPT !.type = "HALFCLOSE"]
      OBVIOUS
    <3>2. slot' = [slot EXCEPT ![i] = s] /\ pc' = "poll" /\ UNCHANGED <<told, fds>>
      BY <1>5, <1>8, <2>2, <3>1 DEF CloseOrWait, Goes
    <3>3. Steady
      BY <1>1, <3>2, TakesOther
    <3>4. /\ IsSocket(o.s) /\ o.s.type = slot[i].type /\ o.s.id = slot[i].id
          /\ SocketOK(how, i, o.s)
      BY <1>5, <1>8, <2>2, SendBufferOK
    <3>5. /\ IsSocket(s) /\ s.type = "HALFCLOSE" /\ s.id = o.s.id /\ s.wr = o.s.wr
          /\ s.high = o.s.high /\ s.low = o.s.low
      BY <3>1, <3>4 DEF IsSocket
    <3>6. slot[i].type \in Open /\ "HALFCLOSE" \in Open /\ "HALFCLOSE" \in Types
      BY <1>6, <1>8 DEF Open, Types
    <3>7. SocketOK(how, i, s)
      BY <3>4, <3>5, <3>6 DEF SocketOK, Empty
    <3>8. QED
      BY <3>2, <3>3, <3>4, <3>5, <3>6, <3>7, KeepStep DEF Open
  <2>3. QED
    BY <2>1, <2>2
<1>9. CASE /\ ~Stale /\ slot[cs].type # "RESERVE" /\ ~Empty(slot[cs])
           /\ \E o \in send_buffer(slot[cs]) :
                CASE o.end = "abort"  -> Abort
                  [] o.end = "closed" -> force_close(cs) /\ Ended(cid)
                  [] o.end = "open"   -> CloseOrWait(o.s, o.units)
  <2>1. PICK o \in send_buffer(slot[cs]) :
          CASE o.end = "abort"  -> Abort
            [] o.end = "closed" -> force_close(cs) /\ Ended(cid)
            [] o.end = "open"   -> CloseOrWait(o.s, o.units)
    BY <1>9
  <2>2. o.end \in {"abort", "closed", "open"}
    BY <1>5, SendBufferOK
  <2>3. CASE o.end = "abort"
    BY <1>3, <2>1, <2>3
  <2>4. CASE o.end = "closed"
    BY <1>7, <1>9, <2>1, <2>4
  <2>5. CASE o.end = "open"
    BY <1>8, <1>9, <2>1, <2>5
  <2>6. QED
    BY <2>2, <2>3, <2>4, <2>5
<1>10. QED
  BY <1>2, <1>3, <1>7, <1>9 DEF close_socket

(* What is appended to the lists leaves the rest of the socket.            *)
LEMMA BufferedKeeps ==
  ASSUME NEW s, IsSocket(s), NEW k, NEW low \in BOOLEAN
  PROVE  LET t == Buffered(s, k, low) IN
         IsSocket(t) /\ t.type = s.type /\ t.id = s.id /\ t.proto = s.proto /\ t.wr = s.wr
<1>1. PICK b : b = s.wb + Size - k
  OBVIOUS
<1>2. PICK u : u = Drop(Units(pkt), k)
  OBVIOUS
<1>3. \/ Buffered(s, k, low) = [s EXCEPT !.low = s.low \o u, !.wb = b]
      \/ Buffered(s, k, low) = [s EXCEPT !.high = s.high \o u, !.wb = b]
  BY <1>1, <1>2 DEF Buffered
<1>4. QED
  BY <1>3 DEF IsSocket

(* A packet is appended to the lists of a socket, whose write event is     *)
(* asked for unless it has been, or is never for this kind.                *)
LEMMA BufferStep ==
  ASSUME Owned, Steady, UNCHANGED <<told, fds>>, NEW i \in Slots, NEW k, NEW low \in BOOLEAN,
         slot[i].type \in {"CONNECTING", "CONNECTED", "BIND", "RESERVE"},
         NEW s, slot' = [slot EXCEPT ![i] = s],
         \/ s = Armed(Buffered(slot[i], k, low))
         \/ s = Buffered(slot[i], k, low) /\ ~Direct(slot[i])
  PROVE  Owned'
<1>1. IsSocket(slot[i]) /\ SocketOK(how, i, slot[i])
  BY DEF Owned, TableTypes, OpenInv
<1>2. PICK t : t = slot[i]
  OBVIOUS
<1>3. PICK b : b = Buffered(t, k, low)
  OBVIOUS
<1>4. IsSocket(b) /\ b.type = t.type /\ b.id = t.id /\ b.proto = t.proto /\ b.wr = t.wr
  BY <1>1, <1>2, <1>3, BufferedKeeps
<1>5. /\ IsSocket(s) /\ s.type = t.type /\ s.id = t.id
      /\ (s.wr /\ s.wr = TRUE) \/ (s.wr = t.wr /\ ~Direct(t))
  <2>1. CASE s = Armed(b)
    BY <1>4, <2>1 DEF Armed, IsSocket
  <2>2. CASE s = b /\ ~Direct(t)
    BY <1>4, <2>2
  <2>3. QED
    BY <1>2, <1>3, <2>1, <2>2
<1>6. SocketOK(how, i, s)
  <2>1. CASE s.wr /\ s.wr = TRUE
    BY <1>1, <1>2, <1>5, <2>1 DEF SocketOK
  <2>2. CASE s.wr = t.wr /\ ~Direct(t)
    <3>1. t.type = "CONNECTED" => ~Empty(t)
      BY <2>2 DEF Direct
    <3>2. QED
      BY <1>1, <1>2, <1>5, <2>2, <3>1 DEF SocketOK, Open
  <2>3. QED
    BY <1>5, <2>1, <2>2
<1>7. s.type \in Types
  BY <1>2, <1>5 DEF Types, Open
<1>8. QED
  BY <1>2, <1>5, <1>6, <1>7, KeepStep

LEMMA SendSocketStep ==
  ASSUME Owned, NEW c \in {"D", "P"}, send_socket(c)
  PROVE  Owned'
<1>1. Cmd(c) /\ c \in {"D", "P", "S", "K"}
  BY DEF send_socket
<1>2. CASE Goes /\ UNCHANGED <<slot, fds, told, pkts, wire>>
  BY <1>1, <1>2, TakesOther, IdleStep DEF Goes
<1>3. PICK low \in BOOLEAN : low = (c = "P")
  OBVIOUS
<1>4. CASE ~Stale /\ Direct(slot[cs]) /\ force_close(cs) /\ Ended(cid)
  <2>1. pc' \in {"poll", "clear"}
    BY <1>4 DEF Ended
  <2>2. Steady /\ cs \in Slots
    BY <1>1, <2>1, TakesOther
  <2>3. PICK i \in Slots : i = cs
    BY <2>2
  <2>4. force_close(i) /\ slot[i].type \in Open
    BY <1>4, <2>3 DEF force_close, Invalid, Freed, Tell, Direct, Open
  <2>5. QED
    BY <2>2, <2>4, CloseStep
<1>5. ASSUME ~Stale, Direct(slot[cs]), NEW k \in Written(slot[cs], Units(pkt)),
             slot' = [slot EXCEPT ![cs] = IF k = Size THEN slot[cs]
                                          ELSE Armed(Buffered(slot[cs], k, low))],
             Goes, UNCHANGED <<fds, told>>
      PROVE  Owned'
  <2>1. Steady /\ cs \in Slots
    BY <1>1, <1>5, TakesOther DEF Goes
  <2>2. PICK i \in Slots : i = cs
    BY <2>1
  <2>3. CASE k = Size
    <3>1. slot' = slot
      BY <1>5, <2>2, <2>3 DEF Owned, TableTypes
    <3>2. QED
      BY <1>5, <2>1, <3>1, IdleStep
  <2>4. CASE k # Size
    <3>1. PICK s : s = Armed(Buffered(slot[i], k, low))
      OBVIOUS
    <3>2. slot' = [slot EXCEPT ![i] = s]
      BY <1>5, <2>2, <2>4, <3>1
    <3>3. slot[i].type \in {"CONNECTING", "CONNECTED", "BIND", "RESERVE"}
      BY <1>5, <2>2 DEF Direct
    <3>4. QED
      BY <1>5, <2>1, <3>1, <3>2, <3>3, BufferStep
  <2>5. QED
    BY <2>3, <2>4
<1>6. CASE /\ ~Stale /\ slot[cs].type \in {"CONNECTING", "CONNECTED", "BIND", "RESERVE"}
           /\ ~Direct(slot[cs]) /\ Goes /\ UNCHANGED <<fds, told>>
           /\ slot' = [slot EXCEPT ![cs] = Buffered(slot[cs], 0, low)]
  <2>1. Steady /\ cs \in Slots
    BY <1>1, <1>6, TakesOther DEF Goes
  <2>2. PICK i \in Slots : i = cs
    BY <2>1
  <2>3. PICK s : s = Buffered(slot[i], 0, low)
    OBVIOUS
  <2>4. slot' = [slot EXCEPT ![i] = s] /\ ~Direct(slot[i])
    BY <1>6, <2>2, <2>3
  <2>5. slot[i].type \in {"CONNECTING", "CONNECTED", "BIND", "RESERVE"}
    BY <1>6, <2>2
  <2>6. QED
    BY <1>6, <2>1, <2>3, <2>4, <2>5, BufferStep
<1>7. QED
  BY <1>2, <1>3, <1>4, <1>5, <1>6 DEF send_socket

LEMMA ConnectStep ==
  ASSUME Owned, report_connect
  PROVE  Owned'
<1>1. At({"CONNECTING"}) /\ pc' = "poll" /\ ev' = Tail(ev) /\ UNCHANGED <<alloc, req, how>>
  BY DEF report_connect, Goes, Handled
<1>2. es \in Slots /\ slot[es].type = "CONNECTING" /\ Steady
  BY <1>1, TakesEvent
<1>3. PICK i \in Slots : i = es
  BY <1>2
<1>4. slot[i].type = "CONNECTING" /\ slot[i].type \in Open
  BY <1>2, <1>3 DEF Open
<1>5. CASE force_close(es)
  <2>1. force_close(i)
    BY <1>3, <1>5 DEF force_close, Invalid, Freed, Tell
  <2>2. QED
    BY <1>2, <1>4, <2>1, CloseStep
<1>6. CASE /\ slot' = [slot EXCEPT ![es].type = "CONNECTED", ![es].wr = ~Empty(slot[es])]
           /\ UNCHANGED <<fds, told, wire>>
  <2>1. IsSocket(slot[i]) /\ SocketOK(how, i, slot[i]) /\ slot = [j \in Slots |-> slot[j]]
    BY DEF Owned, TableTypes, OpenInv
  <2>2. PICK b \in BOOLEAN : b = ~Empty(slot[i])
    OBVIOUS
  <2>3. PICK s : s = [[slot[i] EXCEPT !.type = "CONNECTED"] EXCEPT !.wr = b]
    OBVIOUS
  <2>4. slot' = [slot EXCEPT ![i] = s]
    BY <1>3, <1>6, <2>1, <2>2, <2>3
  <2>5. /\ IsSocket(s) /\ s.type = "CONNECTED" /\ s.id = slot[i].id /\ s.wr = b
        /\ s.high = slot[i].high /\ s.low = slot[i].low
    BY <2>1, <2>3 DEF IsSocket
  <2>6. "CONNECTED" \in Open /\ "CONNECTED" \in Types
    BY DEF Open, Types
  <2>7. Empty(s) <=> Empty(slot[i])
    BY <2>5 DEF Empty
  <2>8. SocketOK(how, i, s)
    BY <1>4, <2>1, <2>2, <2>5, <2>6, <2>7 DEF SocketOK
  <2>9. QED
    BY <1>2, <1>4, <1>6, <2>4, <2>5, <2>6, <2>8, KeepStep
<1>7. QED
  BY <1>5, <1>6 DEF report_connect

LEMMA ReportAcceptStep ==
  ASSUME Owned, report_accept
  PROVE  Owned' \/ (OpenInv' /\ pc' = "abort")
<1>1. At({"LISTEN"}) /\ UNCHANGED <<req, pkts>>
  BY DEF report_accept
<1>2. es \in Slots /\ pc \in {"poll", "event"} /\ Tail(ev) \in Seq(Events) /\ UNCHANGED pipe
  BY <1>1, TakesEvent
<1>3. CASE Handled /\ Goes /\ UNCHANGED <<slot, alloc, fds, how, told, wire>>
  <2>1. Steady
    BY <1>1, <1>2, <1>3, TakesEvent DEF Handled, Goes
  <2>2. QED
    BY <1>3, <2>1, IdleStep
<1>4. CASE Abort /\ UNCHANGED how
  BY <1>4, AbortStep DEF Owned
<1>5. CASE /\ Tried # {} /\ Min(Tried) <= MaxId /\ alloc' = Min(Tried)
           /\ slot' = [slot EXCEPT ![HASH_ID(Min(Tried))] = NewFd("PACCEPT", Min(Tried), "tcp", FALSE)]
           /\ fds' = fds \cup {Min(Tried)}
           /\ how' = [j \in Known \cup {Min(Tried)} |-> IF j = Min(Tried) THEN "accepted" ELSE how[j]]
           /\ Handled /\ Goes /\ UNCHANGED <<told, wire>>
  <2>1. pc # "fail" /\ pc' = "poll" /\ ev' \in Seq(Events)
    BY <1>2, <1>5 DEF Handled, Goes
  <2>2. QED
    BY <1>1, <1>2, <1>5, <2>1, AcceptStep
<1>6. QED
  BY <1>3, <1>4, <1>5 DEF report_accept

LEMMA InvalidEventStep == ASSUME Owned, EventOfInvalid PROVE Owned'
<1>1. /\ At({"INVALID"}) /\ ev' = Tail(ev) /\ pc' = "poll"
      /\ UNCHANGED <<slot, alloc, req, fds, how, told>>
  BY DEF EventOfInvalid, Handled, Goes
<1>2. Steady
  BY <1>1, TakesEvent
<1>3. QED
  BY <1>1, <1>2, IdleStep

LEMMA ForwardStep ==
  ASSUME Owned, forward_message
  PROVE  Owned' \/ (OpenInv' /\ pc' = "abort")
<1>1. At((Open \cup {"RESERVE"}) \ {"CONNECTING", "LISTEN"}) /\ UNCHANGED <<alloc, req, how>>
  BY DEF forward_message
<1>2. /\ es \in Slots /\ slot[es].type \in Open \cup {"RESERVE"}
      /\ Tail(ev) \in Seq(Events) /\ [ev EXCEPT ![1].r = FALSE] \in Seq(Events)
      /\ pc' = "poll" /\ ev' \in Seq(Events) => Steady
  BY <1>1, TakesEvent
<1>3. CASE /\ ev' = IF Head(ev).w THEN [ev EXCEPT ![1].r = FALSE] ELSE Tail(ev)
           /\ Goes /\ UNCHANGED <<slot, fds, told, wire>>
  <2>1. ev' \in Seq(Events)
    BY <1>2, <1>3
  <2>2. QED
    BY <1>2, <1>3, <2>1, IdleStep DEF Goes
<1>4. CASE slot[es].type # "RESERVE" /\ force_close(es) /\ Handled /\ Goes
  <2>1. Steady
    BY <1>2, <1>4 DEF Handled, Goes
  <2>2. PICK i \in Slots : i = es
    BY <1>2
  <2>3. force_close(i) /\ slot[i].type \in Open
    BY <1>2, <1>4, <2>2 DEF force_close, Invalid, Freed, Tell
  <2>4. QED
    BY <2>1, <2>3, CloseStep
<1>5. CASE Abort
  BY <1>1, <1>5, AbortStep DEF Owned
<1>6. QED
  BY <1>3, <1>4, <1>5 DEF forward_message

(* The write event of a socket.  A reserved slot has nothing to write, and *)
(* nothing of it is written or closed.                                     *)
LEMMA FlushStep ==
  ASSUME Owned, Flush
  PROVE  Owned' \/ (OpenInv' /\ pc' = "abort")
<1>1. At((Open \cup {"RESERVE"}) \ {"CONNECTING", "LISTEN"}) /\ UNCHANGED <<alloc, req, how>>
  BY DEF Flush
<1>2. /\ es \in Slots /\ slot[es].type \in (Open \cup {"RESERVE"}) \ {"CONNECTING", "LISTEN"}
      /\ Tail(ev) \in Seq(Events)
      /\ pc' = "poll" /\ ev' \in Seq(Events) => Steady
  BY <1>1, TakesEvent
<1>3. PICK i \in Slots : i = es
  BY <1>2
<1>4. CASE Abort
  BY <1>1, <1>4, AbortStep DEF Owned
<1>5. ASSUME ~(slot[es].type = "RESERVE" /\ ~Empty(slot[es])), NEW o \in send_buffer(slot[es]),
             o.end = "closed", force_close(es), Handled, Goes
      PROVE  Owned'
  <2>1. Steady
    BY <1>2, <1>5 DEF Handled, Goes
  <2>2. slot[i].type # "RESERVE"
    <3>1. SUFFICES ASSUME slot[i].type = "RESERVE" PROVE FALSE
      OBVIOUS
    <3>2. Empty(slot[i])
      BY <1>3, <1>5, <3>1
    <3>3. PICK s : s = slot[i]
      OBVIOUS
    <3>4. Empty(s) /\ s.type = "RESERVE" /\ o \in send_buffer(s) /\ s.low = <<>>
      BY <1>3, <1>5, <3>1, <3>2, <3>3 DEF Empty
    <3>5. o.end # "closed"
      BY <3>4 DEF send_buffer, list_uncomplete
    <3>6. QED
      BY <1>5, <3>5
  <2>3. force_close(i) /\ slot[i].type \in Open
    BY <1>2, <1>3, <1>5, <2>2 DEF force_close, Invalid, Freed, Tell
  <2>4. QED
    BY <2>1, <2>3, CloseStep
<1>6. ASSUME NEW o \in send_buffer(slot[es]), o.end = "open", slot' = [slot EXCEPT ![es] = o.s],
             Handled, Goes, UNCHANGED <<fds, told>>
      PROVE  Owned'
  <2>1. Steady
    BY <1>2, <1>6 DEF Handled, Goes
  <2>2. PICK s : s = o.s
    OBVIOUS
  <2>3. slot' = [slot EXCEPT ![i] = s]
    BY <1>3, <1>6, <2>2
  <2>4. IsSocket(s) /\ s.type = slot[i].type /\ s.id = slot[i].id /\ SocketOK(how, i, s)
    BY <1>2, <1>3, <1>6, <2>2, SendBufferOK
  <2>5. slot[i].type \in Types
    BY DEF Owned, TableTypes
  <2>6. QED
    BY <1>6, <2>1, <2>3, <2>4, <2>5, KeepStep
<1>7. CASE /\ ~(slot[es].type = "RESERVE" /\ ~Empty(slot[es]))
           /\ \E o \in send_buffer(slot[es]) :
                CASE o.end = "abort"  -> Abort
                  [] o.end = "closed" -> force_close(es) /\ Handled /\ Goes
                  [] o.end = "open"   -> /\ slot' = [slot EXCEPT ![es] = o.s]
                                         /\ Wrote(slot[es].id, o.units)
                                         /\ Handled /\ Goes /\ UNCHANGED <<fds, told>>
  <2>1. PICK o \in send_buffer(slot[es]) :
          CASE o.end = "abort"  -> Abort
            [] o.end = "closed" -> force_close(es) /\ Handled /\ Goes
            [] o.end = "open"   -> /\ slot' = [slot EXCEPT ![es] = o.s]
                                   /\ Wrote(slot[es].id, o.units)
                                   /\ Handled /\ Goes /\ UNCHANGED <<fds, told>>
    BY <1>7
  <2>2. o.end \in {"abort", "closed", "open"}
    BY <1>3, SendBufferOK
  <2>3. CASE o.end = "abort"
    BY <1>4, <2>1, <2>3
  <2>4. CASE o.end = "closed"
    BY <1>5, <1>7, <2>1, <2>4
  <2>5. CASE o.end = "open"
    BY <1>6, <2>1, <2>5
  <2>6. QED
    BY <2>2, <2>3, <2>4, <2>5
<1>8. QED
  BY <1>4, <1>7 DEF Flush

-----------------------------------------------------------------------------
(* The invariant.                                                          *)

LEMMA InitHolds == Init => SocketInv
<1> SUFFICES ASSUME Init PROVE SocketInv
  OBVIOUS
<1>1. PICK s : s = NewFd("INVALID", 0, "tcp", FALSE)
  OBVIOUS
<1>2. IsSocket(s) /\ s.type = "INVALID" /\ s.type \in Types /\ s.type \notin Open
  BY <1>1 DEF NewFd, IsSocket, Types, Open
<1>3. slot = [i \in Slots |-> s]
  BY <1>1 DEF Init
<1>4. \A i \in Slots : slot[i] = s
  BY <1>3
<1>5. Known = {} /\ pipe = <<>> /\ DOMAIN pipe = {} /\ told = {} /\ fds = {} /\ pc = "poll"
  BY DEF Init, Known
<1>6. \A w \in Worker : req[w] = <<>>
  BY DEF Init
<1>7. \A id : ~Reserved(id) /\ ~Waiting(id)
  BY <1>5, <1>6 DEF Reserved, Waiting
<1>8. OpenInv
  BY <1>2, <1>4 DEF OpenInv, SocketOK
<1>9. TableTypes
  <2>1. slot = [i \in Slots |-> slot[i]] /\ \A i \in Slots : IsSocket(slot[i]) /\ slot[i].type \in Types
    BY <1>2, <1>3, <1>4
  <2>2. alloc \in Nat /\ ev \in Seq(Events)
    BY DEF Init
  <2>3. QED
    BY <1>5, <2>1, <2>2 DEF TableTypes
<1>10. PipeInv /\ FailInv /\ ToldInv
  BY <1>5 DEF PipeInv, FailInv, ToldInv
<1>11. ReqInv
  <2>1. req \in [Worker -> {<<>>} \cup (Opening \X Id)]
    BY DEF Init
  <2>2. QED
    BY <1>5, <1>6, <2>1 DEF ReqInv
<1>12. ClaimInv
  BY <1>7 DEF ClaimInv
<1>13. FdInv
  BY <1>5, <1>6 DEF FdInv
<1>14. pkts \in Seq(Packets)
  BY DEF Init
<1>15. WarnInv
  BY DEF Init, WarnInv
<1>16. QED
  BY <1>8, <1>9, <1>10, <1>11, <1>12, <1>13, <1>14, <1>15 DEF SocketInv, Owned

(* Packets are appended and marked.                                        *)
LEMMA PacketsKept ==
  ASSUME Owned, pkts \in Seq(Packets), Workers \/ SocketThread
  PROVE  pkts' \in Seq(Packets)
<1>1. ASSUME NEW id \in Known, NEW low \in BOOLEAN,
             pkts' = Append(pkts, [id |-> id, low |-> low, taken |-> FALSE])
      PROVE  pkts' \in Seq(Packets)
  <2>1. [id |-> id, low |-> low, taken |-> FALSE] \in Packets
    BY DEF Packets, Owned, TableTypes
  <2>2. QED
    BY <1>1, <2>1
<1>2. ASSUME pkts' = [pkts EXCEPT ![pkt].taken = TRUE]
      PROVE  pkts' \in Seq(Packets)
  <2>1. Len(pkts) \in Nat /\ pkts \in [1..Len(pkts) -> Packets]
    OBVIOUS
  <2>2. PICK n : n = pkt
    OBVIOUS
  <2>3. CASE n \in 1..Len(pkts)
    <3>1. PICK e \in Packets : e = [pkts[n] EXCEPT !.taken = TRUE]
      BY <2>1, <2>3 DEF Packets
    <3>2. pkts' = [pkts EXCEPT ![n] = e]
      BY <1>2, <2>2, <3>1
    <3>3. pkts' \in [1..Len(pkts) -> Packets]
      BY <2>1, <3>2
    <3>4. QED
      BY <2>1, <3>3
  <2>4. CASE n \notin 1..Len(pkts)
    <3>1. pkts' = pkts
      BY <1>2, <2>1, <2>2, <2>4
    <3>2. QED
      BY <3>1
  <2>5. QED
    BY <2>3, <2>4
<1>3. CASE Workers
  <2>1. \/ UNCHANGED pkts
        \/ \E id \in Known, low \in BOOLEAN :
             pkts' = Append(pkts, [id |-> id, low |-> low, taken |-> FALSE])
    BY <1>3 DEF Workers, reserve_id, Requested, socket_server_send, socket_server_start,
                socket_server_close
  <2>2. QED
    BY <1>1, <2>1
<1>4. CASE send_socket("D") \/ send_socket("P")
  BY <1>2, <1>4 DEF send_socket
<1>5. CASE /\ SocketThread /\ ~send_socket("D") /\ ~send_socket("P")
  <2>1. UNCHANGED pkts
    BY <1>5 DEF SocketThread, open_socket, OpenFailed, add_udp_socket, listen_socket, bind_socket,
                start_socket, close_socket, clear_closed_event, sp_wait, report_connect,
                report_accept, EventOfInvalid, forward_message, Flush
  <2>2. QED
    BY <2>1
<1>6. QED
  BY <1>3, <1>4, <1>5

LEMMA WorkersKeep ==
  ASSUME Owned, pkts \in Seq(Packets), Workers
  PROVE  Owned'
<1>1. pc # "abort"
  BY DEF Workers
<1>2. ASSUME NEW w \in Worker, NEW kind \in {"O", "L", "B", "U"}, reserve_id(w, kind)
      PROVE  Owned'
  BY <1>2, ReserveStep DEF Opening
<1>3. ASSUME NEW w \in Worker, Requested(w)
      PROVE  Owned'
  BY <1>3, RequestStep
<1>4. ASSUME NEW id \in Known, NEW low \in BOOLEAN, socket_server_send(id, low)
      PROVE  Owned'
  <2>1. Len(pkts) + 1 \in Nat
    OBVIOUS
  <2>2. PICK n \in Nat : n = Len(pkts) + 1
    BY <2>1
  <2>3. SendRequest("P", id, n) \/ SendRequest("D", id, n)
    BY <1>4, <2>2 DEF socket_server_send
  <2>4. QED
    BY <1>1, <2>3, SendStep
<1>5. ASSUME NEW id \in Known, socket_server_start(id)
      PROVE  Owned'
  BY <1>1, <1>5, SendStep DEF socket_server_start
<1>6. ASSUME NEW id \in Known, NEW shutdown \in {0, 1}, socket_server_close(id, shutdown)
      PROVE  Owned'
  BY <1>1, <1>6, SendStep DEF socket_server_close
<1>7. QED
  BY <1>2, <1>3, <1>4, <1>5, <1>6 DEF Workers

LEMMA SocketThreadKeeps ==
  ASSUME Owned, SocketThread, ~Reclaims
  PROVE  Owned' \/ (OpenInv' /\ pc' = "abort")
<1>1. CASE send_socket("D") \/ send_socket("P")
  BY <1>1, SendSocketStep
<1>2. CASE OpenFailed
  BY <1>2, FailedStep
<1>3. CASE open_socket \/ add_udp_socket \/ listen_socket \/ bind_socket \/ close_socket \/ start_socket
  BY <1>3, OpenSocketStep, UdpSocketStep, ListenSocketStep, BindSocketStep, CloseSocketStep,
     StartSocketStep
<1>4. CASE clear_closed_event \/ sp_wait \/ report_connect \/ EventOfInvalid
  BY <1>4, ClearStep, WaitStep, ConnectStep, InvalidEventStep
<1>5. CASE report_accept \/ forward_message \/ Flush
  BY <1>5, ReportAcceptStep, ForwardStep, FlushStep
<1>6. QED
  BY <1>1, <1>2, <1>3, <1>4, <1>5 DEF SocketThread

(* An accept that fails changes no more than one that finds nobody.        *)
LEMMA AcceptFailsIsAccept == AcceptFails => report_accept
  BY DEF AcceptFails, report_accept

LEMMA ThreadsMove == ThreadStep => Workers \/ SocketThread
  BY AcceptFailsIsAccept DEF ThreadStep, SocketThread

(* What a step does to the ids that are known.                             *)
LEMMA HowGrows ==
  ASSUME Workers \/ SocketThread
  PROVE  /\ Known \subseteq Known'
         /\ \/ how' = how
            \/ \E w \in Worker : Requested(w)
            \/ report_accept
<1>1. ASSUME how' = how PROVE Known \subseteq Known'
  BY <1>1 DEF Known
<1>2. ASSUME NEW jd, NEW h, how' = [j \in Known \cup {jd} |-> h[j]] PROVE Known \subseteq Known'
  BY <1>2 DEF Known
<1>3. CASE Workers
  <2>1. how' = how \/ \E w \in Worker : Requested(w)
    BY <1>3 DEF Workers, reserve_id, socket_server_send, socket_server_start, socket_server_close, SendRequest
  <2>2. ASSUME NEW w \in Worker, Requested(w) PROVE Known \subseteq Known'
    BY <2>2 DEF Requested, Known
  <2>3. QED
    BY <1>1, <2>1, <2>2
<1>4. CASE SocketThread
  <2>1. how' = how \/ report_accept
    BY <1>4 DEF SocketThread, open_socket, OpenFailed, add_udp_socket, listen_socket, bind_socket,
                start_socket, close_socket, send_socket, clear_closed_event, sp_wait, report_connect,
                EventOfInvalid, forward_message, Flush, Cmd
  <2>2. ASSUME report_accept PROVE Known \subseteq Known'
    BY <2>2 DEF report_accept, Known
  <2>3. QED
    BY <1>1, <2>1, <2>2
<1>5. QED
  BY <1>3, <1>4

(* No id that is known is opened again or comes about in another way.      *)
LEMMA KnownStays ==
  ASSUME Owned, Workers \/ SocketThread, NEW id \in Known, ~Waiting(id)
  PROVE  id \in Known' /\ how'[id] = how[id] /\ ~Waiting(id)'
<1>1. TableTypes /\ PipeInv /\ ReqInv
  BY DEF Owned
<1>2. ASSUME UNCHANGED <<pipe, how>> PROVE id \in Known' /\ how'[id] = how[id] /\ ~Waiting(id)'
  BY <1>2 DEF Known, Waiting
<1>3. ASSUME NEW c, NEW jd, NEW x, pipe' = Append(pipe, [c |-> c, id |-> jd, x |-> x]), c \notin Opening \/ jd # id
      PROVE  ~Waiting(id)'
  <2>1. pipe \in Seq(Commands) /\ Len(pipe) \in Nat
    BY <1>1 DEF PipeInv
  <2>2. SUFFICES ASSUME NEW n \in DOMAIN pipe', pipe'[n].c \in Opening, pipe'[n].id = id PROVE FALSE
    BY DEF Waiting
  <2>3. PICK e : e = [c |-> c, id |-> jd, x |-> x]
    OBVIOUS
  <2>4. pipe' = Append(pipe, e)
    BY <1>3, <2>3
  <2>5. (n \in DOMAIN pipe /\ pipe'[n] = pipe[n]) \/ pipe'[n] = e
    BY <2>1, <2>2, <2>4
  <2>6. CASE pipe'[n] = e
    BY <1>3, <2>2, <2>3, <2>6
  <2>7. CASE n \in DOMAIN pipe /\ pipe'[n] = pipe[n]
    BY <2>2, <2>7 DEF Waiting
  <2>8. QED
    BY <2>5, <2>6, <2>7
<1>4. ASSUME NEW c, NEW jd, NEW x, SendRequest(c, jd, x), c \notin Opening
      PROVE  id \in Known' /\ how'[id] = how[id] /\ ~Waiting(id)'
  BY <1>3, <1>4 DEF SendRequest, Known
<1>5. CASE Workers
  <2>1. "P" \notin Opening /\ "D" \notin Opening /\ "S" \notin Opening /\ "K" \notin Opening
    BY DEF Opening
  <2>2. ASSUME NEW w \in Worker, Requested(w)
        PROVE  id \in Known' /\ how'[id] = how[id] /\ ~Waiting(id)'
    <3>1. PICK c, jd : c = req[w][1] /\ jd = req[w][2]
      OBVIOUS
    <3>2. /\ req[w] # <<>> /\ pipe' = Append(pipe, [c |-> c, id |-> jd, x |-> 0])
          /\ how' = [j \in Known \cup {jd} |-> IF j = jd THEN c ELSE how[j]]
      BY <2>2, <3>1 DEF Requested
    <3>3. jd # id
      BY <1>1, <3>1, <3>2 DEF ReqInv
    <3>4. id \in Known' /\ how'[id] = how[id]
      BY <3>2, <3>3 DEF Known
    <3>5. QED
      BY <1>3, <3>2, <3>3, <3>4
  <2>3. ASSUME NEW w \in Worker, NEW kind, reserve_id(w, kind)
        PROVE  id \in Known' /\ how'[id] = how[id] /\ ~Waiting(id)'
    BY <1>2, <2>3 DEF reserve_id
  <2>4. ASSUME NEW jd, NEW low, socket_server_send(jd, low)
        PROVE  id \in Known' /\ how'[id] = how[id] /\ ~Waiting(id)'
    BY <1>4, <2>1, <2>4 DEF socket_server_send
  <2>5. ASSUME NEW jd, socket_server_start(jd)
        PROVE  id \in Known' /\ how'[id] = how[id] /\ ~Waiting(id)'
    BY <1>4, <2>1, <2>5 DEF socket_server_start
  <2>6. ASSUME NEW jd, NEW shutdown, socket_server_close(jd, shutdown)
        PROVE  id \in Known' /\ how'[id] = how[id] /\ ~Waiting(id)'
    BY <1>4, <2>1, <2>6 DEF socket_server_close
  <2>7. QED
    BY <1>5, <2>2, <2>3, <2>4, <2>5, <2>6 DEF Workers
<1>6. CASE SocketThread /\ ~report_accept
  <2>1. how' = how /\ (pipe' = pipe \/ (pipe # <<>> /\ pipe' = Tail(pipe)))
    BY <1>6 DEF SocketThread, open_socket, OpenFailed, add_udp_socket, listen_socket, bind_socket,
                start_socket, close_socket, send_socket, clear_closed_event, sp_wait, report_connect,
                EventOfInvalid, forward_message, Flush, Cmd, At
  <2>2. CASE pipe # <<>> /\ pipe' = Tail(pipe)
    <3>1. pipe \in Seq(Commands)
      BY <1>1 DEF PipeInv
    <3>2. \A n \in DOMAIN pipe' : n + 1 \in DOMAIN pipe /\ pipe'[n] = pipe[n + 1]
      BY <2>2, <3>1
    <3>3. ~Waiting(id)'
      BY <3>2 DEF Waiting
    <3>4. QED
      BY <2>1, <3>3 DEF Known
  <2>3. QED
    BY <1>2, <2>1, <2>2
<1>7. CASE report_accept
  <2>1. CASE how' = how
    BY <1>2, <1>7, <2>1 DEF report_accept, At
  <2>2. CASE how' # how
    <3>1. PICK jd : jd = Min(Tried)
      OBVIOUS
    <3>2. /\ Tried # {} /\ UNCHANGED pipe
          /\ how' = [j \in Known \cup {jd} |-> IF j = jd THEN "accepted" ELSE how[j]]
      BY <1>7, <2>2, <3>1 DEF report_accept, At
    <3>3. jd > alloc
      BY <1>1, <3>1, <3>2, TriedLeast DEF TableTypes
    <3>4. jd # id
      BY <1>1, <3>3 DEF ReqInv, TableTypes, Id
    <3>5. QED
      BY <3>2, <3>4 DEF Known, Waiting
  <2>3. QED
    BY <2>1, <2>2
<1>8. QED
  BY <1>5, <1>6, <1>7

LEMMA WarnStep == ASSUME Owned, WarnInv, ThreadStep PROVE WarnInv'
<1>1. Workers \/ SocketThread
  BY ThreadsMove
<1>2. ASSUME NEW id \in warned', id \notin warned
      PROVE  id \in Known /\ how[id] = "L" /\ ~Waiting(id)
  <2>1. AcceptFails /\ id = slot[es].id
    BY <1>2 DEF ThreadStep, AcceptFails
  <2>2. At({"LISTEN"})
    BY <2>1 DEF AcceptFails
  <2>3. es \in Slots /\ slot[es].type = "LISTEN"
    <3>1. UNCHANGED <<req, how, alloc>>
      BY <2>1 DEF AcceptFails
    <3>2. QED
      BY <2>2, <3>1, TakesEvent DEF At, es
  <2>4. id \in Known /\ id \in Id /\ HASH_ID(id) = es /\ how[id] = "L"
    BY <2>1, <2>3 DEF Owned, OpenInv, SocketOK, TableTypes, Known, Open
  <2>5. ~Waiting(id)
    BY <2>3, <2>4 DEF Owned, ClaimInv
  <2>6. QED
    BY <2>4, <2>5
<1>3. ASSUME NEW id \in warned'
      PROVE  id \in Known /\ how[id] = "L" /\ ~Waiting(id)
  BY <1>2, <1>3 DEF WarnInv
<1>4. QED
  BY <1>1, <1>3, KnownStays DEF WarnInv

LEMMA NextKeeps == SocketInv /\ [Next]_vars => SocketInv'
<1> SUFFICES ASSUME SocketInv, [Next]_vars PROVE SocketInv'
  OBVIOUS
<1>1. CASE UNCHANGED vars
  <2>1. UNCHANGED <<slot, alloc, req, pipe, pc, ev, arg, fds, how, told, warned, pkts, lost>>
    BY <1>1 DEF vars
  <2>2. OpenInv' <=> OpenInv
    BY <2>1 DEF OpenInv
  <2>3. Owned' <=> Owned
    BY <2>1 DEF Owned, TableTypes, PipeInv, ReqInv, ClaimInv, OpenInv, FailInv, ToldInv, FdInv,
                Reserved, Waiting, Failing, Holds, Known
  <2>4. WarnInv' <=> WarnInv
    BY <2>1 DEF WarnInv, Waiting, Known
  <2>5. QED
    BY <2>1, <2>2, <2>3, <2>4 DEF SocketInv
<1>2. CASE Next
  <2>1. CASE lost'
    BY <2>1 DEF SocketInv
  <2>2. CASE ~lost'
    <3>1. (Workers \/ SocketThread) /\ ThreadStep /\ ~lost /\ ~Reclaims
      BY <1>2, <2>2, ThreadsMove DEF Next
    <3>2. pc # "abort"
      BY <3>1 DEF Workers, SocketThread, open_socket, OpenFailed, add_udp_socket, listen_socket,
                  bind_socket, start_socket, close_socket, send_socket, clear_closed_event, sp_wait,
                  report_connect, report_accept, EventOfInvalid, forward_message, Flush, Cmd, At,
                  NoCommand
    <3>3. Owned /\ WarnInv /\ pkts \in Seq(Packets)
      BY <3>1, <3>2 DEF SocketInv
    <3>4. Owned' \/ (OpenInv' /\ pc' = "abort")
      BY <3>1, <3>3, WorkersKeep, SocketThreadKeeps
    <3>5. pkts' \in Seq(Packets)
      BY <3>1, <3>3, PacketsKept
    <3>6. WarnInv'
      BY <3>1, <3>3, WarnStep
    <3>7. QED
      BY <3>4, <3>5, <3>6 DEF SocketInv, Owned
  <2>3. QED
    BY <2>1, <2>2
<1>3. QED
  BY <1>1, <1>2

(* The invariant holds in every state: until a failed open takes a slot    *)
(* that is another id's, every id has at most one slot, reserved or open,  *)
(* and a descriptor as long as it has.                                     *)
THEOREM SocketInvariant == Spec => []SocketInv
  BY InitHolds, NextKeeps, PTL DEF Spec

-----------------------------------------------------------------------------
(* The properties.                                                         *)

(* A socket with something to write waits for the event that lets it,      *)
(* whatever interleaving of sends, connects, writes and closes led there:  *)
(* send_socket, report_connect and send_buffer agree on when the write     *)
(* event is on (socket_server.c, sp_write).                                *)
THEOREM WritesAreArmed == Spec => []WriteArmed
<1>1. SocketInv => WriteArmed
  BY DEF SocketInv, OpenInv, SocketOK, WriteArmed
<1>2. QED
  BY <1>1, SocketInvariant, PTL

(* A service is told CLOSE, or an ERROR that ends the socket, of an id     *)
(* exactly when the id has no socket and no pending open any more          *)
(* (force_close, open_socket's failures and the stale commands of          *)
(* socket_server.c); the ERROR of an accept without descriptors is the     *)
(* only other, and is of a listening socket that is still open, or was     *)
(* told closed since.                                                      *)
THEOREM ClosingsAreTold == Spec => []ClosedIffTold
<1>1. SocketInv => ClosedIffTold
  <2> SUFFICES ASSUME SocketInv, pc # "abort", ~lost, NEW id \in Known
               PROVE  /\ id \in told => ~Holds(id) /\ ~Pending(id)
                      /\ id \in warned \ told => how[id] = "L" /\ Holds(id)
                      /\ ~Holds(id) /\ ~Pending(id) /\ how[id] # "U" => id \in told
    BY DEF ClosedIffTold
  <2>1. ToldInv /\ WarnInv /\ FailInv
    BY DEF SocketInv, Owned
  <2>2. Pending(id) <=> Waiting(id) \/ Failing(id)
    BY DEF Pending, Waiting, Failing, Opening
  <2>3. id \in warned => how[id] = "L" /\ ~Waiting(id) /\ ~Failing(id)
    BY <2>1 DEF WarnInv, FailInv, Failing
  <2>4. QED
    BY <2>1, <2>2, <2>3 DEF ToldInv
<1>2. QED
  BY <1>1, SocketInvariant, PTL

(* The descriptors the process has open are those of its sockets and of    *)
(* the listening and datagram sockets whose slot is on its way: none is    *)
(* left open by force_close or a failed open, none is closed twice.        *)
THEOREM DescriptorsAreOwned == Spec => []DescriptorsOwned
<1>1. SocketInv => DescriptorsOwned
  <2> SUFFICES ASSUME SocketInv, pc # "abort", ~lost
               PROVE  fds = {id \in Known : how[id] # "B" /\ Holds(id)}
                            \cup {id \in Known : how[id] \in {"L", "U"} /\ Pending(id) /\ ~(pc = "fail" /\ arg = id)}
                            \cup {id \in Id : \E w \in Worker, k \in {"L", "U"} : req[w] = <<k, id>>}
    BY DEF DescriptorsOwned
  <2>1. TableTypes /\ ReqInv /\ FailInv /\ FdInv
    BY DEF SocketInv, Owned
  <2>2. \A id : Pending(id) <=> Waiting(id) \/ Failing(id)
    BY DEF Pending, Waiting, Failing, Opening
  <2>3. \A id : Waiting(id) => ~Failing(id)
    BY <2>1 DEF FailInv, Failing
  <2>4. ASSUME NEW id \in Id, NEW w \in Worker
        PROVE  (\E k \in {"L", "U"} : req[w] = <<k, id>>)
               <=> req[w] # <<>> /\ req[w][2] = id /\ req[w][1] \in {"L", "U"}
    <3>1. req[w] \in {<<>>} \cup (Opening \X Id)
      BY <2>1 DEF ReqInv
    <3>2. CASE req[w] = <<>>
      BY <3>2
    <3>3. CASE req[w] \in Opening \X Id
      BY <3>3
    <3>4. QED
      BY <3>1, <3>2, <3>3
  <2>5. ASSUME NEW id \in Id
        PROVE  id \in fds <=>
                 \/ id \in Known /\ how[id] # "B" /\ Holds(id)
                 \/ id \in Known /\ how[id] \in {"L", "U"} /\ Pending(id) /\ ~(pc = "fail" /\ arg = id)
                 \/ \E w \in Worker, k \in {"L", "U"} : req[w] = <<k, id>>
    <3>1. id \in fds <=>
            \/ id \in Known /\ how[id] # "B" /\ Holds(id)
            \/ id \in Known /\ how[id] \in {"L", "U"} /\ Waiting(id)
            \/ \E w \in Worker : req[w] # <<>> /\ req[w][2] = id /\ req[w][1] \in {"L", "U"}
      BY <2>1 DEF FdInv
    <3>2. Waiting(id) <=> Pending(id) /\ ~(pc = "fail" /\ arg = id)
      BY <2>2, <2>3 DEF Failing
    <3>3. (\E w \in Worker, k \in {"L", "U"} : req[w] = <<k, id>>) <=>
          (\E w \in Worker : req[w] # <<>> /\ req[w][2] = id /\ req[w][1] \in {"L", "U"})
      BY <2>4
    <3>4. QED
      BY <3>1, <3>2, <3>3
  <2>6. fds \subseteq Id /\ Known \subseteq Id
    BY <2>1 DEF TableTypes
  <2>7. QED
    BY <2>5, <2>6
<1>2. QED
  BY <1>1, SocketInvariant, PTL


-----------------------------------------------------------------------------
(***************************************************************************)
(* What the peer is sent, and what wb_size counts.  Two more invariants:   *)
(* one that holds whatever happens to a slot, and one about the packets of *)
(* a socket, on top of SocketInv.                                          *)
(***************************************************************************)

(* A socket, whoever's it is: its lists are of packets that were sent, and *)
(* counted; n of them were sent, and h is the ids given to services.       *)
SlotOK(s, n, h) ==
  /\ IsSocket(s) /\ s.type \in Types /\ s.id \in {0} \cup h
  /\ s.type \in Open => s.id # 0
  /\ s.proto \in {"tcp", "udp"} /\ s.wr \in BOOLEAN
  /\ s.high \in Seq(1..n) /\ s.low \in Seq(1..n)
  /\ s.wb = Len(s.high) + Len(s.low)

CommandOK(e, n, h) ==
  /\ e \in Commands /\ e.id \in h
  /\ e.c \in {"D", "P"} => e.x \in 1..n

(* The types, in every run: of what a socket's step changes, and of the    *)
(* threads.                                                                *)
Table ==
  /\ slot = [i \in Slots |-> slot[i]] /\ \A i \in Slots : SlotOK(slot[i], Len(pkts), Known)
  /\ wire \in [Id -> Seq(1..Len(pkts))]
  /\ told \subseteq Known /\ fds \subseteq Id

Threads ==
  /\ pipe \in Seq(Commands) /\ \A n \in DOMAIN pipe : CommandOK(pipe[n], Len(pkts), Known)
  /\ pkts \in Seq(Packets)
  /\ req \in [Worker -> {<<>>} \cup (Opening \X Id)]
  /\ alloc \in 0..MaxId /\ Known \subseteq Id
  /\ pc \in {"poll", "event", "clear", "fail", "abort"} /\ (pc = "fail" => arg \in Known)
  /\ ev \in Seq(Events)

Typed == Table /\ Threads

(* All the units of a socket, written or buffered, in the order in which   *)
(* they are or will be written; the first Ahead(s) of them are written or  *)
(* in the high list.                                                       *)
All(w, s)   == w \o s.high \o s.low
Ahead(w, s) == Len(w) + Len(s.high)

(* The units of p are Size consecutive ones of the n of a.                 *)
BlockAt(a, n, p, b) == b + Size <= n /\ \A k \in 1..n : a[k] = p <=> b < k /\ k <= b + Size
Block(a, n, p)      == \E b \in Nat : BlockAt(a, n, p, b)

(* What the n units a of the socket id are, when the first m are not in    *)
(* the low list and q is the packets: the taken ones, each as a block;     *)
(* packets of one priority in the order they were sent; and in the low     *)
(* list only low ones of which nothing is written yet.                     *)
Stream(a, n, m, id, q) ==
  /\ \A p \in DOMAIN q : q[p].taken /\ q[p].id = id => Block(a, n, p)
  /\ \A k \in 1..n : a[k] \in DOMAIN q /\ q[a[k]].taken /\ q[a[k]].id = id
  /\ \A j, k \in 1..n : j < k /\ q[a[j]].low = q[a[k]].low => a[j] <= a[k]
  /\ \A k \in 1..n : m < k => q[a[k]].low
  /\ \A j, k \in 1..n : j <= m /\ m < k => a[j] # a[k]

(* The stream of the socket s of which w was written.                      *)
StreamOf(w, s, q) == Stream(All(w, s), Ahead(w, s) + Len(s.low), Ahead(w, s), s.id, q)

(* Every open socket has such a stream, and nothing is kept of the others. *)
StreamBody ==
  /\ \A i \in Slots : slot[i].type \in Open => StreamOf(wire[slot[i].id], slot[i], pkts)
  /\ \A id \in Id : wire[id] # <<>> => Holds(id)

Sends(e) == e.c \in {"D", "P"}

(* The packets in the pipe are in the order they were sent, after those    *)
(* that were taken, and none was taken of a socket that is still to open.  *)
PipePkts ==
  /\ \A n \in DOMAIN pipe : Sends(pipe[n]) =>
       /\ pkts[pipe[n].x].id = pipe[n].id /\ ~pkts[pipe[n].x].taken
       /\ pkts[pipe[n].x].low <=> pipe[n].c = "P"
  /\ \A m, n \in DOMAIN pipe : m < n /\ Sends(pipe[m]) /\ Sends(pipe[n]) => pipe[m].x < pipe[n].x
  /\ \A p \in DOMAIN pkts, n \in DOMAIN pipe : pkts[p].taken /\ Sends(pipe[n]) => p < pipe[n].x
  /\ \A p \in DOMAIN pkts : pkts[p].id \in Known
  /\ \A p \in DOMAIN pkts : pkts[p].taken => ~Waiting(pkts[p].id)

Flows     == StreamBody /\ (pc = "abort" \/ PipePkts)
StreamInv == lost \/ Flows

-----------------------------------------------------------------------------
(* Lemmas about streams.                                                   *)

LEMMA SizeType == Size \in Nat /\ Size > 0
  BY SocketServerAssumption

(* A block has Size units.                                                 *)
LEMMA BlockCount ==
  ASSUME NEW a \in Seq(Nat), NEW p, Block(a, Len(a), p)
  PROVE  Cardinality({k \in DOMAIN a : a[k] = p}) = Size
<1>1. PICK n \in Nat : n + Size <= Len(a) /\ \A k \in 1..Len(a) : a[k] = p <=> n < k /\ k <= n + Size
  BY DEF Block, BlockAt
<1>2. Len(a) \in Nat /\ DOMAIN a = 1..Len(a)
  OBVIOUS
<1>3. {k \in DOMAIN a : a[k] = p} = n + 1..n + Size
  BY <1>1, <1>2, SizeType
<1>4. Cardinality(n + 1..n + Size) = Size
  <2>1. n + 1 \in Int /\ n + Size \in Int /\ ~(n + 1 > n + Size) /\ (n + Size) - (n + 1) + 1 = Size
    BY SizeType
  <2>2. QED
    BY <2>1, FS_Interval
<1>5. QED
  BY <1>3, <1>4

(* A list that is cut and put together again.                              *)
LEMMA CutJoin ==
  ASSUME NEW S, NEW l \in Seq(S), NEW k \in 0..Len(l)
  PROVE  /\ SubSeq(l, 1, k) \in Seq(S) /\ Len(SubSeq(l, 1, k)) = k
         /\ Drop(l, k) \in Seq(S) /\ Len(Drop(l, k)) = Len(l) - k
         /\ SubSeq(l, 1, k) \o Drop(l, k) = l
<1>1. Len(l) \in Nat /\ k \in Nat /\ k <= Len(l)
  OBVIOUS
<1>2. /\ SubSeq(l, 1, k) \in Seq(S) /\ Len(SubSeq(l, 1, k)) = k
      /\ \A n \in 1..k : SubSeq(l, 1, k)[n] = l[n]
  BY <1>1
<1>3. /\ Drop(l, k) \in Seq(S) /\ Len(Drop(l, k)) = Len(l) - k
      /\ \A n \in 1..Len(l) - k : Drop(l, k)[n] = l[n + k]
  BY <1>1 DEF Drop
<1>4. PICK x, y \in Seq(S) : x = SubSeq(l, 1, k) /\ y = Drop(l, k)
  BY <1>2, <1>3
<1>5. /\ x \o y \in Seq(S) /\ Len(x \o y) = Len(l)
      /\ \A n \in 1..Len(l) : (x \o y)[n] = IF n <= k THEN x[n] ELSE y[n - k]
  <2>1. Len(x) = k /\ Len(y) = Len(l) - k /\ Len(x) + Len(y) = Len(l)
    BY <1>1, <1>2, <1>3, <1>4
  <2>2. QED
    BY <2>1, ConcatProperties
<1>6. \A n \in 1..Len(l) : (x \o y)[n] = l[n]
  <2>1. TAKE n \in 1..Len(l)
  <2>2. CASE n <= k
    BY <1>1, <1>2, <1>4, <1>5, <2>2
  <2>3. CASE ~(n <= k)
    <3>1. n - k \in 1..Len(l) - k /\ (n - k) + k = n
      BY <1>1, <2>3
    <3>2. y[n - k] = l[n]
      BY <1>3, <1>4, <3>1
    <3>3. QED
      BY <1>5, <2>3, <3>2
  <2>4. QED
    BY <2>2, <2>3
<1>7. x \o y = l
  BY <1>1, <1>5, <1>6, SeqEqual
<1>8. QED
  BY <1>2, <1>3, <1>4, <1>7

Parts(l, k, x, y) ==
  x = SubSeq(l, 1, k) /\ y = Drop(l, k) /\ x \o y = l /\ Len(x) = k /\ Len(y) = Len(l) - k

LEMMA CutParts ==
  ASSUME NEW S, NEW l \in Seq(S), NEW k \in 0..Len(l)
  PROVE  \E x, y \in Seq(S) : Parts(l, k, x, y)
<1>1. PICK x : x = SubSeq(l, 1, k)
  OBVIOUS
<1>2. PICK y : y = Drop(l, k)
  OBVIOUS
<1>3. x \in Seq(S) /\ y \in Seq(S) /\ x \o y = l /\ Len(x) = k /\ Len(y) = Len(l) - k
  BY <1>1, <1>2, CutJoin
<1>4. QED
  BY <1>1, <1>2, <1>3 DEF Parts

(* The units a socket has are ordered by where they are.                   *)
Laid(S, w, s) ==
  /\ All(w, s) \in Seq(S) /\ Ahead(w, s) \in Nat
  /\ Len(All(w, s)) = Ahead(w, s) + Len(s.low)
  /\ \A k \in 1..Len(w) : All(w, s)[k] = w[k]
  /\ \A k \in 1..Len(s.high) : All(w, s)[Len(w) + k] = s.high[k]
  /\ \A k \in 1..Len(s.low) : All(w, s)[Ahead(w, s) + k] = s.low[k]

LEMMA AllUnits ==
  ASSUME NEW S, NEW w \in Seq(S), NEW s, s.high \in Seq(S), s.low \in Seq(S)
  PROVE  Laid(S, w, s)
<1>1. PICK h, l \in Seq(S) : h = s.high /\ l = s.low
  OBVIOUS
<1>2. Len(w) \in Nat /\ Len(h) \in Nat /\ Len(l) \in Nat
  OBVIOUS
<1>3. PICK x \in Seq(S) : x = w \o h
  BY ConcatProperties
<1>4. /\ Len(x) = Len(w) + Len(h)
      /\ \A k \in 1..Len(w) : x[k] = w[k]
      /\ \A k \in 1..Len(h) : x[Len(w) + k] = h[k]
  BY <1>2, <1>3
<1>5. /\ x \o l \in Seq(S) /\ Len(x \o l) = Len(x) + Len(l)
      /\ \A k \in 1..Len(x) : (x \o l)[k] = x[k]
      /\ \A k \in 1..Len(l) : (x \o l)[Len(x) + k] = l[k]
  OBVIOUS
<1>6. All(w, s) = x \o l /\ Ahead(w, s) = Len(x)
  BY <1>1, <1>3, <1>4 DEF All, Ahead
<1>7. \A k \in 1..Len(w) : k \in 1..Len(x)
  BY <1>2, <1>4
<1>8. \A k \in 1..Len(h) : Len(w) + k \in 1..Len(x)
  BY <1>2, <1>4
<1>9. \A k \in 1..Len(w) : All(w, s)[k] = w[k]
  BY <1>4, <1>5, <1>6, <1>7
<1>10. \A k \in 1..Len(h) : All(w, s)[Len(w) + k] = h[k]
  BY <1>4, <1>5, <1>6, <1>8
<1>11. \A k \in 1..Len(l) : All(w, s)[Ahead(w, s) + k] = l[k]
  BY <1>5, <1>6
<1>12. All(w, s) \in Seq(S) /\ Ahead(w, s) \in Nat /\ Len(All(w, s)) = Ahead(w, s) + Len(l)
  BY <1>5, <1>6
<1>13. QED
  BY <1>1, <1>9, <1>10, <1>11, <1>12 DEF Laid

(* b is a, of n units, with the units of p after the first l.              *)
Inserted(a, b, n, l, p) ==
  /\ \A k \in 1..l : b[k] = a[k]
  /\ \A k \in l + 1..l + Size : b[k] = p
  /\ \A k \in l + 1..n : b[k + Size] = a[k]

(* p is the packet of id that is taken now; r is the packets after it.     *)
Taking(q, r, p, id) ==
  /\ p \in DOMAIN q /\ q[p].id = id /\ ~q[p].taken
  /\ \A x \in DOMAIN q : q[x].taken => x < p
  /\ r = [q EXCEPT ![p].taken = TRUE]

Marked(q, r, p) ==
  /\ DOMAIN r = DOMAIN q /\ DOMAIN q \subseteq Nat
  /\ \A x \in DOMAIN q : r[x].low = q[x].low /\ r[x].id = q[x].id
  /\ \A x \in DOMAIN q : x # p => r[x].taken = q[x].taken
  /\ r[p].taken

(* Where it goes: behind all that is ahead (a high one, or any on an empty *)
(* socket) or behind everything (a low one).                               *)
Place(n, m, l, m2, low) ==
  \/ l = m /\ m2 = m + Size /\ (~low \/ m = n)
  \/ l = n /\ m2 = m /\ low

LEMMA TakingMarks ==
  ASSUME NEW q \in Seq(Packets), NEW r, NEW p, NEW id, Taking(q, r, p, id)
  PROVE  r \in Seq(Packets) /\ Len(r) = Len(q) /\ Marked(q, r, p)
<1>1. p \in DOMAIN q /\ r = [q EXCEPT ![p].taken = TRUE] /\ DOMAIN q = 1..Len(q) /\ Len(q) \in Nat
  BY DEF Taking
<1>2. q[p] \in Packets
  BY <1>1
<1>3. PICK e : e = [q[p] EXCEPT !.taken = TRUE]
  OBVIOUS
<1>4. e \in Packets /\ e.low = q[p].low /\ e.id = q[p].id /\ e.taken
  BY <1>2, <1>3 DEF Packets
<1>5. r = [q EXCEPT ![p] = e]
  BY <1>1, <1>3
<1>6. r \in Seq(Packets) /\ Len(r) = Len(q)
  <2>1. q \in [1..Len(q) -> Packets]
    BY <1>1
  <2>2. r \in [1..Len(q) -> Packets]
    BY <1>1, <1>4, <1>5, <2>1
  <2>3. QED
    BY <1>1, <2>2
<1>7. DOMAIN r = DOMAIN q
  BY <1>5
<1>8. \A x \in DOMAIN q : r[x] = IF x = p THEN e ELSE q[x]
  BY <1>5
<1>9. QED
  BY <1>1, <1>4, <1>6, <1>7, <1>8 DEF Marked

(* A taken packet joins the stream of its socket.                          *)
LEMMA StreamPut ==
  ASSUME NEW a, NEW b, NEW N \in Nat, NEW m \in 0..N, NEW l \in m..N, NEW m2,
         NEW q, NEW r, NEW p, NEW id,
         Stream(a, N, m, id, q), Taking(q, r, p, id), Marked(q, r, p),
         Inserted(a, b, N, l, p), Place(N, m, l, m2, q[p].low)
  PROVE  Stream(b, N + Size, m2, id, r)
<1>1. /\ Size \in Nat /\ Size > 0 /\ l \in Nat /\ m \in Nat /\ l <= N /\ m <= l
      /\ p \in DOMAIN q /\ q[p].id = id /\ (l = m \/ l = N)
  BY SizeType DEF Taking, Place
<1>2. /\ DOMAIN r = DOMAIN q /\ DOMAIN q \subseteq Nat
      /\ \A x \in DOMAIN q : r[x].low = q[x].low /\ r[x].id = q[x].id
      /\ \A x \in DOMAIN q : x # p => r[x].taken = q[x].taken
      /\ r[p].taken
  BY DEF Marked
<1>3. \A k \in 1..N : a[k] \in DOMAIN q /\ q[a[k]].taken /\ q[a[k]].id = id /\ a[k] # p /\ a[k] < p
  BY DEF Stream, Taking
<1>4. \A k \in 1..N + Size :
        \/ k <= l /\ k \in 1..N /\ b[k] = a[k]
        \/ l < k /\ k <= l + Size /\ b[k] = p
        \/ l + Size < k /\ k - Size \in l + 1..N /\ k - Size \in 1..N /\ b[k] = a[k - Size]
  <2>1. TAKE k \in 1..N + Size
  <2>2. CASE k <= l
    BY <1>1, <2>2 DEF Inserted
  <2>3. CASE l < k /\ k <= l + Size
    BY <1>1, <2>3 DEF Inserted
  <2>4. CASE l + Size < k
    <3>1. k - Size \in l + 1..N /\ (k - Size) + Size = k /\ k - Size \in 1..N
      BY <1>1, <2>4
    <3>2. QED
      BY <2>4, <3>1 DEF Inserted
  <2>5. QED
    BY <1>1, <2>2, <2>3, <2>4
<1>5. \A k \in 1..N + Size : b[k] \in DOMAIN r /\ r[b[k]].taken /\ r[b[k]].id = id
  BY <1>1, <1>2, <1>3, <1>4
<1>6. ASSUME NEW x \in DOMAIN q, r[x].taken, r[x].id = id
      PROVE  Block(b, N + Size, x)
  <2>1. CASE x = p
    <3>1. l + Size <= N + Size
      BY <1>1
    <3>2. \A k \in 1..N + Size : b[k] = x <=> l < k /\ k <= l + Size
      BY <1>1, <1>3, <1>4, <2>1
    <3>3. QED
      BY <1>1, <3>1, <3>2 DEF Block, BlockAt
  <2>2. CASE x # p
    <3>1. Block(a, N, x)
      BY <1>2, <1>6, <2>2 DEF Stream
    <3>2. PICK n \in Nat : /\ n + Size <= N
                           /\ \A k \in 1..N : a[k] = x <=> n < k /\ k <= n + Size
      BY <3>1 DEF Block, BlockAt
    <3>3. CASE n + Size <= l
      <4>1. \A k \in 1..N + Size : b[k] = x <=> n < k /\ k <= n + Size
        BY <1>1, <1>4, <2>2, <3>2, <3>3
      <4>2. n + Size <= N + Size
        BY <1>1, <3>2
      <4>3. QED
        BY <4>1, <4>2 DEF Block, BlockAt
    <3>4. CASE l <= n
      <4>1. \A k \in 1..N + Size : b[k] = x <=> n + Size < k /\ k <= (n + Size) + Size
        BY <1>1, <1>4, <2>2, <3>2, <3>4
      <4>2. (n + Size) + Size <= N + Size /\ n + Size \in Nat
        BY <1>1, <3>2
      <4>3. QED
        BY <4>1, <4>2 DEF Block, BlockAt
    <3>5. CASE n < l /\ l < n + Size
      <4>1. l \in 1..N /\ l + 1 \in 1..N /\ l < N
        BY <1>1, <3>2, <3>5
      <4>2. a[l] = x /\ a[l + 1] = x
        BY <1>1, <3>2, <3>5, <4>1
      <4>3. l = m
        BY <1>1, <4>1
      <4>4. QED
        BY <1>1, <4>1, <4>2, <4>3 DEF Stream
    <3>6. QED
      BY <1>1, <3>3, <3>4, <3>5
  <2>3. QED
    BY <2>1, <2>2
<1>7. \A k \in 1..N + Size : m2 < k => r[b[k]].low
  <2>1. \A k \in 1..N : m < k => q[a[k]].low
    BY DEF Stream
  <2>2. CASE l = m /\ m2 = m + Size
    BY <1>1, <1>2, <1>3, <1>4, <2>1, <2>2
  <2>3. CASE l = N /\ m2 = m /\ q[p].low
    BY <1>1, <1>2, <1>3, <1>4, <2>1, <2>3
  <2>4. QED
    BY <2>2, <2>3 DEF Place
<1>8. ASSUME NEW j \in 1..N + Size, NEW k \in 1..N + Size, j <= m2, m2 < k
      PROVE  b[j] # b[k]
  <2>1. \A x, y \in 1..N : x <= m /\ m < y => a[x] # a[y]
    BY DEF Stream
  <2>2. CASE l = m /\ m2 = m + Size
    <3>1. k - Size \in 1..N /\ b[k] = a[k - Size] /\ m < k - Size
      BY <1>1, <1>4, <1>8, <2>2
    <3>2. b[j] = p \/ (j \in 1..N /\ j <= m /\ b[j] = a[j])
      BY <1>1, <1>4, <1>8, <2>2
    <3>3. QED
      BY <1>3, <2>1, <3>1, <3>2
  <2>3. CASE l = N /\ m2 = m
    <3>1. j \in 1..N /\ j <= m /\ b[j] = a[j]
      BY <1>1, <1>4, <1>8, <2>3
    <3>2. b[k] = p \/ (k \in 1..N /\ m < k /\ b[k] = a[k])
      BY <1>1, <1>4, <1>8, <2>3
    <3>3. QED
      BY <1>3, <2>1, <3>1, <3>2
  <2>4. QED
    BY <2>2, <2>3 DEF Place
<1>9. ASSUME NEW j \in 1..N + Size, NEW k \in 1..N + Size, j < k, r[b[j]].low = r[b[k]].low
      PROVE  b[j] <= b[k]
  <2>1. \A x, y \in 1..N : x < y /\ q[a[x]].low = q[a[y]].low => a[x] <= a[y]
    BY DEF Stream
  <2>2. b[j] \in DOMAIN q /\ b[k] \in DOMAIN q /\ q[b[j]].low = q[b[k]].low /\ p \in Nat
    BY <1>1, <1>2, <1>5, <1>9
  <2>3. CASE b[k] = p
    BY <1>2, <1>3, <1>4, <2>2, <2>3
  <2>4. CASE b[k] # p /\ b[j] = p
    <3>1. l + Size < k /\ k - Size \in 1..N /\ b[k] = a[k - Size] /\ l < k - Size
      BY <1>1, <1>3, <1>4, <1>9, <2>4
    <3>2. l = m /\ m # N /\ ~q[p].low
      BY <1>1, <3>1 DEF Place
    <3>3. q[a[k - Size]].low
      BY <3>1, <3>2 DEF Stream
    <3>4. QED
      BY <2>2, <2>4, <3>1, <3>2, <3>3
  <2>5. CASE b[k] # p /\ b[j] # p
    <3>1. PICK x, y \in 1..N : x < y /\ b[j] = a[x] /\ b[k] = a[y]
      <4>1. CASE k <= l
        BY <1>1, <1>4, <1>9, <2>5, <4>1
      <4>2. CASE l + Size < k /\ j <= l
        <5>1. j \in 1..N /\ k - Size \in 1..N /\ j < k - Size /\ b[j] = a[j] /\ b[k] = a[k - Size]
          BY <1>1, <1>4, <4>2
        <5>2. QED
          BY <5>1
      <4>3. CASE l + Size < j
        <5>1. /\ j - Size \in 1..N /\ k - Size \in 1..N /\ j - Size < k - Size
              /\ b[j] = a[j - Size] /\ b[k] = a[k - Size]
          BY <1>1, <1>4, <1>9, <4>3
        <5>2. QED
          BY <5>1
      <4>4. QED
        BY <1>1, <1>4, <1>9, <2>5, <4>1, <4>2, <4>3
    <3>2. QED
      BY <2>1, <2>2, <3>1
  <2>6. QED
    BY <2>3, <2>4, <2>5
<1>10. QED
  BY <1>2, <1>5, <1>6, <1>7, <1>8, <1>9 DEF Stream

(* More of the stream may go ahead, up to the end of a packet.             *)
LEMMA StreamCut ==
  ASSUME NEW a, NEW N \in Nat, NEW m \in 0..N, NEW m2 \in m..N, NEW id, NEW q,
         Stream(a, N, m, id, q), 0 < m2 /\ m2 < N => a[m2] # a[m2 + 1]
  PROVE  Stream(a, N, m2, id, q)
<1>1. m \in Nat /\ m2 \in Nat /\ m <= m2 /\ m2 <= N /\ Size \in Nat
  BY SizeType
<1>2. ASSUME NEW j \in 1..N, NEW k \in 1..N, j <= m2, m2 < k, a[j] = a[k]
      PROVE  FALSE
  <2>1. Block(a, N, a[j])
    BY DEF Stream
  <2>2. PICK b \in Nat : b + Size <= N /\ \A x \in 1..N : a[x] = a[j] <=> b < x /\ x <= b + Size
    BY <2>1 DEF Block, BlockAt
  <2>3. b < j /\ k <= b + Size
    BY <1>2, <2>2
  <2>4. m2 \in 1..N /\ m2 + 1 \in 1..N /\ b < m2 /\ m2 + 1 <= b + Size /\ 0 < m2 /\ m2 < N
    BY <1>1, <1>2, <2>3
  <2>5. a[m2] = a[j] /\ a[m2 + 1] = a[j]
    BY <1>1, <2>2, <2>4
  <2>6. QED
    BY <2>4, <2>5
<1>3. \A k \in 1..N : m2 < k => q[a[k]].low
  BY <1>1 DEF Stream
<1>4. QED
  BY <1>2, <1>3 DEF Stream

(* HeadOf is a prefix.                                                     *)
LEMMA HeadPrefix ==
  ASSUME NEW S, NEW l \in Seq(S)
  PROVE  \E c \in 0..Len(l) : HeadOf(l) = SubSeq(l, 1, c)
<1>1. PICK C : C = {k \in DOMAIN l : l[k] = Head(l)}
  OBVIOUS
<1>2. DOMAIN l = 1..Len(l) /\ Len(l) \in Nat /\ 1 \in Int /\ Len(l) \in Int
  OBVIOUS
<1>3. IsFiniteSet(1..Len(l)) /\ Cardinality(1..Len(l)) = IF 1 > Len(l) THEN 0 ELSE Len(l) - 1 + 1
  BY <1>2, FS_Interval
<1>4. C \subseteq 1..Len(l)
  BY <1>1, <1>2
<1>5. Cardinality(C) <= Cardinality(1..Len(l)) /\ IsFiniteSet(C)
  BY <1>3, <1>4, FS_Subset
<1>6. Cardinality(C) \in Nat
  BY <1>5, FS_CardinalityType
<1>7. Cardinality(1..Len(l)) = Len(l)
  BY <1>2, <1>3
<1>8. Cardinality(C) \in 0..Len(l)
  BY <1>2, <1>5, <1>6, <1>7
<1>9. QED
  BY <1>1, <1>8 DEF HeadOf

(* How much of it is left, when the list is the rest of a stream.          *)
Rest(a, M, l)  == \A x \in 1..Len(l) : a[M + x] = l[x]
HeadHas(l, c) == c \in 1..Len(l) /\ HeadOf(l) = SubSeq(l, 1, c) /\ Len(HeadOf(l)) = c

LEMMA HeadLeft ==
  ASSUME NEW S, NEW l \in Seq(S), l # <<>>, NEW a, NEW M \in Nat, Rest(a, M, l),
         NEW b \in Nat, BlockAt(a, M + Len(l), l[1], b)
  PROVE  b <= M /\ HeadHas(l, b + Size - M)
<1>0. /\ \A x \in 1..Len(l) : a[M + x] = l[x]
      /\ b + Size <= M + Len(l)
      /\ \A k \in 1..M + Len(l) : a[k] = l[1] <=> b < k /\ k <= b + Size
  BY DEF Rest, BlockAt
<1>1. Len(l) \in Nat /\ Len(l) > 0 /\ DOMAIN l = 1..Len(l) /\ Head(l) = l[1] /\ Size \in Nat
  BY SizeType
<1>2. M + 1 \in 1..M + Len(l) /\ a[M + 1] = l[1]
  BY <1>0, <1>1
<1>3. b < M + 1 /\ M + 1 <= b + Size
  BY <1>0, <1>2
<1>4. PICK c \in Nat : c = b + Size - M
  BY <1>1, <1>3
<1>5. c \in 1..Len(l) /\ b <= M
  BY <1>0, <1>1, <1>3, <1>4
<1>6. {k \in DOMAIN l : l[k] = Head(l)} = 1..c
  <2>1. ASSUME NEW k \in 1..Len(l)
        PROVE  l[k] = l[1] <=> k <= c
    <3>1. M + k \in 1..M + Len(l) /\ a[M + k] = l[k] /\ b < M + k
      BY <1>0, <1>1, <1>5
    <3>2. l[k] = l[1] <=> M + k <= b + Size
      BY <1>0, <3>1
    <3>3. QED
      BY <1>1, <1>4, <3>2
  <2>2. QED
    BY <1>1, <1>5, <2>1
<1>7. Cardinality(1..c) = c
  <2>1. 1 \in Int /\ c \in Int /\ ~(1 > c) /\ c - 1 + 1 = c
    BY <1>1, <1>5
  <2>2. QED
    BY <2>1, FS_Interval
<1>8. HeadOf(l) = SubSeq(l, 1, c)
  BY <1>6, <1>7 DEF HeadOf
<1>9. Len(SubSeq(l, 1, c)) = c
  BY <1>1, <1>5, CutJoin
<1>10. QED
  BY <1>4, <1>5, <1>8, <1>9 DEF HeadHas

(* Two sockets that differ in their lists, wb_size and write event.        *)
SameSocket(t, s) ==
  IsSocket(t) /\ t.type = s.type /\ t.id = s.id /\ t.proto = s.proto

(* raise_uncomplete moves the head of the low list to the high one.        *)
LEMMA RaisedUnits ==
  ASSUME NEW S, NEW t, IsSocket(t), t.high = <<>>, t.low \in Seq(S)
  PROVE  LET r == Raised(t) IN
         /\ SameSocket(r, t) /\ r.wr = t.wr /\ r.wb = t.wb
         /\ r.high \in Seq(S) /\ r.low \in Seq(S) /\ r.high \o r.low = t.low
         /\ Len(r.high) + Len(r.low) = Len(t.low)
<1>1. PICK l \in Seq(S) : l = t.low
  OBVIOUS
<1>2. PICK r : r = Raised(t)
  OBVIOUS
<1>3. CASE list_uncomplete(l)
  <2>1. PICK c \in 0..Len(l) : HeadOf(l) = SubSeq(l, 1, c)
    BY HeadPrefix
  <2>2. PICK x, y \in Seq(S) : Parts(l, c, x, y)
    BY CutParts
  <2>3. /\ HeadOf(l) = x /\ Drop(l, Len(HeadOf(l))) = y /\ x \o y = l
        /\ Len(x) = c /\ Len(y) = Len(l) - c
    BY <2>1, <2>2 DEF Parts
  <2>4. r = [t EXCEPT !.high = x, !.low = y]
    BY <1>1, <1>2, <1>3, <2>3 DEF Raised
  <2>5. IsSocket(r) /\ r.high = x /\ r.low = y /\ r.type = t.type /\ r.id = t.id /\ r.proto = t.proto
        /\ r.wr = t.wr /\ r.wb = t.wb
    BY <2>4 DEF IsSocket
  <2>6. Len(x) + Len(y) = Len(l)
    BY <2>1, <2>3
  <2>7. QED
    BY <1>1, <1>2, <2>3, <2>5, <2>6 DEF SameSocket
<1>4. CASE ~list_uncomplete(l)
  <2>1. r = t
    BY <1>1, <1>2, <1>4 DEF Raised
  <2>2. <<>> \o l = l /\ Len(<<>>) + Len(l) = Len(l) /\ <<>> \in Seq(S)
    BY ConcatEmptySeq
  <2>3. QED
    BY <1>1, <1>2, <2>1, <2>2 DEF SameSocket
<1>5. QED
  BY <1>3, <1>4

(* Concatenation, as a function symbol of its own for the provers.         *)
Join(x, y) == x \o y

LEMMA JoinAssociative ==
  ASSUME NEW S, NEW x \in Seq(S), NEW y \in Seq(S), NEW z \in Seq(S)
  PROVE  Join(Join(x, y), z) = Join(x, Join(y, z))
<1>1. (x \o y) \o z = x \o (y \o z)
  BY ConcatAssociative
<1>2. QED
  BY <1>1 DEF Join

(* n more units were written, and the others keep their place.             *)
SameUnits(S, w, s, u, t, n) ==
  /\ u \in Seq(S) /\ SameSocket(t, s) /\ t.wr = s.wr /\ t.wb = s.wb - n
  /\ t.high \in Seq(S) /\ t.low \in Seq(S) /\ All(u, t) = All(w, s)
  /\ Len(t.high) + Len(t.low) = Len(s.high) + Len(s.low) - n

(* The first k of the high and j of the low list are written: every unit   *)
(* keeps its place.                                                        *)
LEMMA SentKeepsUnits ==
  ASSUME NEW S, NEW w \in Seq(S), NEW s, IsSocket(s), s.high \in Seq(S), s.low \in Seq(S), s.wb \in Nat,
         NEW k \in 0..Len(s.high), NEW j \in 0..Len(s.low), k < Len(s.high) => j = 0
  PROVE  /\ SentUnits(s, k, j) \in Seq(S)
         /\ SameUnits(S, w, s, w \o SentUnits(s, k, j), Sent(s, k, j), k + j)
<1>1. PICK h, l \in Seq(S) : h = s.high /\ l = s.low
  OBVIOUS
<1>2. k \in 0..Len(h) /\ j \in 0..Len(l) /\ Len(h) \in Nat /\ Len(l) \in Nat /\ k \in Nat /\ j \in Nat
  BY <1>1
<1>30. PICK h1, h2 \in Seq(S) : Parts(h, k, h1, h2)
  BY <1>2, CutParts
<1>40. PICK l1, l2 \in Seq(S) : Parts(l, j, l1, l2)
  BY <1>2, CutParts
<1>3. /\ h1 = SubSeq(h, 1, k) /\ h2 = Drop(h, k) /\ h1 \o h2 = h
      /\ Len(h1) = k /\ Len(h2) = Len(h) - k
  BY <1>30 DEF Parts
<1>4. /\ l1 = SubSeq(l, 1, j) /\ l2 = Drop(l, j) /\ l1 \o l2 = l
      /\ Len(l1) = j /\ Len(l2) = Len(l) - j
  BY <1>40 DEF Parts
<1>5. PICK d \in Seq(S) : d = SentUnits(s, k, j) /\ d = h1 \o l1
  <2>1. SentUnits(s, k, j) = h1 \o l1
    BY <1>1, <1>3, <1>4 DEF SentUnits
  <2>2. h1 \o l1 \in Seq(S)
    BY ConcatProperties
  <2>3. QED
    BY <2>1, <2>2
<1>6. PICK u \in Seq(S) : u = w \o d
  BY ConcatProperties
<1>7. PICK t : t = Sent(s, k, j)
  OBVIOUS
<1>8. CASE k < Len(h)
  <2>1. j = 0 /\ l1 = <<>> /\ l2 = l
    <3>1. j = 0 /\ Len(l1) = 0
      BY <1>1, <1>4, <1>8
    <3>2. l1 = <<>>
      BY <3>1, EmptySeq
    <3>3. QED
      BY <1>4, <3>1, <3>2, ConcatEmptySeq
  <2>2. t = [s EXCEPT !.high = h2, !.wb = s.wb - k]
    BY <1>1, <1>3, <1>7, <1>8 DEF Sent
  <2>3. PICK b : b = s.wb - k
    OBVIOUS
  <2>4. /\ IsSocket(t) /\ t.high = h2 /\ t.low = l /\ t.type = s.type /\ t.id = s.id
        /\ t.proto = s.proto /\ t.wr = s.wr /\ t.wb = b
    BY <1>1, <2>2, <2>3 DEF IsSocket
  <2>5. d = h1
    BY <1>5, <2>1, ConcatEmptySeq
  <2>6. u \o h2 = w \o h
    <3>1. Join(Join(w, h1), h2) = Join(w, Join(h1, h2))
      BY JoinAssociative
    <3>2. Join(h1, h2) = h /\ Join(w, h1) = u
      BY <1>3, <1>6, <2>5 DEF Join
    <3>3. Join(u, h2) = Join(w, h)
      BY <3>1, <3>2
    <3>4. QED
      BY <3>3 DEF Join
  <2>7. All(u, t) = All(w, s)
    BY <1>1, <2>4, <2>6 DEF All
  <2>8. b = s.wb - (k + j) /\ Len(h2) + Len(l) = Len(h) + Len(l) - (k + j)
    BY <1>2, <1>3, <2>1, <2>3
  <2>9. QED
    BY <1>1, <1>5, <1>6, <1>7, <2>4, <2>7, <2>8 DEF SameSocket, SameUnits
<1>9. CASE ~(k < Len(h))
  <2>1. k = Len(h) /\ h2 = <<>> /\ h1 = h
    <3>1. k = Len(h) /\ Len(h2) = 0
      BY <1>2, <1>3, <1>9
    <3>2. h2 = <<>>
      BY <3>1, EmptySeq
    <3>3. QED
      BY <1>3, <3>1, <3>2, ConcatEmptySeq
  <2>2. PICK b : b = s.wb - k - j
    OBVIOUS
  <2>3. PICK r : r = [s EXCEPT !.high = <<>>, !.low = l2, !.wb = b]
    OBVIOUS
  <2>4. t = Raised(r)
    BY <1>1, <1>4, <1>7, <1>9, <2>2, <2>3 DEF Sent
  <2>5. /\ IsSocket(r) /\ r.high = <<>> /\ r.low = l2 /\ r.type = s.type /\ r.id = s.id
        /\ r.proto = s.proto /\ r.wr = s.wr /\ r.wb = b
    BY <2>3, ListsEdited DEF IsSocket
  <2>6. /\ SameSocket(t, r) /\ t.wr = r.wr /\ t.wb = r.wb
        /\ t.high \in Seq(S) /\ t.low \in Seq(S) /\ t.high \o t.low = l2
        /\ Len(t.high) + Len(t.low) = Len(l2)
    BY <2>4, <2>5, RaisedUnits
  <2>7. PICK x, y \in Seq(S) : x = t.high /\ y = t.low
    BY <2>6
  <2>8. u \o x \o y = w \o h \o l
    <3>1. PICK v \in Seq(S) : v = Join(w, h)
      BY ConcatProperties DEF Join
    <3>2. Join(v, l1) = Join(w, Join(h, l1))
      BY <3>1, JoinAssociative
    <3>3. Join(Join(u, x), y) = Join(u, Join(x, y))
      BY JoinAssociative
    <3>4. Join(Join(v, l1), l2) = Join(v, Join(l1, l2))
      BY JoinAssociative
    <3>5. Join(h, l1) = d /\ Join(w, d) = u /\ Join(x, y) = l2 /\ Join(l1, l2) = l
      BY <1>4, <1>5, <1>6, <2>1, <2>6, <2>7 DEF Join
    <3>6. Join(Join(u, x), y) = Join(Join(w, h), l)
      BY <3>1, <3>2, <3>3, <3>4, <3>5
    <3>7. QED
      BY <3>6 DEF Join
  <2>9. All(u, t) = All(w, s)
    BY <1>1, <2>7, <2>8 DEF All
  <2>10. b = s.wb - (k + j)
    BY <1>2, <2>2, SMTT(30)
  <2>11. Len(l2) = Len(h) + Len(l) - (k + j)
    BY <1>2, <1>4, <2>1
  <2>12. QED
    BY <1>1, <1>5, <1>6, <1>7, <2>2, <2>5, <2>6, <2>9, <2>10, <2>11 DEF SameSocket, SameUnits
<1>10. QED
  BY <1>8, <1>9

(* What is written leaves the stream as it was, and raise_uncomplete keeps *)
(* packets whole: the low list starts with a whole one.                    *)
LEMMA SentKeepsStream ==
  ASSUME NEW w \in Seq(Nat), NEW s, IsSocket(s), s.high \in Seq(Nat), s.low \in Seq(Nat), s.wb \in Nat,
         NEW k \in 0..Len(s.high), NEW j \in 0..Len(s.low), k < Len(s.high) => j = 0,
         NEW q, StreamOf(w, s, q)
  PROVE  StreamOf(w \o SentUnits(s, k, j), Sent(s, k, j), q)
<1>1. PICK h, l \in Seq(Nat) : h = s.high /\ l = s.low
  OBVIOUS
<1>2. PICK u, t : u = w \o SentUnits(s, k, j) /\ t = Sent(s, k, j)
  OBVIOUS
<1>3. /\ u \in Seq(Nat) /\ t.high \in Seq(Nat) /\ t.low \in Seq(Nat) /\ t.id = s.id
      /\ All(u, t) = All(w, s)
  <2>1. SameUnits(Nat, w, s, w \o SentUnits(s, k, j), Sent(s, k, j), k + j)
    BY SentKeepsUnits
  <2>2. QED
    BY <1>2, <2>1 DEF SameSocket, SameUnits
<1>4. PICK x, y \in Seq(Nat) : x = t.high /\ y = t.low
  BY <1>3
<1>5. PICK a : a = All(w, s)
  OBVIOUS
<1>6. PICK m \in Nat, N \in Nat : m = Len(w) + Len(h) /\ N = m + Len(l)
  <2>1. Len(w) + Len(h) \in Nat /\ Len(w) + Len(h) + Len(l) \in Nat
    OBVIOUS
  <2>2. QED
    BY <2>1
<1>7. Stream(a, N, m, s.id, q)
  BY <1>1, <1>5, <1>6 DEF StreamOf, Ahead
<1>8. /\ Len(a) = N /\ a \in Seq(Nat)
      /\ \A i \in 1..Len(l) : a[m + i] = l[i]
  <2>1. Laid(Nat, w, s)
    BY AllUnits
  <2>2. Ahead(w, s) = m
    BY <1>1, <1>6 DEF Ahead
  <2>3. QED
    BY <1>1, <1>5, <1>6, <2>1, <2>2 DEF Laid
<1>9. /\ Len(u) + Len(x) \in Nat /\ N = (Len(u) + Len(x)) + Len(y)
      /\ \A i \in 1..Len(y) : a[Len(u) + Len(x) + i] = y[i]
  <2>1. Laid(Nat, u, t)
    BY <1>3, AllUnits
  <2>2. Ahead(u, t) = Len(u) + Len(x)
    BY <1>4 DEF Ahead
  <2>3. QED
    BY <1>3, <1>4, <1>5, <1>8, <2>1, <2>2 DEF Laid
<1>10. PICK m2 \in Nat : m2 = Len(u) + Len(x)
  BY <1>9
<1>11. k \in 0..Len(h) /\ j \in 0..Len(l) /\ Len(h) \in Nat /\ Len(l) \in Nat /\ k \in Nat /\ j \in Nat
  BY <1>1
<1>12. m2 \in m..N /\ (0 < m2 /\ m2 < N => a[m2] # a[m2 + 1])
  <2>1. Len(SubSeq(h, 1, k)) = k /\ SubSeq(h, 1, k) \in Seq(Nat)
    BY <1>11, CutJoin
  <2>2. Len(SubSeq(l, 1, j)) = j /\ SubSeq(l, 1, j) \in Seq(Nat)
    BY <1>11, CutJoin
  <2>3. Len(u) = Len(w) + k + j
    <3>1. SentUnits(s, k, j) = SubSeq(h, 1, k) \o SubSeq(l, 1, j)
      BY <1>1 DEF SentUnits
    <3>2. Len(SentUnits(s, k, j)) = k + j /\ SentUnits(s, k, j) \in Seq(Nat)
      BY <2>1, <2>2, <3>1, ConcatProperties, SMTT(30)
    <3>3. Len(u) = Len(w) + (k + j)
      BY <1>2, <3>2, ConcatProperties
    <3>4. QED
      BY <1>11, <3>3
  <2>4. CASE k < Len(h)
    <3>1. t = [s EXCEPT !.high = Drop(h, k), !.wb = s.wb - k]
      BY <1>1, <1>2, <2>4 DEF Sent
    <3>2. x = Drop(h, k) /\ j = 0
      BY <1>1, <1>4, <2>4, <3>1 DEF IsSocket
    <3>3. Len(x) = Len(h) - k
      BY <1>11, <3>2, CutJoin
    <3>4. m2 = m
      BY <1>6, <1>10, <1>11, <2>3, <3>2, <3>3
    <3>5. \A i, n \in 1..N : i <= m /\ m < n => a[i] # a[n]
      BY <1>7 DEF Stream
    <3>6. m2 \in m..N
      BY <1>6, <1>11, <3>4
    <3>7. ASSUME 0 < m2, m2 < N
          PROVE  a[m2] # a[m2 + 1]
      <4>1. m \in 1..N /\ m + 1 \in 1..N /\ m <= m /\ m < m + 1
        BY <3>4, <3>7
      <4>2. QED
        BY <3>4, <3>5, <4>1
    <3>8. QED
      BY <3>6, <3>7
  <2>5. CASE ~(k < Len(h))
    <3>1. k = Len(h)
      BY <1>11, <2>5
    <3>2. PICK l2 \in Seq(Nat) : l2 = Drop(l, j) /\ Len(l2) = Len(l) - j
      BY <1>11, CutJoin
    <3>3. PICK r : r = [s EXCEPT !.high = <<>>, !.low = l2, !.wb = s.wb - k - j]
      OBVIOUS
    <3>4. t = Raised(r) /\ IsSocket(r) /\ r.high = <<>> /\ r.low = l2
      <4>1. t = Raised(r)
        BY <1>1, <1>2, <2>5, <3>2, <3>3 DEF Sent
      <4>2. PICK b : b = s.wb - k - j
        OBVIOUS
      <4>3. r = [s EXCEPT !.high = <<>>, !.low = l2, !.wb = b]
        BY <3>3, <4>2
      <4>4. QED
        BY <4>1, <4>3, ListsEdited DEF IsSocket
    <3>5. PICK M \in Nat : M = m + j
      BY <1>11
    <3>6. M = Len(u) /\ N = M + Len(l2)
      BY <1>6, <1>11, <2>3, <3>1, <3>2, <3>5
    <3>7. \A i \in 1..Len(l2) : a[M + i] = l2[i]
      <4>1. TAKE i \in 1..Len(l2)
      <4>2. l2[i] = l[i + j] /\ i + j \in 1..Len(l)
        BY <1>11, <3>2 DEF Drop
      <4>3. a[m + (i + j)] = l[i + j] /\ m + (i + j) = M + i
        BY <1>8, <1>11, <3>5, <4>2
      <4>4. QED
        BY <4>2, <4>3
    <3>11. Rest(a, M, l2)
      BY <3>7 DEF Rest
    <3>12. m <= M /\ M <= N
      <4>1. Len(l2) \in Nat
        OBVIOUS
      <4>2. QED
        BY <1>11, <3>5, <3>6, <4>1
    <3>8. CASE l2 = <<>>
      <4>1. Len(l2) = 0 /\ ~list_uncomplete(l2)
        BY <3>8 DEF list_uncomplete
      <4>2. x = <<>> /\ Len(x) = 0
        BY <1>4, <3>4, <4>1 DEF Raised
      <4>3. m2 = N /\ m <= N
        BY <1>6, <1>10, <1>11, <3>6, <4>1, <4>2
      <4>4. QED
        BY <1>6, <4>3
    <3>9. CASE l2 # <<>>
      <4>1. Len(l2) > 0 /\ Len(l2) \in Nat /\ M + 1 \in 1..N /\ a[M + 1] = l2[1]
        <5>1. Len(l2) > 0 /\ Len(l2) \in Nat
          BY <3>9
        <5>2. M + 1 \in 1..N /\ 1 \in 1..Len(l2)
          <6>1. PICK g \in Nat : g = Len(l2) /\ g > 0
            BY <5>1, Zenon
          <6>2. N = M + g
            BY <3>6, <6>1, Zenon
          <6>3. M + 1 \in 1..N /\ 1 \in 1..g
            BY <6>1, <6>2
          <6>4. QED
            BY <6>1, <6>3, Zenon
        <5>3. QED
          BY <3>7, <5>1, <5>2
      <4>2. Block(a, N, l2[1])
        BY <1>7, <4>1 DEF Stream
      <4>9. PICK b \in Nat : BlockAt(a, N, l2[1], b)
        BY <4>2 DEF Block
      <4>3. b + Size <= N /\ \A n \in 1..N : a[n] = l2[1] <=> b < n /\ n <= b + Size
        BY <4>9 DEF BlockAt
      <4>4. /\ b <= M /\ b + Size - M \in 1..Len(l2)
            /\ HeadOf(l2) = SubSeq(l2, 1, b + Size - M) /\ Len(HeadOf(l2)) = b + Size - M
        <5>1. BlockAt(a, M + Len(l2), l2[1], b)
          BY <3>6, <4>9
        <5>2. b <= M /\ HeadHas(l2, b + Size - M)
          BY <3>9, <3>11, <5>1, HeadLeft
        <5>3. QED
          BY <5>2 DEF HeadHas
      <4>5. Size \in Nat /\ Size > 0
        BY SizeType
      <4>6. CASE b < M
        <5>1. list_uncomplete(l2)
          BY <3>9, <4>4, <4>5, <4>6 DEF list_uncomplete
        <5>2. t = [r EXCEPT !.high = HeadOf(l2), !.low = Drop(l2, Len(HeadOf(l2)))]
          BY <3>4, <5>1 DEF Raised
        <5>3. x = HeadOf(l2)
          BY <1>4, <3>4, <5>2 DEF IsSocket
        <5>4. m2 = b + Size
          BY <1>10, <3>6, <4>3, <4>4, <4>5, <5>3
        <5>5. m2 \in m..N
          BY <1>6, <1>11, <3>5, <3>6, <4>3, <4>4, <4>5, <5>4, SMTT(30)
        <5>6. ASSUME m2 < N
              PROVE  a[m2] # a[m2 + 1]
          <6>1. m2 \in 1..N /\ m2 + 1 \in 1..N /\ b < m2 /\ m2 <= b + Size /\ ~(m2 + 1 <= b + Size)
            BY <4>5, <5>4, <5>6
          <6>2. QED
            BY <4>3, <6>1
        <5>7. QED
          BY <5>5, <5>6
      <4>7. CASE b = M
        <5>1. ~list_uncomplete(l2)
          BY <4>4, <4>5, <4>7 DEF list_uncomplete
        <5>2. x = <<>> /\ Len(x) = 0
          BY <1>4, <3>4, <5>1 DEF Raised
        <5>3. m2 = b
          BY <1>10, <3>6, <4>7, <5>2
        <5>4. m2 \in m..N
          BY <3>12, <4>7, <5>3
        <5>5. ASSUME 0 < m2, m2 < N
              PROVE  a[m2] # a[m2 + 1]
          <6>1. m2 \in 1..N /\ m2 + 1 \in 1..N /\ ~(b < m2) /\ b < m2 + 1 /\ m2 + 1 <= b + Size
            BY <4>5, <5>3, <5>5
          <6>2. QED
            BY <4>3, <6>1
        <5>6. QED
          BY <5>4, <5>5
      <4>8. QED
        BY <4>4, <4>6, <4>7
    <3>10. QED
      BY <3>8, <3>9
  <2>6. QED
    BY <2>4, <2>5
<1>13. m \in 0..N
  BY <1>6, <1>11
<1>14. Stream(a, N, m2, s.id, q)
  BY <1>7, <1>12, <1>13, StreamCut
<1>15. QED
  BY <1>2, <1>3, <1>4, <1>5, <1>9, <1>10, <1>14 DEF StreamOf, Ahead

LEMMA UnitsType ==
  ASSUME NEW S, NEW p \in S
  PROVE  Units(p) \in Seq(S) /\ Len(Units(p)) = Size /\ \A k \in 1..Size : Units(p)[k] = p
  BY SizeType DEF Units

(* z is x and then y.                                                      *)
Joined(x, y, z) ==
  /\ Len(z) = Len(x) + Len(y)
  /\ \A k \in 1..Len(x) : z[k] = x[k]
  /\ \A k \in 1..Len(y) : z[Len(x) + k] = y[k]

LEMMA JoinUnits ==
  ASSUME NEW S, NEW x \in Seq(S), NEW y \in Seq(S)
  PROVE  Join(x, y) \in Seq(S) /\ Joined(x, y, Join(x, y))
  BY DEF Join, Joined

LEMMA JoinType ==
  ASSUME NEW S, NEW x \in Seq(S), NEW y \in Seq(S)
  PROVE  Join(x, y) \in Seq(S) /\ Len(Join(x, y)) = Len(x) + Len(y)
  BY DEF Join

LEMMA JoinEmpty ==
  ASSUME NEW S, NEW x \in Seq(S)
  PROVE  Join(x, <<>>) = x /\ Join(<<>>, x) = x
  BY ConcatEmptySeq DEF Join

(* The units of a packet between v and l.                                  *)
LEMMA UnitsInserted ==
  ASSUME NEW S, NEW v \in Seq(S), NEW l \in Seq(S), NEW p \in S
  PROVE  /\ Inserted(Join(v, l), Join(Join(v, Units(p)), l), Len(v) + Len(l), Len(v), p)
         /\ Len(Join(Join(v, Units(p)), l)) = Len(v) + Size + Len(l)
<1>1. PICK e \in Seq(S) : e = Units(p) /\ Len(e) = Size /\ \A k \in 1..Size : e[k] = p
  BY UnitsType
<1>2. PICK a : a = Join(v, l)
  OBVIOUS
<1>3. /\ \A k \in 1..Len(v) : a[k] = v[k]
      /\ \A k \in 1..Len(l) : a[Len(v) + k] = l[k]
  <2>1. Joined(v, l, Join(v, l))
    BY JoinUnits
  <2>2. Joined(v, l, a)
    BY <1>2, <2>1
  <2>3. QED
    BY <2>2 DEF Joined
<1>4. PICK x \in Seq(S) : x = Join(v, e)
  BY JoinType
<1>5. /\ Len(x) = Len(v) + Size
      /\ \A k \in 1..Len(v) : x[k] = v[k]
      /\ \A k \in 1..Size : x[Len(v) + k] = p
  <2>1. Joined(v, e, Join(v, e))
    BY JoinUnits
  <2>2. Joined(v, e, x)
    BY <1>4, <2>1
  <2>3. QED
    BY <1>1, <2>2 DEF Joined
<1>6. PICK b : b = Join(x, l)
  OBVIOUS
<1>7. /\ Len(b) = Len(x) + Len(l)
      /\ \A k \in 1..Len(x) : b[k] = x[k]
      /\ \A k \in 1..Len(l) : b[Len(x) + k] = l[k]
  <2>1. Joined(x, l, Join(x, l))
    BY JoinUnits
  <2>2. Joined(x, l, b)
    BY <1>6, <2>1
  <2>3. QED
    BY <2>2 DEF Joined
<1>8. Len(v) \in Nat /\ Len(l) \in Nat /\ Size \in Nat
  BY SizeType
<1>9. PICK m \in Nat, n \in Nat : m = Len(v) /\ n = Len(l)
  BY <1>8
<1>10. ASSUME NEW k \in 1..m PROVE b[k] = a[k]
  <2>1. k \in 1..Len(v) /\ k \in 1..Len(x)
    BY <1>5, <1>8, <1>9
  <2>2. QED
    BY <1>3, <1>5, <1>7, <2>1
<1>11. ASSUME NEW k \in m + 1..m + Size PROVE b[k] = p
  <2>1. k - m \in 1..Size /\ Len(v) + (k - m) = k /\ k \in 1..Len(x)
    BY <1>5, <1>8, <1>9
  <2>2. x[k] = p
    BY <1>5, <2>1
  <2>3. QED
    BY <1>7, <2>1, <2>2
<1>12. ASSUME NEW k \in m + 1..m + n PROVE b[k + Size] = a[k]
  <2>1. k - m \in 1..Len(l) /\ Len(v) + (k - m) = k /\ Len(x) + (k - m) = k + Size
    BY <1>5, <1>8, <1>9
  <2>2. a[k] = l[k - m]
    BY <1>3, <2>1
  <2>3. b[k + Size] = l[k - m]
    BY <1>7, <2>1
  <2>4. QED
    BY <2>2, <2>3
<1>13. Inserted(a, b, m + n, m, p)
  BY <1>10, <1>11, <1>12 DEF Inserted
<1>14. Len(b) = Len(v) + Size + Len(l)
  BY <1>5, <1>7, <1>8
<1>15. QED
  BY <1>1, <1>2, <1>4, <1>6, <1>9, <1>13, <1>14

(* t is s with the units of p added, some of them perhaps written at once. *)
Put(S, w, s, u, t, p, low) ==
  /\ u \in Seq(S) /\ SameSocket(t, s) /\ t.high \in Seq(S) /\ t.low \in Seq(S)
  /\ \E v, l \in Seq(S) :
       /\ All(w, s) = Join(v, l) /\ All(u, t) = Join(Join(v, Units(p)), l)
       /\ Ahead(w, s) <= Len(v)
       /\ Place(Len(v) + Len(l), Ahead(w, s), Len(v), Ahead(u, t), low)

LEMMA PutLow ==
  ASSUME NEW S, NEW w \in Seq(S), NEW s, s.high \in Seq(S), s.low \in Seq(S), NEW p \in S,
         NEW t, SameSocket(t, s), t.high = s.high, t.low = s.low \o Units(p)
  PROVE  Put(S, w, s, w, t, p, TRUE)
<1>1. PICK h, l, e \in Seq(S) : h = s.high /\ l = s.low /\ e = Units(p)
  BY UnitsType
<1>2. PICK x \in Seq(S) : x = Join(w, h) /\ Len(x) = Len(w) + Len(h)
  BY JoinType
<1>3. PICK v \in Seq(S) : v = Join(x, l) /\ Len(v) = Len(x) + Len(l)
  BY JoinType
<1>4. All(w, s) = v /\ All(w, t) = Join(x, Join(l, e))
  BY <1>1, <1>2, <1>3 DEF All, Join
<1>5. Join(x, Join(l, e)) = Join(v, e)
  BY <1>3, JoinAssociative
<1>6. PICK y \in Seq(S) : y = Join(v, e)
  BY JoinType
<1>7. v = Join(v, <<>>) /\ y = Join(y, <<>>) /\ <<>> \in Seq(S)
  BY JoinEmpty
<1>8. t.low \in Seq(S)
  <2>1. t.low = Join(l, e)
    BY <1>1 DEF Join
  <2>2. QED
    BY <2>1, JoinType
<1>9. Ahead(w, s) = Len(x) /\ Ahead(w, t) = Len(x) /\ Len(x) <= Len(v) /\ Len(v) + Len(<<>>) = Len(v)
  <2>1. Ahead(w, s) = Len(x) /\ Ahead(w, t) = Len(x)
    BY <1>1, <1>2 DEF Ahead
  <2>2. Len(x) \in Nat /\ Len(l) \in Nat /\ Len(v) \in Nat /\ Len(<<>>) = 0
    OBVIOUS
  <2>3. QED
    BY <1>3, <2>1, <2>2
<1>10. Place(Len(v) + Len(<<>>), Ahead(w, s), Len(v), Ahead(w, t), TRUE)
  BY <1>9 DEF Place
<1>11. All(w, s) = Join(v, <<>>) /\ All(w, t) = Join(Join(v, Units(p)), <<>>)
  BY <1>1, <1>4, <1>5, <1>6, <1>7
<1>12. QED
  BY <1>1, <1>7, <1>8, <1>9, <1>10, <1>11 DEF Put

LEMMA PutHigh ==
  ASSUME NEW S, NEW w \in Seq(S), NEW s, s.high \in Seq(S), s.low \in Seq(S), NEW p \in S,
         NEW t, SameSocket(t, s), t.high = s.high \o Units(p), t.low = s.low
  PROVE  Put(S, w, s, w, t, p, FALSE)
<1>1. PICK h, l, e \in Seq(S) : h = s.high /\ l = s.low /\ e = Units(p) /\ Len(e) = Size
  BY UnitsType
<1>2. PICK v \in Seq(S) : v = Join(w, h) /\ Len(v) = Len(w) + Len(h)
  BY JoinType
<1>3. PICK g \in Seq(S) : g = Join(h, e) /\ Len(g) = Len(h) + Size
  BY <1>1, JoinType
<1>4. t.high = g
  BY <1>1, <1>3 DEF Join
<1>5. All(w, s) = Join(v, l) /\ All(w, t) = Join(Join(w, g), l)
  BY <1>1, <1>2, <1>4 DEF All, Join
<1>6. Join(w, g) = Join(v, e)
  BY <1>2, <1>3, JoinAssociative
<1>7. Ahead(w, s) = Len(v) /\ Ahead(w, t) = Len(v) + Size
  <2>1. Ahead(w, s) = Len(w) + Len(h) /\ Ahead(w, t) = Len(w) + Len(g)
    BY <1>1, <1>4 DEF Ahead
  <2>2. Len(w) \in Nat /\ Len(h) \in Nat /\ Size \in Nat
    BY SizeType
  <2>3. QED
    BY <1>2, <1>3, <2>1, <2>2
<1>8. Place(Len(v) + Len(l), Ahead(w, s), Len(v), Ahead(w, t), FALSE) /\ Ahead(w, s) <= Len(v)
  BY <1>7 DEF Place
<1>9. QED
  BY <1>1, <1>4, <1>5, <1>6, <1>8 DEF Put

LEMMA PutDirect ==
  ASSUME NEW S, NEW w \in Seq(S), NEW s, Empty(s), NEW p \in S, NEW k \in 0..Size,
         NEW t, SameSocket(t, s), t.high = Drop(Units(p), k), t.low = <<>>, NEW low \in BOOLEAN
  PROVE  Put(S, w, s, w \o SubSeq(Units(p), 1, k), t, p, low)
<1>1. PICK e \in Seq(S) : e = Units(p) /\ Len(e) = Size
  BY UnitsType
<1>2. PICK x, y \in Seq(S) : Parts(e, k, x, y)
  BY <1>1, CutParts
<1>3. x = SubSeq(e, 1, k) /\ y = Drop(e, k) /\ Join(x, y) = e /\ Len(x) = k /\ Len(y) = Size - k
  BY <1>1, <1>2 DEF Parts, Join
<1>12. PICK u \in Seq(S) : u = Join(w, x) /\ Len(u) = Len(w) + Len(x)
  BY JoinType
<1>4. u = Join(w, x) /\ Len(u) = Len(w) + k
  BY <1>3, <1>12
<1>5. u = w \o SubSeq(Units(p), 1, k) /\ t.high = y /\ t.low = <<>> /\ s.high = <<>> /\ s.low = <<>>
  BY <1>1, <1>3, <1>4 DEF Join, Empty
<1>6. <<>> \in Seq(S) /\ Join(w, <<>>) = w /\ Len(<<>>) = 0
  BY JoinEmpty
<1>7. All(w, s) = Join(w, <<>>)
  <2>1. All(w, s) = Join(Join(w, <<>>), <<>>)
    BY <1>5 DEF All, Join
  <2>2. QED
    BY <1>6, <2>1
<1>8. All(u, t) = Join(Join(w, e), <<>>)
  <2>1. All(u, t) = Join(Join(u, y), <<>>)
    BY <1>5 DEF All, Join
  <2>2. Join(Join(w, x), y) = Join(w, Join(x, y))
    BY JoinAssociative
  <2>3. Join(u, y) = Join(w, e)
    BY <1>3, <1>4, <2>2
  <2>4. QED
    BY <2>1, <2>3
<1>9. Ahead(w, s) = Len(w) /\ Ahead(u, t) = Len(w) + Size /\ Len(w) + Len(<<>>) = Len(w)
  <2>1. Ahead(w, s) = Len(w) + Len(<<>>) /\ Ahead(u, t) = Len(u) + Len(y)
    BY <1>5 DEF Ahead
  <2>2. Len(w) \in Nat /\ k \in Nat /\ Size \in Nat
    BY SizeType
  <2>3. PICK n \in Nat : n = Len(w)
    BY <2>2
  <2>4. n + 0 = n /\ (n + k) + (Size - k) = n + Size
    BY <2>2
  <2>5. QED
    BY <1>3, <1>4, <1>6, <2>1, <2>3, <2>4
<1>10. Place(Len(w) + Len(<<>>), Ahead(w, s), Len(w), Ahead(u, t), low) /\ Ahead(w, s) <= Len(w)
  BY <1>9 DEF Place
<1>11. QED
  BY <1>1, <1>5, <1>6, <1>7, <1>8, <1>10 DEF Put

(* The stream with a packet more.                                          *)
LEMMA PutKeepsStream ==
  ASSUME NEW w \in Seq(Nat), NEW s, s.high \in Seq(Nat), s.low \in Seq(Nat),
         NEW u, NEW t, NEW p \in Nat, NEW q \in Seq(Packets), NEW r,
         Put(Nat, w, s, u, t, p, q[p].low), Taking(q, r, p, s.id), StreamOf(w, s, q)
  PROVE  StreamOf(u, t, r)
<1>1. PICK v, l \in Seq(Nat) :
        /\ All(w, s) = Join(v, l) /\ All(u, t) = Join(Join(v, Units(p)), l)
        /\ Ahead(w, s) <= Len(v)
        /\ Place(Len(v) + Len(l), Ahead(w, s), Len(v), Ahead(u, t), q[p].low)
  BY DEF Put
<1>2. u \in Seq(Nat) /\ t.high \in Seq(Nat) /\ t.low \in Seq(Nat) /\ t.id = s.id
  BY DEF Put, SameSocket
<1>3. Laid(Nat, w, s) /\ Laid(Nat, u, t)
  BY <1>2, AllUnits
<1>4. PICK a, b : a = All(w, s) /\ b = All(u, t)
  OBVIOUS
<1>5. PICK N \in Nat : N = Len(v) + Len(l)
  OBVIOUS
<1>6. Len(a) = N
  BY <1>1, <1>4, <1>5, JoinType
<1>7. PICK m : m = Ahead(w, s)
  OBVIOUS
<1>8. m \in Nat /\ N = m + Len(s.low)
  BY <1>3, <1>4, <1>6, <1>7 DEF Laid
<1>9. Stream(a, N, m, s.id, q)
  BY <1>4, <1>7, <1>8 DEF StreamOf
<1>10. Inserted(a, b, N, Len(v), p) /\ Len(b) = Len(v) + Size + Len(l)
  BY <1>1, <1>4, <1>5, UnitsInserted
<1>11. Len(v) \in m..N /\ m \in 0..N
  <2>1. Len(v) \in Nat /\ Len(l) \in Nat
    OBVIOUS
  <2>2. QED
    BY <1>1, <1>5, <1>7, <1>8, <2>1
<1>12. Marked(q, r, p)
  BY TakingMarks
<1>13. PICK m2 : m2 = Ahead(u, t)
  OBVIOUS
<1>14. Place(N, m, Len(v), m2, q[p].low)
  BY <1>1, <1>5, <1>7, <1>13
<1>15. Stream(b, N + Size, m2, s.id, r)
  BY <1>9, <1>10, <1>11, <1>12, <1>14, StreamPut
<1>16. Ahead(u, t) + Len(t.low) = N + Size
  <2>1. Len(b) = Ahead(u, t) + Len(t.low)
    BY <1>3, <1>4 DEF Laid
  <2>2. Len(v) \in Nat /\ Len(l) \in Nat /\ Size \in Nat
    BY SizeType
  <2>3. PICK i \in Nat, j \in Nat : i = Len(v) /\ j = Len(l)
    BY <2>2
  <2>4. i + Size + j = (i + j) + Size
    BY <2>2
  <2>5. QED
    BY <1>5, <1>10, <2>1, <2>3, <2>4
<1>17. QED
  BY <1>2, <1>4, <1>13, <1>15, <1>16 DEF StreamOf

(* A packet of another socket, or one that is only sent, is none of it.    *)
LEMMA StreamOther ==
  ASSUME NEW a, NEW N, NEW m, NEW id, NEW q \in Seq(Packets), NEW r, NEW p, NEW jd, jd # id,
         Stream(a, N, m, id, q), Taking(q, r, p, jd)
  PROVE  Stream(a, N, m, id, r)
<1>1. Marked(q, r, p) /\ p \in DOMAIN q /\ q[p].id = jd
  BY TakingMarks DEF Taking
<1>2. \A x \in DOMAIN q : q[x].id = id => r[x].taken = q[x].taken
  BY <1>1 DEF Marked
<1>3. \A k \in 1..N : a[k] \in DOMAIN q /\ q[a[k]].taken /\ q[a[k]].id = id
  BY DEF Stream
<1>4. DOMAIN r = DOMAIN q /\ \A x \in DOMAIN q : r[x].low = q[x].low /\ r[x].id = q[x].id
  BY <1>1 DEF Marked
<1>5. \A x \in DOMAIN r : r[x].taken /\ r[x].id = id => Block(a, N, x)
  BY <1>2, <1>4 DEF Stream
<1>6. \A k \in 1..N : a[k] \in DOMAIN r /\ r[a[k]].taken /\ r[a[k]].id = id /\ r[a[k]].low = q[a[k]].low
  BY <1>2, <1>3, <1>4
<1>7. QED
  BY <1>5, <1>6 DEF Stream

LEMMA StreamMore ==
  ASSUME NEW a, NEW N, NEW m, NEW id, NEW q \in Seq(Packets), NEW e, ~e.taken,
         Stream(a, N, m, id, q)
  PROVE  Stream(a, N, m, id, Append(q, e))
<1>1. PICK r : r = Append(q, e)
  OBVIOUS
<1>2. /\ DOMAIN q = 1..Len(q) /\ Len(q) \in Nat /\ DOMAIN r = 1..Len(q) + 1
      /\ \A x \in 1..Len(q) : r[x] = q[x]
      /\ r[Len(q) + 1] = e
  BY <1>1
<1>3. \A x \in DOMAIN q : x \in DOMAIN r /\ r[x] = q[x]
  BY <1>2
<1>4. \A x \in DOMAIN r : r[x].taken => x \in DOMAIN q
  BY <1>2
<1>5. QED
  BY <1>1, <1>3, <1>4 DEF Stream

-----------------------------------------------------------------------------
(* The types are kept, whatever the slots are used for.                    *)

LEMMA MorePackets ==
  ASSUME NEW m \in Nat, NEW n \in Nat, m <= n
  PROVE  1..m \subseteq 1..n /\ Seq(1..m) \subseteq Seq(1..n)
<1>1. 1..m \subseteq 1..n
  OBVIOUS
<1>2. QED
  BY <1>1, SeqMonotonic

LEMMA SlotOKMore ==
  ASSUME NEW s, NEW m \in Nat, NEW n \in Nat, m <= n, NEW g, NEW h, g \subseteq h, SlotOK(s, m, g)
  PROVE  SlotOK(s, n, h)
  BY MorePackets DEF SlotOK

(* One slot is written, or none.                                           *)
LEMMA TableStep ==
  ASSUME Typed, NEW i \in Slots, NEW s, slot' = [slot EXCEPT ![i] = s],
         SlotOK(s, Len(pkts'), Known'), Len(pkts') \in Nat, Len(pkts) <= Len(pkts'),
         Known \subseteq Known', wire' \in [Id -> Seq(1..Len(pkts'))],
         told' \subseteq Known', fds' \subseteq Id
  PROVE  Table'
<1>1. /\ slot = [j \in Slots |-> slot[j]] /\ \A j \in Slots : SlotOK(slot[j], Len(pkts), Known)
      /\ Len(pkts) \in Nat
  BY DEF Typed, Table, Threads
<1>2. slot' = [j \in Slots |-> IF j = i THEN s ELSE slot[j]]
  BY <1>1
<1>3. \A j \in Slots : slot'[j] = IF j = i THEN s ELSE slot[j]
  BY <1>2
<1>4. slot' = [j \in Slots |-> slot'[j]]
  BY <1>2, <1>3
<1>5. ASSUME NEW j \in Slots PROVE SlotOK(slot'[j], Len(pkts'), Known')
  <2>1. PICK t : t = slot[j]
    OBVIOUS
  <2>2. SlotOK(t, Len(pkts'), Known')
    <3>1. SlotOK(t, Len(pkts), Known)
      BY <1>1, <2>1
    <3>2. PICK m \in Nat, n \in Nat : m = Len(pkts) /\ n = Len(pkts')
      BY <1>1
    <3>3. PICK g, h : g = Known /\ h = Known'
      OBVIOUS
    <3>4. SlotOK(t, n, h)
      BY <3>1, <3>2, <3>3, SlotOKMore
    <3>5. QED
      BY <3>2, <3>3, <3>4
  <2>3. QED
    BY <1>3, <2>1, <2>2
<1>6. QED
  BY <1>4, <1>5 DEF Table

LEMMA TableSame ==
  ASSUME Typed, UNCHANGED slot, Len(pkts') \in Nat, Len(pkts) <= Len(pkts'),
         Known \subseteq Known', wire' \in [Id -> Seq(1..Len(pkts'))],
         told' \subseteq Known', fds' \subseteq Id
  PROVE  Table'
<1>1. 0 \in Slots
  BY SocketServerAssumption DEF Slots
<1>2. PICK i \in Slots : i = 0
  BY <1>1
<1>3. PICK t : t = slot[i]
  OBVIOUS
<1>4. slot = [j \in Slots |-> slot[j]] /\ SlotOK(t, Len(pkts), Known) /\ Len(pkts) \in Nat
  BY <1>3 DEF Typed, Table, Threads
<1>5. slot' = [slot EXCEPT ![i] = t]
  BY <1>3, <1>4
<1>6. SlotOK(t, Len(pkts'), Known')
  <2>1. PICK m \in Nat, n \in Nat : m = Len(pkts) /\ n = Len(pkts')
    BY <1>4
  <2>2. PICK g, h : g = Known /\ h = Known'
    OBVIOUS
  <2>3. SlotOK(t, n, h)
    BY <1>4, <2>1, <2>2, SlotOKMore
  <2>4. QED
    BY <2>1, <2>2, <2>3
<1>7. QED
  BY <1>5, <1>6, TableStep

(* One list of what was written is emptied or grows.                       *)
LEMMA WireGrows ==
  ASSUME NEW S, NEW f \in [Id -> Seq(S)], NEW id, NEW u \in Seq(S)
  PROVE  /\ [f EXCEPT ![id] = <<>>] \in [Id -> Seq(S)]
         /\ [f EXCEPT ![id] = @ \o u] \in [Id -> Seq(S)]
<1>1. <<>> \in Seq(S) /\ \A x \in Seq(S) : x \o u \in Seq(S)
  BY ConcatProperties
<1>2. QED
  BY <1>1

(* The slot of a closed socket, and what else closing changes.             *)
LEMMA CloseTyped ==
  ASSUME Typed, NEW i \in Slots, slot[i].type \in Open, force_close(i), UNCHANGED <<pkts, how>>
  PROVE  Table'
<1>1. PICK s : s = slot[i]
  OBVIOUS
<1>2. SlotOK(s, Len(pkts), Known) /\ s.id \in Known /\ Len(pkts) \in Nat
  <2>1. SlotOK(s, Len(pkts), Known) /\ Len(pkts) \in Nat
    BY <1>1 DEF Typed, Table, Threads
  <2>2. s.id \in Known
    BY <1>1, <2>1 DEF SlotOK
  <2>3. QED
    BY <2>1, <2>2
<1>3. PICK t : t = NewFd("INVALID", s.id, "tcp", FALSE)
  OBVIOUS
<1>4. SlotOK(t, Len(pkts), Known)
  BY <1>2, <1>3 DEF NewFd, SlotOK, IsSocket, Types, Open
<1>5. slot' = [slot EXCEPT ![i] = t]
  BY <1>1, <1>3 DEF force_close, Invalid
<1>6. wire' \in [Id -> Seq(1..Len(pkts))]
  <2>1. wire \in [Id -> Seq(1..Len(pkts))] /\ wire' = [wire EXCEPT ![s.id] = <<>>]
    BY <1>1 DEF Typed, Table, force_close
  <2>2. PICK S, f, x : S = 1..Len(pkts) /\ f = wire /\ x = s.id
    OBVIOUS
  <2>3. f \in [Id -> Seq(S)] /\ <<>> \in Seq(S)
    BY <2>1, <2>2
  <2>4. [f EXCEPT ![x] = <<>>] \in [Id -> Seq(S)]
    BY <2>3, WireGrows
  <2>5. QED
    BY <2>1, <2>2, <2>4
<1>7. told' \subseteq Known /\ fds' \subseteq Id
  BY <1>1, <1>2 DEF force_close, Tell, Freed, Typed, Table
<1>8. Known' = Known /\ Len(pkts') = Len(pkts) /\ Len(pkts) <= Len(pkts)
  BY <1>2 DEF Known
<1>9. QED
  BY <1>2, <1>4, <1>5, <1>6, <1>7, <1>8, TableStep

(* The threads' own state when a command is taken ...                      *)
LEMMA CmdThreads ==
  ASSUME Typed, NEW c, Cmd(c), pkts' \in Seq(Packets), Len(pkts') = Len(pkts),
         pc' \in {"poll", "clear", "fail", "abort"}, pc' = "fail" => arg' = cid
  PROVE  /\ Threads' /\ Known' = Known /\ how' = how
         /\ CommandOK(Head(pipe), Len(pkts), Known) /\ Head(pipe).c = c
         /\ cid \in Known /\ cid \in Id /\ cs \in Slots
<1>1. /\ pipe # <<>> /\ pipe' = Tail(pipe) /\ UNCHANGED <<alloc, req, ev, how>> /\ Head(pipe).c = c
  BY DEF Cmd
<1>2. /\ pipe \in Seq(Commands) /\ \A n \in DOMAIN pipe : CommandOK(pipe[n], Len(pkts), Known)
      /\ Known \subseteq Id
  BY DEF Typed, Threads
<1>3. /\ Len(pipe) \in Nat /\ Len(pipe) > 0 /\ Head(pipe) = pipe[1] /\ 1 \in DOMAIN pipe
      /\ DOMAIN pipe = 1..Len(pipe)
  BY <1>1, <1>2
<1>4. /\ pipe' \in Seq(Commands) /\ DOMAIN pipe' = 1..Len(pipe) - 1
      /\ \A n \in 1..Len(pipe) - 1 : pipe'[n] = pipe[n + 1]
  BY <1>1, <1>2, <1>3
<1>5. \A n \in DOMAIN pipe' : n + 1 \in DOMAIN pipe /\ pipe'[n] = pipe[n + 1]
  BY <1>3, <1>4
<1>6. CommandOK(Head(pipe), Len(pkts), Known)
  BY <1>2, <1>3
<1>7. cid \in Known /\ cid \in Id
  BY <1>2, <1>6 DEF CommandOK, cid
<1>8. cs \in Slots
  BY <1>7, HashType DEF Id, cs
<1>9. Known' = Known
  BY <1>1 DEF Known
<1>10. \A n \in DOMAIN pipe' : CommandOK(pipe'[n], Len(pkts'), Known')
  BY <1>2, <1>5, <1>9
<1>11. /\ req' \in [Worker -> {<<>>} \cup (Opening \X Id)] /\ alloc' \in 0..MaxId
       /\ Known' \subseteq Id /\ ev' \in Seq(Events)
  BY <1>1, <1>9 DEF Typed, Threads
<1>12. Threads'
  BY <1>4, <1>7, <1>9, <1>10, <1>11 DEF Threads
<1>13. QED
  BY <1>1, <1>6, <1>7, <1>8, <1>9, <1>12

(* ... and when an event is.                                               *)
LEMMA EventThreads ==
  ASSUME Typed, NEW types, At(types), UNCHANGED <<req, pkts>>, alloc' \in 0..MaxId,
         Known \subseteq Known', Known' \subseteq Id, pc' \in {"poll", "abort"},
         \/ ev' = ev \/ ev' = Tail(ev) \/ ev' = [ev EXCEPT ![1].r = FALSE]
  PROVE  Threads' /\ es \in Slots /\ slot[es].type \in types
<1>1. ev # <<>> /\ slot[es].type \in types /\ UNCHANGED pipe
  BY DEF At, es
<1>2. ev \in Seq(Events)
  BY DEF Typed, Threads
<1>3. Head(ev) = ev[1] /\ ev[1] \in Events /\ Tail(ev) \in Seq(Events)
  BY <1>1, <1>2
<1>4. es \in Slots
  BY <1>3 DEF es, Events
<1>5. [ev EXCEPT ![1].r = FALSE] \in Seq(Events)
  <2>1. PICK e \in Events : e = [ev[1] EXCEPT !.r = FALSE]
    BY <1>3 DEF Events
  <2>2. [ev EXCEPT ![1] = e] \in Seq(Events)
    BY <1>1, <1>2, ExceptSeq
  <2>3. QED
    BY <2>1, <2>2
<1>6. \A n \in DOMAIN pipe : CommandOK(pipe[n], Len(pkts), Known')
  BY DEF Typed, Threads, CommandOK
<1>7. QED
  BY <1>1, <1>2, <1>3, <1>4, <1>5, <1>6 DEF Typed, Threads

(* One slot is written and nothing is taken or written of packets.         *)
LEMMA SlotTyped ==
  ASSUME Typed, NEW i \in Slots, NEW s, slot' = [slot EXCEPT ![i] = s], SlotOK(s, Len(pkts), Known),
         UNCHANGED <<wire, pkts, how>>, told' \subseteq Known, fds' \subseteq Id
  PROVE  Table'
<1>1. Known' = Known /\ Len(pkts) \in Nat /\ wire \in [Id -> Seq(1..Len(pkts))]
  BY DEF Known, Typed, Threads, Table
<1>2. Len(pkts') = Len(pkts) /\ Len(pkts) <= Len(pkts) /\ wire' \in [Id -> Seq(1..Len(pkts'))]
  BY <1>1
<1>3. QED
  BY <1>1, <1>2, TableStep

LEMMA IdleTyped ==
  ASSUME Typed, UNCHANGED <<slot, wire, pkts, how>>, told' \subseteq Known, fds' \subseteq Id
  PROVE  Table'
<1>1. Known' = Known /\ Len(pkts) \in Nat /\ wire \in [Id -> Seq(1..Len(pkts))]
  BY DEF Known, Typed, Threads, Table
<1>2. Len(pkts') = Len(pkts) /\ Len(pkts) <= Len(pkts) /\ wire' \in [Id -> Seq(1..Len(pkts'))]
  BY <1>1
<1>3. QED
  BY <1>1, <1>2, TableSame

LEMMA AbortTyped ==
  ASSUME Typed, Abort, UNCHANGED <<pkts, how>>
  PROVE  Table' /\ pc' = "abort" /\ ev' = ev
<1>1. UNCHANGED <<slot, wire, told, fds, ev>> /\ pc' = "abort"
  BY DEF Abort
<1>2. told' \subseteq Known /\ fds' \subseteq Id
  BY <1>1 DEF Typed, Table
<1>3. QED
  BY <1>1, <1>2, IdleTyped

(* Another type, or another write event, of the same socket.               *)
LEMMA RetypedOK ==
  ASSUME NEW s, NEW n, NEW h, SlotOK(s, n, h), NEW type \in Types, NEW wr \in BOOLEAN,
         type \in Open => s.id # 0
  PROVE  /\ SlotOK([s EXCEPT !.type = type], n, h)
         /\ SlotOK([[s EXCEPT !.type = type] EXCEPT !.wr = wr], n, h)
         /\ SlotOK([s EXCEPT !.wr = wr], n, h)
<1>1. ASSUME NEW t, IsSocket(t), t.type \in Types, t.type \in Open => s.id # 0, t.wr \in BOOLEAN,
             t.id = s.id, t.proto = s.proto, t.high = s.high, t.low = s.low, t.wb = s.wb
      PROVE  SlotOK(t, n, h)
  BY <1>1 DEF SlotOK
<1>2. IsSocket(s) /\ s.type \in Types /\ s.wr \in BOOLEAN /\ (s.type \in Open => s.id # 0)
  BY DEF SlotOK
<1>3. PICK t : t = [s EXCEPT !.type = type]
  OBVIOUS
<1>4. /\ IsSocket(t) /\ t.type = type /\ t.wr = s.wr /\ t.id = s.id /\ t.proto = s.proto
      /\ t.high = s.high /\ t.low = s.low /\ t.wb = s.wb
  BY <1>2, <1>3 DEF IsSocket
<1>5. SlotOK(t, n, h)
  BY <1>1, <1>2, <1>4
<1>6. PICK r : r = [t EXCEPT !.wr = wr]
  OBVIOUS
<1>7. /\ IsSocket(r) /\ r.type = type /\ r.wr = wr /\ r.id = s.id /\ r.proto = s.proto
      /\ r.high = s.high /\ r.low = s.low /\ r.wb = s.wb
  BY <1>4, <1>6 DEF IsSocket
<1>8. SlotOK(r, n, h)
  BY <1>1, <1>2, <1>7
<1>9. PICK x : x = [s EXCEPT !.wr = wr]
  OBVIOUS
<1>10. /\ IsSocket(x) /\ x.type = s.type /\ x.wr = wr /\ x.id = s.id /\ x.proto = s.proto
       /\ x.high = s.high /\ x.low = s.low /\ x.wb = s.wb
  BY <1>2, <1>9 DEF IsSocket
<1>11. SlotOK(x, n, h)
  BY <1>1, <1>2, <1>10
<1>12. QED
  BY <1>3, <1>5, <1>6, <1>8, <1>9, <1>11

LEMMA ClobberTyped ==
  ASSUME Typed, NEW i \in Slots, Clobber(i), UNCHANGED <<wire, pkts, how>>,
         told' \subseteq Known, fds' \subseteq Id
  PROVE  Table'
<1>1. PICK s : s = slot[i]
  OBVIOUS
<1>2. SlotOK(s, Len(pkts), Known)
  BY <1>1 DEF Typed, Table
<1>3. PICK t : t = [s EXCEPT !.type = "INVALID"]
  OBVIOUS
<1>4. SlotOK(t, Len(pkts), Known)
  <2>1. "INVALID" \in Types /\ "INVALID" \notin Open /\ TRUE \in BOOLEAN
    BY DEF Types, Open
  <2>2. QED
    BY <1>2, <1>3, <2>1, RetypedOK
<1>5. slot' = [slot EXCEPT ![i] = t]
  BY <1>1, <1>3 DEF Clobber
<1>6. QED
  BY <1>4, <1>5, SlotTyped

LEMMA NewFdTyped ==
  ASSUME NEW id \in Id, NEW n \in Nat, NEW h, id \in h, NEW type \in Open,
         NEW proto \in {"tcp", "udp"}, NEW wr \in BOOLEAN
  PROVE  SlotOK(NewFd(type, id, proto, wr), n, h)
<1>1. PICK s : s = NewFd(type, id, proto, wr)
  OBVIOUS
<1>2. /\ IsSocket(s) /\ s.type = type /\ s.id = id /\ s.proto = proto /\ s.wr = wr
      /\ s.high = <<>> /\ s.low = <<>> /\ s.wb = 0
  BY <1>1 DEF NewFd, IsSocket
<1>3. id # 0 /\ type \in Types /\ Len(<<>>) = 0 /\ <<>> \in Seq(1..n)
  BY DEF Id, Types
<1>4. QED
  BY <1>1, <1>2, <1>3 DEF SlotOK

LEMMA OpenedTyped ==
  ASSUME Typed, cid \in Known, cid \in Id, cs \in Slots, NEW type \in Open,
         NEW proto \in {"tcp", "udp"}, NEW wr \in BOOLEAN, Opened(type, proto, wr),
         UNCHANGED <<wire, pkts, how>>, told' \subseteq Known, fds' \subseteq Id
  PROVE  Table'
<1>1. PICK id \in Id, i \in Slots : id = cid /\ i = cs
  OBVIOUS
<1>2. PICK n, h : n \in Nat /\ n = Len(pkts) /\ h = Known
  BY DEF Typed, Threads
<1>3. PICK s : s = NewFd(type, id, proto, wr)
  OBVIOUS
<1>4. SlotOK(s, n, h)
  BY <1>1, <1>2, <1>3, NewFdTyped
<1>5. slot' = [slot EXCEPT ![i] = s] /\ SlotOK(s, Len(pkts), Known)
  BY <1>1, <1>2, <1>3, <1>4 DEF Opened
<1>6. QED
  BY <1>5, SlotTyped

(* What send_buffer leaves is cut off at some place.                       *)
SentTo(s, o, k, j) ==
  /\ k \in 0..Len(s.high) /\ j \in 0..Len(s.low) /\ (k < Len(s.high) => j = 0)
  /\ o.units = SentUnits(s, k, j)
  /\ o.s = Sent(s, k, j) \/ o.s = [Sent(s, k, j) EXCEPT !.wr = FALSE]

LEMMA SendBufferCuts ==
  ASSUME NEW s, NEW o \in send_buffer(s), o.end = "open"
  PROVE  \E k, j : SentTo(s, o, k, j)
<1> DEFINE end(e) == [end |-> e, s |-> s, units |-> <<>>]
           cuts   == {c \in Written(s, s.high) \X Written(s, s.low) : c[1] < Len(s.high) => c[2] = 0}
           after(k, j) ==
             IF Emptied(s, k) /\ s.type = "HALFCLOSE" THEN end("closed")
             ELSE [end |-> "open", units |-> SentUnits(s, k, j),
                   s |-> IF Emptied(s, k) THEN [Sent(s, k, j) EXCEPT !.wr = FALSE] ELSE Sent(s, k, j)]
<1>1. \/ o = end("abort") \/ o = end("closed")
      \/ \E c \in cuts : o = after(c[1], c[2])
  BY DEF send_buffer
<1>2. PICK c \in cuts : o = after(c[1], c[2])
  BY <1>1
<1>3. PICK k, j : k = c[1] /\ j = c[2]
  OBVIOUS
<1>4. k \in 0..Len(s.high) /\ j \in 0..Len(s.low) /\ (k < Len(s.high) => j = 0)
  BY <1>3 DEF Written
<1>5. CASE Emptied(s, k) /\ s.type = "HALFCLOSE"
  BY <1>2, <1>3, <1>5
<1>6. CASE ~(Emptied(s, k) /\ s.type = "HALFCLOSE")
  <2>1. o = [end |-> "open", units |-> SentUnits(s, k, j),
             s |-> IF Emptied(s, k) THEN [Sent(s, k, j) EXCEPT !.wr = FALSE] ELSE Sent(s, k, j)]
    BY <1>2, <1>3, <1>6
  <2>2. o.units = SentUnits(s, k, j)
    BY <2>1
  <2>3. o.s = Sent(s, k, j) \/ o.s = [Sent(s, k, j) EXCEPT !.wr = FALSE]
    BY <2>1
  <2>4. QED
    BY <1>4, <2>2, <2>3 DEF SentTo
<1>7. QED
  BY <1>5, <1>6

LEMMA SendBufferTyped ==
  ASSUME NEW n \in Nat, NEW h, NEW s, SlotOK(s, n, h), NEW o \in send_buffer(s), o.end = "open"
  PROVE  SlotOK(o.s, n, h) /\ o.units \in Seq(1..n) /\ SameSocket(o.s, s)
<1>1. PICK k, j : SentTo(s, o, k, j)
  BY SendBufferCuts
<1>2. /\ k \in 0..Len(s.high) /\ j \in 0..Len(s.low) /\ (k < Len(s.high) => j = 0)
      /\ o.units = SentUnits(s, k, j)
  BY <1>1 DEF SentTo
<1>3. PICK t : t = Sent(s, k, j)
  OBVIOUS
<1>4. /\ IsSocket(s) /\ s.high \in Seq(1..n) /\ s.low \in Seq(1..n) /\ s.wb = Len(s.high) + Len(s.low)
      /\ s.wb \in Nat
  <2>1. PICK x, y \in Seq(1..n) : x = s.high /\ y = s.low
    BY DEF SlotOK
  <2>2. Len(x) + Len(y) \in Nat
    <3>1. PICK c, d \in Nat : c = Len(x) /\ d = Len(y)
      OBVIOUS
    <3>2. c + d \in Nat
      OBVIOUS
    <3>3. QED
      BY <3>1, <3>2
  <2>3. IsSocket(s) /\ s.wb = Len(s.high) + Len(s.low)
    BY DEF SlotOK
  <2>4. s.wb \in Nat
    BY <2>1, <2>2, <2>3
  <2>5. QED
    BY <2>1, <2>3, <2>4
<1>5. PICK S : S = 1..n
  OBVIOUS
<1>6. <<>> \in Seq(S) /\ s.high \in Seq(S) /\ s.low \in Seq(S)
  BY <1>4, <1>5
<1>7. PICK w \in Seq(S) : w = <<>>
  BY <1>6
<1>8. SentUnits(s, k, j) \in Seq(S) /\ SameUnits(S, w, s, w \o SentUnits(s, k, j), Sent(s, k, j), k + j)
  BY <1>2, <1>4, <1>6, SentKeepsUnits
<1>9. /\ SameSocket(t, s) /\ t.wr = s.wr /\ t.wb = s.wb - (k + j)
      /\ t.high \in Seq(S) /\ t.low \in Seq(S)
      /\ Len(t.high) + Len(t.low) = Len(s.high) + Len(s.low) - (k + j)
  BY <1>3, <1>8 DEF SameUnits
<1>10. t.wb = Len(t.high) + Len(t.low)
  <2>1. PICK a, b, c, d \in Nat : a = Len(s.high) /\ b = Len(s.low) /\ c = Len(t.high) /\ d = Len(t.low)
    BY <1>6, <1>9
  <2>2. c + d = a + b - (k + j)
    BY <1>9, <2>1
  <2>3. PICK e : e = a + b
    OBVIOUS
  <2>4. s.wb = e
    BY <1>4, <2>1, <2>3
  <2>5. t.wb = e - (k + j)
    BY <1>9, <2>4
  <2>6. c + d = e - (k + j)
    <3>1. k \in Nat /\ j \in Nat
      BY <1>2, <2>1
    <3>2. QED
      BY <2>2, <2>3, <3>1
  <2>7. QED
    BY <2>1, <2>5, <2>6
<1>11. SlotOK(t, n, h)
  BY <1>5, <1>9, <1>10 DEF SlotOK, SameSocket
<1>12. SlotOK(o.s, n, h) /\ SameSocket(o.s, s)
  <2>1. CASE o.s = t
    BY <1>9, <1>11, <2>1
  <2>2. CASE o.s = [t EXCEPT !.wr = FALSE]
    BY <1>9, <1>11, <2>2 DEF SlotOK, SameSocket, IsSocket
  <2>3. QED
    BY <1>1, <1>3, <2>1, <2>2 DEF SentTo
<1>13. QED
  BY <1>2, <1>5, <1>8, <1>12

(* Units are written and the slot is what is left.                         *)
LEMMA WroteTyped ==
  ASSUME Typed, NEW i \in Slots, NEW s, slot' = [slot EXCEPT ![i] = s], SlotOK(s, Len(pkts), Known),
         NEW id, NEW u \in Seq(1..Len(pkts)), Wrote(id, u), pkts' \in Seq(Packets),
         Len(pkts') = Len(pkts), UNCHANGED <<how, told, fds>>
  PROVE  Table'
<1>1. Known' = Known /\ Len(pkts) \in Nat /\ wire \in [Id -> Seq(1..Len(pkts))]
  BY DEF Known, Typed, Threads, Table
<1>2. wire' \in [Id -> Seq(1..Len(pkts))]
  <2>1. PICK S, f : S = 1..Len(pkts) /\ f = wire
    OBVIOUS
  <2>2. f \in [Id -> Seq(S)] /\ u \in Seq(S)
    BY <1>1, <2>1
  <2>3. [f EXCEPT ![id] = @ \o u] \in [Id -> Seq(S)]
    BY <2>2, WireGrows
  <2>4. QED
    BY <2>1, <2>3 DEF Wrote
<1>3. Len(pkts) <= Len(pkts') /\ wire' \in [Id -> Seq(1..Len(pkts'))] /\ Len(pkts') \in Nat
  BY <1>1, <1>2
<1>4. told' \subseteq Known' /\ fds' \subseteq Id /\ SlotOK(s, Len(pkts'), Known')
  BY <1>1 DEF Typed, Table
<1>5. QED
  BY <1>1, <1>3, <1>4, TableStep

(* The commands that open a socket, and the failure of one.                *)
LEMMA CmdFacts ==
  ASSUME Typed, NEW c, Cmd(c)
  PROVE  /\ CommandOK(Head(pipe), Len(pkts), Known) /\ Head(pipe).c = c /\ how' = how
         /\ cid \in Known /\ cid \in Id /\ cs \in Slots
         /\ told \subseteq Known /\ told \cup {cid} \subseteq Known
         /\ fds \subseteq Id /\ fds \cup {cid} \subseteq Id /\ fds \ {cid} \subseteq Id
<1>1. /\ pipe # <<>> /\ how' = how /\ Head(pipe).c = c
  BY DEF Cmd
<1>2. /\ pipe \in Seq(Commands) /\ \A n \in DOMAIN pipe : CommandOK(pipe[n], Len(pkts), Known)
      /\ Known \subseteq Id
  BY DEF Typed, Threads
<1>3. Head(pipe) = pipe[1] /\ 1 \in DOMAIN pipe
  BY <1>1, <1>2
<1>4. CommandOK(Head(pipe), Len(pkts), Known)
  BY <1>2, <1>3
<1>5. cid \in Known /\ cid \in Id
  BY <1>2, <1>4 DEF CommandOK, cid
<1>6. cs \in Slots
  BY <1>5, HashType DEF Id, cs
<1>7. told \subseteq Known /\ fds \subseteq Id
  BY DEF Typed, Table
<1>8. QED
  BY <1>1, <1>4, <1>5, <1>6, <1>7

LEMMA CmdTyped ==
  ASSUME Typed, NEW c, Cmd(c), UNCHANGED pkts, Table',
         pc' \in {"poll", "clear", "fail", "abort"}, pc' = "fail" => arg' = cid
  PROVE  Typed'
<1>1. pkts' \in Seq(Packets) /\ Len(pkts') = Len(pkts)
  BY DEF Typed, Threads
<1>2. Threads'
  BY <1>1, CmdThreads
<1>3. QED
  BY <1>2 DEF Typed

LEMMA CmdClobbers ==
  ASSUME Typed, NEW c, Cmd(c), Clobber(cs), UNCHANGED <<pkts, wire>>,
         told' \subseteq Known, fds' \subseteq Id,
         pc' \in {"poll", "clear", "fail", "abort"}, pc' = "fail" => arg' = cid
  PROVE  Typed'
<1>1. cs \in Slots /\ how' = how
  BY CmdFacts
<1>2. PICK i \in Slots : i = cs
  BY <1>1
<1>3. Clobber(i)
  BY <1>2 DEF Clobber
<1>4. Table'
  BY <1>1, <1>3, ClobberTyped
<1>5. QED
  BY <1>4, CmdTyped

LEMMA CmdOpens ==
  ASSUME Typed, NEW c, Cmd(c), NEW type \in Open, NEW proto \in {"tcp", "udp"}, NEW wr \in BOOLEAN,
         Opened(type, proto, wr), UNCHANGED <<pkts, wire>>, told' \subseteq Known, fds' \subseteq Id, Goes
  PROVE  Typed'
<1>1. cs \in Slots /\ how' = how /\ cid \in Known /\ cid \in Id
  BY CmdFacts
<1>2. Table'
  BY <1>1, OpenedTyped
<1>3. pc' = "poll"
  BY DEF Goes
<1>4. QED
  BY <1>2, <1>3, CmdTyped

LEMMA CmdAborts ==
  ASSUME Typed, NEW c, Cmd(c), Abort, UNCHANGED pkts
  PROVE  Typed'
<1>1. how' = how
  BY CmdFacts
<1>2. Table' /\ pc' = "abort"
  BY <1>1, AbortTyped
<1>3. QED
  BY <1>2, CmdTyped

LEMMA CmdIdles ==
  ASSUME Typed, NEW c, Cmd(c), UNCHANGED <<pkts, slot, fds, wire>>, told' \subseteq Known, pc' \in {"poll", "clear"}
  PROVE  Typed'
<1>1. how' = how /\ fds' \subseteq Id
  BY CmdFacts
<1>2. Table'
  BY <1>1, IdleTyped
<1>3. QED
  BY <1>2, CmdTyped

LEMMA CmdCloses ==
  ASSUME Typed, NEW c, Cmd(c), UNCHANGED pkts, slot[cs].type \in Open, force_close(cs), Ended(cid)
  PROVE  Typed'
<1>1. cs \in Slots /\ how' = how
  BY CmdFacts
<1>2. PICK i \in Slots : i = cs
  BY <1>1
<1>3. force_close(i) /\ slot[i].type \in Open
  BY <1>2 DEF force_close, Invalid, Freed, Tell
<1>4. Table'
  BY <1>1, <1>3, CloseTyped
<1>5. pc' \in {"poll", "clear"}
  BY DEF Ended
<1>6. QED
  BY <1>4, <1>5, CmdTyped

LEMMA OpenTyped == ASSUME Typed, open_socket PROVE Typed'
<1>1. Cmd("O") /\ UNCHANGED <<pkts, wire>>
  BY DEF open_socket
<1>2. told \subseteq Known /\ told \cup {cid} \subseteq Known /\ fds \subseteq Id /\ fds \cup {cid} \subseteq Id
  BY <1>1, CmdFacts
<1>3. CASE Clobber(cs) /\ Tell(cid) /\ Ended(cid) /\ UNCHANGED fds
  <2>1. pc' \in {"poll", "clear"} /\ told' \subseteq Known /\ fds' \subseteq Id
    BY <1>2, <1>3 DEF Ended, Tell
  <2>2. QED
    BY <1>1, <1>3, <2>1, CmdClobbers
<1>4. CASE SpAddFails /\ pc' = "fail" /\ arg' = cid /\ UNCHANGED <<told, fds>>
  <2>1. Clobber(cs) /\ told' \subseteq Known /\ fds' \subseteq Id
    BY <1>2, <1>4 DEF SpAddFails
  <2>2. QED
    BY <1>1, <1>4, <2>1, CmdClobbers
<1>5. ASSUME NEW type \in {"CONNECTED", "CONNECTING"}, NEW wr \in BOOLEAN, Opened(type, "tcp", wr),
             Goes, UNCHANGED told, fds' = fds \cup {cid}
      PROVE  Typed'
  <2>1. type \in Open /\ "tcp" \in {"tcp", "udp"} /\ told' \subseteq Known /\ fds' \subseteq Id
    BY <1>2, <1>5 DEF Open
  <2>2. QED
    BY <1>1, <1>5, <2>1, CmdOpens
<1>6. CASE Abort
  BY <1>1, <1>6, CmdAborts
<1>7. QED
  BY <1>3, <1>4, <1>5, <1>6 DEF open_socket

LEMMA UdpTyped == ASSUME Typed, add_udp_socket PROVE Typed'
<1>1. Cmd("U") /\ UNCHANGED <<told, pkts, wire>>
  BY DEF add_udp_socket
<1>2. told' \subseteq Known /\ fds \subseteq Id /\ fds \ {cid} \subseteq Id
  BY <1>1, CmdFacts
<1>3. CASE SpAddFails /\ pc' = "fail" /\ arg' = cid /\ fds' = fds \ {cid}
  <2>1. Clobber(cs) /\ fds' \subseteq Id
    BY <1>2, <1>3 DEF SpAddFails
  <2>2. QED
    BY <1>1, <1>2, <1>3, <2>1, CmdClobbers
<1>4. CASE Opened("CONNECTED", "udp", FALSE) /\ Goes /\ UNCHANGED fds
  <2>1. "CONNECTED" \in Open /\ "udp" \in {"tcp", "udp"} /\ FALSE \in BOOLEAN /\ fds' \subseteq Id
    BY <1>2, <1>4 DEF Open
  <2>2. QED
    BY <1>1, <1>2, <1>4, <2>1, CmdOpens
<1>5. CASE Abort
  BY <1>1, <1>5, CmdAborts
<1>6. QED
  BY <1>3, <1>4, <1>5 DEF add_udp_socket

LEMMA ListenTyped == ASSUME Typed, listen_socket PROVE Typed'
<1>1. Cmd("L") /\ UNCHANGED <<told, fds, pkts, wire>>
  BY DEF listen_socket
<1>2. told' \subseteq Known /\ fds' \subseteq Id
  BY <1>1, CmdFacts
<1>3. CASE Opened("PLISTEN", "tcp", FALSE) /\ Goes
  <2>1. "PLISTEN" \in Open /\ "tcp" \in {"tcp", "udp"} /\ FALSE \in BOOLEAN
    BY DEF Open
  <2>2. QED
    BY <1>1, <1>2, <1>3, <2>1, CmdOpens
<1>4. CASE Abort
  BY <1>1, <1>4, CmdAborts
<1>5. QED
  BY <1>3, <1>4 DEF listen_socket

LEMMA BindTyped == ASSUME Typed, bind_socket PROVE Typed'
<1>1. Cmd("B") /\ UNCHANGED <<fds, pkts, wire>>
  BY DEF bind_socket
<1>2. told \subseteq Known /\ told \cup {cid} \subseteq Known /\ fds' \subseteq Id
  BY <1>1, CmdFacts
<1>3. CASE SpAddFails /\ Tell(cid) /\ Ended(cid)
  <2>1. Clobber(cs) /\ pc' \in {"poll", "clear"} /\ told' \subseteq Known
    BY <1>2, <1>3 DEF SpAddFails, Tell, Ended
  <2>2. QED
    BY <1>1, <1>2, <2>1, CmdClobbers
<1>4. CASE Opened("BIND", "tcp", FALSE) /\ Goes /\ UNCHANGED told
  <2>1. "BIND" \in Open /\ "tcp" \in {"tcp", "udp"} /\ FALSE \in BOOLEAN /\ told' \subseteq Known
    BY <1>2, <1>4 DEF Open
  <2>2. QED
    BY <1>1, <1>2, <1>4, <2>1, CmdOpens
<1>5. CASE Abort
  BY <1>1, <1>5, CmdAborts
<1>6. QED
  BY <1>3, <1>4, <1>5 DEF bind_socket

LEMMA FailedTyped == ASSUME Typed, OpenFailed PROVE Typed'
<1>1. /\ pc = "fail" /\ Clobber(HASH_ID(arg)) /\ pc' \in {"poll", "clear"}
      /\ UNCHANGED <<alloc, req, pipe, ev, fds, how, pkts, wire>>
      /\ told' = told \cup {arg} \/ told' = told
  BY DEF OpenFailed, Tell, Ended, Goes
<1>2. arg \in Known /\ Known \subseteq Id /\ Known' = Known
  BY <1>1 DEF Typed, Threads, Known
<1>3. PICK i \in Slots : i = HASH_ID(arg)
  BY <1>2, HashType DEF Id
<1>4. Clobber(i) /\ told' \subseteq Known /\ fds' \subseteq Id
  BY <1>1, <1>2, <1>3 DEF Typed, Table, Clobber
<1>5. Table'
  BY <1>1, <1>4, ClobberTyped
<1>6. Threads'
  BY <1>1, <1>2 DEF Typed, Threads, CommandOK
<1>7. QED
  BY <1>5, <1>6 DEF Typed

(* The commands for a socket that was opened.                              *)
LEMMA StartTyped == ASSUME Typed, start_socket PROVE Typed'
<1>1. Cmd("S") /\ UNCHANGED pkts
  BY DEF start_socket
<1>2. /\ cs \in Slots /\ how' = how /\ cid \in Known
      /\ told \subseteq Known /\ told \cup {cid} \subseteq Known /\ fds \subseteq Id
  BY <1>1, CmdFacts
<1>3. CASE Tell(cid) /\ Ended(cid) /\ UNCHANGED <<slot, fds, wire>>
  <2>1. pc' \in {"poll", "clear"} /\ told' \subseteq Known
    BY <1>2, <1>3 DEF Tell, Ended
  <2>2. QED
    BY <1>1, <1>3, <2>1, CmdIdles
<1>4. CASE slot[cs].type \in {"PACCEPT", "PLISTEN"} /\ force_close(cs) /\ Ended(cid)
  <2>1. slot[cs].type \in Open
    BY <1>4 DEF Open
  <2>2. QED
    BY <1>1, <1>4, <2>1, CmdCloses
<1>5. CASE /\ slot[cs].type \in {"PACCEPT", "PLISTEN"} /\ Goes /\ UNCHANGED <<told, fds, wire>>
           /\ slot' = [slot EXCEPT ![cs].type = IF slot[cs].type = "PACCEPT" THEN "CONNECTED" ELSE "LISTEN"]
  <2>1. PICK i \in Slots : i = cs
    BY <1>2
  <2>2. PICK t : t = IF slot[i].type = "PACCEPT" THEN "CONNECTED" ELSE "LISTEN"
    OBVIOUS
  <2>3. PICK s, n, h : s = slot[i] /\ n = Len(pkts) /\ h = Known
    OBVIOUS
  <2>4. SlotOK(s, n, h) /\ s.type \in Open
    BY <1>5, <2>1, <2>3 DEF Typed, Table, Open
  <2>5. t \in Types /\ s.id # 0 /\ TRUE \in BOOLEAN
    BY <2>2, <2>4 DEF SlotOK, Types, Open
  <2>6. PICK r : r = [s EXCEPT !.type = t]
    OBVIOUS
  <2>7. SlotOK(r, n, h)
    BY <2>4, <2>5, <2>6, RetypedOK
  <2>8. slot' = [slot EXCEPT ![i] = r] /\ SlotOK(r, Len(pkts), Known)
    BY <1>5, <2>1, <2>2, <2>3, <2>6, <2>7
  <2>9. Table'
    BY <1>1, <1>2, <1>5, <2>8, SlotTyped
  <2>10. QED
    BY <1>1, <1>5, <2>9, CmdTyped DEF Goes
<1>6. CASE Goes /\ UNCHANGED <<slot, fds, told, wire>>
  BY <1>1, <1>2, <1>6, CmdIdles DEF Goes
<1>7. QED
  BY <1>3, <1>4, <1>5, <1>6 DEF start_socket

LEMMA CloseSocketTyped == ASSUME Typed, close_socket PROVE Typed'
<1>1. Cmd("K") /\ UNCHANGED pkts
  BY DEF close_socket
<1>2. /\ cs \in Slots /\ how' = how
      /\ told \subseteq Known /\ told \cup {cid} \subseteq Known /\ fds \subseteq Id
  BY <1>1, CmdFacts
<1>3. PICK i \in Slots : i = cs
  BY <1>2
<1>0. PICK s, h : s = slot[i] /\ h = Known
  OBVIOUS
<1>4. PICK n \in Nat : s = slot[i] /\ n = Len(pkts) /\ h = Known
  BY <1>0 DEF Typed, Threads
<1>5. SlotOK(s, n, h)
  BY <1>4 DEF Typed, Table
<1>6. CASE Tell(cid) /\ Ended(cid) /\ UNCHANGED <<slot, fds, wire>>
  <2>1. pc' \in {"poll", "clear"} /\ told' \subseteq Known
    BY <1>2, <1>6 DEF Tell, Ended
  <2>2. QED
    BY <1>1, <1>6, <2>1, CmdIdles
<1>7. CASE Abort
  BY <1>1, <1>7, CmdAborts
<1>8. ~Stale /\ slot[cs].type # "RESERVE" => slot[cs].type \in Open
  <2>1. slot[cs].type \in Types
    BY <1>3, <1>4, <1>5 DEF SlotOK
  <2>2. QED
    BY <2>1 DEF Stale, Types
<1>9. ASSUME ~Stale, slot[cs].type # "RESERVE", force_close(cs), Ended(cid)
      PROVE  Typed'
  BY <1>1, <1>8, <1>9, CmdCloses
<1>10. ASSUME ~Stale, slot[cs].type # "RESERVE", NEW o \in send_buffer(slot[cs]),
              o.end = "open", CloseOrWait(o.s, o.units)
       PROVE  Typed'
  <2>1. CASE Head(pipe).x = 1 \/ Empty(o.s)
    BY <1>9, <1>10, <2>1 DEF CloseOrWait
  <2>2. CASE ~(Head(pipe).x = 1 \/ Empty(o.s))
    <3>1. PICK t, u : t = o.s /\ u = o.units
      OBVIOUS
    <3>2. /\ Wrote(cid, u) /\ slot' = [slot EXCEPT ![i] = [t EXCEPT !.type = "HALFCLOSE"]]
          /\ pc' = "poll" /\ UNCHANGED <<told, fds>>
      BY <1>3, <1>10, <2>2, <3>1 DEF CloseOrWait, Goes
    <3>3. SlotOK(t, n, h) /\ u \in Seq(1..n) /\ SameSocket(t, s)
      BY <1>3, <1>4, <1>5, <1>10, <3>1, SendBufferTyped
    <3>4. t.id # 0 /\ "HALFCLOSE" \in Types /\ TRUE \in BOOLEAN
      BY <1>3, <1>4, <1>5, <1>8, <1>10, <3>3 DEF SlotOK, SameSocket, Types, Open
    <3>5. PICK r : r = [t EXCEPT !.type = "HALFCLOSE"]
      OBVIOUS
    <3>6. SlotOK(r, n, h)
      BY <3>3, <3>4, <3>5, RetypedOK
    <3>7. /\ slot' = [slot EXCEPT ![i] = r] /\ SlotOK(r, Len(pkts), Known) /\ u \in Seq(1..Len(pkts))
          /\ pkts' \in Seq(Packets) /\ Len(pkts') = Len(pkts)
      BY <1>1, <1>4, <3>2, <3>3, <3>5, <3>6 DEF Typed, Threads
    <3>8. PICK x : x = cid
      OBVIOUS
    <3>9. Wrote(x, u)
      BY <3>2, <3>8 DEF Wrote
    <3>10. Table'
      BY <1>2, <3>2, <3>7, <3>9, WroteTyped
    <3>11. QED
      BY <1>1, <3>2, <3>10, CmdTyped
  <2>3. QED
    BY <2>1, <2>2
<1>11. CASE /\ ~Stale /\ slot[cs].type # "RESERVE" /\ ~Empty(slot[cs])
            /\ \E o \in send_buffer(slot[cs]) :
                 CASE o.end = "abort"  -> Abort
                   [] o.end = "closed" -> force_close(cs) /\ Ended(cid)
                   [] o.end = "open"   -> CloseOrWait(o.s, o.units)
  <2>1. PICK o \in send_buffer(slot[cs]) :
          CASE o.end = "abort"  -> Abort
            [] o.end = "closed" -> force_close(cs) /\ Ended(cid)
            [] o.end = "open"   -> CloseOrWait(o.s, o.units)
    BY <1>11
  <2>2. o.end \in {"abort", "closed", "open"}
    <3>1. IsSocket(s) /\ o \in send_buffer(s)
      BY <1>3, <1>4, <1>5 DEF SlotOK
    <3>2. QED
      BY <3>1, SendBufferKeeps
  <2>3. CASE o.end = "abort"
    BY <1>7, <2>1, <2>3
  <2>4. CASE o.end = "closed"
    BY <1>9, <1>11, <2>1, <2>4
  <2>5. CASE o.end = "open"
    BY <1>10, <1>11, <2>1, <2>5
  <2>6. QED
    BY <2>2, <2>3, <2>4, <2>5
<1>12. QED
  BY <1>6, <1>7, <1>9, <1>11 DEF close_socket

(* What is left of a packet is appended to one of the lists, and counted.  *)
LEMMA BufferedTyped ==
  ASSUME NEW n \in Nat, NEW h, NEW s, SlotOK(s, n, h), NEW k \in 0..Size, pkt \in 1..n, NEW low \in BOOLEAN
  PROVE  /\ SlotOK(Buffered(s, k, low), n, h) /\ SlotOK(Armed(Buffered(s, k, low)), n, h)
         /\ SameSocket(Buffered(s, k, low), s) /\ SameSocket(Armed(Buffered(s, k, low)), s)
<1>1. PICK x \in Seq(1..n), y \in Seq(1..n) : x = s.high /\ y = s.low
  BY DEF SlotOK
<1>2. PICK S : S = 1..n
  OBVIOUS
<1>3. PICK p \in S : p = pkt
  BY <1>2
<1>4. PICK e \in Seq(S) : e = Drop(Units(pkt), k) /\ Len(e) = Size - k
  <2>1. Units(p) \in Seq(S) /\ Len(Units(p)) = Size
    BY UnitsType
  <2>2. Drop(Units(p), k) \in Seq(S) /\ Len(Drop(Units(p), k)) = Size - k
    BY <2>1, CutJoin
  <2>3. QED
    BY <1>3, <2>2
<1>5. PICK xe, ye \in Seq(S) : /\ xe = x \o e /\ Len(xe) = Len(x) + Len(e)
                              /\ ye = y \o e /\ Len(ye) = Len(y) + Len(e)
  <2>1. x \in Seq(S) /\ y \in Seq(S)
    BY <1>2
  <2>2. Join(x, e) \in Seq(S) /\ Len(Join(x, e)) = Len(x) + Len(e)
    BY <2>1, JoinType
  <2>3. Join(y, e) \in Seq(S) /\ Len(Join(y, e)) = Len(y) + Len(e)
    BY <2>1, JoinType
  <2>4. QED
    BY <2>2, <2>3 DEF Join
<1>6. PICK b : b = s.wb + Size - k
  OBVIOUS
<1>7. IsSocket(s) /\ s.wb = Len(x) + Len(y)
  BY <1>1 DEF SlotOK
<1>8. b = Len(xe) + Len(y) /\ b = Len(x) + Len(ye)
  <2>1. PICK c \in Nat, d \in Nat : c = Len(x) /\ d = Len(y)
    BY <1>1
  <2>2. k \in Nat /\ Size \in Nat
    BY SizeType
  <2>3. s.wb = c + d /\ Len(xe) = c + (Size - k) /\ Len(ye) = d + (Size - k)
    BY <1>4, <1>5, <1>7, <2>1
  <2>4. b = c + d + Size - k
    BY <1>6, <2>3
  <2>5. QED
    BY <2>1, <2>2, <2>3, <2>4
<1>9. PICK t : t = Buffered(s, k, low)
  OBVIOUS
<1>10. t = [s EXCEPT !.low = ye, !.wb = b] \/ t = [s EXCEPT !.high = xe, !.wb = b]
  BY <1>1, <1>4, <1>5, <1>6, <1>9 DEF Buffered
<1>11. /\ IsSocket(t) /\ t.type = s.type /\ t.id = s.id /\ t.proto = s.proto /\ t.wr = s.wr /\ t.wb = b
       /\ (t.high = x /\ t.low = ye) \/ (t.high = xe /\ t.low = y)
  BY <1>1, <1>7, <1>10 DEF IsSocket
<1>12. t.high \in Seq(1..n) /\ t.low \in Seq(1..n)
  BY <1>1, <1>2, <1>5, <1>11
<1>13. t.wb = Len(t.high) + Len(t.low)
  BY <1>8, <1>11
<1>14. SlotOK(t, n, h) /\ SameSocket(t, s)
  BY <1>11, <1>12, <1>13 DEF SlotOK, SameSocket
<1>15. SlotOK(Armed(t), n, h) /\ SameSocket(Armed(t), s)
  <2>1. t.type \in Types /\ (t.type \in Open => t.id # 0) /\ TRUE \in BOOLEAN
    BY <1>14 DEF SlotOK
  <2>2. SlotOK([t EXCEPT !.wr = TRUE], n, h)
    BY <1>14, <2>1, RetypedOK
  <2>3. SameSocket([t EXCEPT !.wr = TRUE], s)
    <3>1. IsSocket(t)
      BY <1>11
    <3>2. PICK z : z = [t EXCEPT !.wr = TRUE]
      OBVIOUS
    <3>3. IsSocket(z) /\ z.type = t.type /\ z.id = t.id /\ z.proto = t.proto
      BY <3>1, <3>2 DEF IsSocket
    <3>4. QED
      BY <1>11, <3>2, <3>3 DEF SameSocket
  <2>4. QED
    BY <2>2, <2>3 DEF Armed
<1>16. QED
  BY <1>9, <1>14, <1>15

LEMMA TakenType ==
  ASSUME NEW q \in Seq(Packets), NEW p \in DOMAIN q
  PROVE  [q EXCEPT ![p].taken = TRUE] \in Seq(Packets) /\ Len([q EXCEPT ![p].taken = TRUE]) = Len(q)
<1>1. q[p] \in Packets
  OBVIOUS
<1>2. PICK e \in Packets : e = [q[p] EXCEPT !.taken = TRUE]
  BY <1>1 DEF Packets
<1>3. [q EXCEPT ![p] = e] \in Seq(Packets) /\ Len([q EXCEPT ![p] = e]) = Len(q)
  BY ExceptSeq
<1>4. QED
  BY <1>2, <1>3

LEMMA SendTyped == ASSUME Typed, NEW c \in {"D", "P"}, send_socket(c) PROVE Typed'
<1>1. Cmd(c)
  BY DEF send_socket
<1>2. /\ cs \in Slots /\ how' = how /\ CommandOK(Head(pipe), Len(pkts), Known) /\ Head(pipe).c = c
      /\ told \subseteq Known /\ fds \subseteq Id
  BY <1>1, CmdFacts
<1>3. PICK i \in Slots : i = cs
  BY <1>2
<1>0. PICK s, h : s = slot[i] /\ h = Known
  OBVIOUS
<1>4. PICK n \in Nat : s = slot[i] /\ n = Len(pkts) /\ h = Known
  BY <1>0 DEF Typed, Threads
<1>5. SlotOK(s, n, h) /\ pkts \in Seq(Packets)
  BY <1>4 DEF Typed, Table, Threads
<1>6. pkt \in 1..n /\ pkt \in DOMAIN pkts
  BY <1>2, <1>4, <1>5 DEF CommandOK, pkt
<1>7. CASE Goes /\ UNCHANGED <<slot, fds, told, pkts, wire>>
  BY <1>1, <1>2, <1>7, CmdIdles DEF Goes
<1>8. CASE Direct(slot[cs]) /\ force_close(cs) /\ Ended(cid) /\ UNCHANGED pkts
  <2>1. slot[cs].type \in Open
    BY <1>8 DEF Direct, Open
  <2>2. QED
    BY <1>1, <1>8, <2>1, CmdCloses
<1>9. PICK low \in BOOLEAN : low = (c = "P")
  OBVIOUS
<1>10. ASSUME NEW x, NEW u, NEW t, slot' = [slot EXCEPT ![i] = t], SlotOK(t, n, h), u \in Seq(1..n),
              Wrote(x, u), pkts' = [pkts EXCEPT ![pkt].taken = TRUE], Goes, UNCHANGED <<fds, told>>
       PROVE  Typed'
  <2>1. pkts' \in Seq(Packets) /\ Len(pkts') = Len(pkts)
    <3>1. PICK q, p : q \in Seq(Packets) /\ q = pkts /\ p = pkt /\ p \in DOMAIN q
      BY <1>5, <1>6
    <3>2. [q EXCEPT ![p].taken = TRUE] \in Seq(Packets) /\ Len([q EXCEPT ![p].taken = TRUE]) = Len(q)
      BY <3>1, TakenType
    <3>3. QED
      BY <1>10, <3>1, <3>2
  <2>2. SlotOK(t, Len(pkts), Known) /\ u \in Seq(1..Len(pkts))
    BY <1>4, <1>10
  <2>3. Table'
    BY <1>2, <1>10, <2>1, <2>2, WroteTyped
  <2>4. Threads'
    BY <1>1, <1>10, <2>1, CmdThreads DEF Goes
  <2>5. QED
    BY <2>3, <2>4 DEF Typed
<1>11. ASSUME NEW k \in Written(slot[cs], Units(pkt)),
              wire' = [wire EXCEPT ![cid] = @ \o SubSeq(Units(pkt), 1, k)],
              slot' = [slot EXCEPT ![cs] = IF k = Size THEN slot[cs] ELSE Armed(Buffered(slot[cs], k, low))],
              pkts' = [pkts EXCEPT ![pkt].taken = TRUE], Goes, UNCHANGED <<fds, told>>
       PROVE  Typed'
  <2>1. Units(pkt) \in Seq(1..n) /\ Len(Units(pkt)) = Size
    <3>1. PICK S, p : S = 1..n /\ p = pkt /\ p \in S
      BY <1>6
    <3>2. Units(p) \in Seq(S) /\ Len(Units(p)) = Size
      BY <3>1, UnitsType
    <3>3. QED
      BY <3>1, <3>2
  <2>2. k \in 0..Size
    BY <1>11, <2>1 DEF Written
  <2>3. PICK u \in Seq(1..n) : u = SubSeq(Units(pkt), 1, k)
    <3>1. PICK S, e : S = 1..n /\ e = Units(pkt) /\ e \in Seq(S) /\ Len(e) = Size
      BY <2>1
    <3>2. SubSeq(e, 1, k) \in Seq(S)
      BY <2>2, <3>1, CutJoin
    <3>3. QED
      BY <3>1, <3>2
  <2>4. PICK t : t = IF k = Size THEN s ELSE Armed(Buffered(s, k, low))
    OBVIOUS
  <2>5. SlotOK(t, n, h)
    <3>1. SlotOK(Armed(Buffered(s, k, low)), n, h)
      BY <1>5, <1>6, <2>2, BufferedTyped
    <3>2. QED
      BY <1>5, <2>4, <3>1
  <2>6. slot' = [slot EXCEPT ![i] = t]
    BY <1>3, <1>4, <1>11, <2>4
  <2>7. PICK x : x = cid
    OBVIOUS
  <2>8. Wrote(x, u)
    BY <1>11, <2>3, <2>7 DEF Wrote
  <2>9. QED
    BY <1>10, <1>11, <2>3, <2>5, <2>6, <2>8
<1>12. CASE /\ slot' = [slot EXCEPT ![cs] = Buffered(slot[cs], 0, low)]
            /\ pkts' = [pkts EXCEPT ![pkt].taken = TRUE] /\ Goes /\ UNCHANGED <<fds, told, wire>>
  <2>1. PICK t : t = Buffered(s, 0, low)
    OBVIOUS
  <2>2. SlotOK(t, n, h)
    <3>1. 0 \in 0..Size
      BY SizeType
    <3>2. QED
      BY <1>5, <1>6, <2>1, <3>1, BufferedTyped
  <2>3. slot' = [slot EXCEPT ![i] = t]
    BY <1>3, <1>4, <1>12, <2>1
  <2>4. PICK x, u : x = 0 /\ u = <<>>
    OBVIOUS
  <2>5. Wrote(x, u) /\ u \in Seq(1..n)
    <3>1. 0 \notin Id /\ wire = [id \in Id |-> wire[id]]
      BY DEF Id, Typed, Table
    <3>2. [wire EXCEPT ![0] = @ \o <<>>] = wire
      BY <3>1
    <3>3. QED
      BY <1>12, <2>4, <3>2 DEF Wrote
  <2>6. QED
    BY <1>10, <1>12, <2>2, <2>3, <2>5
<1>13. QED
  BY <1>7, <1>8, <1>9, <1>11, <1>12 DEF send_socket

(* Events.                                                                 *)
LEMMA EventTyped ==
  ASSUME Typed, NEW types, At(types), UNCHANGED <<req, pkts, alloc, how>>, pc' \in {"poll", "abort"}, Table',
         \/ ev' = ev \/ ev' = Tail(ev) \/ ev' = [ev EXCEPT ![1].r = FALSE]
  PROVE  Typed'
<1>1. alloc' \in 0..MaxId /\ Known \subseteq Known' /\ Known' \subseteq Id
  BY DEF Typed, Threads, Known
<1>2. Threads'
  BY <1>1, EventThreads
<1>3. QED
  BY <1>2 DEF Typed

LEMMA EventFacts ==
  ASSUME Typed, NEW types, At(types)
  PROVE  es \in Slots /\ slot[es].type \in types /\ told \subseteq Known /\ fds \subseteq Id
<1>1. ev # <<>> /\ slot[es].type \in types
  BY DEF At, es
<1>2. ev \in Seq(Events)
  BY DEF Typed, Threads
<1>3. Head(ev) \in Events
  BY <1>1, <1>2
<1>4. QED
  BY <1>1, <1>3 DEF es, Events, Typed, Table

LEMMA EventCloses ==
  ASSUME Typed, NEW types, At(types), UNCHANGED <<req, pkts, alloc, how>>, slot[es].type \in Open,
         force_close(es), Handled, Goes
  PROVE  Typed'
<1>1. PICK i \in Slots : i = es
  BY EventFacts
<1>2. force_close(i) /\ slot[i].type \in Open
  BY <1>1 DEF force_close, Invalid, Freed, Tell
<1>3. Table'
  BY <1>2, CloseTyped
<1>4. QED
  BY <1>3, EventTyped DEF Handled, Goes

LEMMA EventAborts ==
  ASSUME Typed, NEW types, At(types), UNCHANGED <<req, pkts, alloc, how>>, Abort
  PROVE  Typed'
<1>1. Table' /\ pc' = "abort" /\ ev' = ev
  BY AbortTyped
<1>2. QED
  BY <1>1, EventTyped

LEMMA EventIdles ==
  ASSUME Typed, NEW types, At(types), UNCHANGED <<req, pkts, alloc, how, slot, fds, told, wire>>,
         ev' = Tail(ev) \/ ev' = [ev EXCEPT ![1].r = FALSE], Goes
  PROVE  Typed'
<1>1. told' \subseteq Known /\ fds' \subseteq Id
  BY DEF Typed, Table
<1>2. Table'
  BY <1>1, IdleTyped
<1>3. QED
  BY <1>2, EventTyped DEF Goes

LEMMA ConnectTyped == ASSUME Typed, report_connect PROVE Typed'
<1>1. At({"CONNECTING"}) /\ Handled /\ Goes /\ UNCHANGED <<alloc, req, how, pkts>>
  BY DEF report_connect
<1>2. es \in Slots /\ slot[es].type = "CONNECTING" /\ told \subseteq Known /\ fds \subseteq Id
  BY <1>1, EventFacts
<1>3. CASE force_close(es)
  <2>1. slot[es].type \in Open
    BY <1>2 DEF Open
  <2>2. QED
    BY <1>1, <1>3, <2>1, EventCloses
<1>4. CASE /\ slot' = [slot EXCEPT ![es].type = "CONNECTED", ![es].wr = ~Empty(slot[es])]
           /\ UNCHANGED <<fds, told, wire>>
  <2>1. PICK i \in Slots : i = es
    BY <1>2
  <2>2. PICK s, n, h : s = slot[i] /\ n = Len(pkts) /\ h = Known
    OBVIOUS
  <2>3. SlotOK(s, n, h) /\ slot = [j \in Slots |-> slot[j]]
    BY <2>2 DEF Typed, Table
  <2>4. "CONNECTED" \in Types /\ s.id # 0
    BY <1>2, <2>1, <2>2, <2>3 DEF SlotOK, Types, Open
  <2>5. PICK b \in BOOLEAN : b = ~Empty(s)
    OBVIOUS
  <2>6. PICK r : r = [[s EXCEPT !.type = "CONNECTED"] EXCEPT !.wr = b]
    OBVIOUS
  <2>7. SlotOK(r, n, h)
    BY <2>3, <2>4, <2>6, RetypedOK
  <2>8. slot' = [slot EXCEPT ![i] = r]
    BY <1>4, <2>1, <2>2, <2>3, <2>5, <2>6
  <2>9. SlotOK(r, Len(pkts), Known) /\ told' \subseteq Known /\ fds' \subseteq Id
    BY <1>2, <1>4, <2>2, <2>7
  <2>10. Table'
    BY <1>1, <1>4, <2>8, <2>9, SlotTyped
  <2>11. QED
    BY <1>1, <2>10, EventTyped DEF Goes, Handled
<1>5. QED
  BY <1>3, <1>4 DEF report_connect

LEMMA AcceptTyped == ASSUME Typed, report_accept PROVE Typed'
<1>1. At({"LISTEN"}) /\ UNCHANGED <<req, pkts>>
  BY DEF report_accept
<1>2. told \subseteq Known /\ fds \subseteq Id /\ alloc \in 0..MaxId /\ Known \subseteq Id
  BY DEF Typed, Table, Threads
<1>3. CASE Handled /\ Goes /\ UNCHANGED <<slot, alloc, fds, how, told, wire>>
  BY <1>1, <1>3, EventIdles DEF Handled
<1>4. ASSUME Tried # {}, Min(Tried) <= MaxId, alloc' = Min(Tried)
      PROVE  Min(Tried) \in Id /\ alloc' \in 0..MaxId
  <2>1. alloc \in Nat /\ MaxId \in Nat
    BY <1>2, SocketServerAssumption
  <2>2. Min(Tried) \in Nat /\ Min(Tried) > alloc
    BY <1>4, <2>1, TriedLeast
  <2>3. PICK m \in Nat : m = Min(Tried)
    BY <2>2
  <2>4. m > alloc /\ m <= MaxId
    BY <1>4, <2>2, <2>3
  <2>5. m \in Id /\ m \in 0..MaxId
    BY <2>1, <2>4 DEF Id
  <2>6. QED
    BY <1>4, <2>3, <2>5
<1>5. CASE Tried # {} /\ Min(Tried) <= MaxId /\ alloc' = Min(Tried) /\ Abort /\ UNCHANGED how
  <2>1. Table' /\ pc' = "abort" /\ ev' = ev
    BY <1>1, <1>5, AbortTyped
  <2>2. alloc' \in 0..MaxId /\ Known \subseteq Known' /\ Known' \subseteq Id
    BY <1>2, <1>4, <1>5 DEF Known
  <2>3. Threads'
    BY <1>1, <2>1, <2>2, EventThreads
  <2>4. QED
    BY <2>1, <2>3 DEF Typed
<1>6. CASE /\ Tried # {} /\ Min(Tried) <= MaxId /\ alloc' = Min(Tried)
           /\ slot' = [slot EXCEPT ![HASH_ID(Min(Tried))] = NewFd("PACCEPT", Min(Tried), "tcp", FALSE)]
           /\ fds' = fds \cup {Min(Tried)}
           /\ how' = [j \in Known \cup {Min(Tried)} |-> IF j = Min(Tried) THEN "accepted" ELSE how[j]]
           /\ Handled /\ Goes /\ UNCHANGED <<told, wire>>
  <2>1. PICK x \in Id : x = Min(Tried)
    BY <1>4, <1>6
  <2>2. Known' = Known \cup {x}
    BY <1>6, <2>1 DEF Known
  <2>3. PICK i \in Slots : i = HASH_ID(x)
    BY HashType DEF Id
  <2>4. PICK s, h : s = NewFd("PACCEPT", x, "tcp", FALSE) /\ h = Known'
    OBVIOUS
  <2>5. slot' = [slot EXCEPT ![i] = s]
    BY <1>6, <2>1, <2>3, <2>4
  <2>6. PICK n \in Nat : n = Len(pkts)
    BY DEF Typed, Threads
  <2>7. SlotOK(s, n, h)
    <3>1. "PACCEPT" \in Open /\ "tcp" \in {"tcp", "udp"} /\ FALSE \in BOOLEAN /\ x \in h
      BY <2>2, <2>4 DEF Open
    <3>2. QED
      BY <2>4, <3>1, NewFdTyped
  <2>8. /\ Len(pkts') \in Nat /\ Len(pkts) <= Len(pkts') /\ SlotOK(s, Len(pkts'), Known')
        /\ wire' \in [Id -> Seq(1..Len(pkts'))]
    <3>1. Len(pkts') \in Nat /\ Len(pkts) <= Len(pkts')
      BY <1>1, <2>6
    <3>2. SlotOK(s, Len(pkts'), Known')
      BY <1>1, <2>4, <2>6, <2>7
    <3>3. wire' \in [Id -> Seq(1..Len(pkts'))]
      BY <1>1, <1>6 DEF Typed, Table
    <3>4. QED
      BY <3>1, <3>2, <3>3
  <2>9. Known \subseteq Known' /\ Known' \subseteq Id /\ told' \subseteq Known' /\ fds' \subseteq Id
    BY <1>2, <1>6, <2>1, <2>2
  <2>10. Table'
    BY <2>5, <2>8, <2>9, TableStep
  <2>11. Threads'
    BY <1>1, <1>4, <1>6, <2>9, EventThreads DEF Handled, Goes
  <2>12. QED
    BY <2>10, <2>11 DEF Typed
<1>7. QED
  BY <1>3, <1>5, <1>6 DEF report_accept

LEMMA InvalidTyped == ASSUME Typed, EventOfInvalid PROVE Typed'
<1>1. At({"INVALID"}) /\ ev' = Tail(ev) /\ Goes /\ UNCHANGED <<slot, alloc, req, fds, how, told, pkts, wire>>
  BY DEF EventOfInvalid, Handled
<1>2. QED
  BY <1>1, EventIdles

LEMMA ForwardTyped == ASSUME Typed, forward_message PROVE Typed'
<1>1. PICK types : types = (Open \cup {"RESERVE"}) \ {"CONNECTING", "LISTEN"}
  OBVIOUS
<1>2. At(types) /\ UNCHANGED <<alloc, req, how, pkts>>
  BY <1>1 DEF forward_message
<1>3. slot[es].type \in types
  BY <1>2, EventFacts
<1>4. CASE /\ ev' = IF Head(ev).w THEN [ev EXCEPT ![1].r = FALSE] ELSE Tail(ev)
           /\ Goes /\ UNCHANGED <<slot, fds, told, wire>>
  BY <1>2, <1>4, EventIdles
<1>5. CASE slot[es].type # "RESERVE" /\ force_close(es) /\ Handled /\ Goes
  <2>1. slot[es].type \in Open
    BY <1>1, <1>3, <1>5
  <2>2. QED
    BY <1>2, <1>5, <2>1, EventCloses
<1>6. CASE Abort
  BY <1>2, <1>6, EventAborts
<1>7. QED
  BY <1>4, <1>5, <1>6 DEF forward_message

(* A reserved slot that is empty is not closed by its write event.         *)
LEMMA EmptyNotClosed ==
  ASSUME NEW s, Empty(s), s.type = "RESERVE", NEW o \in send_buffer(s)
  PROVE  o.end # "closed"
  BY DEF send_buffer, list_uncomplete, Empty

LEMMA FlushTyped == ASSUME Typed, Flush PROVE Typed'
<1>1. PICK types : types = (Open \cup {"RESERVE"}) \ {"CONNECTING", "LISTEN"}
  OBVIOUS
<1>2. At(types) /\ UNCHANGED <<alloc, req, how, pkts>>
  BY <1>1 DEF Flush
<1>3. es \in Slots /\ slot[es].type \in types
  BY <1>2, EventFacts
<1>4. PICK i \in Slots : i = es
  BY <1>3
<1>5. PICK s, h : s = slot[i] /\ h = Known
  OBVIOUS
<1>6. PICK n \in Nat : n = Len(pkts)
  BY DEF Typed, Threads
<1>7. SlotOK(s, n, h) /\ IsSocket(s)
  BY <1>5, <1>6 DEF Typed, Table, SlotOK
<1>8. CASE Abort
  BY <1>2, <1>8, EventAborts
<1>9. ASSUME ~(slot[es].type = "RESERVE" /\ ~Empty(slot[es])), NEW o \in send_buffer(slot[es]),
             o.end = "closed", force_close(es), Handled, Goes
      PROVE  Typed'
  <2>1. o \in send_buffer(s) /\ ~(s.type = "RESERVE" /\ ~Empty(s))
    BY <1>4, <1>5, <1>9
  <2>2. s.type # "RESERVE"
    BY <1>9, <2>1, EmptyNotClosed
  <2>3. slot[es].type \in Open
    BY <1>1, <1>3, <1>4, <1>5, <2>2
  <2>4. QED
    BY <1>2, <1>9, <2>3, EventCloses
<1>10. ASSUME NEW o \in send_buffer(slot[es]), o.end = "open", slot' = [slot EXCEPT ![es] = o.s],
              Wrote(slot[es].id, o.units), Handled, Goes, UNCHANGED <<fds, told>>
       PROVE  Typed'
  <2>1. PICK t, u, x : t = o.s /\ u = o.units /\ x = slot[es].id
    OBVIOUS
  <2>2. o \in send_buffer(s)
    BY <1>4, <1>5
  <2>3. SlotOK(t, n, h) /\ u \in Seq(1..n)
    BY <1>7, <1>10, <2>1, <2>2, SendBufferTyped
  <2>4. slot' = [slot EXCEPT ![i] = t] /\ Wrote(x, u)
    BY <1>4, <1>10, <2>1 DEF Wrote
  <2>5. /\ SlotOK(t, Len(pkts), Known) /\ u \in Seq(1..Len(pkts))
        /\ pkts' \in Seq(Packets) /\ Len(pkts') = Len(pkts)
    BY <1>2, <1>5, <1>6, <2>3 DEF Typed, Threads
  <2>6. Table'
    BY <1>2, <1>10, <2>4, <2>5, WroteTyped
  <2>7. QED
    BY <1>2, <1>10, <2>6, EventTyped DEF Handled, Goes
<1>11. CASE /\ ~(slot[es].type = "RESERVE" /\ ~Empty(slot[es]))
            /\ \E o \in send_buffer(slot[es]) :
                 CASE o.end = "abort"  -> Abort
                   [] o.end = "closed" -> force_close(es) /\ Handled /\ Goes
                   [] o.end = "open"   -> /\ slot' = [slot EXCEPT ![es] = o.s]
                                          /\ Wrote(slot[es].id, o.units)
                                          /\ Handled /\ Goes /\ UNCHANGED <<fds, told>>
  <2>1. PICK o \in send_buffer(slot[es]) :
          CASE o.end = "abort"  -> Abort
            [] o.end = "closed" -> force_close(es) /\ Handled /\ Goes
            [] o.end = "open"   -> /\ slot' = [slot EXCEPT ![es] = o.s]
                                   /\ Wrote(slot[es].id, o.units)
                                   /\ Handled /\ Goes /\ UNCHANGED <<fds, told>>
    BY <1>11
  <2>2. o.end \in {"abort", "closed", "open"}
    <3>1. o \in send_buffer(s)
      BY <1>4, <1>5
    <3>2. QED
      BY <1>7, <3>1, SendBufferKeeps
  <2>3. CASE o.end = "abort"
    BY <1>8, <2>1, <2>3
  <2>4. CASE o.end = "closed"
    BY <1>9, <1>11, <2>1, <2>4
  <2>5. CASE o.end = "open"
    BY <1>10, <2>1, <2>5
  <2>6. QED
    BY <2>2, <2>3, <2>4, <2>5
<1>12. QED
  BY <1>8, <1>11 DEF Flush

(* The wait, and the events of a closed socket.                            *)
LEMMA SocketThreadIdle ==
  ASSUME Typed, UNCHANGED <<slot, alloc, req, pipe, fds, how, told, pkts, wire>>,
         ev' \in Seq(Events), pc' \in {"poll", "event"}
  PROVE  Typed'
<1>1. told' \subseteq Known /\ fds' \subseteq Id
  BY DEF Typed, Table
<1>2. Table'
  BY <1>1, IdleTyped
<1>3. Known' = Known
  BY DEF Known
<1>4. Threads'
  BY <1>3 DEF Typed, Threads, CommandOK
<1>5. QED
  BY <1>2, <1>4 DEF Typed

LEMMA WaitTyped == ASSUME Typed, sp_wait PROVE Typed'
<1>1. ev' \in Seq(Events)
  BY BatchType
<1>2. pc' \in {"poll", "event"} /\ UNCHANGED <<slot, alloc, req, pipe, fds, how, told, pkts, wire>>
  BY DEF sp_wait
<1>3. QED
  BY <1>1, <1>2, SocketThreadIdle

LEMMA ClearTyped == ASSUME Typed, clear_closed_event PROVE Typed'
<1>1. ev \in Seq(Events)
  BY DEF Typed, Threads
<1>2. ev' \in Seq(Events)
  BY <1>1, ClearedType DEF clear_closed_event
<1>3. pc' = "poll" /\ UNCHANGED <<slot, alloc, req, pipe, fds, how, told, pkts, wire>>
  BY DEF clear_closed_event, Goes
<1>4. QED
  BY <1>2, <1>3, SocketThreadIdle

(* Workers.                                                                *)
LEMMA ReserveTyped == ASSUME Typed, NEW w \in Worker, NEW kind \in Opening, reserve_id(w, kind) PROVE Typed'
<1>1. /\ Tried # {} /\ Min(Tried) <= MaxId /\ alloc' = Min(Tried)
      /\ slot' = [slot EXCEPT ![HASH_ID(Min(Tried))].type = "RESERVE"]
      /\ req' = [req EXCEPT ![w] = <<kind, Min(Tried)>>]
      /\ fds' = IF kind \in {"L", "U"} THEN fds \cup {Min(Tried)} ELSE fds
      /\ UNCHANGED <<pipe, pc, ev, arg, how, told, pkts, wire>>
  BY DEF reserve_id
<1>2. PICK x \in Id : x = Min(Tried)
  <2>1. alloc \in Nat /\ MaxId \in Nat
    BY SocketServerAssumption DEF Typed, Threads
  <2>2. Min(Tried) \in Nat /\ Min(Tried) > alloc
    BY <1>1, <2>1, TriedLeast
  <2>3. PICK m \in Nat : m = Min(Tried)
    BY <2>2
  <2>4. m > alloc /\ m <= MaxId
    BY <1>1, <2>2, <2>3
  <2>5. m \in Id
    BY <2>1, <2>4 DEF Id
  <2>6. QED
    BY <2>3, <2>5
<1>3. PICK i \in Slots : i = HASH_ID(x)
  BY HashType DEF Id
<1>4. PICK s, n, h : s = slot[i] /\ n = Len(pkts) /\ h = Known
  OBVIOUS
<1>5. SlotOK(s, n, h)
  BY <1>4 DEF Typed, Table
<1>6. PICK r : r = [s EXCEPT !.type = "RESERVE"]
  OBVIOUS
<1>7. SlotOK(r, n, h)
  <2>1. "RESERVE" \in Types /\ "RESERVE" \notin Open /\ TRUE \in BOOLEAN
    BY DEF Types, Open
  <2>2. QED
    BY <1>5, <1>6, <2>1, RetypedOK
<1>8. slot' = [slot EXCEPT ![i] = r] /\ SlotOK(r, Len(pkts), Known)
  BY <1>1, <1>2, <1>3, <1>4, <1>6, <1>7
<1>9. told' \subseteq Known /\ fds' \subseteq Id
  BY <1>1, <1>2 DEF Typed, Table
<1>10. Table'
  BY <1>1, <1>8, <1>9, SlotTyped
<1>11. Threads'
  <2>1. req' \in [Worker -> {<<>>} \cup (Opening \X Id)]
    BY <1>1, <1>2 DEF Typed, Threads
  <2>2. alloc' \in 0..MaxId /\ Known' = Known
    BY <1>1, <1>2 DEF Id, Known
  <2>3. QED
    BY <1>1, <2>1, <2>2 DEF Typed, Threads, CommandOK
<1>12. QED
  BY <1>10, <1>11 DEF Typed

(* A command is put into the pipe.                                         *)
LEMMA PipeTyped ==
  ASSUME NEW n \in Nat, NEW m \in Nat, m <= n, NEW g, NEW h, g \subseteq h, NEW p \in Seq(Commands),
         \A k \in DOMAIN p : CommandOK(p[k], m, g), NEW e, CommandOK(e, n, h)
  PROVE  /\ Append(p, e) \in Seq(Commands)
         /\ \A k \in DOMAIN Append(p, e) : CommandOK(Append(p, e)[k], n, h)
<1>1. e \in Commands
  BY DEF CommandOK
<1>2. PICK r : r = Append(p, e)
  OBVIOUS
<1>3. /\ r \in Seq(Commands) /\ DOMAIN r = 1..Len(p) + 1 /\ Len(p) \in Nat /\ DOMAIN p = 1..Len(p)
      /\ \A k \in 1..Len(p) : r[k] = p[k]
      /\ r[Len(p) + 1] = e
  BY <1>1, <1>2
<1>4. \A k \in DOMAIN r : (k \in DOMAIN p /\ r[k] = p[k]) \/ r[k] = e
  BY <1>3
<1>5. \A k \in DOMAIN p : CommandOK(p[k], n, h)
  BY DEF CommandOK
<1>6. QED
  BY <1>2, <1>3, <1>4, <1>5

LEMMA RequestTyped == ASSUME Typed, NEW w \in Worker, Requested(w), pc # "abort" PROVE Typed'
<1>1. /\ req[w] # <<>> /\ slot' = [slot EXCEPT ![HASH_ID(req[w][2])].id = req[w][2]]
      /\ pipe' = Append(pipe, [c |-> req[w][1], id |-> req[w][2], x |-> 0])
      /\ how' = [i \in Known \cup {req[w][2]} |-> IF i = req[w][2] THEN req[w][1] ELSE how[i]]
      /\ req' = [req EXCEPT ![w] = <<>>]
      /\ UNCHANGED <<alloc, pc, ev, arg, fds, told, pkts, wire>>
  BY DEF Requested
<1>2. req \in [Worker -> {<<>>} \cup (Opening \X Id)] /\ Known \subseteq Id
  BY DEF Typed, Threads
<1>3. PICK x \in Id, c \in Opening : x = req[w][2] /\ c = req[w][1]
  BY <1>1, <1>2
<1>4. Known' = Known \cup {x}
  BY <1>1, <1>3 DEF Known
<1>5. PICK i \in Slots : i = HASH_ID(x)
  BY HashType DEF Id
<1>6. PICK s, g, h : s = slot[i] /\ g = Known /\ h = Known'
  OBVIOUS
<1>7. PICK n \in Nat : n = Len(pkts)
  BY DEF Typed, Threads
<1>8. SlotOK(s, n, g)
  BY <1>6, <1>7 DEF Typed, Table
<1>9. PICK r : r = [s EXCEPT !.id = x]
  OBVIOUS
<1>10. SlotOK(r, n, h)
  <2>1. IsSocket(s) /\ x \in h /\ x # 0
    BY <1>4, <1>6, <1>8 DEF SlotOK, Id
  <2>2. /\ IsSocket(r) /\ r.type = s.type /\ r.id = x /\ r.proto = s.proto /\ r.wr = s.wr
        /\ r.high = s.high /\ r.low = s.low /\ r.wb = s.wb
    BY <1>9, <2>1 DEF IsSocket
  <2>3. QED
    BY <1>8, <2>1, <2>2 DEF SlotOK
<1>11. slot' = [slot EXCEPT ![i] = r]
  BY <1>1, <1>3, <1>5, <1>6, <1>9
<1>12. /\ Len(pkts') \in Nat /\ Len(pkts) <= Len(pkts') /\ SlotOK(r, Len(pkts'), Known')
       /\ wire' \in [Id -> Seq(1..Len(pkts'))]
  <2>1. Len(pkts') \in Nat /\ Len(pkts) <= Len(pkts')
    BY <1>1, <1>7
  <2>2. SlotOK(r, Len(pkts'), Known')
    BY <1>1, <1>6, <1>7, <1>10
  <2>3. wire' \in [Id -> Seq(1..Len(pkts'))]
    BY <1>1 DEF Typed, Table
  <2>4. QED
    BY <2>1, <2>2, <2>3
<1>13. Known \subseteq Known' /\ Known' \subseteq Id /\ told' \subseteq Known' /\ fds' \subseteq Id
  BY <1>1, <1>2, <1>4 DEF Typed, Table
<1>14. Table'
  BY <1>11, <1>12, <1>13, TableStep
<1>15. PICK e : e = [c |-> c, id |-> x, x |-> 0]
  OBVIOUS
<1>16. CommandOK(e, n, h)
  BY <1>4, <1>6, <1>15 DEF CommandOK, Commands, Opening
<1>17. PICK p \in Seq(Commands) : p = pipe /\ \A k \in DOMAIN p : CommandOK(p[k], n, g)
  BY <1>6, <1>7 DEF Typed, Threads
<1>18. Append(p, e) \in Seq(Commands) /\ \A k \in DOMAIN Append(p, e) : CommandOK(Append(p, e)[k], n, h)
  <2>1. g \subseteq h /\ n <= n
    BY <1>4, <1>6
  <2>2. QED
    BY <1>16, <1>17, <2>1, PipeTyped
<1>19. pipe' \in Seq(Commands) /\ \A k \in DOMAIN pipe' : CommandOK(pipe'[k], Len(pkts'), Known')
  BY <1>1, <1>3, <1>6, <1>7, <1>15, <1>17, <1>18
<1>20. req' \in [Worker -> {<<>>} \cup (Opening \X Id)]
  BY <1>1, <1>2
<1>21. Threads'
  BY <1>1, <1>13, <1>19, <1>20 DEF Typed, Threads
<1>22. QED
  BY <1>14, <1>21 DEF Typed

LEMMA SendRequestTyped ==
  ASSUME Typed, NEW c \in {"D", "P", "S", "K"}, NEW id \in Known, NEW x \in Nat, SendRequest(c, id, x),
         pkts' \in Seq(Packets), Len(pkts) <= Len(pkts'), c \in {"D", "P"} => x \in 1..Len(pkts')
  PROVE  Typed'
<1>1. /\ pipe' = Append(pipe, [c |-> c, id |-> id, x |-> x])
      /\ UNCHANGED <<slot, alloc, req, pc, ev, arg, fds, how, told, wire>>
  BY DEF SendRequest
<1>2. Known' = Known /\ Known \subseteq Id /\ Len(pkts) \in Nat /\ Len(pkts') \in Nat
  BY <1>1 DEF Known, Typed, Threads
<1>3. PICK m, n \in Nat : m = Len(pkts) /\ n = Len(pkts') /\ m <= n
  BY <1>2
<1>4. told' \subseteq Known' /\ fds' \subseteq Id /\ Known \subseteq Known'
  BY <1>1, <1>2 DEF Typed, Table
<1>5. wire' \in [Id -> Seq(1..Len(pkts'))]
  <2>1. wire \in [Id -> Seq(1..m)]
    BY <1>3 DEF Typed, Table
  <2>2. Seq(1..m) \subseteq Seq(1..n)
    BY <1>3, MorePackets
  <2>3. wire \in [Id -> Seq(1..n)]
    <3>1. PICK U, V : U = Seq(1..m) /\ V = Seq(1..n)
      OBVIOUS
    <3>2. wire \in [Id -> U] /\ U \subseteq V
      BY <2>1, <2>2, <3>1
    <3>3. wire \in [Id -> V]
      BY <3>2
    <3>4. QED
      BY <3>1, <3>3
  <2>4. QED
    BY <1>1, <1>3, <2>3
<1>6. Table'
  BY <1>1, <1>2, <1>4, <1>5, TableSame
<1>7. PICK e, g : e = [c |-> c, id |-> id, x |-> x] /\ g = Known
  OBVIOUS
<1>8. CommandOK(e, n, g)
  BY <1>2, <1>3, <1>7 DEF CommandOK, Commands, Opening
<1>9. PICK p \in Seq(Commands) : p = pipe /\ \A k \in DOMAIN p : CommandOK(p[k], m, g)
  BY <1>3, <1>7 DEF Typed, Threads
<1>10. Append(p, e) \in Seq(Commands) /\ \A k \in DOMAIN Append(p, e) : CommandOK(Append(p, e)[k], n, g)
  BY <1>3, <1>8, <1>9, PipeTyped
<1>11. pipe' \in Seq(Commands) /\ \A k \in DOMAIN pipe' : CommandOK(pipe'[k], Len(pkts'), Known')
  BY <1>1, <1>2, <1>3, <1>7, <1>9, <1>10
<1>12. Threads'
  BY <1>1, <1>2, <1>11 DEF Typed, Threads
<1>13. QED
  BY <1>6, <1>12 DEF Typed

LEMMA SentPacket ==
  ASSUME NEW q \in Seq(Packets), NEW id \in Id, NEW low \in BOOLEAN
  PROVE  LET r == Append(q, [id |-> id, low |-> low, taken |-> FALSE]) IN
         r \in Seq(Packets) /\ Len(q) <= Len(r) /\ Len(q) + 1 \in 1..Len(r) /\ Len(q) + 1 \in Nat
<1>1. [id |-> id, low |-> low, taken |-> FALSE] \in Packets
  BY DEF Packets
<1>2. QED
  BY <1>1

LEMMA WorkersTyped == ASSUME Typed, Workers PROVE Typed'
<1>0. Known \subseteq Id /\ pkts \in Seq(Packets)
  BY DEF Typed, Threads
<1>1. CASE \E w \in Worker, kind \in {"O", "L", "B", "U"} : reserve_id(w, kind)
  BY <1>1, ReserveTyped DEF Opening
<1>2. CASE \E w \in Worker : Requested(w)
  BY <1>2, RequestTyped DEF Workers
<1>3. ASSUME NEW id \in Known, NEW low \in BOOLEAN, socket_server_send(id, low) PROVE Typed'
  <2>1. PICK c, x : c \in {"D", "P", "S", "K"} /\ c = (IF low THEN "P" ELSE "D") /\ x = Len(pkts) + 1
    OBVIOUS
  <2>2. SendRequest(c, id, x) /\ pkts' = Append(pkts, [id |-> id, low |-> low, taken |-> FALSE])
    BY <1>3, <2>1 DEF socket_server_send
  <2>3. pkts' \in Seq(Packets) /\ Len(pkts) <= Len(pkts') /\ x \in 1..Len(pkts') /\ x \in Nat
    BY <1>0, <2>1, <2>2, SentPacket
  <2>4. QED
    BY <2>1, <2>2, <2>3, SendRequestTyped
<1>4. ASSUME NEW id \in Known, NEW c \in {"S", "K"}, NEW x \in {0, 1}, SendRequest(c, id, x), UNCHANGED pkts
      PROVE  Typed'
  <2>1. c \in {"D", "P", "S", "K"} /\ c \notin {"D", "P"} /\ x \in Nat
    OBVIOUS
  <2>2. pkts' \in Seq(Packets) /\ Len(pkts) <= Len(pkts')
    BY <1>0, <1>4
  <2>3. QED
    BY <1>4, <2>1, <2>2, SendRequestTyped
<1>5. CASE \E id \in Known : socket_server_start(id)
  <2>1. PICK id \in Known, c \in {"S", "K"}, x \in {0, 1} : c = "S" /\ x = 0 /\ socket_server_start(id)
    BY <1>5
  <2>2. SendRequest(c, id, x) /\ UNCHANGED pkts
    BY <2>1 DEF socket_server_start
  <2>3. QED
    BY <1>4, <2>2
<1>6. CASE \E id \in Known, shutdown \in {0, 1} : socket_server_close(id, shutdown)
  <2>1. PICK id \in Known, c \in {"S", "K"}, x \in {0, 1} : c = "K" /\ socket_server_close(id, x)
    BY <1>6
  <2>2. SendRequest(c, id, x) /\ UNCHANGED pkts
    BY <2>1 DEF socket_server_close
  <2>3. QED
    BY <1>4, <2>2
<1>7. QED
  BY <1>1, <1>2, <1>3, <1>5, <1>6 DEF Workers

LEMMA InitTyped == Init => Typed
<1> SUFFICES ASSUME Init PROVE Typed
  OBVIOUS
<1>1. PICK s, n, h : s = NewFd("INVALID", 0, "tcp", FALSE) /\ n = Len(pkts) /\ h = Known
  OBVIOUS
<1>2. SlotOK(s, n, h)
  BY <1>1 DEF NewFd, IsSocket, SlotOK, Types, Open
<1>3. slot = [i \in Slots |-> s]
  BY <1>1 DEF Init
<1>4. slot = [i \in Slots |-> slot[i]] /\ \A i \in Slots : SlotOK(slot[i], Len(pkts), Known)
  BY <1>1, <1>2, <1>3
<1>5. Known = {}
  BY DEF Init, Known
<1>6. wire \in [Id -> Seq(1..Len(pkts))]
  BY DEF Init
<1>7. Table
  BY <1>4, <1>5, <1>6 DEF Table, Init
<1>8. pipe = <<>> /\ DOMAIN pipe = {} /\ alloc \in 0..MaxId /\ req \in [Worker -> {<<>>} \cup (Opening \X Id)]
  BY SocketServerAssumption DEF Init
<1>9. Threads
  BY <1>5, <1>8 DEF Threads, Init
<1>10. QED
  BY <1>7, <1>9 DEF Typed

LEMMA StepTyped == ASSUME Typed, Next PROVE Typed'
<1>1. CASE Workers
  BY <1>1, WorkersTyped
<1>2. CASE SocketThread
  BY <1>2, OpenTyped, FailedTyped, UdpTyped, ListenTyped, BindTyped, StartTyped, CloseSocketTyped, SendTyped,
     ClearTyped, WaitTyped, ConnectTyped, AcceptTyped, InvalidTyped, ForwardTyped, FlushTyped DEF SocketThread
<1>3. QED
  BY <1>1, <1>2, ThreadsMove DEF Next

(* The types hold in every run, one in which two ids share a slot too: the *)
(* lists of a slot are of packets that were sent, and append_sendbuffer,   *)
(* send_list and raise_uncomplete keep wb_size their length.               *)
THEOREM TypedAlways == Spec => []Typed
<1>1. ASSUME Typed, [Next]_vars PROVE Typed'
  <2>1. CASE Next
    BY <1>1, <2>1, StepTyped
  <2>2. CASE UNCHANGED vars
    <3>1. Table'
      BY <1>1, <2>2 DEF Typed, Table, vars, Known, SlotOK
    <3>2. Threads'
      BY <1>1, <2>2 DEF Typed, Threads, vars, Known, CommandOK
    <3>3. QED
      BY <3>1, <3>2 DEF Typed
  <2>3. QED
    BY <1>1, <2>1, <2>2
<1>2. QED
  BY <1>1, InitTyped, PTL DEF Spec

-----------------------------------------------------------------------------
(* The streams are kept.                                                   *)

(* What the packets and lists are, as sequences of numbers.                *)
LEMMA UnitTypes ==
  ASSUME Typed
  PROVE  /\ \A id \in Id : wire[id] \in Seq(Nat)
         /\ \A i \in Slots : IsSocket(slot[i]) /\ slot[i].high \in Seq(Nat) /\ slot[i].low \in Seq(Nat)
                             /\ slot[i].wb = Len(slot[i].high) + Len(slot[i].low) /\ slot[i].wb \in Nat
<1>1. PICK n \in Nat : n = Len(pkts)
  BY DEF Typed, Threads
<1>2. Seq(1..n) \subseteq Seq(Nat)
  BY SeqMonotonic
<1>3. wire \in [Id -> Seq(1..n)] /\ \A i \in Slots : SlotOK(slot[i], n, Known)
  BY <1>1 DEF Typed, Table
<1>4. ASSUME NEW id \in Id PROVE wire[id] \in Seq(Nat)
  BY <1>2, <1>3
<1>5. ASSUME NEW i \in Slots
      PROVE  /\ IsSocket(slot[i]) /\ slot[i].high \in Seq(Nat) /\ slot[i].low \in Seq(Nat)
             /\ slot[i].wb = Len(slot[i].high) + Len(slot[i].low) /\ slot[i].wb \in Nat
  <2>1. PICK s : s = slot[i]
    OBVIOUS
  <2>2. IsSocket(s) /\ s.high \in Seq(1..n) /\ s.low \in Seq(1..n) /\ s.wb = Len(s.high) + Len(s.low)
    BY <1>3, <2>1 DEF SlotOK
  <2>3. PICK x, y \in Seq(Nat) : x = s.high /\ y = s.low
    BY <1>2, <2>2
  <2>4. PICK c, d \in Nat : c = Len(x) /\ d = Len(y)
    OBVIOUS
  <2>5. s.wb = c + d /\ c + d \in Nat
    <3>1. s.wb = c + d
      BY <2>2, <2>3, <2>4
    <3>2. c + d \in Nat
      OBVIOUS
    <3>3. QED
      BY <3>1, <3>2
  <2>6. QED
    BY <2>1, <2>2, <2>3, <2>5
<1>6. QED
  BY <1>4, <1>5

(* One slot is written, the streams of the other sockets are given.        *)
LEMMA StreamStep ==
  ASSUME Typed, OpenInv, StreamBody, NEW i \in Slots, NEW s, slot' = [slot EXCEPT ![i] = s],
         s.type \in Open => s.id \in Id /\ HASH_ID(s.id) = i /\ StreamOf(wire'[s.id], s, pkts'),
         \A id \in Id : HASH_ID(id) # i => wire'[id] = wire[id],
         \A id \in Id : HASH_ID(id) = i /\ wire'[id] # <<>> => s.type \in Open /\ s.id = id,
         \A j \in Slots : j # i /\ slot[j].type \in Open => StreamOf(wire[slot[j].id], slot[j], pkts')
  PROVE  StreamBody'
<1>1. slot = [j \in Slots |-> slot[j]]
  BY DEF Typed, Table
<1>2. \A j \in Slots : slot'[j] = IF j = i THEN s ELSE slot[j]
  BY <1>1
<1>3. ASSUME NEW j \in Slots, slot'[j].type \in Open PROVE StreamOf(wire'[slot'[j].id], slot'[j], pkts')
  <2>1. CASE j = i
    BY <1>2, <1>3, <2>1
  <2>2. CASE j # i
    <3>1. PICK t : t = slot[j]
      OBVIOUS
    <3>2. slot'[j] = t /\ t.type \in Open
      BY <1>2, <1>3, <2>2, <3>1
    <3>3. t.id \in Id /\ HASH_ID(t.id) = j
      BY <3>1, <3>2 DEF OpenInv, SocketOK, Typed, Threads, Known
    <3>4. wire'[t.id] = wire[t.id]
      BY <2>2, <3>3
    <3>5. StreamOf(wire[t.id], t, pkts')
      BY <2>2, <3>1, <3>2
    <3>6. QED
      BY <3>2, <3>4, <3>5
  <2>3. QED
    BY <2>1, <2>2
<1>4. ASSUME NEW id \in Id, wire'[id] # <<>> PROVE Holds(id)'
  <2>1. HASH_ID(id) \in Slots
    BY HashType DEF Id
  <2>2. PICK j \in Slots : j = HASH_ID(id)
    BY <2>1
  <2>3. CASE j = i
    BY <1>2, <1>4, <2>2, <2>3 DEF Holds
  <2>4. CASE j # i
    <3>1. wire[id] # <<>>
      BY <1>4, <2>2, <2>4
    <3>2. Holds(id)
      BY <3>1 DEF StreamBody
    <3>3. slot'[j] = slot[j]
      BY <1>2, <2>4
    <3>4. QED
      BY <2>2, <3>2, <3>3 DEF Holds
  <2>5. QED
    BY <2>3, <2>4
<1>5. QED
  BY <1>3, <1>4 DEF StreamBody

LEMMA NothingKept ==
  ASSUME StreamBody, NEW i \in Slots, NEW id \in Id, HASH_ID(id) = i, wire[id] # <<>>
  PROVE  slot[i].type \in Open /\ slot[i].id = id
  BY DEF StreamBody, Holds

(* No packet is taken: nothing is written either, or a socket is closed.   *)
LEMMA SameBody ==
  ASSUME StreamBody, UNCHANGED <<slot, wire, pkts>>
  PROVE  StreamBody'
  BY DEF StreamBody, Holds

LEMMA DeadBody ==
  ASSUME Typed, OpenInv, StreamBody, NEW i \in Slots, NEW s, slot' = [slot EXCEPT ![i] = s],
         slot[i].type \notin Open, s.type \notin Open, UNCHANGED <<wire, pkts>>
  PROVE  StreamBody'
<1>1. \A id \in Id : HASH_ID(id) = i => wire[id] = <<>>
  BY NothingKept
<1>2. \A j \in Slots : j # i /\ slot[j].type \in Open => StreamOf(wire[slot[j].id], slot[j], pkts')
  BY DEF StreamBody
<1>3. QED
  BY <1>1, <1>2, StreamStep

LEMMA CloseBody ==
  ASSUME Typed, OpenInv, StreamBody, NEW i \in Slots, slot[i].type \in Open, force_close(i), UNCHANGED pkts
  PROVE  StreamBody'
<1>1. PICK x : x = slot[i].id
  OBVIOUS
<1>2. PICK s : s = Invalid(i)
  OBVIOUS
<1>3. slot' = [slot EXCEPT ![i] = s] /\ wire' = [wire EXCEPT ![x] = <<>>]
  BY <1>1, <1>2 DEF force_close
<1>4. s.type \notin Open
  BY <1>2 DEF Invalid, NewFd, Open
<1>5. x \in Id /\ HASH_ID(x) = i
  BY <1>1 DEF OpenInv, SocketOK, Typed, Threads, Known
<1>6. \A id \in Id : wire'[id] = IF id = x THEN <<>> ELSE wire[id]
  BY <1>3 DEF Typed, Table
<1>7. \A id \in Id : HASH_ID(id) = i /\ wire'[id] # <<>> => s.type \in Open /\ s.id = id
  <2>1. SUFFICES ASSUME NEW id \in Id, HASH_ID(id) = i, wire'[id] # <<>> PROVE FALSE
    OBVIOUS
  <2>2. id # x /\ wire[id] # <<>>
    BY <1>6, <2>1
  <2>3. slot[i].id = id
    BY <2>1, <2>2, NothingKept
  <2>4. QED
    BY <1>1, <2>2, <2>3
<1>8. \A id \in Id : HASH_ID(id) # i => wire'[id] = wire[id]
  BY <1>5, <1>6
<1>9. \A j \in Slots : j # i /\ slot[j].type \in Open => StreamOf(wire[slot[j].id], slot[j], pkts')
  BY DEF StreamBody
<1>10. QED
  BY <1>3, <1>4, <1>7, <1>8, <1>9, StreamStep

(* A socket of which nothing was taken is opened.                          *)
LEMMA NewStream ==
  ASSUME NEW q \in Seq(Packets), NEW type, NEW id, NEW proto, NEW wr,
         \A p \in DOMAIN q : q[p].taken => q[p].id # id
  PROVE  StreamOf(<<>>, NewFd(type, id, proto, wr), q)
<1>1. PICK s : s = NewFd(type, id, proto, wr)
  OBVIOUS
<1>2. s.high = <<>> /\ s.low = <<>> /\ s.id = id
  BY <1>1 DEF NewFd
<1>3. Ahead(<<>>, s) = 0 /\ Ahead(<<>>, s) + Len(s.low) = 0
  BY <1>2 DEF Ahead
<1>4. \A k \in 1..0 : FALSE
  OBVIOUS
<1>5. Stream(All(<<>>, s), 0, 0, id, q)
  BY <1>4 DEF Stream
<1>6. QED
  BY <1>1, <1>2, <1>3, <1>5 DEF StreamOf

LEMMA NewBody ==
  ASSUME Typed, OpenInv, StreamBody, NEW i \in Slots, NEW id \in Id, HASH_ID(id) = i, slot[i].type \notin Open,
         NEW type, NEW proto, NEW wr, slot' = [slot EXCEPT ![i] = NewFd(type, id, proto, wr)],
         \A p \in DOMAIN pkts : pkts[p].taken => pkts[p].id # id, UNCHANGED <<wire, pkts>>
  PROVE  StreamBody'
<1>1. PICK s : s = NewFd(type, id, proto, wr)
  OBVIOUS
<1>2. s.id = id
  BY <1>1 DEF NewFd
<1>3. \A jd \in Id : HASH_ID(jd) = i => wire[jd] = <<>>
  BY NothingKept
<1>4. PICK q \in Seq(Packets) : q = pkts
  BY DEF Typed, Threads
<1>5. StreamOf(<<>>, s, q)
  BY <1>1, <1>4, NewStream
<1>6. StreamOf(wire'[s.id], s, pkts')
  BY <1>2, <1>3, <1>4, <1>5
<1>7. \A j \in Slots : j # i /\ slot[j].type \in Open => StreamOf(wire[slot[j].id], slot[j], pkts')
  BY DEF StreamBody
<1>8. slot' = [slot EXCEPT ![i] = s]
  BY <1>1
<1>9. QED
  BY <1>2, <1>3, <1>6, <1>7, <1>8, StreamStep

(* What the lists and the id are is all that counts.                       *)
LEMMA StreamFields ==
  ASSUME NEW w, NEW s, NEW t, NEW q, t.id = s.id, t.high = s.high, t.low = s.low, StreamOf(w, s, q)
  PROVE  StreamOf(w, t, q)
  BY DEF StreamOf, All, Ahead

(* The first units of an open socket are written, or none.                 *)
LEMMA WroteBody ==
  ASSUME Typed, OpenInv, StreamBody, NEW i \in Slots, slot[i].type \in Open, NEW t, slot' = [slot EXCEPT ![i] = t],
         t.id = slot[i].id, t.type \in Open, NEW u, Wrote(slot[i].id, u),
         StreamOf(wire[slot[i].id] \o u, t, pkts), UNCHANGED pkts
  PROVE  StreamBody'
<1>1. PICK x \in Id : x = slot[i].id /\ HASH_ID(x) = i
  BY DEF OpenInv, SocketOK, Typed, Threads, Known
<1>2. wire' = [wire EXCEPT ![x] = @ \o u]
  BY <1>1 DEF Wrote
<1>3. \A id \in Id : wire'[id] = IF id = x THEN wire[id] \o u ELSE wire[id]
  BY <1>2 DEF Typed, Table
<1>4. StreamOf(wire'[t.id], t, pkts')
  BY <1>1, <1>3
<1>5. \A id \in Id : HASH_ID(id) # i => wire'[id] = wire[id]
  BY <1>1, <1>3
<1>6. ASSUME NEW id \in Id, HASH_ID(id) = i, wire'[id] # <<>> PROVE t.type \in Open /\ t.id = id
  <2>1. CASE id = x
    BY <1>1, <2>1
  <2>2. CASE id # x
    BY <1>1, <1>3, <1>6, <2>2, NothingKept
  <2>3. QED
    BY <2>1, <2>2
<1>7. \A j \in Slots : j # i /\ slot[j].type \in Open => StreamOf(wire[slot[j].id], slot[j], pkts')
  BY DEF StreamBody
<1>8. QED
  BY <1>1, <1>4, <1>5, <1>6, <1>7, StreamStep

LEMMA KeepBody ==
  ASSUME Typed, OpenInv, StreamBody, NEW i \in Slots, slot[i].type \in Open, NEW t, slot' = [slot EXCEPT ![i] = t],
         t.id = slot[i].id, t.high = slot[i].high, t.low = slot[i].low, t.type \in Open, UNCHANGED <<wire, pkts>>
  PROVE  StreamBody'
<1>1. PICK s : s = slot[i]
  OBVIOUS
<1>2. StreamOf(wire[s.id], s, pkts)
  BY <1>1 DEF StreamBody
<1>3. StreamOf(wire[s.id], t, pkts)
  BY <1>1, <1>2, StreamFields
<1>4. PICK x \in Id : x = s.id /\ HASH_ID(x) = i
  BY <1>1 DEF OpenInv, SocketOK, Typed, Threads, Known
<1>5. \A id \in Id : HASH_ID(id) = i /\ wire'[id] # <<>> => t.type \in Open /\ t.id = id
  BY NothingKept
<1>6. \A j \in Slots : j # i /\ slot[j].type \in Open => StreamOf(wire[slot[j].id], slot[j], pkts')
  BY DEF StreamBody
<1>7. t.id \in Id /\ HASH_ID(t.id) = i /\ StreamOf(wire'[t.id], t, pkts')
  BY <1>1, <1>3, <1>4
<1>8. QED
  BY <1>5, <1>6, <1>7, StreamStep

LEMMA SentBody ==
  ASSUME Typed, OpenInv, StreamBody, NEW i \in Slots, slot[i].type \in Open, NEW o \in send_buffer(slot[i]),
         o.end = "open", NEW t, slot' = [slot EXCEPT ![i] = t], t.id = o.s.id, t.high = o.s.high,
         t.low = o.s.low, t.type \in Open, Wrote(slot[i].id, o.units), UNCHANGED pkts
  PROVE  StreamBody'
<1>1. PICK s, u : s = slot[i] /\ u = o.units
  OBVIOUS
<1>2. PICK x \in Id : x = s.id
  BY <1>1 DEF OpenInv, SocketOK, Typed, Threads, Known
<1>3. PICK w \in Seq(Nat) : w = wire[x]
  BY UnitTypes
<1>4. StreamOf(w, s, pkts) /\ o \in send_buffer(s)
  BY <1>1, <1>2, <1>3 DEF StreamBody
<1>5. IsSocket(s) /\ s.high \in Seq(Nat) /\ s.low \in Seq(Nat) /\ s.wb \in Nat
  BY <1>1, UnitTypes
<1>6. PICK k, j : SentTo(s, o, k, j)
  BY <1>4, SendBufferCuts
<1>7. /\ k \in 0..Len(s.high) /\ j \in 0..Len(s.low) /\ (k < Len(s.high) => j = 0) /\ u = SentUnits(s, k, j)
  BY <1>1, <1>6 DEF SentTo
<1>8. PICK r, q : r = Sent(s, k, j) /\ q = pkts
  OBVIOUS
<1>9. StreamOf(w \o u, r, q)
  <2>1. StreamOf(w, s, q)
    BY <1>4, <1>8
  <2>2. StreamOf(w \o SentUnits(s, k, j), Sent(s, k, j), q)
    BY <1>5, <1>7, <2>1, SentKeepsStream
  <2>3. QED
    BY <1>7, <1>8, <2>2
<1>10. IsSocket(r) /\ r.id = s.id
  <2>1. SameUnits(Nat, w, s, w \o SentUnits(s, k, j), Sent(s, k, j), k + j)
    BY <1>5, <1>7, SentKeepsUnits
  <2>2. QED
    BY <1>8, <2>1 DEF SameUnits, SameSocket
<1>11. o.s = r \/ o.s = [r EXCEPT !.wr = FALSE]
  BY <1>6, <1>8 DEF SentTo
<1>12. t.id = r.id /\ t.high = r.high /\ t.low = r.low
  BY <1>10, <1>11 DEF IsSocket
<1>13. StreamOf(w \o u, t, q)
  BY <1>9, <1>12, StreamFields
<1>14. /\ StreamOf(wire[slot[i].id] \o u, t, pkts) /\ t.id = slot[i].id /\ Wrote(slot[i].id, u)
  BY <1>1, <1>2, <1>3, <1>8, <1>10, <1>12, <1>13
<1>15. QED
  BY <1>14, WroteBody

(* A packet of the socket in slot i is taken.                              *)
LEMMA OtherBodies ==
  ASSUME Typed, OpenInv, StreamBody, NEW i \in Slots, NEW id \in Id, HASH_ID(id) = i,
         NEW p, Taking(pkts, pkts', p, id)
  PROVE  \A j \in Slots : j # i /\ slot[j].type \in Open => StreamOf(wire[slot[j].id], slot[j], pkts')
<1>1. SUFFICES ASSUME NEW j \in Slots, j # i, slot[j].type \in Open PROVE StreamOf(wire[slot[j].id], slot[j], pkts')
  OBVIOUS
<1>2. PICK s : s = slot[j]
  OBVIOUS
<1>3. PICK w, q, r : w = wire[s.id] /\ q = pkts /\ r = pkts'
  OBVIOUS
<1>4. q \in Seq(Packets) /\ Taking(q, r, p, id) /\ StreamOf(w, s, q)
  BY <1>1, <1>2, <1>3 DEF Typed, Threads, StreamBody
<1>5. HASH_ID(s.id) = j
  BY <1>1, <1>2 DEF OpenInv, SocketOK
<1>6. id # s.id
  BY <1>1, <1>5
<1>7. PICK a, n, m, x : a = All(w, s) /\ n = Ahead(w, s) + Len(s.low) /\ m = Ahead(w, s) /\ x = s.id
  OBVIOUS
<1>8. Stream(a, n, m, x, q)
  BY <1>4, <1>7 DEF StreamOf
<1>9. Stream(a, n, m, x, r)
  BY <1>4, <1>6, <1>7, <1>8, StreamOther
<1>10. StreamOf(w, s, r)
  BY <1>7, <1>9 DEF StreamOf
<1>11. QED
  BY <1>2, <1>3, <1>10

(* It is put into the slot, which is open, or is for none yet.             *)
LEMMA PutBody ==
  ASSUME Typed, OpenInv, StreamBody, NEW i \in Slots, slot[i].type \in Open, NEW id \in Id, slot[i].id = id,
         NEW p, Taking(pkts, pkts', p, id), NEW t, slot' = [slot EXCEPT ![i] = t],
         NEW u, wire' = [wire EXCEPT ![id] = u], Put(Nat, wire[id], slot[i], u, t, p, pkts[p].low)
  PROVE  StreamBody'
<1>1. HASH_ID(id) = i
  BY DEF OpenInv, SocketOK
<1>2. PICK s, q, r : s = slot[i] /\ q = pkts /\ r = pkts'
  OBVIOUS
<1>3. PICK w \in Seq(Nat) : w = wire[id]
  BY UnitTypes
<1>4. q \in Seq(Packets) /\ Taking(q, r, p, id) /\ StreamOf(w, s, q) /\ s.id = id
  BY <1>2, <1>3 DEF Typed, Threads, StreamBody
<1>5. s.high \in Seq(Nat) /\ s.low \in Seq(Nat) /\ p \in Nat
  <2>1. s.high \in Seq(Nat) /\ s.low \in Seq(Nat)
    BY <1>2, UnitTypes
  <2>2. p \in DOMAIN q
    BY <1>4 DEF Taking
  <2>3. p \in Nat
    BY <1>4, <2>2
  <2>4. QED
    BY <2>1, <2>3
<1>6. Put(Nat, w, s, u, t, p, q[p].low) /\ Taking(q, r, p, s.id)
  BY <1>2, <1>3, <1>4
<1>7. StreamOf(u, t, r)
  BY <1>4, <1>5, <1>6, PutKeepsStream
<1>8. t.id = id /\ t.type \in Open
  BY <1>2, <1>4, <1>6 DEF Put, SameSocket
<1>9. \A jd \in Id : wire'[jd] = IF jd = id THEN u ELSE wire[jd]
  BY DEF Typed, Table
<1>10. \A jd \in Id : HASH_ID(jd) # i => wire'[jd] = wire[jd]
  BY <1>1, <1>9
<1>11. ASSUME NEW jd \in Id, HASH_ID(jd) = i, wire'[jd] # <<>> PROVE t.type \in Open /\ t.id = jd
  <2>1. CASE jd = id
    BY <1>8, <2>1
  <2>2. CASE jd # id
    BY <1>9, <1>11, <2>2, NothingKept
  <2>3. QED
    BY <2>1, <2>2
<1>12. \A j \in Slots : j # i /\ slot[j].type \in Open => StreamOf(wire[slot[j].id], slot[j], pkts')
  BY <1>1, OtherBodies
<1>13. StreamOf(wire'[t.id], t, pkts')
  BY <1>2, <1>7, <1>8, <1>9
<1>14. QED
  BY <1>1, <1>8, <1>10, <1>11, <1>12, <1>13, StreamStep

LEMMA PutReserved ==
  ASSUME Typed, OpenInv, StreamBody, NEW i \in Slots, slot[i].type \notin Open, NEW id \in Id, HASH_ID(id) = i,
         NEW p, Taking(pkts, pkts', p, id), NEW t, slot' = [slot EXCEPT ![i] = t], t.type \notin Open,
         UNCHANGED wire
  PROVE  StreamBody'
<1>1. \A jd \in Id : HASH_ID(jd) = i => wire[jd] = <<>>
  BY NothingKept
<1>2. \A j \in Slots : j # i /\ slot[j].type \in Open => StreamOf(wire[slot[j].id], slot[j], pkts')
  BY OtherBodies
<1>3. QED
  BY <1>1, <1>2, StreamStep

(* A packet is sent.                                                       *)
LEMMA MoreBody ==
  ASSUME Typed, StreamBody, NEW e, ~e.taken, pkts' = Append(pkts, e), UNCHANGED <<slot, wire>>
  PROVE  StreamBody'
<1>1. ASSUME NEW j \in Slots, slot[j].type \in Open PROVE StreamOf(wire[slot[j].id], slot[j], pkts')
  <2>1. PICK s : s = slot[j]
    OBVIOUS
  <2>2. PICK w, q : w = wire[s.id] /\ q = pkts
    OBVIOUS
  <2>3. q \in Seq(Packets) /\ StreamOf(w, s, q)
    BY <1>1, <2>1, <2>2 DEF Typed, Threads, StreamBody
  <2>4. PICK a, n, m, x : a = All(w, s) /\ n = Ahead(w, s) + Len(s.low) /\ m = Ahead(w, s) /\ x = s.id
    OBVIOUS
  <2>5. Stream(a, n, m, x, q)
    BY <2>3, <2>4 DEF StreamOf
  <2>6. Stream(a, n, m, x, Append(q, e))
    BY <2>3, <2>5, StreamMore
  <2>7. StreamOf(w, s, Append(q, e))
    BY <2>4, <2>6 DEF StreamOf
  <2>8. QED
    BY <2>1, <2>2, <2>7
<1>2. QED
  BY <1>1 DEF StreamBody, Holds

(* The packets in the pipe.                                                *)
LEMMA SamePkts ==
  ASSUME PipePkts, UNCHANGED <<pipe, pkts>>, Known \subseteq Known'
  PROVE  PipePkts'
  BY DEF PipePkts, Waiting

LEMMA PoppedPkts ==
  ASSUME Typed, PipePkts, NEW c, Cmd(c), UNCHANGED pkts
  PROVE  PipePkts'
<1>1. pipe # <<>> /\ pipe' = Tail(pipe) /\ Known' = Known
  BY DEF Cmd, Known
<1>2. pipe \in Seq(Commands)
  BY DEF Typed, Threads
<1>3. /\ Len(pipe) \in Nat /\ Len(pipe) > 0 /\ DOMAIN pipe = 1..Len(pipe) /\ DOMAIN pipe' = 1..Len(pipe) - 1
      /\ \A n \in 1..Len(pipe) - 1 : pipe'[n] = pipe[n + 1]
  BY <1>1, <1>2
<1>4. \A n \in DOMAIN pipe' : n \in Nat /\ n + 1 \in DOMAIN pipe /\ pipe'[n] = pipe[n + 1]
  BY <1>3
<1>5. \A id : Waiting(id)' => Waiting(id)
  BY <1>4 DEF Waiting
<1>6. \A m, n \in DOMAIN pipe' : m < n => m + 1 < n + 1
  BY <1>4
<1>7. /\ \A n \in DOMAIN pipe' : Sends(pipe'[n]) =>
           /\ pkts[pipe'[n].x].id = pipe'[n].id /\ ~pkts[pipe'[n].x].taken
           /\ pkts[pipe'[n].x].low <=> pipe'[n].c = "P"
      /\ \A p \in DOMAIN pkts, n \in DOMAIN pipe' : pkts[p].taken /\ Sends(pipe'[n]) => p < pipe'[n].x
  BY <1>4 DEF PipePkts
<1>8. \A m, n \in DOMAIN pipe' : m < n /\ Sends(pipe'[m]) /\ Sends(pipe'[n]) => pipe'[m].x < pipe'[n].x
  BY <1>4, <1>6 DEF PipePkts
<1>9. QED
  BY <1>1, <1>5, <1>7, <1>8 DEF PipePkts

(* The packet at the head is the next one of them.                         *)
LEMMA HeadTaking ==
  ASSUME Typed, PipePkts, NEW c \in {"D", "P"}, Cmd(c), pkts' = [pkts EXCEPT ![pkt].taken = TRUE]
  PROVE  Taking(pkts, pkts', pkt, cid) /\ (pkts[pkt].low <=> c = "P") /\ pkts[pkt].low \in BOOLEAN
<1>1. CommandOK(Head(pipe), Len(pkts), Known) /\ Head(pipe).c = c
  BY CmdFacts
<1>2. pkt \in 1..Len(pkts) /\ pkts \in Seq(Packets)
  BY <1>1 DEF CommandOK, pkt, Typed, Threads
<1>3. pkt \in DOMAIN pkts /\ pkts[pkt] \in Packets
  BY <1>2
<1>4. pipe # <<>> /\ pipe \in Seq(Commands)
  BY DEF Cmd, Typed, Threads
<1>5. Head(pipe) = pipe[1] /\ 1 \in DOMAIN pipe
  BY <1>4
<1>6. Sends(pipe[1])
  BY <1>1, <1>5 DEF Sends
<1>7. /\ pkts[pkt].id = cid /\ ~pkts[pkt].taken /\ (pkts[pkt].low <=> c = "P")
      /\ \A x \in DOMAIN pkts : pkts[x].taken => x < pkt
  BY <1>1, <1>5, <1>6 DEF PipePkts, pkt, cid
<1>8. QED
  BY <1>3, <1>7 DEF Taking, Packets

LEMMA TakenPkts ==
  ASSUME Typed, PipePkts, NEW c \in {"D", "P"}, Cmd(c), ~Waiting(cid), pkts' = [pkts EXCEPT ![pkt].taken = TRUE]
  PROVE  PipePkts'
<1>1. pipe # <<>> /\ pipe' = Tail(pipe) /\ Known' = Known /\ Head(pipe).c = c
  BY DEF Cmd, Known
<1>2. pipe \in Seq(Commands) /\ pkts \in Seq(Packets)
  BY DEF Typed, Threads
<1>3. /\ Len(pipe) \in Nat /\ Len(pipe) > 0 /\ DOMAIN pipe = 1..Len(pipe) /\ DOMAIN pipe' = 1..Len(pipe) - 1
      /\ \A n \in 1..Len(pipe) - 1 : pipe'[n] = pipe[n + 1]
      /\ Head(pipe) = pipe[1] /\ 1 \in DOMAIN pipe
  BY <1>1, <1>2
<1>4. \A n \in DOMAIN pipe' : n \in Nat /\ n + 1 \in DOMAIN pipe /\ pipe'[n] = pipe[n + 1] /\ 1 < n + 1
  BY <1>3
<1>5. \A id : Waiting(id)' => Waiting(id)
  BY <1>4 DEF Waiting
<1>6. \A m, n \in DOMAIN pipe' : m < n => m + 1 < n + 1
  BY <1>4
<1>7. PICK p, r : p = pkt /\ r = pkts'
  OBVIOUS
<1>8. Taking(pkts, r, p, cid)
  BY <1>7, HeadTaking
<1>9. PICK q, x : q \in Seq(Packets) /\ q = pkts /\ x = cid
  BY <1>2
<1>10. Marked(q, r, p) /\ p \in DOMAIN q /\ q[p].id = x
  BY <1>8, <1>9, TakingMarks DEF Taking
<1>11. /\ DOMAIN r = DOMAIN q
       /\ \A y \in DOMAIN q : r[y].low = q[y].low /\ r[y].id = q[y].id
       /\ \A y \in DOMAIN q : y # p => r[y].taken = q[y].taken
  BY <1>10 DEF Marked
<1>12. \A n \in DOMAIN pipe' : Sends(pipe'[n]) => p < pipe'[n].x
  BY <1>1, <1>3, <1>4, <1>7 DEF PipePkts, Sends, pkt
<1>13. \A n \in DOMAIN pipe' : CommandOK(pipe'[n], Len(q), Known)
  BY <1>4, <1>9 DEF Typed, Threads
<1>14. \A n \in DOMAIN pipe' : Sends(pipe'[n]) => pipe'[n].x \in DOMAIN q /\ pipe'[n].x # p
  <2>1. SUFFICES ASSUME NEW n \in DOMAIN pipe', Sends(pipe'[n]) PROVE pipe'[n].x \in DOMAIN q /\ pipe'[n].x # p
    OBVIOUS
  <2>2. pipe'[n].x \in 1..Len(q)
    BY <1>13, <2>1 DEF CommandOK, Sends
  <2>3. p < pipe'[n].x
    BY <1>12, <2>1
  <2>4. PICK y : y = pipe'[n].x
    OBVIOUS
  <2>5. y \in DOMAIN q /\ p \in Nat /\ y \in Nat /\ p < y
    BY <1>9, <1>10, <2>2, <2>3, <2>4
  <2>6. QED
    BY <2>4, <2>5
<1>15. \A n \in DOMAIN pipe' : Sends(pipe'[n]) =>
         /\ r[pipe'[n].x].id = pipe'[n].id /\ ~r[pipe'[n].x].taken
         /\ r[pipe'[n].x].low <=> pipe'[n].c = "P"
  BY <1>4, <1>9, <1>11, <1>14 DEF PipePkts
<1>16. \A m, n \in DOMAIN pipe' : m < n /\ Sends(pipe'[m]) /\ Sends(pipe'[n]) => pipe'[m].x < pipe'[n].x
  BY <1>4, <1>6 DEF PipePkts
<1>17. \A y \in DOMAIN r, n \in DOMAIN pipe' : r[y].taken /\ Sends(pipe'[n]) => y < pipe'[n].x
  <2>1. SUFFICES ASSUME NEW y \in DOMAIN r, NEW n \in DOMAIN pipe', r[y].taken, Sends(pipe'[n])
                 PROVE  y < pipe'[n].x
    OBVIOUS
  <2>2. CASE y = p
    BY <1>12, <2>1, <2>2
  <2>3. CASE y # p
    BY <1>4, <1>9, <1>11, <2>1, <2>3 DEF PipePkts
  <2>4. QED
    BY <2>2, <2>3
<1>18. \A y \in DOMAIN r : r[y].id \in Known
  BY <1>9, <1>11 DEF PipePkts
<1>19. \A y \in DOMAIN r : r[y].taken => ~Waiting(r[y].id)'
  <2>1. SUFFICES ASSUME NEW y \in DOMAIN r, r[y].taken PROVE ~Waiting(r[y].id)
    BY <1>5
  <2>2. CASE y = p
    BY <1>9, <1>10, <1>11, <2>2
  <2>3. CASE y # p
    BY <1>9, <1>11, <2>1, <2>3 DEF PipePkts
  <2>4. QED
    BY <2>2, <2>3
<1>20. (\A y \in DOMAIN pkts : pkts[y].taken => ~Waiting(pkts[y].id))'
  BY <1>7, <1>19 DEF Waiting
<1>21. QED
  BY <1>1, <1>7, <1>15, <1>16, <1>17, <1>18, <1>20 DEF PipePkts

(* A command is appended: of no packet, or of the newest.                  *)
LEMMA AppendedPkts ==
  ASSUME Typed, PipePkts, NEW e, pipe' = Append(pipe, e), ~Sends(e), UNCHANGED pkts, Known \subseteq Known',
         e.c \in Opening => e.id \notin Known
  PROVE  PipePkts'
<1>1. pipe \in Seq(Commands)
  BY DEF Typed, Threads
<1>2. /\ Len(pipe) \in Nat /\ DOMAIN pipe = 1..Len(pipe) /\ DOMAIN pipe' = 1..Len(pipe) + 1
      /\ \A n \in 1..Len(pipe) : pipe'[n] = pipe[n]
      /\ pipe'[Len(pipe) + 1] = e
  BY <1>1
<1>3. \A n \in DOMAIN pipe' : (n \in DOMAIN pipe /\ pipe'[n] = pipe[n]) \/ pipe'[n] = e
  BY <1>2
<1>4. \A n \in DOMAIN pipe' : Sends(pipe'[n]) => n \in DOMAIN pipe /\ pipe'[n] = pipe[n]
  BY <1>3
<1>5. \A id \in Known : Waiting(id)' => Waiting(id)
  BY <1>3 DEF Waiting
<1>6. QED
  BY <1>4, <1>5 DEF PipePkts

LEMMA SentPkts ==
  ASSUME Typed, PipePkts, NEW id \in Known, NEW low \in BOOLEAN, how' = how,
         pkts' = Append(pkts, [id |-> id, low |-> low, taken |-> FALSE]),
         pipe' = Append(pipe, [c |-> IF low THEN "P" ELSE "D", id |-> id, x |-> Len(pkts) + 1])
  PROVE  PipePkts'
<1>1. pipe \in Seq(Commands) /\ pkts \in Seq(Packets) /\ Known' = Known
  BY DEF Typed, Threads, Known
<1>2. PICK e, f, k : /\ e = [c |-> IF low THEN "P" ELSE "D", id |-> id, x |-> Len(pkts) + 1]
                     /\ f = [id |-> id, low |-> low, taken |-> FALSE] /\ k = Len(pkts) + 1
  OBVIOUS
<1>3. /\ e.c \notin Opening /\ e.x = k /\ e.id = id /\ (e.c = "P" <=> low)
      /\ f.id = id /\ f.low = low /\ ~f.taken
  BY <1>2 DEF Opening
<1>4. /\ Len(pipe) \in Nat /\ DOMAIN pipe = 1..Len(pipe) /\ DOMAIN pipe' = 1..Len(pipe) + 1
      /\ \A n \in 1..Len(pipe) : pipe'[n] = pipe[n]
      /\ pipe'[Len(pipe) + 1] = e
  BY <1>1, <1>2
<1>5. /\ Len(pkts) \in Nat /\ DOMAIN pkts = 1..Len(pkts) /\ DOMAIN pkts' = 1..Len(pkts) + 1
      /\ \A n \in 1..Len(pkts) : pkts'[n] = pkts[n]
      /\ pkts'[Len(pkts) + 1] = f
  BY <1>1, <1>2
<1>6. \A n \in DOMAIN pipe' : (n \in DOMAIN pipe /\ pipe'[n] = pipe[n]) \/ (n = Len(pipe) + 1 /\ pipe'[n] = e)
  BY <1>4
<1>7. \A m, n \in DOMAIN pipe' : m < n => m \in DOMAIN pipe /\ pipe'[m] = pipe[m]
  BY <1>4
<1>8. /\ \A p \in DOMAIN pkts' : (p \in DOMAIN pkts /\ pkts'[p] = pkts[p]) \/ (p = k /\ pkts'[p] = f)
      /\ k \in DOMAIN pkts' /\ \A p \in DOMAIN pkts : p < k /\ pkts'[p] = pkts[p]
      /\ k \notin DOMAIN pkts /\ pkts'[k] = f
  BY <1>2, <1>5
<1>9. \A n \in DOMAIN pipe : Sends(pipe[n]) => pipe[n].x \in DOMAIN pkts
  BY <1>5 DEF Typed, Threads, CommandOK, Sends
<1>10. \A jd : Waiting(jd)' => Waiting(jd)
  BY <1>3, <1>6 DEF Waiting
<1>11. \A n \in DOMAIN pipe' : Sends(pipe'[n]) =>
         /\ pkts'[pipe'[n].x].id = pipe'[n].id /\ ~pkts'[pipe'[n].x].taken
         /\ pkts'[pipe'[n].x].low <=> pipe'[n].c = "P"
  <2>1. SUFFICES ASSUME NEW n \in DOMAIN pipe', Sends(pipe'[n])
                 PROVE  /\ pkts'[pipe'[n].x].id = pipe'[n].id /\ ~pkts'[pipe'[n].x].taken
                        /\ pkts'[pipe'[n].x].low <=> pipe'[n].c = "P"
    OBVIOUS
  <2>2. CASE n \in DOMAIN pipe /\ pipe'[n] = pipe[n]
    <3>1. pkts'[pipe[n].x] = pkts[pipe[n].x]
      BY <1>8, <1>9, <2>1, <2>2
    <3>2. QED
      BY <2>1, <2>2, <3>1 DEF PipePkts
  <2>3. CASE pipe'[n] = e
    BY <1>3, <1>8, <2>3
  <2>4. QED
    BY <1>6, <2>2, <2>3
<1>12. \A m, n \in DOMAIN pipe' : m < n /\ Sends(pipe'[m]) /\ Sends(pipe'[n]) => pipe'[m].x < pipe'[n].x
  <2>1. SUFFICES ASSUME NEW m \in DOMAIN pipe', NEW n \in DOMAIN pipe', m < n, Sends(pipe'[m]), Sends(pipe'[n])
                 PROVE  pipe'[m].x < pipe'[n].x
    OBVIOUS
  <2>2. m \in DOMAIN pipe /\ pipe'[m] = pipe[m]
    BY <1>7, <2>1
  <2>3. CASE n \in DOMAIN pipe /\ pipe'[n] = pipe[n]
    BY <2>1, <2>2, <2>3 DEF PipePkts
  <2>4. CASE pipe'[n] = e
    BY <1>3, <1>8, <1>9, <2>1, <2>2, <2>4
  <2>5. QED
    BY <1>6, <2>3, <2>4
<1>13. \A p \in DOMAIN pkts', n \in DOMAIN pipe' : pkts'[p].taken /\ Sends(pipe'[n]) => p < pipe'[n].x
  <2>1. SUFFICES ASSUME NEW p \in DOMAIN pkts', NEW n \in DOMAIN pipe', pkts'[p].taken, Sends(pipe'[n])
                 PROVE  p < pipe'[n].x
    OBVIOUS
  <2>2. p \in DOMAIN pkts /\ pkts[p].taken /\ p < k
    BY <1>3, <1>8, <2>1
  <2>3. CASE n \in DOMAIN pipe /\ pipe'[n] = pipe[n]
    BY <2>1, <2>2, <2>3 DEF PipePkts
  <2>4. CASE pipe'[n] = e
    BY <1>3, <2>2, <2>4
  <2>5. QED
    BY <1>6, <2>3, <2>4
<1>14. \A p \in DOMAIN pkts' : pkts'[p].id \in Known'
  BY <1>1, <1>3, <1>8 DEF PipePkts
<1>15. (\A p \in DOMAIN pkts : pkts[p].taken => ~Waiting(pkts[p].id))'
  <2>1. PICK r : r = pkts'
    OBVIOUS
  <2>2. \A p \in DOMAIN r : r[p].taken => ~Waiting(r[p].id)
    BY <1>3, <1>8, <2>1 DEF PipePkts
  <2>3. \A p \in DOMAIN r : r[p].taken => ~Waiting(r[p].id)'
    BY <1>10, <2>2
  <2>4. QED
    BY <2>1, <2>3 DEF Waiting
<1>16. QED
  BY <1>11, <1>12, <1>13, <1>14, <1>15 DEF PipePkts

(* The commands: one is taken from the pipe ...                            *)
LEMMA CmdFlows ==
  ASSUME Typed, PipePkts, NEW c, Cmd(c), UNCHANGED pkts, StreamBody'
  PROVE  Flows'
  BY PoppedPkts DEF Flows

LEMMA CmdAbortFlows ==
  ASSUME StreamBody, Abort, UNCHANGED pkts
  PROVE  Flows'
<1>1. UNCHANGED <<slot, wire, pkts>> /\ pc' = "abort"
  BY DEF Abort
<1>2. QED
  BY <1>1, SameBody DEF Flows

LEMMA CmdCloseFlows ==
  ASSUME Owned, Typed, StreamBody, PipePkts, NEW c, Cmd(c), slot[cs].type \in Open, force_close(cs), UNCHANGED pkts
  PROVE  Flows'
<1>1. PICK i \in Slots : i = cs
  BY CmdFacts
<1>2. force_close(i) /\ slot[i].type \in Open /\ OpenInv
  BY <1>1 DEF force_close, Invalid, Freed, Tell, Owned
<1>3. StreamBody'
  BY <1>2, CloseBody
<1>4. QED
  BY <1>3, CmdFlows

LEMMA CmdDeadFlows ==
  ASSUME Owned, Typed, StreamBody, PipePkts, NEW c \in Opening, Cmd(c), Clobber(cs), UNCHANGED <<wire, pkts>>
  PROVE  Flows'
<1>1. PICK i \in Slots : i = cs
  BY CmdFacts
<1>2. slot[i].type = "RESERVE" /\ OpenInv
  BY <1>1, TakesOpening DEF Owned
<1>3. PICK s : s = [slot[i] EXCEPT !.type = "INVALID"]
  OBVIOUS
<1>4. IsSocket(slot[i])
  BY DEF Owned, TableTypes
<1>5. s.type \notin Open /\ slot[i].type \notin Open
  BY <1>2, <1>3, <1>4 DEF Open, IsSocket
<1>6. slot' = [slot EXCEPT ![i] = s]
  BY <1>1, <1>3 DEF Clobber
<1>7. StreamBody'
  BY <1>2, <1>5, <1>6, DeadBody
<1>8. QED
  BY <1>7, CmdFlows

LEMMA CmdNewFlows ==
  ASSUME Owned, Typed, StreamBody, PipePkts, NEW c \in Opening, Cmd(c), NEW type, NEW proto, NEW wr,
         Opened(type, proto, wr), UNCHANGED <<wire, pkts>>
  PROVE  Flows'
<1>1. PICK i \in Slots, id \in Id : i = cs /\ id = cid
  BY CmdFacts
<1>2. slot[i].type = "RESERVE" /\ Waiting(id) /\ HASH_ID(id) = i /\ OpenInv
  BY <1>1, TakesOpening DEF Owned, cs
<1>3. \A p \in DOMAIN pkts : pkts[p].taken => pkts[p].id # id
  BY <1>2 DEF PipePkts
<1>4. slot' = [slot EXCEPT ![i] = NewFd(type, id, proto, wr)] /\ slot[i].type \notin Open
  BY <1>1, <1>2 DEF Opened, Open
<1>5. StreamBody'
  BY <1>2, <1>3, <1>4, NewBody
<1>6. QED
  BY <1>5, CmdFlows

LEMMA CmdSameFlows ==
  ASSUME Typed, StreamBody, PipePkts, NEW c, Cmd(c), UNCHANGED <<slot, wire, pkts>>
  PROVE  Flows'
  BY SameBody, CmdFlows

LEMMA OpenFlows ==
  ASSUME Owned, Typed, StreamBody, PipePkts, open_socket
  PROVE  Flows'
<1>1. Cmd("O") /\ "O" \in Opening /\ UNCHANGED <<pkts, wire>>
  BY DEF open_socket, Opening
<1>2. CASE Clobber(cs)
  BY <1>1, <1>2, CmdDeadFlows
<1>3. CASE Opened("CONNECTED", "tcp", FALSE)
  BY <1>1, <1>3, CmdNewFlows
<1>4. CASE Opened("CONNECTING", "tcp", TRUE)
  BY <1>1, <1>4, CmdNewFlows
<1>5. CASE Abort
  BY <1>1, <1>5, CmdAbortFlows
<1>6. QED
  BY <1>2, <1>3, <1>4, <1>5 DEF open_socket, SpAddFails

LEMMA UdpFlows ==
  ASSUME Owned, Typed, StreamBody, PipePkts, add_udp_socket
  PROVE  Flows'
<1>1. Cmd("U") /\ "U" \in Opening /\ UNCHANGED <<pkts, wire>>
  BY DEF add_udp_socket, Opening
<1>2. CASE Clobber(cs)
  BY <1>1, <1>2, CmdDeadFlows
<1>3. CASE Opened("CONNECTED", "udp", FALSE)
  BY <1>1, <1>3, CmdNewFlows
<1>4. CASE Abort
  BY <1>1, <1>4, CmdAbortFlows
<1>5. QED
  BY <1>2, <1>3, <1>4 DEF add_udp_socket, SpAddFails

LEMMA ListenFlows ==
  ASSUME Owned, Typed, StreamBody, PipePkts, listen_socket
  PROVE  Flows'
<1>1. Cmd("L") /\ "L" \in Opening /\ UNCHANGED <<pkts, wire>>
  BY DEF listen_socket, Opening
<1>2. CASE Opened("PLISTEN", "tcp", FALSE)
  BY <1>1, <1>2, CmdNewFlows
<1>3. CASE Abort
  BY <1>1, <1>3, CmdAbortFlows
<1>4. QED
  BY <1>2, <1>3 DEF listen_socket

LEMMA BindFlows ==
  ASSUME Owned, Typed, StreamBody, PipePkts, bind_socket
  PROVE  Flows'
<1>1. Cmd("B") /\ "B" \in Opening /\ UNCHANGED <<pkts, wire>>
  BY DEF bind_socket, Opening
<1>2. CASE Clobber(cs)
  BY <1>1, <1>2, CmdDeadFlows
<1>3. CASE Opened("BIND", "tcp", FALSE)
  BY <1>1, <1>3, CmdNewFlows
<1>4. CASE Abort
  BY <1>1, <1>4, CmdAbortFlows
<1>5. QED
  BY <1>2, <1>3, <1>4 DEF bind_socket, SpAddFails

(* A failed open gives back a slot that nobody has reserved since.         *)
LEMMA FailedFlows ==
  ASSUME Owned, Typed, StreamBody, PipePkts, OpenFailed, ~Reclaims
  PROVE  Flows'
<1>1. /\ pc = "fail" /\ pc' \in {"poll", "clear"} /\ Clobber(HASH_ID(arg))
      /\ UNCHANGED <<pipe, how, pkts, wire>>
  BY DEF OpenFailed, Ended, Goes
<1>2. slot[HASH_ID(arg)].type = "INVALID"
  BY <1>1 DEF Reclaims
<1>3. arg \in Known /\ Known \subseteq Id /\ Known' = Known
  BY <1>1 DEF Typed, Threads, Known
<1>4. PICK i \in Slots : i = HASH_ID(arg)
  BY <1>3, HashType DEF Id
<1>5. PICK s : s = [slot[i] EXCEPT !.type = "INVALID"]
  OBVIOUS
<1>6. IsSocket(slot[i]) /\ OpenInv
  BY DEF Owned, TableTypes
<1>7. s.type \notin Open /\ slot[i].type \notin Open
  BY <1>2, <1>4, <1>5, <1>6 DEF Open, IsSocket
<1>8. slot' = [slot EXCEPT ![i] = s]
  BY <1>1, <1>4, <1>5 DEF Clobber
<1>9. StreamBody'
  BY <1>1, <1>6, <1>7, <1>8, DeadBody
<1>10. PipePkts'
  BY <1>1, <1>3, SamePkts
<1>11. QED
  BY <1>9, <1>10 DEF Flows

LEMMA StartFlows ==
  ASSUME Owned, Typed, StreamBody, PipePkts, start_socket
  PROVE  Flows'
<1>1. Cmd("S") /\ UNCHANGED pkts
  BY DEF start_socket
<1>2. CASE UNCHANGED <<slot, wire>>
  BY <1>1, <1>2, CmdSameFlows
<1>3. CASE slot[cs].type \in {"PACCEPT", "PLISTEN"} /\ force_close(cs)
  BY <1>1, <1>3, CmdCloseFlows DEF Open
<1>4. CASE /\ slot[cs].type \in {"PACCEPT", "PLISTEN"} /\ UNCHANGED wire
           /\ slot' = [slot EXCEPT ![cs].type = IF slot[cs].type = "PACCEPT" THEN "CONNECTED" ELSE "LISTEN"]
  <2>1. PICK i \in Slots : i = cs
    BY <1>1, CmdFacts
  <2>2. PICK t : t = IF slot[i].type = "PACCEPT" THEN "CONNECTED" ELSE "LISTEN"
    OBVIOUS
  <2>3. PICK s : s = [slot[i] EXCEPT !.type = t]
    OBVIOUS
  <2>4. IsSocket(slot[i]) /\ OpenInv
    BY DEF Owned, TableTypes
  <2>5. s.type = t /\ s.id = slot[i].id /\ s.high = slot[i].high /\ s.low = slot[i].low
    BY <2>3, <2>4 DEF IsSocket
  <2>6. s.type \in Open /\ slot[i].type \in Open
    BY <1>4, <2>1, <2>2, <2>5 DEF Open
  <2>7. slot' = [slot EXCEPT ![i] = s]
    BY <1>4, <2>1, <2>2, <2>3
  <2>8. StreamBody'
    BY <1>1, <1>4, <2>4, <2>5, <2>6, <2>7, KeepBody
  <2>9. QED
    BY <1>1, <2>8, CmdFlows
<1>5. QED
  BY <1>2, <1>3, <1>4 DEF start_socket

LEMMA CloseFlows ==
  ASSUME Owned, Typed, StreamBody, PipePkts, close_socket
  PROVE  Flows'
<1>1. Cmd("K") /\ UNCHANGED pkts
  BY DEF close_socket
<1>2. CASE UNCHANGED <<slot, wire>>
  BY <1>1, <1>2, CmdSameFlows
<1>3. CASE Abort
  BY <1>1, <1>3, CmdAbortFlows
<1>4. PICK i \in Slots : i = cs
  BY <1>1, CmdFacts
<1>5. ~Stale /\ slot[cs].type # "RESERVE" => slot[cs].type \in Open /\ slot[i].id = cid
  BY <1>4 DEF Owned, TableTypes, Types, Stale
<1>6. CASE ~Stale /\ slot[cs].type # "RESERVE" /\ force_close(cs)
  BY <1>1, <1>5, <1>6, CmdCloseFlows
<1>7. ASSUME ~Stale, slot[cs].type # "RESERVE", NEW o \in send_buffer(slot[cs]),
             o.end = "open", CloseOrWait(o.s, o.units)
      PROVE  Flows'
  <2>1. CASE Head(pipe).x = 1 \/ Empty(o.s)
    BY <1>6, <1>7, <2>1 DEF CloseOrWait
  <2>2. CASE ~(Head(pipe).x = 1 \/ Empty(o.s))
    <3>1. PICK s : s = [o.s EXCEPT !.type = "HALFCLOSE"]
      OBVIOUS
    <3>2. slot' = [slot EXCEPT ![i] = s] /\ Wrote(slot[i].id, o.units)
      BY <1>4, <1>5, <1>7, <2>2, <3>1 DEF CloseOrWait, Wrote
    <3>3. IsSocket(o.s)
      BY <1>4, <1>7, SendBufferOK
    <3>4. s.type = "HALFCLOSE" /\ s.id = o.s.id /\ s.high = o.s.high /\ s.low = o.s.low
      BY <3>1, <3>3 DEF IsSocket
    <3>5. s.type \in Open /\ slot[i].type \in Open /\ o \in send_buffer(slot[i]) /\ OpenInv
      BY <1>4, <1>5, <1>7, <3>4 DEF Open, Owned
    <3>6. StreamBody'
      BY <1>1, <1>7, <3>2, <3>4, <3>5, SentBody
    <3>7. QED
      BY <1>1, <3>6, CmdFlows
  <2>3. QED
    BY <2>1, <2>2
<1>8. CASE /\ ~Stale /\ slot[cs].type # "RESERVE" /\ ~Empty(slot[cs])
           /\ \E o \in send_buffer(slot[cs]) :
                CASE o.end = "abort"  -> Abort
                  [] o.end = "closed" -> force_close(cs) /\ Ended(cid)
                  [] o.end = "open"   -> CloseOrWait(o.s, o.units)
  <2>1. PICK o \in send_buffer(slot[cs]) :
          CASE o.end = "abort"  -> Abort
            [] o.end = "closed" -> force_close(cs) /\ Ended(cid)
            [] o.end = "open"   -> CloseOrWait(o.s, o.units)
    BY <1>8
  <2>2. o.end \in {"abort", "closed", "open"}
    BY <1>4, SendBufferOK
  <2>3. CASE o.end = "abort"
    BY <1>3, <2>1, <2>3
  <2>4. CASE o.end = "closed"
    BY <1>6, <1>8, <2>1, <2>4
  <2>5. CASE o.end = "open"
    BY <1>7, <1>8, <2>1, <2>5
  <2>6. QED
    BY <2>2, <2>3, <2>4, <2>5
<1>9. QED
  BY <1>2, <1>3, <1>6, <1>8 DEF close_socket

(* A packet that is buffered whole.                                        *)
LEMMA DropNone ==
  ASSUME NEW p \in Nat
  PROVE  /\ Drop(Units(p), 0) = Units(p) /\ Drop(Units(p), Size) = <<>>
         /\ \A w \in Seq(Nat) : w \o SubSeq(Units(p), 1, 0) = w
<1>1. PICK e \in Seq(Nat) : e = Units(p) /\ Len(e) = Size
  BY UnitsType
<1>2. Size \in Nat
  BY SizeType
<1>3. Drop(e, 0) = e
  <2>1. PICK x, y \in Seq(Nat) : Parts(e, 0, x, y)
    BY <1>1, <1>2, CutParts
  <2>2. x \o y = e /\ Len(x) = 0 /\ y = Drop(e, 0)
    BY <2>1 DEF Parts
  <2>3. x = <<>>
    BY <2>2, EmptySeq
  <2>4. <<>> \o y = y
    BY ConcatEmptySeq
  <2>5. QED
    BY <2>2, <2>3, <2>4
<1>4. Drop(e, Size) = <<>>
  <2>1. PICK x, y \in Seq(Nat) : Parts(e, Size, x, y)
    BY <1>1, <1>2, CutParts
  <2>2. y = Drop(e, Size) /\ Len(y) = Len(e) - Size
    BY <2>1 DEF Parts
  <2>3. Len(y) = 0
    BY <1>1, <1>2, <2>2
  <2>4. QED
    BY <2>2, <2>3, EmptySeq
<1>5. SubSeq(e, 1, 0) = <<>>
  <2>1. PICK x, y \in Seq(Nat) : Parts(e, 0, x, y)
    BY <1>1, <1>2, CutParts
  <2>2. x = SubSeq(e, 1, 0) /\ Len(x) = 0
    BY <2>1 DEF Parts
  <2>3. QED
    BY <2>2, EmptySeq
<1>6. \A w \in Seq(Nat) : w \o <<>> = w
  BY ConcatEmptySeq
<1>7. QED
  BY <1>1, <1>3, <1>4, <1>5, <1>6

(* The fields that are written when a packet is appended to the low list,  *)
(* or to the high one.                                                     *)
LEMMA BufferedLow ==
  ASSUME NEW s, IsSocket(s), NEW k, NEW low \in BOOLEAN, NEW p, p = pkt, NEW t,
         t = Buffered(s, k, low) \/ t = Armed(Buffered(s, k, low)), low, ~(s.proto = "tcp" /\ Direct(s))
  PROVE  SameSocket(t, s) /\ t.high = s.high /\ t.low = s.low \o Drop(Units(p), k)
<1>1. PICK b, u : b = s.wb + Size - k /\ u = Drop(Units(pkt), k)
  OBVIOUS
<1>2. PICK r : r = Buffered(s, k, low)
  OBVIOUS
<1>3. PICK v : v = [r EXCEPT !.wr = TRUE]
  OBVIOUS
<1>4. t = r \/ t = v
  BY <1>2, <1>3 DEF Armed
<1>5. r = [s EXCEPT !.low = s.low \o u, !.wb = b]
  BY <1>1, <1>2 DEF Buffered
<1>6. /\ IsSocket(r) /\ r.type = s.type /\ r.id = s.id /\ r.proto = s.proto
      /\ r.high = s.high /\ r.low = s.low \o u
  BY <1>5 DEF IsSocket
<1>7. /\ IsSocket(t) /\ t.type = r.type /\ t.id = r.id /\ t.proto = r.proto
      /\ t.high = r.high /\ t.low = r.low
  BY <1>3, <1>4, <1>6 DEF IsSocket
<1>8. u = Drop(Units(p), k)
  BY <1>1
<1>9. QED
  BY <1>6, <1>7, <1>8 DEF SameSocket

LEMMA BufferedHigh ==
  ASSUME NEW s, IsSocket(s), NEW k, NEW low \in BOOLEAN, NEW p, p = pkt, NEW t,
         t = Buffered(s, k, low) \/ t = Armed(Buffered(s, k, low)), ~(low /\ ~(s.proto = "tcp" /\ Direct(s)))
  PROVE  SameSocket(t, s) /\ t.high = s.high \o Drop(Units(p), k) /\ t.low = s.low
<1>1. PICK b, u : b = s.wb + Size - k /\ u = Drop(Units(pkt), k)
  OBVIOUS
<1>2. PICK r : r = Buffered(s, k, low)
  OBVIOUS
<1>3. PICK v : v = [r EXCEPT !.wr = TRUE]
  OBVIOUS
<1>4. t = r \/ t = v
  BY <1>2, <1>3 DEF Armed
<1>5. r = [s EXCEPT !.high = s.high \o u, !.wb = b]
  BY <1>1, <1>2 DEF Buffered
<1>6. /\ IsSocket(r) /\ r.type = s.type /\ r.id = s.id /\ r.proto = s.proto
      /\ r.high = s.high \o u /\ r.low = s.low
  BY <1>5 DEF IsSocket
<1>7. /\ IsSocket(t) /\ t.type = r.type /\ t.id = r.id /\ t.proto = r.proto
      /\ t.high = r.high /\ t.low = r.low
  BY <1>3, <1>4, <1>6 DEF IsSocket
<1>8. u = Drop(Units(p), k)
  BY <1>1
<1>9. QED
  BY <1>6, <1>7, <1>8 DEF SameSocket

LEMMA WholeOrNone ==
  ASSUME NEW k \in 0..Size, k % Size = 0, k # Size
  PROVE  k = 0
<1>1. Size \in Nat /\ Size > 0 /\ k \in Nat /\ k < Size
  BY SizeType
<1>2. k = Size * (k \div Size) + (k % Size) /\ k \div Size \in Int
  BY <1>1
<1>3. PICK d \in Int : k = Size * d
  <2>1. PICK d, r : d \in Int /\ d = k \div Size /\ r = k % Size
    BY <1>2
  <2>2. k = Size * d + r
    BY <1>1, <1>2, <2>1
  <2>3. r = 0
    BY <2>1, Zenon
  <2>4. k = Size * d /\ d \in Int
    BY <1>1, <2>1, <2>2, <2>3
  <2>5. QED
    BY <2>4
<1>4. d >= 1 => Size * d >= Size
  BY <1>1
<1>5. d <= 0 => Size * d <= 0
  BY <1>1
<1>6. QED
  BY <1>1, <1>3, <1>4, <1>5

LEMMA SendFlows ==
  ASSUME Owned, Typed, StreamBody, PipePkts, NEW c \in {"D", "P"}, send_socket(c)
  PROVE  Flows'
<1>1. Cmd(c) /\ c \in {"D", "P", "S", "K"} /\ OpenInv
  BY DEF send_socket, Owned
<1>2. CASE UNCHANGED <<slot, pkts, wire>>
  BY <1>1, <1>2, CmdSameFlows
<1>3. PICK i \in Slots, id \in Id : i = cs /\ id = cid /\ HASH_ID(id) = i
  BY <1>1, CmdFacts DEF cs
<1>4. CASE Direct(slot[cs]) /\ force_close(cs) /\ UNCHANGED pkts
  BY <1>1, <1>4, CmdCloseFlows DEF Direct, Open
<1>5. PICK low \in BOOLEAN : low = (c = "P")
  OBVIOUS
<1>6. PICK s, p : s = slot[i] /\ p = pkt
  OBVIOUS
<1>7. PICK w \in Seq(Nat) : w = wire[id]
  BY UnitTypes
<1>8. IsSocket(s) /\ s.high \in Seq(Nat) /\ s.low \in Seq(Nat)
  BY <1>6, UnitTypes
<1>9. ASSUME pkts' = [pkts EXCEPT ![pkt].taken = TRUE], Goes, StreamBody'
      PROVE  Flows'
  <2>1. ~Waiting(cid)
    BY <1>1, <1>9, TakesOther DEF Goes
  <2>2. QED
    BY <1>1, <1>9, <2>1, TakenPkts DEF Flows
<1>10. ASSUME pkts' = [pkts EXCEPT ![pkt].taken = TRUE]
       PROVE  Taking(pkts, pkts', p, id) /\ pkts[p].low = low /\ p \in Nat
  <2>1. Taking(pkts, pkts', pkt, cid) /\ (pkts[pkt].low <=> c = "P") /\ pkts[pkt].low \in BOOLEAN
    BY <1>1, <1>10, HeadTaking
  <2>2. pkt \in DOMAIN pkts /\ pkts \in Seq(Packets)
    BY <2>1 DEF Taking, Typed, Threads
  <2>3. pkt \in Nat
    BY <2>2
  <2>4. QED
    BY <1>3, <1>5, <1>6, <2>1, <2>3
<1>11. ASSUME ~Stale, Direct(slot[cs]), NEW k \in Written(slot[cs], Units(pkt)),
              wire' = [wire EXCEPT ![cid] = @ \o SubSeq(Units(pkt), 1, k)],
              slot' = [slot EXCEPT ![cs] = IF k = Size THEN slot[cs] ELSE Armed(Buffered(slot[cs], k, low))],
              pkts' = [pkts EXCEPT ![pkt].taken = TRUE], Goes
       PROVE  Flows'
  <2>1. Taking(pkts, pkts', p, id) /\ pkts[p].low = low /\ p \in Nat
    BY <1>10, <1>11
  <2>2. s.id = id /\ s.type \in Open /\ Direct(s) /\ Empty(s) /\ s.type = "CONNECTED"
    BY <1>3, <1>6, <1>11 DEF Stale, Direct, Open
  <2>3. k \in 0..Size /\ (s.proto = "udp" => k % Size = 0)
    <3>1. Len(Units(p)) = Size
      BY <2>1, UnitsType
    <3>2. QED
      BY <1>3, <1>6, <1>11, <3>1 DEF Written
  <2>4. PICK u : u = w \o SubSeq(Units(p), 1, k)
    OBVIOUS
  <2>5. wire' = [wire EXCEPT ![id] = u]
    BY <1>3, <1>6, <1>7, <1>11, <2>4
  <2>6. PICK t : t = IF k = Size THEN s ELSE Armed(Buffered(s, k, low))
    OBVIOUS
  <2>7. slot' = [slot EXCEPT ![i] = t]
    BY <1>3, <1>6, <1>11, <2>6
  <2>8. Put(Nat, w, s, u, t, p, low)
    <3>1. CASE k = Size
      <4>1. t = s /\ s.high = <<>> /\ s.low = <<>>
        BY <2>2, <2>6, <3>1 DEF Empty
      <4>2. t.high = Drop(Units(p), k) /\ t.low = <<>> /\ SameSocket(t, s)
        BY <1>8, <2>1, <3>1, <4>1, DropNone DEF SameSocket
      <4>3. QED
        BY <2>1, <2>2, <2>3, <2>4, <4>2, PutDirect
    <3>2. CASE k # Size /\ low /\ ~(s.proto = "tcp" /\ Direct(s))
      <4>1. SameSocket(t, s) /\ t.high = s.high /\ t.low = s.low \o Drop(Units(p), k)
        <5>1. t = Armed(Buffered(s, k, low)) /\ p = pkt
          BY <1>6, <2>6, <3>2
        <5>2. QED
          BY <1>8, <3>2, <5>1, BufferedLow, ZenonT(60)
      <4>2. s.proto = "udp"
        <5>1. SlotOK(s, Len(pkts), Known)
          BY <1>6 DEF Typed, Table
        <5>2. QED
          BY <2>2, <3>2, <5>1 DEF SlotOK
      <4>3. k = 0
        BY <2>3, <3>2, <4>2, WholeOrNone
      <4>4. t.low = s.low \o Units(p) /\ u = w
        BY <2>1, <2>4, <4>1, <4>3, DropNone
      <4>5. Put(Nat, w, s, w, t, p, TRUE)
        BY <1>8, <2>1, <4>1, <4>4, PutLow
      <4>6. QED
        BY <3>2, <4>4, <4>5
    <3>3. CASE k # Size /\ ~(low /\ ~(s.proto = "tcp" /\ Direct(s)))
      <4>1. SameSocket(t, s) /\ t.high = s.high \o Drop(Units(p), k) /\ t.low = s.low
        <5>1. t = Armed(Buffered(s, k, low)) /\ p = pkt
          BY <1>6, <2>6, <3>3
        <5>2. QED
          BY <1>8, <3>3, <5>1, BufferedHigh
      <4>2. s.high = <<>> /\ s.low = <<>>
        BY <2>2 DEF Empty
      <4>3. <<>> \o Drop(Units(p), k) = Drop(Units(p), k)
        <5>1. PICK e \in Seq(Nat) : e = Units(p) /\ Len(e) = Size
          BY <2>1, UnitsType
        <5>2. Drop(e, k) \in Seq(Nat)
          BY <2>3, <5>1, CutJoin
        <5>3. PICK y \in Seq(Nat) : y = Drop(e, k)
          BY <5>2
        <5>4. <<>> \o y = y
          BY ConcatEmptySeq
        <5>5. QED
          BY <5>1, <5>3, <5>4
      <4>4. t.high = Drop(Units(p), k) /\ t.low = <<>>
        BY <4>1, <4>2, <4>3
      <4>5. QED
        BY <2>1, <2>2, <2>3, <2>4, <4>1, <4>4, PutDirect
    <3>4. QED
      BY <3>1, <3>2, <3>3
  <2>9. Put(Nat, wire[id], slot[i], u, t, p, pkts[p].low) /\ slot[i].type \in Open /\ slot[i].id = id
    BY <1>6, <1>7, <2>1, <2>2, <2>8
  <2>10. StreamBody'
    BY <1>1, <2>1, <2>5, <2>7, <2>9, PutBody
  <2>11. QED
    BY <1>9, <1>11, <2>10
<1>12. ASSUME ~Stale, slot[cs].type \in {"CONNECTING", "CONNECTED", "BIND", "RESERVE"}, ~Direct(slot[cs]),
              slot' = [slot EXCEPT ![cs] = Buffered(slot[cs], 0, low)],
              pkts' = [pkts EXCEPT ![pkt].taken = TRUE], Goes, UNCHANGED wire
       PROVE  Flows'
  <2>1. Taking(pkts, pkts', p, id) /\ pkts[p].low = low /\ p \in Nat
    BY <1>10, <1>12
  <2>2. s.id = id /\ ~Direct(s)
    BY <1>3, <1>6, <1>12 DEF Stale
  <2>3. PICK t : t = Buffered(s, 0, low)
    OBVIOUS
  <2>4. slot' = [slot EXCEPT ![i] = t]
    BY <1>3, <1>6, <1>12, <2>3
  <2>5. Drop(Units(p), 0) = Units(p)
    BY <2>1, DropNone
  <2>6. Put(Nat, w, s, w, t, p, low) /\ SameSocket(t, s)
    <3>1. CASE low
      <4>1. SameSocket(t, s) /\ t.high = s.high /\ t.low = s.low \o Units(p)
        <5>1. ~(s.proto = "tcp" /\ Direct(s)) /\ p = pkt
          BY <1>6, <2>2
        <5>2. SameSocket(t, s) /\ t.high = s.high /\ t.low = s.low \o Drop(Units(p), 0)
          BY <1>8, <2>3, <3>1, <5>1, BufferedLow, ZenonT(60)
        <5>3. QED
          BY <2>5, <5>2
      <4>2. Put(Nat, w, s, w, t, p, TRUE)
        BY <1>8, <2>1, <4>1, PutLow
      <4>3. QED
        BY <3>1, <4>1, <4>2
    <3>2. CASE ~low
      <4>1. SameSocket(t, s) /\ t.high = s.high \o Units(p) /\ t.low = s.low
        <5>1. ~(low /\ ~(s.proto = "tcp" /\ Direct(s))) /\ p = pkt
          BY <1>6, <3>2
        <5>2. SameSocket(t, s) /\ t.high = s.high \o Drop(Units(p), 0) /\ t.low = s.low
          BY <1>8, <2>3, <5>1, BufferedHigh, SMTT(30)
        <5>3. QED
          BY <2>5, <5>2
      <4>2. Put(Nat, w, s, w, t, p, FALSE)
        BY <1>8, <2>1, <4>1, PutHigh
      <4>3. QED
        BY <1>5, <3>2, <4>1, <4>2
    <3>3. QED
      BY <3>1, <3>2
  <2>7. StreamBody'
    <3>1. CASE s.type = "RESERVE"
      <4>1. slot[i].type \notin Open /\ t.type \notin Open
        BY <1>6, <2>6, <3>1 DEF SameSocket, Open
      <4>2. QED
        BY <1>1, <1>3, <1>12, <2>1, <2>4, <4>1, PutReserved
    <3>2. CASE s.type # "RESERVE"
      <4>1. slot[i].type \in Open /\ slot[i].id = id
        BY <1>3, <1>6, <1>12, <2>2, <3>2 DEF Open
      <4>2. Put(Nat, wire[id], slot[i], w, t, p, pkts[p].low)
        BY <1>6, <1>7, <2>1, <2>6
      <4>3. wire' = [wire EXCEPT ![id] = w]
        BY <1>7, <1>12 DEF Typed, Table
      <4>4. QED
        BY <1>1, <2>1, <2>4, <4>1, <4>2, <4>3, PutBody
    <3>3. QED
      BY <3>1, <3>2
  <2>8. QED
    BY <1>9, <1>12, <2>7
<1>13. QED
  BY <1>2, <1>4, <1>5, <1>11, <1>12 DEF send_socket

(* ... and an event of a slot is handled.                                  *)
LEMMA EventFlows ==
  ASSUME PipePkts, NEW types, At(types), UNCHANGED pkts, Known \subseteq Known', StreamBody'
  PROVE  Flows'
<1>1. UNCHANGED pipe
  BY DEF At
<1>2. QED
  BY <1>1, SamePkts DEF Flows

LEMMA EventCloseFlows ==
  ASSUME Owned, Typed, StreamBody, PipePkts, NEW types, At(types), slot[es].type \in Open, force_close(es),
         UNCHANGED <<pkts, how>>
  PROVE  Flows'
<1>1. PICK i \in Slots : i = es
  BY EventFacts
<1>2. force_close(i) /\ slot[i].type \in Open /\ OpenInv /\ Known' = Known
  BY <1>1 DEF force_close, Invalid, Freed, Tell, Owned, Known
<1>3. StreamBody'
  BY <1>2, CloseBody
<1>4. QED
  BY <1>2, <1>3, EventFlows

LEMMA EventSameFlows ==
  ASSUME StreamBody, PipePkts, NEW types, At(types), UNCHANGED <<slot, wire, pkts, how>>
  PROVE  Flows'
<1>1. Known \subseteq Known'
  BY DEF Known
<1>2. QED
  BY <1>1, SameBody, EventFlows

LEMMA ConnectFlows ==
  ASSUME Owned, Typed, StreamBody, PipePkts, report_connect
  PROVE  Flows'
<1>1. At({"CONNECTING"}) /\ UNCHANGED <<how, pkts>>
  BY DEF report_connect
<1>2. es \in Slots /\ slot[es].type = "CONNECTING"
  BY <1>1, EventFacts
<1>3. CASE force_close(es)
  BY <1>1, <1>2, <1>3, EventCloseFlows DEF Open
<1>4. CASE /\ slot' = [slot EXCEPT ![es].type = "CONNECTED", ![es].wr = ~Empty(slot[es])]
           /\ UNCHANGED wire
  <2>1. PICK i \in Slots : i = es
    BY <1>2
  <2>2. IsSocket(slot[i]) /\ OpenInv /\ slot = [j \in Slots |-> slot[j]]
    BY DEF Owned, TableTypes
  <2>3. PICK b \in BOOLEAN : b = ~Empty(slot[i])
    OBVIOUS
  <2>4. PICK s : s = [[slot[i] EXCEPT !.type = "CONNECTED"] EXCEPT !.wr = b]
    OBVIOUS
  <2>5. slot' = [slot EXCEPT ![i] = s]
    BY <1>4, <2>1, <2>2, <2>3, <2>4
  <2>6. s.type = "CONNECTED" /\ s.id = slot[i].id /\ s.high = slot[i].high /\ s.low = slot[i].low
    BY <2>2, <2>4 DEF IsSocket
  <2>7. s.type \in Open /\ slot[i].type \in Open /\ Known \subseteq Known'
    BY <1>1, <1>2, <2>1, <2>6 DEF Open, Known
  <2>8. StreamBody'
    BY <1>1, <1>4, <2>2, <2>5, <2>6, <2>7, KeepBody
  <2>9. QED
    BY <1>1, <2>7, <2>8, EventFlows
<1>5. QED
  BY <1>3, <1>4 DEF report_connect

LEMMA AcceptFlows ==
  ASSUME Owned, Typed, StreamBody, PipePkts, report_accept
  PROVE  Flows'
<1>1. At({"LISTEN"}) /\ UNCHANGED pkts
  BY DEF report_accept
<1>2. CASE UNCHANGED <<slot, how, wire>>
  BY <1>1, <1>2, EventSameFlows
<1>3. CASE Abort
  BY <1>1, <1>3, CmdAbortFlows
<1>4. CASE /\ Tried # {} /\ Min(Tried) <= MaxId
           /\ slot' = [slot EXCEPT ![HASH_ID(Min(Tried))] = NewFd("PACCEPT", Min(Tried), "tcp", FALSE)]
           /\ how' = [j \in Known \cup {Min(Tried)} |-> IF j = Min(Tried) THEN "accepted" ELSE how[j]]
           /\ UNCHANGED wire
  <2>1. PICK x \in Id : x = Min(Tried) /\ x > alloc /\ slot[HASH_ID(x)].type = "INVALID"
    <3>1. /\ Min(Tried) \in Nat /\ Min(Tried) > alloc /\ alloc \in Nat
          /\ slot[HASH_ID(Min(Tried))].type = "INVALID"
      BY <1>4, TriedLeast DEF Owned, TableTypes
    <3>2. MaxId \in Nat
      BY SocketServerAssumption
    <3>3. PICK m \in Nat : m = Min(Tried)
      BY <3>1
    <3>4. m \in Id
      BY <1>4, <3>1, <3>2, <3>3 DEF Id
    <3>5. QED
      BY <3>1, <3>3, <3>4
  <2>2. x \notin Known
    <3>1. \A id \in Known : id <= alloc
      BY DEF Owned, ReqInv
    <3>2. alloc \in Nat /\ x \in Nat
      BY DEF Owned, TableTypes, Id
    <3>3. QED
      BY <2>1, <3>1, <3>2
  <2>3. PICK i \in Slots : i = HASH_ID(x)
    BY HashType DEF Id
  <2>4. \A p \in DOMAIN pkts : pkts[p].taken => pkts[p].id # x
    BY <2>2 DEF PipePkts
  <2>5. slot[i].type \notin Open /\ OpenInv
    BY <2>1, <2>3 DEF Open, Owned
  <2>6. StreamBody'
    <3>1. HASH_ID(x) = i /\ UNCHANGED <<wire, pkts>>
      BY <1>1, <1>4, <2>3
    <3>2. PICK type, proto, wr : type = "PACCEPT" /\ proto = "tcp" /\ wr = FALSE
      OBVIOUS
    <3>3. slot' = [slot EXCEPT ![i] = NewFd(type, x, proto, wr)]
      BY <1>4, <2>1, <2>3, <3>2
    <3>4. QED
      BY <2>4, <2>5, <3>1, <3>3, NewBody
  <2>7. Known \subseteq Known'
    BY <1>4 DEF Known
  <2>8. QED
    BY <1>1, <2>6, <2>7, EventFlows
<1>5. QED
  BY <1>2, <1>3, <1>4 DEF report_accept

LEMMA InvalidFlows ==
  ASSUME StreamBody, PipePkts, EventOfInvalid
  PROVE  Flows'
<1>1. At({"INVALID"}) /\ UNCHANGED <<slot, wire, pkts, how>>
  BY DEF EventOfInvalid
<1>2. QED
  BY <1>1, EventSameFlows

LEMMA ForwardFlows ==
  ASSUME Owned, Typed, StreamBody, PipePkts, forward_message
  PROVE  Flows'
<1>1. PICK types : types = (Open \cup {"RESERVE"}) \ {"CONNECTING", "LISTEN"}
  OBVIOUS
<1>2. At(types) /\ UNCHANGED <<how, pkts>>
  BY <1>1 DEF forward_message
<1>3. slot[es].type \in types
  BY <1>2, EventFacts
<1>4. CASE UNCHANGED <<slot, wire>>
  BY <1>2, <1>4, EventSameFlows
<1>5. CASE slot[es].type # "RESERVE" /\ force_close(es)
  BY <1>1, <1>2, <1>3, <1>5, EventCloseFlows
<1>6. CASE Abort
  BY <1>2, <1>6, CmdAbortFlows
<1>7. QED
  BY <1>4, <1>5, <1>6 DEF forward_message

(* Nothing is written of a slot that is empty.                             *)
LEMMA EmptyWrites ==
  ASSUME NEW s, IsSocket(s), Empty(s), s.wb \in Nat, NEW o \in send_buffer(s), o.end = "open"
  PROVE  o.units = <<>> /\ o.s.type = s.type
<1>1. PICK k, j : SentTo(s, o, k, j)
  BY SendBufferCuts
<1>2. s.high = <<>> /\ s.low = <<>> /\ Len(<<>>) = 0
  BY DEF Empty
<1>3. k \in 0..0 /\ j \in 0..0 /\ o.units = SentUnits(s, k, j)
  BY <1>1, <1>2 DEF SentTo
<1>4. k = 0 /\ j = 0
  BY <1>3
<1>5. SubSeq(<<>>, 1, 0) = <<>> /\ <<>> \o <<>> = <<>>
  <2>1. PICK e \in Seq(Nat) : e = <<>> /\ Len(e) = 0
    <3>1. <<>> \in Seq(Nat) /\ Len(<<>>) = 0
      BY EmptySeq
    <3>2. QED
      BY <3>1
  <2>2. PICK x, y \in Seq(Nat) : Parts(e, 0, x, y)
    <3>1. PICK m : m = Len(e)
      OBVIOUS
    <3>2. 0 \in 0..m
      BY <2>1, <3>1
    <3>3. 0 \in 0..Len(e)
      BY <3>1, <3>2
    <3>4. QED
      BY <3>3, CutParts
  <2>3. x = SubSeq(e, 1, 0) /\ Len(x) = 0
    BY <2>2 DEF Parts
  <2>4. x = <<>>
    BY <2>3, EmptySeq
  <2>5. e \o <<>> = e
    BY ConcatEmptySeq
  <2>6. QED
    BY <2>1, <2>3, <2>4, <2>5
<1>6. o.units = <<>>
  BY <1>2, <1>3, <1>4, <1>5 DEF SentUnits
<1>7. QED
  BY <1>6, SendBufferKeeps

LEMMA FlushFlows ==
  ASSUME Owned, Typed, StreamBody, PipePkts, Flush
  PROVE  Flows'
<1>1. PICK types : types = (Open \cup {"RESERVE"}) \ {"CONNECTING", "LISTEN"}
  OBVIOUS
<1>2. At(types) /\ UNCHANGED <<how, pkts>> /\ Known \subseteq Known' /\ OpenInv
  BY <1>1 DEF Flush, Known, Owned
<1>3. PICK i \in Slots : i = es /\ slot[i].type \in types
  BY <1>2, EventFacts
<1>4. CASE Abort
  BY <1>2, <1>4, CmdAbortFlows
<1>5. PICK s : s = slot[i]
  OBVIOUS
<1>6. IsSocket(s) /\ s.wb \in Nat
  BY <1>5, UnitTypes
<1>7. ASSUME ~(slot[es].type = "RESERVE" /\ ~Empty(slot[es])), NEW o \in send_buffer(slot[es]),
             o.end = "closed", force_close(es)
      PROVE  Flows'
  <2>1. o \in send_buffer(s) /\ ~(s.type = "RESERVE" /\ ~Empty(s))
    BY <1>3, <1>5, <1>7
  <2>2. s.type # "RESERVE"
    BY <1>7, <2>1, EmptyNotClosed
  <2>3. slot[es].type \in Open
    BY <1>1, <1>3, <1>5, <2>2
  <2>4. QED
    BY <1>2, <1>7, <2>3, EventCloseFlows
<1>8. ASSUME ~(slot[es].type = "RESERVE" /\ ~Empty(slot[es])), NEW o \in send_buffer(slot[es]), o.end = "open",
             slot' = [slot EXCEPT ![es] = o.s], Wrote(slot[es].id, o.units)
      PROVE  Flows'
  <2>1. PICK t : t = o.s
    OBVIOUS
  <2>2. slot' = [slot EXCEPT ![i] = t] /\ Wrote(slot[i].id, o.units) /\ o \in send_buffer(slot[i])
    BY <1>3, <1>8, <2>1
  <2>3. t.type = s.type
    BY <1>5, <1>6, <1>8, <2>1, <2>2, SendBufferKeeps
  <2>4. CASE s.type \in Open
    <3>1. slot[i].type \in Open /\ t.type \in Open /\ t.id = o.s.id /\ t.high = o.s.high /\ t.low = o.s.low
      BY <1>5, <2>1, <2>3, <2>4
    <3>2. StreamBody'
      BY <1>2, <1>8, <2>2, <3>1, SentBody
    <3>3. QED
      BY <1>2, <3>2, EventFlows
  <2>5. CASE s.type \notin Open
    <3>1. s.type = "RESERVE" /\ Empty(s)
      BY <1>1, <1>3, <1>5, <1>8, <2>5
    <3>2. o.units = <<>>
      BY <1>5, <1>6, <1>8, <2>2, <3>1, EmptyWrites
    <3>3. UNCHANGED wire
      <4>1. wire = [id \in Id |-> wire[id]] /\ \A id \in Id : wire[id] \in Seq(Nat)
        BY UnitTypes DEF Typed, Table
      <4>2. \A id \in Id : wire[id] \o <<>> = wire[id]
        BY <4>1, ConcatEmptySeq
      <4>3. wire' = [wire EXCEPT ![slot[i].id] = @ \o <<>>]
        BY <2>2, <3>2 DEF Wrote
      <4>4. QED
        BY <4>1, <4>2, <4>3
    <3>4. slot[i].type \notin Open /\ t.type \notin Open
      BY <1>5, <2>3, <2>5
    <3>5. StreamBody'
      BY <1>2, <2>2, <3>3, <3>4, DeadBody
    <3>6. QED
      BY <1>2, <3>5, EventFlows
  <2>6. QED
    BY <2>4, <2>5
<1>9. CASE /\ ~(slot[es].type = "RESERVE" /\ ~Empty(slot[es]))
           /\ \E o \in send_buffer(slot[es]) :
                CASE o.end = "abort"  -> Abort
                  [] o.end = "closed" -> force_close(es) /\ Handled /\ Goes
                  [] o.end = "open"   -> /\ slot' = [slot EXCEPT ![es] = o.s]
                                         /\ Wrote(slot[es].id, o.units)
                                         /\ Handled /\ Goes /\ UNCHANGED <<fds, told>>
  <2>1. PICK o \in send_buffer(slot[es]) :
          CASE o.end = "abort"  -> Abort
            [] o.end = "closed" -> force_close(es) /\ Handled /\ Goes
            [] o.end = "open"   -> /\ slot' = [slot EXCEPT ![es] = o.s]
                                   /\ Wrote(slot[es].id, o.units)
                                   /\ Handled /\ Goes /\ UNCHANGED <<fds, told>>
    BY <1>9
  <2>2. o.end \in {"abort", "closed", "open"}
    BY <1>3, SendBufferOK
  <2>3. CASE o.end = "abort"
    BY <1>4, <2>1, <2>3
  <2>4. CASE o.end = "closed"
    BY <1>7, <1>9, <2>1, <2>4
  <2>5. CASE o.end = "open"
    BY <1>8, <1>9, <2>1, <2>5
  <2>6. QED
    BY <2>2, <2>3, <2>4, <2>5
<1>10. QED
  BY <1>4, <1>9 DEF Flush

(* A thread takes no packet and writes nothing: workers ...                *)
LEMMA ReserveFlows ==
  ASSUME Owned, Typed, StreamBody, PipePkts, NEW w \in Worker, NEW kind \in Opening, reserve_id(w, kind)
  PROVE  Flows'
<1>1. /\ Tried # {} /\ slot' = [slot EXCEPT ![HASH_ID(Min(Tried))].type = "RESERVE"]
      /\ UNCHANGED <<pipe, pkts, wire, how>>
  BY DEF reserve_id
<1>2. /\ Min(Tried) \in Nat /\ slot[HASH_ID(Min(Tried))].type = "INVALID"
  BY <1>1, TriedLeast DEF Owned, TableTypes
<1>3. PICK i \in Slots : i = HASH_ID(Min(Tried))
  BY <1>2, HashType
<1>4. PICK s : s = [slot[i] EXCEPT !.type = "RESERVE"]
  OBVIOUS
<1>5. slot' = [slot EXCEPT ![i] = s]
  BY <1>1, <1>3, <1>4
<1>6. IsSocket(slot[i]) /\ OpenInv
  BY DEF Owned, TableTypes
<1>7. s.type = "RESERVE"
  BY <1>4, <1>6 DEF IsSocket
<1>8. slot[i].type \notin Open /\ s.type \notin Open
  BY <1>2, <1>3, <1>7 DEF Open
<1>9. StreamBody'
  BY <1>1, <1>5, <1>6, <1>8, DeadBody
<1>10. Known \subseteq Known'
  BY <1>1 DEF Known
<1>11. PipePkts'
  BY <1>1, <1>10, SamePkts
<1>12. QED
  BY <1>9, <1>11 DEF Flows

LEMMA RequestFlows ==
  ASSUME Owned, Typed, StreamBody, PipePkts, NEW w \in Worker, Requested(w)
  PROVE  Flows'
<1>1. TableTypes /\ ReqInv /\ ClaimInv /\ OpenInv
  BY DEF Owned
<1>2. req[w] # <<>> /\ req[w] \in Opening \X Id
  BY <1>1 DEF Requested, ReqInv
<1>3. PICK x \in Id : x = req[w][2]
  BY <1>2
<1>4. PICK k \in Opening : k = req[w][1]
  BY <1>2
<1>5. PICK i \in Slots : i = HASH_ID(x)
  BY HashType DEF Id
<1>6. PICK e \in Commands : e = [c |-> k, id |-> x, x |-> 0]
  BY DEF Commands
<1>7. PICK s : s = [slot[i] EXCEPT !.id = x]
  OBVIOUS
<1>8. /\ slot' = [slot EXCEPT ![i] = s] /\ pipe' = Append(pipe, e)
      /\ how' = [j \in Known \cup {x} |-> IF j = x THEN k ELSE how[j]]
      /\ UNCHANGED <<pkts, wire>>
  BY <1>3, <1>4, <1>5, <1>6, <1>7 DEF Requested
<1>9. Reserved(x) /\ x \notin Known /\ slot[i].type = "RESERVE"
  BY <1>1, <1>2, <1>3, <1>5 DEF ReqInv, ClaimInv, Reserved
<1>10. IsSocket(slot[i])
  BY <1>1 DEF TableTypes
<1>11. s.type = "RESERVE"
  BY <1>7, <1>9, <1>10 DEF IsSocket
<1>12. slot[i].type \notin Open /\ s.type \notin Open
  BY <1>9, <1>11 DEF Open
<1>13. StreamBody'
  BY <1>1, <1>8, <1>12, DeadBody
<1>14. Known \subseteq Known'
  BY <1>8 DEF Known
<1>15. e.c \in Opening /\ e.id = x /\ ~Sends(e)
  BY <1>6 DEF Sends, Opening
<1>16. PipePkts'
  BY <1>8, <1>9, <1>14, <1>15, AppendedPkts
<1>17. QED
  BY <1>13, <1>16 DEF Flows

LEMMA SendRequestFlows ==
  ASSUME Typed, StreamBody, PipePkts, NEW c \in {"S", "K"}, NEW id, NEW x, SendRequest(c, id, x), UNCHANGED pkts
  PROVE  Flows'
<1>1. PICK e : e = [c |-> c, id |-> id, x |-> x]
  OBVIOUS
<1>2. pipe' = Append(pipe, e) /\ UNCHANGED <<slot, wire, pkts>> /\ Known \subseteq Known'
  BY <1>1 DEF SendRequest, Known
<1>3. e.c \notin Opening /\ ~Sends(e)
  BY <1>1 DEF Opening, Sends
<1>4. PipePkts'
  BY <1>2, <1>3, AppendedPkts
<1>5. QED
  BY <1>2, <1>4, SameBody DEF Flows

LEMMA SentFlows ==
  ASSUME Typed, StreamBody, PipePkts, NEW id \in Known, NEW low \in BOOLEAN, socket_server_send(id, low)
  PROVE  Flows'
<1>1. /\ pkts' = Append(pkts, [id |-> id, low |-> low, taken |-> FALSE])
      /\ pipe' = Append(pipe, [c |-> IF low THEN "P" ELSE "D", id |-> id, x |-> Len(pkts) + 1])
      /\ UNCHANGED <<slot, how, wire>>
  BY DEF socket_server_send, SendRequest
<1>2. PipePkts'
  BY <1>1, SentPkts
<1>3. PICK e : e = [id |-> id, low |-> low, taken |-> FALSE]
  OBVIOUS
<1>4. ~e.taken
  BY <1>3
<1>5. pkts' = Append(pkts, e) /\ UNCHANGED <<slot, wire>>
  BY <1>1, <1>3
<1>6. StreamBody'
  BY <1>4, <1>5, MoreBody
<1>7. QED
  BY <1>2, <1>6 DEF Flows

LEMMA WorkersFlow ==
  ASSUME Owned, Typed, StreamBody, PipePkts, Workers
  PROVE  Flows'
<1>1. CASE \E w \in Worker, kind \in {"O", "L", "B", "U"} : reserve_id(w, kind)
  BY <1>1, ReserveFlows DEF Opening
<1>2. CASE \E w \in Worker : Requested(w)
  BY <1>2, RequestFlows
<1>3. CASE \E id \in Known, low \in BOOLEAN : socket_server_send(id, low)
  BY <1>3, SentFlows
<1>4. CASE \E id \in Known : socket_server_start(id)
  <2>1. PICK id \in Known, c \in {"S", "K"}, x \in {0, 1} : c = "S" /\ x = 0 /\ socket_server_start(id)
    BY <1>4
  <2>2. SendRequest(c, id, x) /\ UNCHANGED pkts
    BY <2>1 DEF socket_server_start
  <2>3. QED
    BY <2>2, SendRequestFlows
<1>5. CASE \E id \in Known, shutdown \in {0, 1} : socket_server_close(id, shutdown)
  <2>1. PICK id \in Known, c \in {"S", "K"}, x \in {0, 1} : c = "K" /\ socket_server_close(id, x)
    BY <1>5
  <2>2. SendRequest(c, id, x) /\ UNCHANGED pkts
    BY <2>1 DEF socket_server_close
  <2>3. QED
    BY <2>2, SendRequestFlows
<1>6. QED
  BY <1>1, <1>2, <1>3, <1>4, <1>5 DEF Workers

(* ... and the socket thread, which waits or forgets an event.             *)
LEMMA WaitFlows ==
  ASSUME StreamBody, PipePkts, sp_wait \/ clear_closed_event
  PROVE  Flows'
<1>1. UNCHANGED <<slot, wire, pkts, pipe, how>>
  BY DEF sp_wait, clear_closed_event
<1>2. Known \subseteq Known'
  BY <1>1 DEF Known
<1>3. QED
  BY <1>1, <1>2, SameBody, SamePkts DEF Flows

LEMMA SocketThreadFlows ==
  ASSUME Owned, Typed, StreamBody, PipePkts, SocketThread, ~Reclaims
  PROVE  Flows'
<1>1. CASE send_socket("D") \/ send_socket("P")
  BY <1>1, SendFlows
<1>2. CASE OpenFailed
  BY <1>2, FailedFlows
<1>3. CASE open_socket \/ add_udp_socket \/ listen_socket \/ bind_socket \/ close_socket \/ start_socket
  BY <1>3, OpenFlows, UdpFlows, ListenFlows, BindFlows, CloseFlows, StartFlows
<1>4. CASE clear_closed_event \/ sp_wait \/ report_connect \/ EventOfInvalid
  BY <1>4, WaitFlows, ConnectFlows, InvalidFlows
<1>5. CASE report_accept \/ forward_message \/ Flush
  BY <1>5, AcceptFlows, ForwardFlows, FlushFlows
<1>6. QED
  BY <1>1, <1>2, <1>3, <1>4, <1>5 DEF SocketThread

LEMMA InitFlows == Init => StreamInv
<1> SUFFICES ASSUME Init PROVE StreamInv
  OBVIOUS
<1>1. PICK s : s = NewFd("INVALID", 0, "tcp", FALSE)
  OBVIOUS
<1>2. s.type \notin Open
  BY <1>1 DEF NewFd, Open
<1>3. slot = [i \in Slots |-> s]
  BY <1>1 DEF Init
<1>4. \A i \in Slots : slot[i].type \notin Open
  BY <1>2, <1>3
<1>5. \A id \in Id : wire[id] = <<>>
  BY DEF Init
<1>6. StreamBody
  BY <1>4, <1>5 DEF StreamBody
<1>7. DOMAIN pipe = {} /\ DOMAIN pkts = {}
  BY DEF Init
<1>8. PipePkts
  BY <1>7 DEF PipePkts
<1>9. QED
  BY <1>6, <1>8 DEF StreamInv, Flows

LEMMA NextFlows == SocketInv /\ Typed /\ StreamInv /\ [Next]_vars => StreamInv'
<1> SUFFICES ASSUME SocketInv, Typed, StreamInv, [Next]_vars PROVE StreamInv'
  OBVIOUS
<1>1. CASE UNCHANGED vars
  <2>1. UNCHANGED <<slot, pipe, pc, how, pkts, wire, lost>>
    BY <1>1 DEF vars
  <2>2. Known \subseteq Known'
    BY <2>1 DEF Known
  <2>3. StreamBody => StreamBody'
    BY <2>1, SameBody
  <2>4. PipePkts => PipePkts'
    BY <2>1, <2>2, SamePkts
  <2>5. QED
    BY <2>1, <2>3, <2>4 DEF StreamInv, Flows
<1>2. CASE Next
  <2>1. CASE lost'
    BY <2>1 DEF StreamInv
  <2>2. CASE ~lost'
    <3>1. (Workers \/ SocketThread) /\ ThreadStep /\ ~lost /\ ~Reclaims
      BY <1>2, <2>2, ThreadsMove DEF Next
    <3>2. pc # "abort"
      BY <3>1 DEF Workers, SocketThread, open_socket, OpenFailed, add_udp_socket, listen_socket,
                  bind_socket, start_socket, close_socket, send_socket, clear_closed_event, sp_wait,
                  report_connect, report_accept, EventOfInvalid, forward_message, Flush, Cmd, At,
                  NoCommand
    <3>3. Owned /\ StreamBody /\ PipePkts
      BY <3>1, <3>2 DEF SocketInv, StreamInv, Flows
    <3>4. QED
      BY <3>1, <3>3, WorkersFlow, SocketThreadFlows DEF StreamInv
  <2>3. QED
    BY <2>1, <2>2
<1>3. QED
  BY <1>1, <1>2

(* Until a failed open takes a slot that is another id's, the units of     *)
(* every open socket, written and buffered, are the packets that           *)
(* send_socket took for it, each whole and in one piece, those of one      *)
(* priority in the order in which the pipe brought them: direct writes,    *)
(* the two lists, send_list's partial writes and raise_uncomplete keep     *)
(* that.                                                                   *)
THEOREM StreamsFlow == Spec => []StreamInv
  BY InitFlows, NextFlows, SocketInvariant, TypedAlways, PTL DEF Spec

(* StreamIsWhole, of the units i and j of w.                               *)
WholeAt(w, q, i, j) ==
  /\ w[i] = w[j] => \A k \in i..j : w[k] = w[i]
  /\ w[i] # w[j] => Cardinality({k \in DOMAIN w : w[k] = w[i]}) = Size
  /\ q[w[i]].low = q[w[j]].low => w[i] <= w[j]

(* The units that are written are the first ones of the stream.            *)
LEMMA WrittenWhole ==
  ASSUME NEW a, NEW w \in Seq(Nat), NEW n \in Nat, NEW m, NEW id, NEW q, Stream(a, n, m, id, q),
         Len(w) <= n, \A k \in 1..Len(w) : a[k] = w[k],
         NEW i \in 1..Len(w), NEW j \in 1..Len(w), i < j
  PROVE  WholeAt(w, q, i, j)
<1>1. PICK l \in Nat : l = Len(w)
  OBVIOUS
<1>2. l <= n /\ i \in 1..l /\ j \in 1..l /\ \A k \in 1..l : a[k] = w[k]
  BY <1>1
<1>3. \A k \in 1..l : k \in 1..n
  BY <1>2
<1>4. PICK p : p = w[i]
  OBVIOUS
<1>5. a[i] = p /\ a[j] = w[j] /\ i \in 1..n /\ j \in 1..n
  BY <1>2, <1>3, <1>4
<1>6. Block(a, n, p)
  <2>1. a[i] \in DOMAIN q /\ q[a[i]].taken /\ q[a[i]].id = id
    BY <1>5 DEF Stream
  <2>2. p \in DOMAIN q /\ q[p].taken /\ q[p].id = id
    BY <1>5, <2>1
  <2>3. QED
    BY <2>2 DEF Stream
<1>7. PICK b \in Nat : BlockAt(a, n, p, b)
  BY <1>6 DEF Block
<1>8. \A k \in 1..l : w[k] = p <=> b < k /\ k <= b + Size
  BY <1>2, <1>3, <1>7 DEF BlockAt
<1>9. Size \in Nat
  BY SizeType
<1>10. b < i /\ i <= b + Size
  BY <1>2, <1>4, <1>8
<1>11. ASSUME w[i] = w[j], NEW k \in i..j PROVE w[k] = w[i]
  <2>1. j <= b + Size
    BY <1>2, <1>4, <1>8, <1>11
  <2>2. k \in 1..l /\ b < k /\ k <= b + Size
    BY <1>2, <1>9, <1>10, <1>11, <2>1
  <2>3. QED
    BY <1>4, <1>8, <2>2
<1>12. ASSUME w[i] # w[j] PROVE Cardinality({k \in DOMAIN w : w[k] = w[i]}) = Size
  <2>1. ~(b < j /\ j <= b + Size)
    BY <1>2, <1>4, <1>8, <1>12
  <2>2. b + Size <= l
    BY <1>2, <1>9, <1>10, <2>1
  <2>3. BlockAt(w, l, p, b)
    BY <1>8, <2>2 DEF BlockAt
  <2>4. Block(w, Len(w), p)
    BY <1>1, <2>3 DEF Block
  <2>5. Cardinality({k \in DOMAIN w : w[k] = p}) = Size
    BY <2>4, BlockCount
  <2>6. QED
    BY <1>4, <2>5
<1>13. q[w[i]].low = q[w[j]].low => w[i] <= w[j]
  <2>1. q[a[i]].low = q[a[j]].low => a[i] <= a[j]
    BY <1>5 DEF Stream
  <2>2. QED
    BY <1>4, <1>5, <2>1
<1>14. QED
  BY <1>11, <1>12, <1>13 DEF WholeAt

(* What the kernel accepted of a socket is a sequence of packets: none is  *)
(* cut by another one, all but the last are whole, and the packets of one  *)
(* priority come in the order in which the services sent them, whatever    *)
(* partial and direct writes the socket thread made (send_socket,          *)
(* send_buffer, raise_uncomplete).                                         *)
THEOREM StreamsAreWhole == Spec => []StreamIsWhole
<1>1. ASSUME Typed, StreamInv PROVE StreamIsWhole
  <2>1. SUFFICES ASSUME ~lost, NEW id \in Id, NEW i \in DOMAIN wire[id], NEW j \in DOMAIN wire[id], i < j
                 PROVE  WholeAt(wire[id], pkts, i, j)
    BY DEF StreamIsWhole, WholeAt
  <2>2. StreamBody
    BY <1>1, <2>1 DEF StreamInv, Flows
  <2>3. PICK w \in Seq(Nat) : w = wire[id]
    BY <1>1, UnitTypes
  <2>4. i \in 1..Len(w) /\ j \in 1..Len(w) /\ i < j
    BY <2>1, <2>3
  <2>5. w # <<>>
    BY <2>4
  <2>6. Holds(id)
    BY <2>2, <2>3, <2>5 DEF StreamBody
  <2>7. PICK h \in Slots : h = HASH_ID(id)
    BY HashType DEF Id
  <2>8. PICK s, q : s = slot[h] /\ q = pkts
    OBVIOUS
  <2>9. StreamOf(w, s, q) /\ s.id = id
    BY <2>2, <2>3, <2>6, <2>7, <2>8 DEF StreamBody, Holds
  <2>10. s.high \in Seq(Nat) /\ s.low \in Seq(Nat)
    BY <1>1, <2>8, UnitTypes
  <2>11. Laid(Nat, w, s)
    BY <2>10, AllUnits
  <2>12. PICK a, n, m : a = All(w, s) /\ n = Ahead(w, s) + Len(s.low) /\ m = Ahead(w, s)
    OBVIOUS
  <2>13. Stream(a, n, m, id, q)
    BY <2>9, <2>12 DEF StreamOf
  <2>14. n \in Nat /\ Len(w) <= n
    <3>1. PICK x, y, z \in Nat : x = Len(w) /\ y = Len(s.high) /\ z = Len(s.low)
      BY <2>10
    <3>2. n = x + y + z
      BY <2>12, <3>1 DEF Ahead
    <3>3. n \in Nat /\ x <= n
      BY <3>2
    <3>4. QED
      BY <3>1, <3>3
  <2>15. \A k \in 1..Len(w) : a[k] = w[k]
    BY <2>11, <2>12 DEF Laid
  <2>16. WholeAt(w, q, i, j)
    BY <2>4, <2>13, <2>14, <2>15, WrittenWhole
  <2>17. QED
    BY <2>3, <2>8, <2>16
<1>2. QED
  BY <1>1, TypedAlways, StreamsFlow, PTL

(* The ERROR of an accept is told under an id that a service knows.        *)
WarnTyped == warned \subseteq Known

LEMMA WarnedTyped == Typed /\ WarnTyped /\ [Next]_vars => WarnTyped'
<1>1. SUFFICES ASSUME Typed, WarnTyped, [Next]_vars PROVE WarnTyped'
  OBVIOUS
<1>2. CASE UNCHANGED vars
  BY <1>1, <1>2 DEF WarnTyped, Known, vars
<1>3. CASE Next
  <2>1. Known \subseteq Known'
    BY <1>3, ThreadsMove, HowGrows DEF Next
  <2>2. CASE AcceptFails
    <3>1. warned' = warned \cup {slot[es].id} /\ At({"LISTEN"})
      BY <2>2 DEF AcceptFails
    <3>2. es \in Slots /\ slot[es].type \in {"LISTEN"}
      BY <1>1, <3>1, EventFacts
    <3>3. SlotOK(slot[es], Len(pkts), Known) /\ slot[es].type \in Open
      BY <1>1, <3>2 DEF Typed, Table, Open
    <3>4. slot[es].id \in Known
      BY <3>3 DEF SlotOK
    <3>5. QED
      BY <1>1, <2>1, <3>1, <3>4 DEF WarnTyped
  <2>3. CASE UNCHANGED warned
    BY <1>1, <2>1, <2>3 DEF WarnTyped
  <2>4. QED
    BY <1>3, <2>2, <2>3 DEF Next, ThreadStep
<1>4. QED
  BY <1>1, <1>2, <1>3

LEMMA TypedTypeOK == ASSUME Typed, WarnTyped PROVE TypeOK
<1>1. PICK n \in Nat : n = Len(pkts) /\ DOMAIN pkts = 1..n
  BY DEF Typed, Threads
<1>2. Known \subseteq Id /\ MaxId \in Nat
  BY SocketServerAssumption DEF Typed, Threads
<1>3. ASSUME NEW i \in Slots
      PROVE  /\ slot[i].type \in Types /\ slot[i].id \in 0..MaxId
             /\ slot[i].proto \in {"tcp", "udp"} /\ slot[i].wr \in BOOLEAN
             /\ Range(slot[i].high) \cup Range(slot[i].low) \subseteq DOMAIN pkts
             /\ slot[i].wb \in Nat
  <2>1. PICK s : s = slot[i]
    OBVIOUS
  <2>2. SlotOK(s, n, Known)
    BY <1>1, <2>1 DEF Typed, Table
  <2>3. s.type \in Types /\ s.proto \in {"tcp", "udp"} /\ s.wr \in BOOLEAN
    BY <2>2 DEF SlotOK
  <2>4. s.id \in 0..MaxId
    <3>1. s.id \in {0} \cup Known
      BY <2>2 DEF SlotOK
    <3>2. s.id = 0 \/ s.id \in Id
      BY <1>2, <3>1
    <3>3. QED
      BY <1>2, <3>2 DEF Id
  <2>5. \A l \in Seq(1..n) : Range(l) \subseteq 1..n
    BY DEF Range
  <2>6. Range(s.high) \subseteq 1..n /\ Range(s.low) \subseteq 1..n
    BY <2>2, <2>5 DEF SlotOK
  <2>7. s.wb \in Nat
    BY <2>1, UnitTypes
  <2>8. QED
    BY <1>1, <2>1, <2>3, <2>4, <2>6, <2>7
<1>4. ASSUME NEW i \in DOMAIN ev PROVE ev[i].s \in Slots
  <2>1. ev \in Seq(Events)
    BY DEF Typed, Threads
  <2>2. ev[i] \in Events
    BY <1>4, <2>1
  <2>3. QED
    BY <2>2 DEF Events
<1>5. alloc \in 0..MaxId /\ fds \subseteq Id /\ told \subseteq Known
      /\ pc \in {"poll", "event", "clear", "fail", "abort"}
  BY DEF Typed, Table, Threads
<1>6. QED
  BY <1>2, <1>3, <1>4, <1>5 DEF TypeOK, WarnTyped

(* wb_size, which the senders are given to throttle themselves, counts the *)
(* units that are buffered, in every run; and until a failed open takes a  *)
(* slot that is another id's, every unit of a packet that send_socket took *)
(* for an open socket is written or buffered, once (append_sendbuffer,     *)
(* send_list, raise_uncomplete).                                           *)
THEOREM NothingIsLost == Spec => []NothingLost
<1>1. ASSUME Typed, WarnTyped, StreamInv PROVE NothingLost
  <2>1. ASSUME NEW i \in Slots, slot[i].type \in Open
        PROVE  slot[i].wb = Len(slot[i].high) + Len(slot[i].low)
    BY <1>1, <2>1, UnitTypes
  <2>2. ASSUME NEW i \in Slots, slot[i].type \in Open, ~lost, NEW p \in DOMAIN pkts,
               pkts[p].taken, pkts[p].id = slot[i].id
        PROVE  Cardinality({k \in DOMAIN All(wire[slot[i].id], slot[i]) :
                              All(wire[slot[i].id], slot[i])[k] = p}) = Size
    <3>1. StreamBody
      BY <1>1, <2>2 DEF StreamInv, Flows
    <3>2. PICK s, q : s = slot[i] /\ q = pkts
      OBVIOUS
    <3>3. s.id \in Id
      <4>1. SlotOK(s, Len(pkts), Known) /\ Known \subseteq Id
        BY <1>1, <3>2 DEF Typed, Table, Threads
      <4>2. s.type \in Open
        BY <2>2, <3>2
      <4>3. QED
        BY <4>1, <4>2 DEF SlotOK
    <3>4. PICK w \in Seq(Nat) : w = wire[s.id]
      BY <1>1, <3>3, UnitTypes
    <3>5. StreamOf(w, s, q)
      BY <2>2, <3>1, <3>2, <3>4 DEF StreamBody
    <3>6. s.high \in Seq(Nat) /\ s.low \in Seq(Nat)
      BY <1>1, <3>2, UnitTypes
    <3>7. Laid(Nat, w, s)
      BY <3>6, AllUnits
    <3>8. PICK a \in Seq(Nat) : a = All(w, s) /\ Len(a) = Ahead(w, s) + Len(s.low)
      BY <3>7 DEF Laid
    <3>9. p \in DOMAIN q /\ q[p].taken /\ q[p].id = s.id
      BY <2>2, <3>2
    <3>10. Block(a, Len(a), p)
      BY <3>5, <3>8, <3>9 DEF StreamOf, Stream
    <3>11. Cardinality({k \in DOMAIN a : a[k] = p}) = Size
      BY <3>10, BlockCount
    <3>12. QED
      BY <3>2, <3>4, <3>8, <3>11
  <2>3. QED
    BY <1>1, <2>1, <2>2, TypedTypeOK DEF NothingLost, All
<1>2. Init => WarnTyped
  BY DEF Init, WarnTyped
<1>3. Spec => []WarnTyped
  BY <1>2, TypedAlways, WarnedTyped, PTL DEF Spec
<1>4. QED
  BY <1>1, <1>3, TypedAlways, StreamsFlow, PTL
=============================================================================
