-------------------------- MODULE GameTableProofs --------------------------
(***************************************************************************)
(* Proofs about gameserver/logic/common/gameTable.lua: for any number of   *)
(* users, connections, seats and rounds no user sits twice, the fee is     *)
(* taken once, and the redis records, GameServer's count and its offline   *)
(* list follow the seats, whatever handlers overlap at their calls.        *)
(***************************************************************************)
EXTENDS GameTable, FiniteSetTheorems, WellFoundedInduction, TLAPS

(* Where a login or a creation waits.                                      *)
LoginPC == {"status", "certify", "key", "reconnect", "online", "info", "pay",
            "redis", "update", "bind", "error"}

Players == [user : User, ready : BOOLEAN]
Frames  == [pc : PC, q : {"none", "gs", "cs"}, o : 0..Len(obj), k : 0..MaxUserCount]

(* TypeOK, and the GameUsers are a sequence.                               *)
Types == TypeOK /\ obj \in Seq(Players)

(* A login waits inside GameServer's queue, which lets one handler in.     *)
QueueInv ==
  /\ \A t \in Thread : th[t].pc \in LoginPC => th[t].q = "gs"
  /\ \A s, t \in Thread : th[s].q = "gs" /\ th[t].q = "gs" => s = t

(* No user on two seats; and the user whose charge is being awaited, who   *)
(* passed onCheckUserStatus before it, still has no seat.                  *)
SeatInv ==
  /\ \A i, j \in Seat :
       seat[i] # 0 /\ seat[j] # 0 /\ i # j => obj[seat[i]].user # obj[seat[j]].user
  /\ \A c \in Conn, i \in Seat :
       th[c].pc = "pay" /\ seat[i] # 0 => obj[seat[i]].user # UserOf[c]

(* m_battleFeePaid says whether the fee was taken, a seat is taken only    *)
(* after it, and it is not yet taken while a charge is being awaited.      *)
FeeInv ==
  battle /\ ~WinnerPay =>
    /\ charged = IF feePaid THEN 1 ELSE 0
    /\ \A i \in Seat : seat[i] # 0 => feePaid
    /\ \A c \in Conn : th[c].pc = "pay" => ~feePaid

(* The handlers that log a user out work on a GameUser that exists.        *)
LogoutInv ==
  \A t \in Thread :
    th[t].pc \in {"remove", "clear", "left", "redis"} => th[t].o # 0

GameTableInv == Types /\ QueueInv /\ SeatInv /\ FeeInv /\ LogoutInv

-----------------------------------------------------------------------------
(* Lemmas about the operators.                                             *)

(* A non-empty set of naturals has the minimum the code takes of it.       *)
LEMMA MinIsLeast ==
  ASSUME NEW S, S \subseteq Nat, S # {}
  PROVE  Min(S) \in S /\ \A y \in S : Min(S) <= y
<1> DEFINE R == {ss \in Nat \X Nat : ss[1] < ss[2]}
<1>1. IsWellFoundedOn(R, Nat)
  BY NatLessThanWellFounded DEF OpToRel
<1>2. PICK x \in S : \A y \in S : <<y, x>> \notin R
  <2> HIDE DEF R
  <2> QED BY <1>1, WFMin
<1>3. ASSUME NEW y \in S
      PROVE  x <= y
  <2>1. <<y, x>> \in Nat \X Nat /\ x \in Nat /\ y \in Nat
    OBVIOUS
  <2>2. ~ (y < x)
    BY <1>2, <2>1
  <2>3. QED
    BY <2>1, <2>2
<1>4. QED
  BY <1>2, <1>3 DEF Min

(* onGetUserByUserId answers a GameUser on a seat, or nil.                 *)
LEMMA LookupType ==
  ASSUME Types, NEW u
  PROVE  /\ onGetUserByUserId(u) \in 0..Len(obj)
         /\ SeatsOf(u) # {} => onGetUserByUserId(u) # 0
<1>1. SeatsOf(u) \subseteq Nat
  BY GameTableAssumption DEF SeatsOf, Seat
<1>2. CASE SeatsOf(u) = {}
  BY <1>2 DEF onGetUserByUserId, Types, TypeOK
<1>3. CASE SeatsOf(u) # {}
  <2>1. Min(SeatsOf(u)) \in SeatsOf(u)
    BY <1>1, <1>3, MinIsLeast
  <2>2. Min(SeatsOf(u)) \in Seat /\ seat[Min(SeatsOf(u))] # 0
    BY <2>1 DEF SeatsOf
  <2>3. QED
    BY <1>3, <2>2 DEF onGetUserByUserId, Types, TypeOK
<1>4. QED
  BY <1>2, <1>3

(* A handler suspends with a well-formed frame.                            *)
LEMMA FrameStep ==
  ASSUME th \in [Thread -> Frames], NEW t \in Thread, NEW f, f \in Frames',
         th' = [th EXCEPT ![t] = f], Len(obj) \in Nat, Len(obj') \in Nat,
         Len(obj) <= Len(obj')
  PROVE  th' \in [Thread -> Frames']
<1>1. \A x \in Frames : x \in Frames'
  BY DEF Frames
<1>2. QED
  BY <1>1


-----------------------------------------------------------------------------
(* What a step does to the invariant, whatever action takes it.            *)

(* What a handler may suspend with: a login keeps GameServer's queue, and  *)
(* the queue is taken only when nobody holds it.                           *)
FrameOK(t, f) ==
  /\ f.pc \in LoginPC => f.q = "gs"
  /\ f.q = "gs" => th[t].q = "gs" \/ GsFree
  /\ f.pc \in {"remove", "clear", "left", "redis"} => f.o # 0

LEMMA QueueStep ==
  ASSUME QueueInv, LogoutInv, th \in [Thread -> Frames],
         NEW t \in Thread, NEW f, FrameOK(t, f), th' = [th EXCEPT ![t] = f]
  PROVE  QueueInv' /\ LogoutInv'
<1>1. \A s \in Thread : th'[s] = IF s = t THEN f ELSE th[s]
  OBVIOUS
<1>2. \A s \in Thread : s # t /\ f.q = "gs" => th[s].q # "gs"
  BY DEF FrameOK, GsFree, Busy, QueueInv
<1>3. QueueInv'
  BY <1>1, <1>2 DEF QueueInv, FrameOK
<1>4. LogoutInv'
  BY <1>1 DEF LogoutInv, FrameOK
<1>5. QED
  BY <1>3, <1>4

(* The GameUsers keep their users and seats are only emptied: the step of  *)
(* every handler but the two that seat a user.                             *)
SeatsKept ==
  /\ \A i \in Seat : seat'[i] # 0 => seat'[i] = seat[i]
  /\ \A i \in Seat : seat'[i] # 0 => obj'[seat[i]].user = obj[seat[i]].user

LEMMA SeatStep ==
  ASSUME SeatInv, FeeInv, th \in [Thread -> Frames],
         NEW t \in Thread, NEW f, th' = [th EXCEPT ![t] = f], SeatsKept,
         UNCHANGED <<battle, feePaid, charged>>,
         f.pc = "pay" => /\ UserOf[t] \notin SeatedUsers
                         /\ battle /\ ~WinnerPay => ~feePaid
  PROVE  SeatInv' /\ FeeInv'
<1>1. \A c \in Conn : c \in Thread /\ th'[c] = IF c = t THEN f ELSE th[c]
  BY DEF Thread
<1>2. \A i \in Seat : seat'[i] # 0 =>
         seat[i] # 0 /\ seat'[i] = seat[i] /\ obj'[seat'[i]].user = obj[seat[i]].user
  BY DEF SeatsKept
<1>3. \A i \in Seat : seat[i] # 0 => obj[seat[i]].user \in SeatedUsers
  BY DEF SeatedUsers, Taken
<1>4. ASSUME NEW i \in Seat, NEW j \in Seat, seat'[i] # 0, seat'[j] # 0, i # j
      PROVE  obj'[seat'[i]].user # obj'[seat'[j]].user
  BY <1>2, <1>4 DEF SeatInv
<1>5. ASSUME NEW c \in Conn, NEW i \in Seat, th'[c].pc = "pay", seat'[i] # 0
      PROVE  obj'[seat'[i]].user # UserOf[c]
  <2>1. seat[i] # 0 /\ obj'[seat'[i]].user = obj[seat[i]].user
    BY <1>2, <1>5
  <2>2. CASE c = t
    BY <1>1, <1>3, <1>5, <2>1, <2>2
  <2>3. CASE c # t
    BY <1>1, <1>5, <2>1, <2>3 DEF SeatInv
  <2>4. QED
    BY <2>2, <2>3
<1>6. SeatInv'
  BY <1>4, <1>5 DEF SeatInv
<1>7. ASSUME battle, ~WinnerPay
      PROVE  /\ charged = IF feePaid THEN 1 ELSE 0
             /\ \A i \in Seat : seat'[i] # 0 => feePaid
             /\ \A c \in Conn : th'[c].pc = "pay" => ~feePaid
  <2>1. /\ charged = IF feePaid THEN 1 ELSE 0
        /\ \A i \in Seat : seat[i] # 0 => feePaid
        /\ \A c \in Conn : th[c].pc = "pay" => ~feePaid
    BY <1>7, Zenon DEF FeeInv
  <2>2. \A c \in Conn : th'[c].pc = "pay" => ~feePaid
    BY <1>1, <1>7, <2>1
  <2>3. QED
    BY <1>2, <2>1, <2>2
<1>8. FeeInv'
  BY <1>7, Zenon DEF FeeInv
<1>9. QED
  BY <1>6, <1>8


(* The types of the variables that the steps below leave to each action.   *)
OtherTypes ==
  /\ status \in {"stop", "created", "playing"}
  /\ owner \subseteq User /\ cur \in 0..RoundNum
  /\ round \in {"none", "live", "over"} /\ ticking \in BOOLEAN
  /\ tid \subseteq User /\ offline \subseteq User /\ gsUsers \subseteq User
  /\ total \in Int
  /\ open \subseteq Conn /\ bound \subseteq Conn
  /\ rooms \in 0..MaxRoom
  /\ refunded \in Nat /\ torn \subseteq User

SeatTypes == seat \in [Seat -> 0..Len(obj)] /\ obj \in Seq(Players)

FeeTypes == battle \in BOOLEAN /\ feePaid \in BOOLEAN /\ charged \in Nat

LEMMA TypesAre ==
  Types <=> OtherTypes /\ SeatTypes /\ FeeTypes /\ th \in [Thread -> Frames]
<1>1. obj \in Seq(Players) => \A o \in DOMAIN obj : obj[o] \in Players
  OBVIOUS
<1>2. QED
  BY <1>1, Zenon DEF Types, TypeOK, OtherTypes, SeatTypes, FeeTypes, Frames, Players

LEMMA HandlerStep ==
  ASSUME GameTableInv, NEW t \in Thread, NEW f, f \in Frames', FrameOK(t, f),
         th' = [th EXCEPT ![t] = f], SeatsKept, SeatTypes', Len(obj) <= Len(obj'),
         UNCHANGED <<battle, feePaid, charged>>, OtherTypes',
         f.pc = "pay" => /\ UserOf[t] \notin SeatedUsers
                         /\ battle /\ ~WinnerPay => ~feePaid
  PROVE  GameTableInv'
<1>1. /\ Types /\ QueueInv /\ SeatInv /\ FeeInv /\ LogoutInv
      /\ SeatTypes /\ FeeTypes /\ th \in [Thread -> Frames]
  BY TypesAre DEF GameTableInv
<1>2. Len(obj) \in Nat /\ Len(obj') \in Nat
  BY <1>1 DEF SeatTypes
<1>3. th' \in [Thread -> Frames']
  BY <1>1, <1>2, FrameStep
<1>4. FeeTypes'
  BY <1>1, Zenon DEF FeeTypes
<1>5. Types'
  <2>1. (OtherTypes /\ SeatTypes /\ FeeTypes /\ th \in [Thread -> Frames])'
    BY <1>3, <1>4
  <2>2. QED
    BY <2>1, TypesAre, PTL
<1>6. QueueInv' /\ LogoutInv'
  BY <1>1, QueueStep
<1>7. SeatInv' /\ FeeInv'
  BY <1>1, SeatStep
<1>8. QED
  BY <1>5, <1>6, <1>7 DEF GameTableInv

(* A step that touches neither the seats nor the fee.                      *)
LEMMA PlainStep ==
  ASSUME GameTableInv, NEW t \in Thread, NEW f, f \in Frames, FrameOK(t, f),
         th' = [th EXCEPT ![t] = f], UNCHANGED <<battle, feePaid, charged, seat, obj>>,
         OtherTypes',
         f.pc = "pay" => /\ UserOf[t] \notin SeatedUsers
                         /\ battle /\ ~WinnerPay => ~feePaid
  PROVE  GameTableInv'
<1>1. SeatTypes
  BY TypesAre DEF GameTableInv
<1>2. SeatTypes' /\ Len(obj) <= Len(obj') /\ f \in Frames' /\ SeatsKept
  BY <1>1 DEF SeatTypes, Frames, SeatsKept
<1>3. QED
  BY <1>2, HandlerStep

(* onAddNewUser keeps the invariant when its caller has looked for the     *)
(* user under the same hold of GameServer's queue and the fee is paid.     *)
LEMMA AddStep ==
  ASSUME GameTableInv, NEW c \in Conn, th[c].q = "gs",
         NEW ready \in BOOLEAN, onAddNewUser(c, ready),
         UserOf[c] \notin SeatedUsers, battle' = battle, feePaid' \in BOOLEAN,
         charged' \in Nat, battle /\ ~WinnerPay => feePaid' /\ charged' = 1,
         OtherTypes'
  PROVE  GameTableInv'
<1>1. /\ Types /\ QueueInv /\ SeatInv /\ FeeInv /\ LogoutInv
      /\ SeatTypes /\ FeeTypes /\ th \in [Thread -> Frames]
  BY TypesAre DEF GameTableInv
<1> DEFINE free == Seat \ Taken
<1> DEFINE k == Min(free)
<1> DEFINE f == IF free = {} THEN Idle ELSE Frame("redis", "gs", Len(obj) + 1, 0)
<1>2. /\ th' = [th EXCEPT ![c] = f]
      /\ free = {} => f = [pc |-> "idle", q |-> "none", o |-> 0, k |-> 0]
      /\ free # {} => f = [pc |-> "redis", q |-> "gs", o |-> Len(obj) + 1, k |-> 0]
  BY DEF onAddNewUser, Finish, Suspend, Frame, Idle
<1> HIDE DEF f
<1>3. c \in Thread
  BY DEF Thread
<1>4. FrameOK(c, f)
  BY <1>1, <1>2 DEF FrameOK, LoginPC, SeatTypes
<1>5. QueueInv' /\ LogoutInv'
  <2> QED BY <1>1, <1>2, <1>3, <1>4, QueueStep
(* Nobody awaits a charge.                                                 *)
<1>6. \A d \in Conn : th'[d].pc # "pay"
  <2>1. \A d \in Conn : d # c => th[d].pc # "pay"
    BY <1>1, <1>3 DEF QueueInv, LoginPC, Thread
  <2>2. \A d \in Conn : th'[d] = IF d = c THEN f ELSE th[d]
    BY <1>1, <1>2 DEF Thread
  <2>3. QED
    BY <1>2, <2>1, <2>2
<1>7. SeatTypes' /\ Len(obj') \in Nat /\ Len(obj) <= Len(obj') /\ f \in Frames'
  <2>1. CASE free = {}
    <3>1. UNCHANGED <<seat, obj>>
      BY <2>1 DEF onAddNewUser
    <3>2. QED
      BY <1>1, <1>2, <2>1, <3>1, GameTableAssumption DEF SeatTypes, Frames, PC
  <2>2. CASE free # {}
    <3>1. obj' = Append(obj, [user |-> UserOf[c], ready |-> ready])
      BY <2>2 DEF onAddNewUser
    <3>2. [user |-> UserOf[c], ready |-> ready] \in Players
      BY GameTableAssumption DEF Players
    <3>3. obj' \in Seq(Players) /\ Len(obj') = Len(obj) + 1 /\ Len(obj) \in Nat
      BY <1>1, <3>1, <3>2 DEF SeatTypes
    <3>4. seat' = [seat EXCEPT ![k] = Len(obj) + 1]
      BY <2>2 DEF onAddNewUser
    <3>5. SeatTypes'
      <4> HIDE DEF k
      <4>1. seat \in [Seat -> 0..Len(obj)]
        BY <1>1 DEF SeatTypes
      <4>2. 0..Len(obj) \subseteq 0..Len(obj') /\ Len(obj) + 1 \in 0..Len(obj')
        BY <3>3
      <4>3. seat' \in [Seat -> 0..Len(obj')]
        BY <3>4, <4>1, <4>2, Zenon
      <4>4. QED
        BY <3>3, <4>3 DEF SeatTypes
    <3>6. f \in Frames'
      <4>1. /\ "redis" \in PC /\ "gs" \in {"none", "gs", "cs"}
            /\ Len(obj) + 1 \in 0..Len(obj') /\ 0 \in 0..MaxUserCount
        BY <3>3, GameTableAssumption DEF PC
      <4>2. QED
        BY <1>2, <2>2, <4>1 DEF Frames
    <3>7. QED
      BY <3>3, <3>5, <3>6
  <2>3. QED
    BY <2>1, <2>2
<1>8. th' \in [Thread -> Frames']
  <2>1. Len(obj) \in Nat
    BY <1>1 DEF SeatTypes
  <2>2. QED
    BY <1>1, <1>2, <1>3, <1>7, <2>1, FrameStep
<1>9. FeeTypes'
  BY <1>1, Zenon DEF FeeTypes
<1>10. Types'
  <2>1. (OtherTypes /\ SeatTypes /\ FeeTypes /\ th \in [Thread -> Frames])'
    BY <1>7, <1>8, <1>9
  <2>2. QED
    BY <2>1, TypesAre, PTL
<1>11. SeatInv'
  <2>1. \A i, j \in Seat :
          seat'[i] # 0 /\ seat'[j] # 0 /\ i # j => obj'[seat'[i]].user # obj'[seat'[j]].user
    <3>1. CASE free = {}
      BY <1>1, <3>1 DEF onAddNewUser, SeatInv
    <3>2. CASE free # {}
      <4>1. obj' = Append(obj, [user |-> UserOf[c], ready |-> ready])
        BY <3>2 DEF onAddNewUser
      <4>2. seat' = [seat EXCEPT ![k] = Len(obj) + 1]
        BY <3>2 DEF onAddNewUser
      <4>3. obj'[Len(obj) + 1].user = UserOf[c] /\ \A o \in 1..Len(obj) : obj'[o] = obj[o]
        BY <1>1, <4>1 DEF SeatTypes
      <4>4. \A i \in Seat : seat[i] # 0 => obj[seat[i]].user # UserOf[c]
        BY DEF SeatedUsers, Taken
      <4>5. \A i \in Seat : seat[i] \in 0..Len(obj) /\ Len(obj) \in Nat
        BY <1>1 DEF SeatTypes
      <4>6. \A i \in Seat : seat'[i] = IF i = k THEN Len(obj) + 1 ELSE seat[i]
        BY <1>1, <4>2 DEF SeatTypes
      <4>7. \A i \in Seat : seat'[i] # 0 /\ i # k =>
               seat[i] # 0 /\ obj'[seat'[i]].user = obj[seat[i]].user
        BY <4>3, <4>5, <4>6
      <4>8. \A i \in Seat : i = k => obj'[seat'[i]].user = UserOf[c]
        BY <4>3, <4>6
      <4> HIDE DEF k, free
      <4>9. TAKE i \in Seat, j \in Seat
      <4>10. HAVE seat'[i] # 0 /\ seat'[j] # 0 /\ i # j
      <4>11. CASE i # k /\ j # k
        BY <1>1, <4>7, <4>10, <4>11 DEF SeatInv
      <4>12. CASE i = k
        BY <4>4, <4>7, <4>8, <4>10, <4>12
      <4>13. CASE j = k
        BY <4>4, <4>7, <4>8, <4>10, <4>13
      <4>14. QED
        BY <4>11, <4>12, <4>13
    <3>3. QED
      BY <3>1, <3>2
  <2>2. QED
    BY <1>6, <2>1 DEF SeatInv
<1>12. FeeInv'
  <2>1. ASSUME battle, ~WinnerPay
        PROVE  feePaid' /\ charged' = 1
    BY <2>1
  <2>2. battle' /\ ~WinnerPay => feePaid' /\ charged' = IF feePaid' THEN 1 ELSE 0
    BY <2>1, Zenon
  <2>3. QED
    BY <1>6, <2>2, Zenon DEF FeeInv
<1>13. QED
  BY <1>5, <1>10, <1>11, <1>12 DEF GameTableInv


-----------------------------------------------------------------------------
(* The invariant is inductive: one lemma per group of actions.             *)

Queues == {"none", "gs", "cs"}

(* PlainStep for a handler that suspends with Frame(pc, q, o, k).          *)
LEMMA SuspendStep ==
  ASSUME GameTableInv, NEW t \in Thread, NEW pc \in PC, NEW q \in Queues,
         NEW o \in 0..Len(obj), NEW k \in 0..MaxUserCount,
         th' = [th EXCEPT ![t] = Frame(pc, q, o, k)],
         pc \in LoginPC => q = "gs",
         q = "gs" => th[t].q = "gs" \/ GsFree,
         pc \in {"remove", "clear", "left", "redis"} => o # 0,
         pc = "pay" => UserOf[t] \notin SeatedUsers /\ (battle /\ ~WinnerPay => ~feePaid),
         UNCHANGED <<battle, feePaid, charged, seat, obj>>, OtherTypes'
  PROVE  GameTableInv'
<1> DEFINE f == Frame(pc, q, o, k)
<1>1. f = [pc |-> pc, q |-> q, o |-> o, k |-> k]
  BY DEF Frame
<1>2. f \in Frames
  BY <1>1 DEF Frames, Queues
<1>3. FrameOK(t, f)
  BY <1>1 DEF FrameOK
<1>4. f.pc = "pay" => UserOf[t] \notin SeatedUsers /\ (battle /\ ~WinnerPay => ~feePaid)
  BY <1>1
<1>5. th' = [th EXCEPT ![t] = f]
  OBVIOUS
<1> HIDE DEF f
<1>6. QED
  BY <1>2, <1>3, <1>4, <1>5, PlainStep

LEMMA FinishStep ==
  ASSUME GameTableInv, NEW t \in Thread, Finish(t),
         UNCHANGED <<battle, feePaid, charged, seat, obj>>, OtherTypes'
  PROVE  GameTableInv'
<1>1. th' = [th EXCEPT ![t] = Frame("idle", "none", 0, 0)]
  BY DEF Finish, Idle
<1>2. "idle" \in PC /\ "idle" \notin LoginPC /\ "none" \in Queues
  BY DEF PC, LoginPC, Queues
<1>3. 0 \in 0..Len(obj) /\ 0 \in 0..MaxUserCount
  BY GameTableAssumption, TypesAre DEF GameTableInv, SeatTypes
<1>4. QED
  BY <1>1, <1>2, <1>3, SuspendStep

(* A thread that waits has a queue and a GameUser of the right types.      *)
LEMMA ThreadTypes ==
  ASSUME GameTableInv, NEW t \in Thread
  PROVE  /\ th[t].pc \in PC /\ th[t].q \in Queues
         /\ th[t].o \in 0..Len(obj) /\ th[t].k \in 0..MaxUserCount
         /\ 0 \in 0..Len(obj) /\ {0, 1} \subseteq 0..MaxUserCount
         /\ Len(obj) \in Nat
         /\ th[t].pc \in LoginPC => th[t].q = "gs"
         /\ th[t].pc \in {"remove", "clear", "left", "redis"} => th[t].o # 0
         /\ OtherTypes
<1>1. /\ th \in [Thread -> Frames] /\ QueueInv /\ LogoutInv /\ Len(obj) \in Nat
      /\ OtherTypes
  BY TypesAre DEF GameTableInv, SeatTypes
<1>2. 0 \in 0..Len(obj) /\ {0, 1} \subseteq 0..MaxUserCount
  BY <1>1, GameTableAssumption
<1>3. QED
  BY <1>1, <1>2 DEF Frames, Queues, QueueInv, LogoutInv

(* The users on seats are finitely many users.                             *)
LEMMA SeatedTyped ==
  ASSUME GameTableInv
  PROVE  SeatedUsers \subseteq User /\ IsFiniteSet(SeatedUsers)
<1>1. SeatTypes
  BY TypesAre DEF GameTableInv
<1>2. SeatedUsers \subseteq User
  <2>1. \A o \in 1..Len(obj) : obj[o] \in Players
    BY <1>1 DEF SeatTypes
  <2>2. \A i \in Taken : seat[i] \in 1..Len(obj)
    BY <1>1 DEF SeatTypes, Taken
  <2>3. QED
    BY <2>1, <2>2 DEF SeatedUsers, Players
<1>3. SeatedUsers = {obj[seat[i]].user : i \in Taken} /\ Taken \subseteq 1..MaxUserCount
  BY DEF SeatedUsers, Taken, Seat
<1>4. IsFiniteSet(1..MaxUserCount)
  BY FS_Interval, GameTableAssumption
<1>5. IsFiniteSet(Taken)
  BY <1>3, <1>4, FS_Subset
<1>6. IsFiniteSet(SeatedUsers)
  <2> DEFINE g == [i \in Taken |-> obj[seat[i]].user]
  <2>1. g \in Surjection(Taken, SeatedUsers)
    BY <1>3 DEF Surjection
  <2> HIDE DEF g
  <2>2. QED
    BY <1>5, <2>1, FS_Surjection
<1>7. QED
  BY <1>2, <1>6

(* onDealUserLogoutTableSuccess is called for a user on a seat.            *)
LEMMA LogoutStep ==
  ASSUME GameTableInv, NEW t \in Thread, NEW u \in User, NEW q \in Queues,
         NEW k \in 0..MaxUserCount, onDealUserLogoutTableSuccess(t, u, q, k),
         onGetUserByUserId(u) # 0, q = "gs" => th[t].q = "gs",
         UNCHANGED <<battle, feePaid, charged, seat, obj>>,
         tid' \cup torn' \subseteq User => OtherTypes'
  PROVE  GameTableInv'
<1>1. onGetUserByUserId(u) \in 0..Len(obj)
  BY LookupType DEF GameTableInv
<1>2. tid' \cup torn' \subseteq User
  BY ThreadTypes DEF onDealUserLogoutTableSuccess, OtherTypes
<1>3. th' = [th EXCEPT ![t] = Frame("remove", q, onGetUserByUserId(u), k)]
  BY DEF onDealUserLogoutTableSuccess
<1>4. "remove" \in PC /\ "remove" \notin LoginPC
  BY DEF PC, LoginPC
<1> DEFINE o == onGetUserByUserId(u)
<1>5. o \in 0..Len(obj) /\ o # 0 /\ th' = [th EXCEPT ![t] = Frame("remove", q, o, k)]
  BY <1>1, <1>3
<1> HIDE DEF o
<1>6. QED
  BY <1>2, <1>4, <1>5, SuspendStep

(* The loop of a dismissal logs a seated user out or goes on to the reset. *)
LEMMA KickStep ==
  ASSUME GameTableInv, NEW t \in Thread, NEW q \in Queues, NEW k \in Nat,
         KickFrom(t, q, k), q = "gs" => th[t].q = "gs",
         UNCHANGED <<battle, feePaid, charged, seat, obj>>,
         tid' \cup torn' \subseteq User => OtherTypes'
  PROVE  GameTableInv'
<1> DEFINE left == {i \in Taken : i >= k}
<1>1. CASE left = {}
  <2>1. th' = [th EXCEPT ![t] = Frame("reset", q, 0, 0)] /\ tid' = tid /\ torn' = torn
    BY <1>1 DEF KickFrom
  <2>2. "reset" \in PC /\ "reset" \notin LoginPC
    BY DEF PC, LoginPC
  <2>3. OtherTypes'
    BY <2>1, ThreadTypes DEF OtherTypes
  <2>4. 0 \in 0..Len(obj) /\ 0 \in 0..MaxUserCount
    BY ThreadTypes
  <2>5. QED
    BY <2>1, <2>2, <2>3, <2>4, SuspendStep
<1>2. CASE left # {}
  <2> DEFINE m == Min(left)
  <2>1. left \subseteq Nat
    BY DEF Taken, Seat
  <2>2. m \in left
    BY <1>2, <2>1, MinIsLeast
  <2>3. m \in Seat /\ seat[m] # 0 /\ m \in 0..MaxUserCount
    BY <2>2, GameTableAssumption DEF Taken, Seat
  <2>4. onDealUserLogoutTableSuccess(t, obj[seat[m]].user, q, m)
    BY <1>2 DEF KickFrom
  <2>5. onGetUserByUserId(obj[seat[m]].user) # 0
    <3>1. m \in SeatsOf(obj[seat[m]].user)
      BY <2>3 DEF SeatsOf
    <3>2. QED
      BY <3>1, LookupType DEF GameTableInv
  <2>6. obj[seat[m]].user \in User
    BY <2>3, SeatedTyped DEF SeatedUsers, Taken
  <2> HIDE DEF m
  <2>7. QED
    BY <2>3, <2>4, <2>5, <2>6, LogoutStep
<1>3. QED
  BY <1>1, <1>2


LEMMA DismissStep ==
  ASSUME GameTableInv, NEW t \in Thread, NEW q \in Queues,
         onDismissBattleRoom(t, q), q = "gs" => th[t].q = "gs",
         UNCHANGED <<battle, feePaid, charged, seat, obj>>,
         tid' \cup torn' \subseteq User /\ refunded' \in Nat => OtherTypes'
  PROVE  GameTableInv'
<1>1. OtherTypes /\ 0 \in 0..Len(obj) /\ {0, 1} \subseteq 0..MaxUserCount
  BY ThreadTypes
<1>2. CASE RefundDue
  <2>1. /\ refunded' \in {refunded, refunded + 1} /\ tid' = tid /\ torn' = torn
        /\ th' = [th EXCEPT ![t] = Frame("kick", q, 0, 1)]
    BY <1>2 DEF onDismissBattleRoom
  <2>2. OtherTypes'
    BY <1>1, <2>1 DEF OtherTypes
  <2>3. "kick" \in PC /\ "kick" \notin LoginPC
    BY DEF PC, LoginPC
  <2>4. QED
    BY <1>1, <2>1, <2>2, <2>3, SuspendStep
<1>3. CASE ~RefundDue
  <2>1. KickFrom(t, q, 1) /\ refunded' = refunded
    BY <1>3 DEF onDismissBattleRoom
  <2>2. tid' \cup torn' \subseteq User => OtherTypes'
    BY <1>1, <2>1 DEF OtherTypes
  <2>3. QED
    BY <2>1, <2>2, KickStep
<1>4. QED
  BY <1>2, <1>3

(* Handlers that go on after a call: the logout and the dismissal.         *)
LEMMA LeavingStep ==
  ASSUME GameTableInv, NEW t \in Thread, UNCHANGED battle,
         Answered(t) \/ onRemoveUser(t) \/ Left(t) \/ Kick(t)
  PROVE  GameTableInv'
<1>1. /\ th[t].q \in Queues /\ th[t].o \in 0..Len(obj) /\ th[t].k \in 0..MaxUserCount
      /\ th[t].pc \in {"remove", "clear", "left", "redis"} => th[t].o # 0
      /\ OtherTypes
  BY ThreadTypes
<1>2. CASE Answered(t)
  <2>1. OtherTypes'
    BY <1>1, <1>2 DEF Answered, OtherTypes, roomVars, roundVars, serverVars, agentVars, feeVars
  <2>2. Finish(t) /\ UNCHANGED <<feePaid, charged, seat, obj>>
    BY <1>2 DEF Answered, feeVars
  <2>3. QED
    BY <2>1, <2>2, FinishStep
<1>3. CASE onRemoveUser(t)
  <2>1. OtherTypes'
    BY <1>1, <1>3 DEF onRemoveUser, OtherTypes, roomVars, roundVars, serverVars, agentVars, feeVars
  <2>2. /\ th' = [th EXCEPT ![t] = Frame("clear", th[t].q, th[t].o, th[t].k)]
        /\ UNCHANGED <<feePaid, charged, seat, obj>> /\ th[t].o # 0
    BY <1>1, <1>3 DEF onRemoveUser, feeVars, Suspend, At
  <2>3. "clear" \in PC /\ "clear" \notin LoginPC
    BY DEF PC, LoginPC
  <2>4. QED
    BY <1>1, <2>1, <2>2, <2>3, SuspendStep
<1>4. CASE Left(t)
  <2>1. /\ UNCHANGED <<feePaid, charged, seat, obj>>
        /\ tid' \cup torn' \subseteq User => OtherTypes'
    BY <1>1, <1>4 DEF Left, OtherTypes, roomVars, roundVars, serverVars, agentVars, feeVars
  <2>2. CASE th[t].k = 0
    <3>1. Finish(t) /\ tid' = tid /\ torn' = torn
      BY <1>4, <2>2 DEF Left
    <3>2. OtherTypes'
      BY <1>1, <2>1, <3>1 DEF OtherTypes
    <3>3. QED
      BY <2>1, <3>1, <3>2, FinishStep
  <2>3. CASE th[t].k # 0
    <3>1. KickFrom(t, th[t].q, th[t].k + 1)
      BY <1>4, <2>3 DEF Left
    <3>2. th[t].k + 1 \in Nat
      BY <1>1
    <3>3. QED
      BY <1>1, <2>1, <3>1, <3>2, KickStep
  <2>4. QED
    BY <2>2, <2>3
<1>5. CASE Kick(t)
  <2>1. /\ UNCHANGED <<feePaid, charged, seat, obj>>
        /\ tid' \cup torn' \subseteq User => OtherTypes'
        /\ KickFrom(t, th[t].q, 1)
    BY <1>1, <1>5 DEF Kick, OtherTypes, roomVars, roundVars, serverVars, agentVars, feeVars
  <2>2. QED
    BY <1>1, <2>1, KickStep
<1>6. QED
  BY <1>2, <1>3, <1>4, <1>5

(* The two steps that empty seats.                                         *)
LEMMA EmptyingStep ==
  ASSUME GameTableInv, NEW t \in Thread, UNCHANGED battle,
         ClearSeat(t) \/ onResetTable(t)
  PROVE  GameTableInv'
<1>1. /\ th[t].q \in Queues /\ th[t].o \in 0..Len(obj) /\ th[t].k \in 0..MaxUserCount
      /\ th[t].pc \in {"remove", "clear", "left", "redis"} => th[t].o # 0
      /\ OtherTypes /\ 0 \in 0..Len(obj) /\ 0 \in 0..MaxUserCount /\ Len(obj) \in Nat
  BY ThreadTypes
<1>2. SeatTypes
  BY TypesAre DEF GameTableInv
<1>3. OtherTypes'
  <2>1. CASE ClearSeat(t)
    BY <1>1, <2>1 DEF ClearSeat, OtherTypes, roomVars, roundVars, serverVars, agentVars, feeVars
  <2>2. CASE onResetTable(t)
    BY <1>1, <2>2, SeatedTyped DEF onResetTable, OtherTypes, roomVars, roundVars, serverVars, agentVars, feeVars
  <2>3. QED
    BY <2>1, <2>2
<1>4. UNCHANGED <<battle, feePaid, charged, obj>>
  BY DEF ClearSeat, onResetTable, feeVars
<1>5. seat' \in [Seat -> 0..Len(obj)] /\ \A i \in Seat : seat'[i] # 0 => seat'[i] = seat[i]
  BY <1>1, <1>2 DEF ClearSeat, Cleared, onResetTable, SeatTypes
<1>6. SeatTypes' /\ SeatsKept /\ Len(obj) <= Len(obj')
  BY <1>1, <1>2, <1>4, <1>5 DEF SeatTypes, SeatsKept
<1>7. PICK pc \in {"left", "tail"}, o \in 0..Len(obj), k \in 0..MaxUserCount :
        /\ th' = [th EXCEPT ![t] = [pc |-> pc, q |-> th[t].q, o |-> o, k |-> k]]
        /\ pc = "left" => o # 0
  <2>1. CASE ClearSeat(t)
    BY <1>1, <2>1 DEF ClearSeat, Suspend, Frame, At
  <2>2. CASE onResetTable(t)
    BY <1>1, <2>2 DEF onResetTable, Suspend, Frame
  <2>3. QED
    BY <2>1, <2>2
<1> DEFINE f == [pc |-> pc, q |-> th[t].q, o |-> o, k |-> k]
<1>8. f \in Frames' /\ FrameOK(t, f) /\ f.pc # "pay" /\ th' = [th EXCEPT ![t] = f]
  BY <1>1, <1>4, <1>7 DEF Frames, PC, Queues, FrameOK, LoginPC
<1> HIDE DEF f
<1>9. QED
  BY <1>3, <1>4, <1>6, <1>8, HandlerStep


(* A login or a creation enters GameServer's queue.                        *)
LEMMA EnterStep ==
  ASSUME GameTableInv, NEW c \in Conn, UNCHANGED battle,
         onClientCmdCreateBattleRoom(c) \/ onClientCmdLogin(c)
  PROVE  GameTableInv'
<1>1. /\ c \in Thread /\ OtherTypes /\ 0 \in 0..Len(obj) /\ 0 \in 0..MaxUserCount
      /\ UserOf[c] \in User
  BY ThreadTypes, GameTableAssumption DEF Thread
<1>2. OtherTypes'
  <2>1. CASE onClientCmdCreateBattleRoom(c)
    <3>1. owner' \subseteq User /\ rooms' \in 0..MaxRoom
      BY <1>1, <2>1, GameTableAssumption DEF onClientCmdCreateBattleRoom, OtherTypes
    <3>2. /\ status' = "created"
          /\ UNCHANGED <<roundVars, serverVars, agentVars, refunded>>
      BY <2>1 DEF onClientCmdCreateBattleRoom, feeVars
    <3>3. QED
      BY <1>1, <3>1, <3>2 DEF OtherTypes, roundVars, serverVars, agentVars
  <2>2. CASE onClientCmdLogin(c)
    BY <1>1, <2>2 DEF onClientCmdLogin, OtherTypes, roomVars, roundVars, serverVars, agentVars, feeVars
  <2>3. QED
    BY <2>1, <2>2
<1>3. PICK pc \in {"update", "status"} :
        /\ th' = [th EXCEPT ![c] = Frame(pc, "gs", 0, 0)] /\ GsFree
        /\ UNCHANGED <<feePaid, charged, seat, obj>>
  BY DEF onClientCmdCreateBattleRoom, onClientCmdLogin, feeVars
<1>4. pc \in PC /\ "gs" \in Queues
  BY DEF PC, Queues
<1>5. QED
  BY <1>1, <1>2, <1>3, <1>4, SuspendStep

(* The steps of a login that only suspend again, leave the queue or        *)
(* report.                                                                 *)
LEMMA LoginWaits ==
  ASSUME GameTableInv, NEW c \in Conn, UNCHANGED battle,
         \/ onCheckTableStatus(c)
         \/ onCheckUserCertification(c)
         \/ onCheckUserMTkey(c)
         \/ onDealUserReconnectTableSuccess(c)
         \/ onClearOnUserDisconnect(c)
         \/ onDealUserLoginTableRedis(c)
         \/ onGameTableUpdateTableData(c)
  PROVE  GameTableInv'
<1>1. /\ c \in Thread /\ OtherTypes /\ 0 \in 0..Len(obj) /\ {0, 1} \subseteq 0..MaxUserCount
      /\ UserOf[c] \in User /\ th[c].o \in 0..Len(obj) /\ Len(obj) \in Nat
      /\ th[c].pc \in LoginPC => th[c].q = "gs"
  BY ThreadTypes, GameTableAssumption DEF Thread
<1>2. th[c].q = "gs"
  BY <1>1 DEF LoginPC, At, onCheckTableStatus, onCheckUserCertification,
     onCheckUserMTkey, onDealUserReconnectTableSuccess, onClearOnUserDisconnect,
     onDealUserLoginTableRedis, onGameTableUpdateTableData
<1>3. SeatedUsers \subseteq User
  BY SeatedTyped
<1>4. OtherTypes' /\ UNCHANGED <<feePaid, charged, seat, obj>>
  <2>1. CASE onCheckTableStatus(c)
    BY <1>1, <2>1 DEF onCheckTableStatus, OtherTypes, roomVars, roundVars, serverVars, agentVars, feeVars
  <2>2. CASE onCheckUserCertification(c)
    BY <1>1, <2>2 DEF onCheckUserCertification, OtherTypes, roomVars, roundVars, serverVars, agentVars, feeVars
  <2>3. CASE onCheckUserMTkey(c)
    BY <1>1, <2>3 DEF onCheckUserMTkey, OtherTypes, roomVars, roundVars, serverVars, agentVars, feeVars
  <2>4. CASE onDealUserReconnectTableSuccess(c)
    BY <1>1, <2>4 DEF onDealUserReconnectTableSuccess, OtherTypes, roomVars, roundVars, serverVars, agentVars, feeVars
  <2>5. CASE onClearOnUserDisconnect(c)
    BY <1>1, <2>5 DEF onClearOnUserDisconnect, OtherTypes, roomVars, roundVars, serverVars, agentVars, feeVars
  <2>6. CASE onDealUserLoginTableRedis(c)
    BY <1>1, <2>6 DEF onDealUserLoginTableRedis, OtherTypes, roomVars, roundVars, serverVars, agentVars, feeVars
  <2>7. CASE onGameTableUpdateTableData(c)
    <3>1. Cardinality(SeatedUsers \ gsUsers) \in Int
      <4>1. IsFiniteSet(SeatedUsers \ gsUsers)
        BY SeatedTyped, FS_Difference
      <4>2. QED
        BY <4>1, FS_CardinalityType
    <3>2. QED
      BY <1>1, <1>3, <2>7, <3>1 DEF onGameTableUpdateTableData, OtherTypes, roomVars, roundVars, serverVars, agentVars, feeVars
  <2>8. QED
    BY <2>1, <2>2, <2>3, <2>4, <2>5, <2>6, <2>7
<1>5. PICK pc \in LoginPC \ {"pay", "redis"}, o \in 0..Len(obj), k \in 0..MaxUserCount :
        \/ th' = [th EXCEPT ![c] = Frame(pc, "gs", o, k)]
        \/ Finish(c)
  <2>1. CASE onCheckTableStatus(c)
    BY <1>1, <1>2, <2>1 DEF onCheckTableStatus, Suspend, AskKey, LoginPC
  <2>2. CASE onCheckUserCertification(c)
    <3>1. PICK x \in {0, 1} : th' = [th EXCEPT ![c] = Frame("key", "gs", 0, x)]
      BY <1>2, <2>2 DEF onCheckUserCertification, Suspend, AskKey
    <3>2. QED
      BY <1>1, <3>1 DEF LoginPC
  <2>3. CASE onCheckUserMTkey(c)
    BY <1>1, <1>2, <2>3 DEF onCheckUserMTkey, Suspend, AskKey, LoginPC
  <2>4. CASE onDealUserReconnectTableSuccess(c)
    BY <1>1, <1>2, <2>4 DEF onDealUserReconnectTableSuccess, Suspend, AskKey, LoginPC
  <2>5. CASE onClearOnUserDisconnect(c)
    BY <1>1, <1>2, <2>5 DEF onClearOnUserDisconnect, Suspend, AskKey, LoginPC
  <2>6. CASE onDealUserLoginTableRedis(c)
    BY <1>1, <1>2, <2>6 DEF onDealUserLoginTableRedis, Suspend, AskKey, LoginPC
  <2>7. CASE onGameTableUpdateTableData(c)
    <3>1. Finish(c) \/ th' = [th EXCEPT ![c] = Frame("bind", "gs", th[c].o, 0)]
      BY <1>2, <2>7 DEF onGameTableUpdateTableData, Suspend
    <3>2. QED
      BY <1>1, <3>1 DEF LoginPC
  <2>8. QED
    BY <2>1, <2>2, <2>3, <2>4, <2>5, <2>6, <2>7
<1>6. pc \in PC /\ "gs" \in Queues
  BY DEF PC, LoginPC, Queues
<1>7. CASE th' = [th EXCEPT ![c] = Frame(pc, "gs", o, k)]
  <2>1. pc # "pay" /\ pc \notin {"remove", "clear", "left", "redis"}
    BY DEF LoginPC
  <2>2. QED
    BY <1>1, <1>2, <1>4, <1>6, <1>7, <2>1, SuspendStep
<1>8. CASE Finish(c)
  BY <1>1, <1>4, <1>8, FinishStep
<1>9. QED
  BY <1>5, <1>7, <1>8

(* onCheckUserStatus and the charge: the user gets a seat.                 *)
LEMMA SeatingStep ==
  ASSUME GameTableInv, NEW c \in Conn, UNCHANGED battle,
         onGetUserInfo(c) \/ onUpdateUserDiamond(c)
  PROVE  GameTableInv'
<1>1. /\ c \in Thread /\ OtherTypes /\ 0 \in 0..Len(obj) /\ {0, 1} \subseteq 0..MaxUserCount
      /\ th[c].pc \in LoginPC => th[c].q = "gs"
  BY ThreadTypes DEF Thread
<1>2. th[c].q = "gs"
  BY <1>1 DEF LoginPC, At, onGetUserInfo, onUpdateUserDiamond
<1>3. OtherTypes'
  <2>1. CASE onGetUserInfo(c)
    BY <1>1, <2>1 DEF onGetUserInfo, OtherTypes, roomVars, roundVars, serverVars, agentVars, feeVars
  <2>2. CASE onUpdateUserDiamond(c)
    BY <1>1, <2>2 DEF onUpdateUserDiamond, OtherTypes, roomVars, roundVars, serverVars, agentVars, feeVars
  <2>3. QED
    BY <2>1, <2>2
<1>4. {"error", "pay"} \subseteq PC \cap LoginPC /\ "gs" \in Queues
  BY DEF PC, LoginPC, Queues
<1>5. FeeTypes /\ FeeInv /\ SeatInv
  BY TypesAre DEF GameTableInv
<1>6. ASSUME NEW k \in {0, 1}, Suspend(c, "error", 0, k), UNCHANGED <<seat, obj, feePaid, charged>>
      PROVE  GameTableInv'
  <2>1. th' = [th EXCEPT ![c] = Frame("error", "gs", 0, k)] /\ k \in 0..MaxUserCount
    BY <1>1, <1>2, <1>6 DEF Suspend
  <2>2. QED
    BY <1>1, <1>2, <1>3, <1>4, <1>6, <2>1, SuspendStep
<1>7. CASE onGetUserInfo(c)
  <2>1. UNCHANGED <<feePaid, charged>>
    BY <1>7 DEF onGetUserInfo, feeVars
  <2>2. CASE Suspend(c, "error", 0, 0) /\ UNCHANGED <<seat, obj>>
    BY <1>6, <2>1, <2>2
  <2>3. CASE Suspend(c, "error", 0, 1) /\ UNCHANGED <<seat, obj>>
    BY <1>6, <2>1, <2>3
  <2>4. CASE ~Refused(UserOf[c]) /\ FeeNotDue /\ \E ready \in BOOLEAN : onAddNewUser(c, ready)
    <3>1. PICK ready \in BOOLEAN : onAddNewUser(c, ready)
      BY <2>4
    <3>2. UserOf[c] \notin SeatedUsers
      BY <2>4 DEF Refused
    <3>3. battle /\ ~WinnerPay => feePaid' /\ charged' = 1
      BY <1>5, <2>1, <2>4 DEF FeeNotDue, BattleRoom, FeeInv
    <3>4. feePaid' \in BOOLEAN /\ charged' \in Nat
      BY <1>5, <2>1, Zenon DEF FeeTypes
    <3>5. QED
      BY <1>2, <1>3, <3>1, <3>2, <3>3, <3>4, AddStep
  <2>5. CASE ~Refused(UserOf[c]) /\ ~FeeNotDue /\ Suspend(c, "pay", 0, 0) /\ UNCHANGED <<seat, obj>>
    <3>1. UserOf[c] \notin SeatedUsers /\ ~feePaid
      BY <2>5 DEF Refused, FeeNotDue
    <3>2. th' = [th EXCEPT ![c] = Frame("pay", "gs", 0, 0)]
      BY <1>2, <2>5 DEF Suspend
    <3>3. UNCHANGED <<battle, feePaid, charged, seat, obj>>
      BY <2>1, <2>5
    <3>4. 0 \in 0..MaxUserCount
      BY <1>1
    <3>5. QED
      BY <1>1, <1>2, <1>3, <1>4, <3>1, <3>2, <3>3, <3>4, SuspendStep
  <2>6. CASE ~Refused(UserOf[c])
    <3>1. \/ Suspend(c, "error", 0, 0) /\ UNCHANGED <<seat, obj>>
          \/ IF FeeNotDue
             THEN \E ready \in BOOLEAN : onAddNewUser(c, ready)
             ELSE /\ Suspend(c, IF isBattleOwner(UserOf[c]) THEN "pay" ELSE "error", 0, 0)
                  /\ UNCHANGED <<seat, obj>>
      BY <1>7, <2>6 DEF onGetUserInfo
    <3>2. CASE FeeNotDue
      BY <2>2, <2>4, <2>6, <3>1, <3>2
    <3>3. CASE ~FeeNotDue
      BY <2>2, <2>5, <2>6, <3>1, <3>3
    <3>4. QED
      BY <3>2, <3>3
  <2>7. CASE Refused(UserOf[c])
    BY <1>7, <2>2, <2>3, <2>7 DEF onGetUserInfo
  <2>8. QED
    BY <2>6, <2>7
<1>8. CASE onUpdateUserDiamond(c)
  <2>1. CASE FeeRefused(c)
    <3>1. Suspend(c, "error", 0, 0) /\ UNCHANGED <<seat, obj, feePaid, charged>>
      BY <2>1 DEF FeeRefused
    <3>2. QED
      BY <1>6, <3>1
  <2>2. CASE FeePaid(c)
    <3>1. PICK ready \in BOOLEAN : onAddNewUser(c, ready)
      BY <2>2 DEF FeePaid
    <3>2. UserOf[c] \notin SeatedUsers
      BY <1>5, <1>8 DEF onUpdateUserDiamond, At, SeatInv, SeatedUsers, Taken
    <3>3. feePaid' = TRUE /\ charged' = charged + 1
      BY <2>2 DEF FeePaid
    <3>4. charged \in Nat
      BY <1>5 DEF FeeTypes
    <3>5. ASSUME battle, ~WinnerPay
          PROVE  charged = 0
      <4>1. th[c].pc = "pay"
        BY <1>8 DEF onUpdateUserDiamond, At
      <4>2. /\ charged = IF feePaid THEN 1 ELSE 0
            /\ \A d \in Conn : th[d].pc = "pay" => ~feePaid
        BY <1>5, <3>5, Zenon DEF FeeInv
      <4>3. QED
        BY <4>1, <4>2
    <3>6. battle /\ ~WinnerPay => feePaid' /\ charged' = 1
      BY <3>3, <3>5
    <3>7. feePaid' \in BOOLEAN /\ charged' \in Nat
      BY <3>3, <3>4
    <3>8. QED
      BY <1>2, <1>3, <3>1, <3>2, <3>6, <3>7, AddStep
  <2>3. QED
    BY <1>8, <2>1, <2>2 DEF onUpdateUserDiamond
<1>9. QED
  BY <1>7, <1>8


(* The end of a login: its agent is bound, or its error is answered.       *)
LEMMA LoginEnds ==
  ASSUME GameTableInv, NEW c \in Conn, UNCHANGED battle,
         onSetUserdAndGameTable(c) \/ onDealUserLoginError(c)
  PROVE  GameTableInv'
<1>1. /\ c \in Thread /\ OtherTypes /\ 0 \in 0..Len(obj) /\ {0, 1} \subseteq 0..MaxUserCount
      /\ th[c].pc \in LoginPC => th[c].q = "gs"
  BY ThreadTypes DEF Thread
<1>2. th[c].q = "gs"
  BY <1>1 DEF LoginPC, At, onSetUserdAndGameTable, onDealUserLoginError
<1>3. "gs" \in Queues
  BY DEF Queues
<1>4. CASE onSetUserdAndGameTable(c)
  <2>1. UNCHANGED <<battle, feePaid, charged, seat, obj>>
    BY <1>4 DEF onSetUserdAndGameTable, feeVars
  <2>2. /\ bound' \subseteq Conn
        /\ status' \in {status, "playing"} /\ round' \in {round, "live"}
        /\ UNCHANGED <<owner, rooms, cur, ticking, tid, torn, offline, gsUsers, total, open, refunded>>
    BY <1>1, <1>4 DEF onSetUserdAndGameTable, onCheckGameTableStartGame, OtherTypes, roomVars, roundVars, serverVars, agentVars, feeVars
  <2>3. OtherTypes'
    BY <1>1, <2>2 DEF OtherTypes
  <2>4. Finish(c) \/ th' = [th EXCEPT ![c] = Frame("tail", "gs", 0, 0)]
    BY <1>2, <1>4 DEF onSetUserdAndGameTable, Suspend
  <2>5. CASE Finish(c)
    BY <1>1, <2>1, <2>3, <2>5, FinishStep
  <2>6. CASE th' = [th EXCEPT ![c] = Frame("tail", "gs", 0, 0)]
    <3>1. "tail" \in PC /\ "tail" \notin LoginPC
      BY DEF PC, LoginPC
    <3>2. QED
      BY <1>1, <1>2, <1>3, <2>1, <2>3, <2>6, <3>1, SuspendStep
  <2>7. QED
    BY <2>4, <2>5, <2>6
<1>5. CASE onDealUserLoginError(c)
  <2>1. UNCHANGED <<battle, feePaid, charged, seat, obj>>
    BY <1>5 DEF onDealUserLoginError
  <2>2. tid' \cup torn' \subseteq User /\ refunded' \in Nat => OtherTypes'
    BY <1>1, <1>5 DEF onDealUserLoginError, OtherTypes, roomVars, roundVars, serverVars, agentVars, feeVars
  <2>3. CASE isBattleOwner(UserOf[c])
    <3>1. onDismissBattleRoom(c, "gs")
      BY <1>5, <2>3 DEF onDealUserLoginError
    <3>2. QED
      BY <1>1, <1>2, <1>3, <2>1, <2>2, <3>1, DismissStep
  <2>4. CASE ~isBattleOwner(UserOf[c])
    <3>1. Finish(c) /\ UNCHANGED <<tid, torn, refunded>>
      BY <1>5, <2>4 DEF onDealUserLoginError
    <3>2. OtherTypes'
      BY <1>1, <2>2, <3>1 DEF OtherTypes
    <3>3. QED
      BY <1>1, <2>1, <3>1, <3>2, FinishStep
  <2>5. QED
    BY <2>3, <2>4
<1>6. QED
  BY <1>4, <1>5

(* A step that leaves every handler where it is.                           *)
LEMMA IdleStep ==
  ASSUME GameTableInv, NEW t \in Thread, th[t] = Idle, UNCHANGED th,
         UNCHANGED <<battle, feePaid, charged, seat, obj>>, OtherTypes'
  PROVE  GameTableInv'
<1>1. th \in [Thread -> Frames]
  BY TypesAre DEF GameTableInv
<1>2. Finish(t)
  BY <1>1 DEF Finish
<1>3. QED
  BY <1>2, FinishStep

(* Logout, disconnection and what onDisconnect does after it.              *)
LEMMA GoingStep ==
  ASSUME GameTableInv, NEW c \in Conn, UNCHANGED battle,
         \/ \E leave \in BOOLEAN : onClientCmdLogout(c, leave)
         \/ disconnect(c)
         \/ onDisconnect(c)
  PROVE  GameTableInv'
<1>1. /\ c \in Thread /\ OtherTypes /\ 0 \in 0..Len(obj) /\ 0 \in 0..MaxUserCount
      /\ UserOf[c] \in User
  BY ThreadTypes, GameTableAssumption DEF Thread
<1>2. {"cs", "none"} \subseteq Queues
  BY DEF Queues
<1>3. CASE \E leave \in BOOLEAN : onClientCmdLogout(c, leave)
  <2>1. PICK leave \in BOOLEAN : onClientCmdLogout(c, leave)
    BY <1>3
  <2>2. /\ UNCHANGED <<battle, feePaid, charged, seat, obj>>
        /\ onGetUserByUserId(UserOf[c]) # 0
    BY <2>1 DEF onClientCmdLogout, Command
  <2>3. tid' \cup torn' \subseteq User /\ refunded' \in Nat => OtherTypes'
    BY <1>1, <2>1 DEF onClientCmdLogout, OtherTypes, roomVars, roundVars, serverVars, agentVars, feeVars
  <2>4. CASE onDismissBattleRoom(c, "cs")
    BY <1>1, <1>2, <2>2, <2>3, <2>4, DismissStep
  <2>5. CASE onDealUserLogoutTableSuccess(c, UserOf[c], "cs", 0) /\ UNCHANGED refunded
    <3>1. tid' \cup torn' \subseteq User => OtherTypes'
      BY <1>1, <2>3, <2>5 DEF OtherTypes
    <3>2. QED
      BY <1>1, <1>2, <2>2, <2>5, <3>1, LogoutStep
  <2>6. QED
    BY <2>1, <2>4, <2>5 DEF onClientCmdLogout
<1>4. CASE disconnect(c)
  <2>1. UNCHANGED <<battle, feePaid, charged, seat, obj>> /\ th[c] = Idle
    BY <1>4 DEF disconnect, feeVars
  <2>2. OtherTypes'
    BY <1>1, <1>4 DEF disconnect, OtherTypes, roomVars, roundVars, serverVars, agentVars, feeVars
  <2>3. UNCHANGED th \/ th' = [th EXCEPT ![c] = Frame("offline", "none", 0, 0)]
    BY <1>4 DEF disconnect
  <2>4. "offline" \in PC /\ "offline" \notin LoginPC
    BY DEF PC, LoginPC
  <2>5. CASE UNCHANGED th
    BY <1>1, <2>1, <2>2, <2>5, IdleStep
  <2>6. CASE th' = [th EXCEPT ![c] = Frame("offline", "none", 0, 0)]
    BY <1>1, <1>2, <2>1, <2>2, <2>4, <2>6, SuspendStep
  <2>7. QED
    BY <2>3, <2>5, <2>6
<1>5. CASE onDisconnect(c)
  <2>1. /\ UNCHANGED <<battle, feePaid, charged, seat, obj>>
        /\ tid' \cup torn' \subseteq User => OtherTypes'
    BY <1>1, <1>5 DEF onDisconnect, OtherTypes, roomVars, roundVars, serverVars, agentVars, feeVars
  <2>2. CASE onGetUserByUserId(UserOf[c]) # 0 /\ onDealUserLogoutTableSuccess(c, UserOf[c], "none", 0)
    BY <1>1, <1>2, <2>1, <2>2, LogoutStep
  <2>3. CASE Finish(c) /\ UNCHANGED <<tid, torn>>
    <3>1. OtherTypes'
      BY <1>1, <2>1, <2>3 DEF OtherTypes
    <3>2. QED
      BY <1>1, <2>1, <2>3, <3>1, FinishStep
  <2>4. QED
    BY <1>5, <2>2, <2>3 DEF onDisconnect
<1>6. QED
  BY <1>3, <1>4, <1>5

(* Ready: only m_ready of one GameUser changes.                            *)
LEMMA ReadyStep ==
  ASSUME GameTableInv, NEW c \in Conn, UNCHANGED battle, onClientCmdReady(c)
  PROVE  GameTableInv'
<1>1. /\ c \in Thread /\ OtherTypes /\ 0 \in 0..Len(obj) /\ 0 \in 0..MaxUserCount
      /\ Len(obj) \in Nat
  BY ThreadTypes DEF Thread
<1>2. SeatTypes /\ th \in [Thread -> Frames]
  BY TypesAre DEF GameTableInv
<1>3. UNCHANGED <<battle, feePaid, charged, seat>> /\ th[c] = Idle
  BY DEF onClientCmdReady, feeVars, Command
<1>4. OtherTypes'
  <2>1. /\ status' \in {status, "playing"} /\ round' \in {round, "live"}
        /\ UNCHANGED <<refunded, owner, rooms, cur, ticking, tid, torn, offline, gsUsers, total, open, bound>>
    BY DEF onClientCmdReady, onCheckGameTableStartGame, OtherTypes, roomVars, roundVars, serverVars, agentVars, feeVars
  <2>2. QED
    BY <1>1, <2>1 DEF OtherTypes
<1>5. PICK o \in 1..Len(obj) : obj' = [obj EXCEPT ![o].ready = TRUE]
  <2>1. /\ obj' = [obj EXCEPT ![onGetUserByUserId(UserOf[c])].ready = TRUE]
        /\ onGetUserByUserId(UserOf[c]) # 0
    BY DEF onClientCmdReady, Command
  <2>2. onGetUserByUserId(UserOf[c]) \in 1..Len(obj)
    BY <1>1, <2>1, LookupType DEF GameTableInv
  <2>3. QED
    BY <2>1, <2>2
<1>6. /\ obj' \in Seq(Players) /\ Len(obj') = Len(obj)
      /\ \A p \in 1..Len(obj) : obj'[p].user = obj[p].user
  <2>1. obj \in Seq(Players) /\ \A p \in 1..Len(obj) : obj[p] \in Players
    BY <1>2 DEF SeatTypes
  <2>2. [obj[o] EXCEPT !.ready = TRUE] \in Players /\ [obj[o] EXCEPT !.ready = TRUE].user = obj[o].user
    BY <2>1 DEF Players
  <2>3. obj' = [obj EXCEPT ![o] = [obj[o] EXCEPT !.ready = TRUE]]
    BY <1>5
  <2>4. QED
    BY <2>1, <2>2, <2>3
<1>7. SeatTypes' /\ SeatsKept
  BY <1>2, <1>3, <1>6 DEF SeatTypes, SeatsKept
<1> DEFINE f == IF UNCHANGED th THEN Idle ELSE Frame("tail", "cs", 0, 0)
<1>8. f = Idle \/ f = Frame("tail", "cs", 0, 0)
  OBVIOUS
<1>9. th' = [th EXCEPT ![c] = f]
  BY <1>2, <1>3 DEF onClientCmdReady
<1> HIDE DEF f
<1>10. f \in Frames' /\ FrameOK(c, f) /\ f.pc # "pay"
  <2>1. 0 \in 0..Len(obj')
    BY <1>1, <1>6
  <2>2. CASE f = Idle
    BY <1>1, <2>1, <2>2 DEF Frames, PC, FrameOK, LoginPC, Frame, Idle
  <2>3. CASE f = Frame("tail", "cs", 0, 0)
    BY <1>1, <2>1, <2>3 DEF Frames, PC, FrameOK, LoginPC, Frame
  <2>4. QED
    BY <1>8, <2>2, <2>3
<1>11. Len(obj) <= Len(obj')
  BY <1>1, <1>6
<1>12. QED
  BY <1>1, <1>3, <1>4, <1>7, <1>9, <1>10, <1>11, HandlerStep

(* The end of a round.                                                     *)
LEMMA StopRoundStep ==
  ASSUME GameTableInv, NEW t \in Thread, UNCHANGED battle, onGameStopRound(t)
  PROVE  GameTableInv'
<1>1. /\ OtherTypes /\ 0 \in 0..Len(obj) /\ 0 \in 0..MaxUserCount
  BY ThreadTypes
<1>2. UNCHANGED <<battle, feePaid, charged, seat, obj>> /\ th[t] = Idle
  BY DEF onGameStopRound, feeVars, Command
<1>3. OtherTypes'
  <2>1. /\ status' \in {"stop", "playing"} /\ round' \in {"none", "over"}
        /\ UNCHANGED <<refunded, owner, rooms, tid, torn, offline, gsUsers, total, open, bound>>
    BY DEF onGameStopRound, OtherTypes, roomVars, roundVars, serverVars, agentVars, feeVars
  <2>2. cur' \in 0..RoundNum
    <3>1. cur' = cur \/ (cur # RoundNum /\ cur' = cur + 1)
      BY DEF onGameStopRound
    <3>2. cur \in 0..RoundNum /\ RoundNum \in Nat
      BY <1>1, GameTableAssumption DEF OtherTypes
    <3>3. QED
      BY <3>1, <3>2
  <2>3. ticking' \in BOOLEAN
    BY <1>1 DEF onGameStopRound, OtherTypes, Dies
  <2>4. QED
    BY <1>1, <2>1, <2>2, <2>3 DEF OtherTypes
<1>4. PICK q \in {"none", "cs"} :
        UNCHANGED th \/ Finish(t) \/ th' = [th EXCEPT ![t] = Frame("settle", q, 0, 0)]
  BY DEF onGameStopRound, Dies
<1>5. "settle" \in PC /\ "settle" \notin LoginPC /\ q \in Queues
  BY DEF PC, LoginPC, Queues
<1>6. CASE UNCHANGED th
  BY <1>2, <1>3, <1>6, IdleStep
<1>7. CASE Finish(t)
  BY <1>2, <1>3, <1>7, FinishStep
<1>8. CASE th' = [th EXCEPT ![t] = Frame("settle", q, 0, 0)]
  BY <1>1, <1>2, <1>3, <1>5, <1>8, SuspendStep
<1>9. QED
  BY <1>4, <1>6, <1>7, <1>8

LEMMA SettleStep ==
  ASSUME GameTableInv, NEW t \in Thread, UNCHANGED battle, onUpdateMoneyExpAndLogEx(t)
  PROVE  GameTableInv'
<1>1. /\ OtherTypes /\ 0 \in 0..Len(obj) /\ 0 \in 0..MaxUserCount /\ Len(obj) \in Nat
  BY ThreadTypes
<1>2. SeatTypes
  BY TypesAre DEF GameTableInv
<1>3. UNCHANGED <<battle, feePaid, charged, seat>>
  BY DEF onUpdateMoneyExpAndLogEx, feeVars
<1>4. Finish(t)
  BY DEF onUpdateMoneyExpAndLogEx, Dies
<1>5. OtherTypes'
  <2>1. /\ round' \in {round, "none"} /\ ticking' \in BOOLEAN
        /\ UNCHANGED <<status, refunded, owner, rooms, cur, tid, torn, offline, gsUsers, total, open, bound>>
    BY <1>1 DEF onUpdateMoneyExpAndLogEx, Dies, OtherTypes, roomVars, roundVars, serverVars, agentVars, feeVars
  <2>2. QED
    BY <1>1, <2>1 DEF OtherTypes
<1>6. PICK cleared : obj' = [o \in DOMAIN obj |->
                               IF o \in cleared THEN [obj[o] EXCEPT !.ready = FALSE] ELSE obj[o]]
  <2> DEFINE reached == {i \in Seat : \A j \in 1..i : seat[j] # 0}
  <2> DEFINE cl == {o \in DOMAIN obj : \E i \in reached : seat[i] = o}
  <2>1. obj' = [o \in DOMAIN obj |->
                  IF \E i \in reached : seat[i] = o
                  THEN [obj[o] EXCEPT !.ready = FALSE] ELSE obj[o]]
    BY DEF onUpdateMoneyExpAndLogEx
  <2> HIDE DEF reached
  <2>2. obj' = [o \in DOMAIN obj |->
                  IF o \in cl THEN [obj[o] EXCEPT !.ready = FALSE] ELSE obj[o]]
    BY <2>1
  <2> HIDE DEF cl
  <2>3. QED
    BY <2>2
<1>7. /\ obj' \in Seq(Players) /\ Len(obj') = Len(obj)
      /\ \A p \in 1..Len(obj) : obj'[p].user = obj[p].user
  <2>1. DOMAIN obj = 1..Len(obj) /\ \A p \in 1..Len(obj) : obj[p] \in Players
    BY <1>2 DEF SeatTypes
  <2>2. \A p \in 1..Len(obj) : obj'[p] \in Players /\ obj'[p].user = obj[p].user
    <3>1. TAKE p \in 1..Len(obj)
    <3>2. [obj[p] EXCEPT !.ready = FALSE] \in Players /\ [obj[p] EXCEPT !.ready = FALSE].user = obj[p].user
      BY <2>1 DEF Players
    <3>3. QED
      BY <1>6, <2>1, <3>2
  <2>3. obj' \in [1..Len(obj) -> Players]
    BY <1>6, <2>1, <2>2
  <2>4. QED
    BY <1>1, <2>2, <2>3
<1>8. SeatTypes' /\ SeatsKept
  BY <1>2, <1>3, <1>7 DEF SeatTypes, SeatsKept
<1>9. Idle \in Frames' /\ FrameOK(t, Idle) /\ Idle.pc # "pay"
  <2>1. 0 \in 0..Len(obj')
    BY <1>1, <1>7
  <2>2. QED
    BY <1>1, <2>1 DEF Frames, PC, FrameOK, LoginPC, Frame, Idle
<1>10. th' = [th EXCEPT ![t] = Idle]
  BY <1>4 DEF Finish
<1>11. Len(obj) <= Len(obj')
  BY <1>1, <1>7
<1>12. QED
  BY <1>1, <1>3, <1>5, <1>8, <1>9, <1>10, <1>11, HandlerStep


LEMMA InitHolds == Init => GameTableInv
<1> SUFFICES ASSUME Init PROVE GameTableInv
  OBVIOUS
<1>1. Len(obj) = 0 /\ obj \in Seq(Players)
  BY DEF Init
<1>2. seat \in [Seat -> 0..Len(obj)]
  BY <1>1 DEF Init
<1>3. th \in [Thread -> Frames] /\ \A t \in Thread : th[t].pc = "idle" /\ th[t].q = "none"
  <2>1. Idle \in Frames /\ Idle.pc = "idle" /\ Idle.q = "none"
    BY <1>1, GameTableAssumption DEF Idle, Frame, Frames, PC
  <2>2. QED
    BY <2>1 DEF Init
<1>4. OtherTypes
  <2>1. /\ status = "stop" /\ owner = {} /\ cur = 0 /\ round = "none" /\ ticking = TRUE
        /\ tid = {} /\ offline = {} /\ gsUsers = {} /\ total = 0 /\ bound = {}
        /\ rooms = 0 /\ refunded = 0 /\ torn = {}
    BY DEF Init
  <2>2. open \subseteq Conn
    BY GameTableAssumption DEF Init
  <2>3. 0 \in 0..RoundNum /\ 0 \in 0..MaxRoom
    BY GameTableAssumption
  <2>4. QED
    BY <2>1, <2>2, <2>3 DEF OtherTypes
<1>5. FeeTypes
  BY Zenon, 0 \in Nat DEF FeeTypes, Init
<1>6. Types
  BY <1>1, <1>2, <1>3, <1>4, <1>5, TypesAre DEF SeatTypes
<1>7. \A t \in Thread : th[t].pc \notin LoginPC \cup {"remove", "clear", "left", "redis"}
  BY <1>3 DEF LoginPC
<1>8. QueueInv /\ LogoutInv
  BY <1>3, <1>7 DEF QueueInv, LogoutInv
<1>9. \A i \in Seat : seat[i] = 0
  BY DEF Init
<1>10. \A c \in Conn : th[c].pc # "pay"
  BY <1>3 DEF Thread
<1>11. SeatInv
  BY <1>9, <1>10 DEF SeatInv
<1>12. FeeInv
  BY <1>9, <1>10 DEF FeeInv, Init
<1>13. QED
  BY <1>6, <1>8, <1>11, <1>12 DEF GameTableInv

LEMMA NextKeeps == GameTableInv /\ [Next]_vars => GameTableInv'
<1> SUFFICES ASSUME GameTableInv, [Next]_vars PROVE GameTableInv'
  OBVIOUS
<1>1. ASSUME NEW c \in Conn, Begin(c), UNCHANGED battle
      PROVE  GameTableInv'
  <2>1. CASE onClientCmdCreateBattleRoom(c) \/ onClientCmdLogin(c)
    BY <1>1, <2>1, EnterStep
  <2>2. CASE onClientCmdReady(c)
    BY <1>1, <2>2, ReadyStep
  <2>3. CASE (\E leave \in BOOLEAN : onClientCmdLogout(c, leave)) \/ disconnect(c)
    BY <1>1, <2>3, GoingStep
  <2>4. QED
    BY <1>1, <2>1, <2>2, <2>3 DEF Begin
<1>2. ASSUME NEW c \in Conn, LoginStep(c) \/ onDisconnect(c), UNCHANGED battle
      PROVE  GameTableInv'
  <2>1. CASE onDisconnect(c)
    BY <1>2, <2>1, GoingStep
  <2>2. CASE onGetUserInfo(c) \/ onUpdateUserDiamond(c)
    BY <1>2, <2>2, SeatingStep
  <2>3. CASE onSetUserdAndGameTable(c) \/ onDealUserLoginError(c)
    BY <1>2, <2>3, LoginEnds
  <2>4. CASE \/ onCheckTableStatus(c)
             \/ onCheckUserCertification(c)
             \/ onCheckUserMTkey(c)
             \/ onDealUserReconnectTableSuccess(c)
             \/ onClearOnUserDisconnect(c)
             \/ onDealUserLoginTableRedis(c)
             \/ onGameTableUpdateTableData(c)
    BY <1>2, <2>4, LoginWaits
  <2>5. QED
    BY <1>2, <2>1, <2>2, <2>3, <2>4 DEF LoginStep
<1>3. ASSUME NEW t \in Thread, onGameStopRound(t) \/ Resume(t), UNCHANGED battle
      PROVE  GameTableInv'
  <2>1. CASE onGameStopRound(t)
    BY <1>3, <2>1, StopRoundStep
  <2>2. CASE Answered(t) \/ onRemoveUser(t) \/ Left(t) \/ Kick(t)
    BY <1>3, <2>2, LeavingStep
  <2>3. CASE ClearSeat(t) \/ onResetTable(t)
    BY <1>3, <2>3, EmptyingStep
  <2>4. CASE t # Timer /\ (LoginStep(t) \/ onDisconnect(t))
    BY <1>2, <1>3, <2>4 DEF Thread
  <2>5. CASE onUpdateMoneyExpAndLogEx(t)
    BY <1>3, <2>5, SettleStep
  <2>6. QED
    BY <1>3, <2>1, <2>2, <2>3, <2>4, <2>5 DEF Resume
<1>4. CASE UNCHANGED vars
  BY <1>4, Zenon DEF vars, GameTableInv, Types, TypeOK, QueueInv, SeatInv, FeeInv, LogoutInv,
     Thread, Seat, SeatedUsers, Taken
<1>5. QED
  BY <1>1, <1>3, <1>4 DEF Next

(* The strengthened invariant of the table holds in every state.           *)
THEOREM GameTableInvariant == Spec => []GameTableInv
  BY InitHolds, NextKeeps, PTL DEF Spec

(* No user ever sits on two seats, for any number of users, connections,   *)
(* seats and rooms: onCheckUserStatus's look and onAddNewUser's seat, with *)
(* the charge awaited in between, are under one hold of GameServer's       *)
(* queue.                                                                  *)
THEOREM UsersSitOnce == Spec => []OneSeatPerUser
<1>1. GameTableInv => OneSeatPerUser
  BY DEF GameTableInv, Types, SeatInv, OneSeatPerUser, Taken
<1>2. QED
  BY <1>1, GameTableInvariant, PTL

(* A table takes the fee of an owner-paid room at most once in its life,   *)
(* however many logins of its owners overlap with other handlers, and in   *)
(* its first room nobody sits before it was taken.                         *)
THEOREM FeeIsTakenOnce == Spec => []SeatsArePaidOnce
<1>1. ASSUME GameTableInv
      PROVE  SeatsArePaidOnce
  <2>1. SUFFICES ASSUME battle, ~WinnerPay
                 PROVE  charged <= 1 /\ (rooms <= 1 /\ Taken # {} => charged = 1)
    BY DEF SeatsArePaidOnce, BattleRoom
  <2>2. /\ charged = IF feePaid THEN 1 ELSE 0
        /\ \A i \in Seat : seat[i] # 0 => feePaid
    BY <1>1, <2>1, Zenon DEF GameTableInv, FeeInv
  <2>3. QED
    BY <2>2 DEF Taken
<1>2. QED
  BY <1>1, GameTableInvariant, PTL

-----------------------------------------------------------------------------
(***************************************************************************)
(* The redis records, GameServer's map and the offline list follow the     *)
(* seats, for any number of connections per user.  What a suspended        *)
(* handler still owes is told from where it waits and from the GameUser it *)
(* works on, not from its connection.                                      *)
(***************************************************************************)

(* A handler that is logging a GameUser out, and one that is still at work *)
(* on it.                                                                  *)
Leaving == {"remove", "clear"}
Working == {"redis", "update", "remove", "clear"}

UserAt(t) == obj[th[t].o].user
OnSeat(o) == \E i \in Seat : seat[i] = o

(* Whoever sits has a record, or a handler is about to write it, or has    *)
(* cleared it and will empty the seat.                                     *)
SeatedInv ==
  \A i \in Seat : seat[i] # 0 =>
    \/ obj[seat[i]].user \in tid
    \/ \E t \in Thread : th[t].o = seat[i] /\ th[t].pc \in {"redis", "remove", "clear"}

(* A record is that of a user who sits, unless the user was torn.          *)
StaleInv == \A u \in tid : u \in torn \/ u \in SeatedUsers

(* A login that is to write its record works on a GameUser that sits,      *)
(* unless the user was torn.                                               *)
WriteInv ==
  \A t \in Thread : th[t].pc = "redis" =>
    t \in Conn /\ UserAt(t) = UserOf[t] /\ (UserAt(t) \in torn \/ OnSeat(th[t].o))

(* So does a logout, which has cleared the record.                         *)
LeaveInv ==
  \A t \in Thread : th[t].pc \in Leaving =>
    UserAt(t) \in torn \/ (OnSeat(th[t].o) /\ UserAt(t) \notin tid)

(* Two handlers that work on the same GameUser, one of them a logout, have *)
(* torn its user.                                                          *)
ClashInv ==
  \A s, t \in Thread :
    s # t /\ th[t].pc \in Leaving /\ th[s].pc \in Working /\ th[s].o = th[t].o
      => UserAt(t) \in torn

(* GameServer knows whoever sits, or a login is about to report it or a    *)
(* logout has taken it off the map ...                                     *)
KnownInv ==
  \A i \in Seat : seat[i] # 0 =>
    \/ obj[seat[i]].user \in torn \cup gsUsers
    \/ \E t \in Thread : th[t].o = seat[i] /\ th[t].pc \in {"redis", "update", "clear"}

(* ... and it knows whom a logout will take off.                           *)
RemoveInv == \A t \in Thread : th[t].pc = "remove" => UserAt(t) \in torn \cup gsUsers

CountInv == IsFiniteSet(gsUsers) /\ (torn = {} => total = Cardinality(gsUsers))

RecordInv ==
  /\ SeatedInv /\ StaleInv
  /\ WriteInv /\ LeaveInv /\ ClashInv
  /\ KnownInv /\ RemoveInv /\ CountInv

(* A connection that logs in is alive and not bound; whoever sits is on    *)
(* the offline list or has a connection that is bound or will be.          *)
LoginInv == \A c \in Conn : th[c].pc \in LoginPC => c \in open /\ c \notin bound

Served(c) ==
  /\ c \in open
  /\ \/ c \in bound
     \/ th[c].pc \in {"redis", "bind"}
     \/ th[c].pc = "update" /\ th[c].o # 0

ServedInv ==
  \A i \in Seat : seat[i] # 0 =>
    \/ obj[seat[i]].user \in offline
    \/ \E c \in Conn : UserOf[c] = obj[seat[i]].user /\ Served(c)

-----------------------------------------------------------------------------
(* What the steps below need of the table's invariant.                     *)
Others(t) == \A s \in Thread : s # t => th'[s] = th[s]

UsersKept == \A p \in 1..Len(obj) : obj'[p].user = obj[p].user

LEMMA RecordTypes ==
  ASSUME GameTableInv
  PROVE  /\ th \in [Thread -> Frames] /\ Len(obj) \in Nat
         /\ \A t \in Thread : th[t].o \in 0..Len(obj)
         /\ \A t \in Thread : th[t].pc \in Leaving \cup {"redis"} => th[t].o \in 1..Len(obj)
         /\ \A i \in Seat : seat[i] \in 0..Len(obj)
         /\ \A i \in Seat : seat[i] # 0 => seat[i] \in 1..Len(obj)
         /\ \A i, j \in Seat :
              seat[i] # 0 /\ seat[j] # 0 /\ obj[seat[i]].user = obj[seat[j]].user => i = j
<1>1. th \in [Thread -> Frames] /\ SeatTypes /\ SeatInv /\ LogoutInv
  BY TypesAre DEF GameTableInv
<1>2. Len(obj) \in Nat /\ \A t \in Thread : th[t].o \in 0..Len(obj)
  BY <1>1 DEF SeatTypes, Frames
<1>3. \A t \in Thread : th[t].pc \in Leaving \cup {"redis"} => th[t].o \in 1..Len(obj)
  BY <1>1, <1>2 DEF LogoutInv, Leaving
<1>4. \A i \in Seat : seat[i] \in 0..Len(obj)
  BY <1>1 DEF SeatTypes
<1>5. QED
  BY <1>1, <1>2, <1>3, <1>4 DEF SeatInv

LEMMA Moved ==
  ASSUME GameTableInv, NEW c \in Thread, NEW pc, NEW q, NEW o, NEW k,
         th' = [th EXCEPT ![c] = Frame(pc, q, o, k)]
  PROVE  th'[c].pc = pc /\ th'[c].o = o /\ Others(c)
  BY RecordTypes DEF Frame, Others

LEMMA Ended ==
  ASSUME GameTableInv, NEW c \in Thread, th' = [th EXCEPT ![c] = Idle]
  PROVE  th'[c].pc = "idle" /\ th'[c].o = 0 /\ Others(c)
  BY Moved DEF Idle

LEMMA SeatedMeans == \A u : u \in SeatedUsers <=> \E i \in Seat : seat[i] # 0 /\ obj[seat[i]].user = u
  BY DEF SeatedUsers, Taken

(* onGetUserByUserId answers the GameUser on the only seat of its user.    *)
LEMMA LookupSeat ==
  ASSUME GameTableInv, NEW u
  PROVE  /\ onGetUserByUserId(u) # 0 <=> u \in SeatedUsers
         /\ onGetUserByUserId(u) # 0 => obj[onGetUserByUserId(u)].user = u /\ OnSeat(onGetUserByUserId(u))
         /\ \A i \in Seat : seat[i] # 0 /\ obj[seat[i]].user = u => seat[i] = onGetUserByUserId(u)
<1>1. Types /\ SeatInv
  BY DEF GameTableInv
<1>2. SeatsOf(u) # {} <=> onGetUserByUserId(u) # 0
  BY <1>1, LookupType DEF onGetUserByUserId
<1>3. ASSUME SeatsOf(u) # {}
      PROVE  /\ obj[onGetUserByUserId(u)].user = u /\ OnSeat(onGetUserByUserId(u))
             /\ \A i \in SeatsOf(u) : seat[i] = onGetUserByUserId(u)
  <2>1. SeatsOf(u) \subseteq Nat
    BY GameTableAssumption DEF SeatsOf, Seat
  <2>2. PICK j \in SeatsOf(u) : j = Min(SeatsOf(u))
    BY <1>3, <2>1, MinIsLeast
  <2>3. onGetUserByUserId(u) = seat[j]
    BY <1>3, <2>2 DEF onGetUserByUserId
  <2>4. \A i \in SeatsOf(u) : i \in Seat /\ seat[i] # 0 /\ obj[seat[i]].user = u
    BY DEF SeatsOf
  <2>5. \A i \in SeatsOf(u) : i = j
    BY <1>1, <2>4 DEF SeatInv
  <2>6. QED
    BY <2>3, <2>4, <2>5 DEF OnSeat
<1>4. u \in SeatedUsers <=> SeatsOf(u) # {}
  BY DEF SeatedUsers, SeatsOf, Taken
<1>5. QED
  BY <1>2, <1>3, <1>4 DEF SeatsOf

(* A step that keeps the seats and the users of the GameUsers.             *)
LEMMA SameSeats ==
  ASSUME GameTableInv, UNCHANGED seat, UsersKept
  PROVE  /\ SeatedUsers' = SeatedUsers
         /\ \A i \in Seat : seat[i] # 0 => obj'[seat[i]].user = obj[seat[i]].user
         /\ \A o : OnSeat(o)' <=> OnSeat(o)
<1>1. \A i \in Seat : seat[i] # 0 => obj'[seat[i]].user = obj[seat[i]].user
  BY RecordTypes DEF UsersKept
<1>2. QED
  BY <1>1 DEF SeatedUsers, Taken, OnSeat

-----------------------------------------------------------------------------
(* The records, step by step.                                              *)

(* A handler that works on no GameUser before or after the step, and       *)
(* writes nothing.                                                         *)
LEMMA NeutralRecords ==
  ASSUME GameTableInv, RecordInv, NEW t \in Thread, Others(t), UsersKept,
         UNCHANGED <<seat, tid, gsUsers, total, torn>>, th[t].pc \notin Working,
         th'[t].pc \notin Working \/ (th'[t].pc = "update" /\ th'[t].o = 0)
  PROVE  RecordInv'
<1>1. /\ SeatedUsers' = SeatedUsers
      /\ \A i \in Seat : seat[i] # 0 => obj'[seat[i]].user = obj[seat[i]].user
      /\ \A o : OnSeat(o)' <=> OnSeat(o)
  BY SameSeats
<1>2. \A s \in Thread : th'[s].pc \in Working /\ th'[s].o # 0 => s # t /\ th'[s] = th[s]
  BY DEF Others
<1>3. \A s \in Thread : th[s].pc \in Working => th'[s] = th[s]
  BY DEF Others
<1>4. \A s \in Thread : th'[s].pc \in Leaving \cup {"redis"} =>
         s # t /\ th'[s] = th[s] /\ th[s].o \in 1..Len(obj) /\ UserAt(s)' = UserAt(s)
  <2>1. \A s \in Thread : th'[s].pc \in Leaving \cup {"redis"} => s # t /\ th'[s] = th[s]
    BY DEF Others, Leaving, Working
  <2>2. QED
    BY <2>1, RecordTypes DEF UserAt, UsersKept
<1>5. SeatedInv' /\ KnownInv'
  <2>1. \A i \in Seat, s \in Thread : th[s].pc \in Working /\ th[s].o = seat[i] =>
           th'[s].o = seat'[i] /\ th'[s].pc = th[s].pc
    BY <1>3
  <2>2. SeatedInv'
    BY <1>1, <2>1 DEF RecordInv, SeatedInv, Working
  <2>3. KnownInv'
    BY <1>1, <2>1 DEF RecordInv, KnownInv, Working
  <2>4. QED
    BY <2>2, <2>3
<1>6. StaleInv'
  BY <1>1 DEF RecordInv, StaleInv
<1>7. WriteInv' /\ LeaveInv' /\ RemoveInv'
  BY <1>1, <1>4 DEF RecordInv, WriteInv, LeaveInv, RemoveInv, Leaving, OnSeat
<1>8. ClashInv'
  <2>1. SUFFICES ASSUME NEW r \in Thread, NEW s \in Thread, r # s, th'[s].pc \in Leaving,
                        th'[r].pc \in Working, th'[r].o = th'[s].o
                 PROVE  UserAt(s)' \in torn'
    BY DEF ClashInv
  <2>2. th'[s] = th[s] /\ th'[s].o # 0 /\ UserAt(s)' = UserAt(s)
    BY <1>4, <2>1, RecordTypes
  <2>3. th'[r] = th[r]
    BY <1>2, <2>1, <2>2
  <2>4. QED
    BY <2>1, <2>2, <2>3 DEF RecordInv, ClashInv
<1>9. CountInv'
  BY DEF RecordInv, CountInv
<1>10. QED
  BY <1>5, <1>6, <1>7, <1>8, <1>9 DEF RecordInv

(* A logout begins: it looks the GameUser up and clears the record.        *)
LEMMA LogoutRecords ==
  ASSUME GameTableInv, RecordInv, NEW t \in Thread, NEW u, NEW q, NEW k,
         onDealUserLogoutTableSuccess(t, u, q, k), onGetUserByUserId(u) # 0,
         th[t].pc \notin Working, UNCHANGED <<seat, obj, gsUsers, total>>
  PROVE  RecordInv'
<1>1. PICK o : o = onGetUserByUserId(u)
  OBVIOUS
<1>2. /\ o # 0 /\ obj[o].user = u /\ OnSeat(o)
      /\ \A i \in Seat : seat[i] # 0 /\ obj[seat[i]].user = u => seat[i] = o
  BY <1>1, LookupSeat
<1>3. /\ th' = [th EXCEPT ![t] = Frame("remove", q, o, k)] /\ tid' = tid \ {u}
      /\ torn \subseteq torn' /\ torn' \subseteq torn \cup {u}
      /\ \A s \in Thread : th[s].o = o /\ th[s].pc \in Working => u \in torn'
  BY <1>1 DEF onDealUserLogoutTableSuccess, AtWork, Working
<1>4. th'[t].pc = "remove" /\ th'[t].o = o /\ Others(t)
  BY <1>3, Moved, Zenon
<1>5. \A s \in Thread : s # t => th'[s] = th[s] /\ UserAt(s)' = UserAt(s)
  BY <1>4 DEF Others, UserAt
<1>6. UserAt(t)' = u
  BY <1>2, <1>4 DEF UserAt
<1>7. \A s \in Thread : th[s].pc \in Working => s # t /\ th'[s] = th[s]
  BY <1>5
<1>8. SeatedInv'
  <2>1. SUFFICES ASSUME NEW i \in Seat, seat[i] # 0, obj[seat[i]].user \notin tid'
                 PROVE  \E s \in Thread : th'[s].o = seat[i] /\ th'[s].pc \in {"redis", "remove", "clear"}
    BY DEF SeatedInv
  <2>2. CASE obj[seat[i]].user = u
    BY <1>2, <1>4, <2>1, <2>2
  <2>3. CASE obj[seat[i]].user # u
    <3>1. PICK s \in Thread : th[s].o = seat[i] /\ th[s].pc \in {"redis", "remove", "clear"}
      BY <1>3, <2>1, <2>3 DEF RecordInv, SeatedInv
    <3>2. QED
      BY <1>7, <3>1 DEF Working
  <2>4. QED
    BY <2>2, <2>3
<1>9. StaleInv'
  <2>1. SeatedUsers' = SeatedUsers
    BY DEF SeatedUsers, Taken
  <2>2. QED
    BY <1>3, <2>1 DEF RecordInv, StaleInv
<1>10. WriteInv'
  BY <1>3, <1>4, <1>5 DEF RecordInv, WriteInv, OnSeat
<1>11. LeaveInv'
  <2>1. OnSeat(o)'
    BY <1>2 DEF OnSeat
  <2>2. \A s \in Thread : s # t /\ th'[s].pc \in Leaving =>
          UserAt(s)' \in torn' \/ (OnSeat(th[s].o)' /\ UserAt(s)' \notin tid')
    BY <1>3, <1>5 DEF RecordInv, LeaveInv, OnSeat
  <2>3. u \notin tid'
    BY <1>3
  <2>4. QED
    BY <1>4, <1>6, <2>1, <2>2, <2>3 DEF LeaveInv
<1>12. ClashInv'
  <2>1. SUFFICES ASSUME NEW r \in Thread, NEW s \in Thread, r # s, th'[s].pc \in Leaving,
                        th'[r].pc \in Working, th'[r].o = th'[s].o
                 PROVE  UserAt(s)' \in torn'
    BY DEF ClashInv
  <2>2. CASE s = t
    BY <1>3, <1>4, <1>5, <1>6, <2>1, <2>2
  <2>3. CASE r = t
    <3>1. th[s].o = o /\ th[s].pc \in Working /\ UserAt(s)' = u
      BY <1>2, <1>4, <1>5, <2>1, <2>3 DEF UserAt, Leaving, Working
    <3>2. QED
      BY <1>3, <3>1
  <2>4. CASE s # t /\ r # t
    BY <1>3, <1>5, <2>1, <2>4 DEF RecordInv, ClashInv
  <2>5. QED
    BY <2>2, <2>3, <2>4
<1>13. KnownInv'
  <2>1. SUFFICES ASSUME NEW i \in Seat, seat[i] # 0, obj[seat[i]].user \notin torn' \cup gsUsers
                 PROVE  \E s \in Thread : th'[s].o = seat[i] /\ th'[s].pc \in {"redis", "update", "clear"}
    BY DEF KnownInv
  <2>2. PICK s \in Thread : th[s].o = seat[i] /\ th[s].pc \in {"redis", "update", "clear"}
    BY <1>3, <2>1 DEF RecordInv, KnownInv
  <2>3. QED
    BY <1>7, <2>2 DEF Working
<1>14. RemoveInv'
  <2>1. u \in torn' \cup gsUsers
    <3>1. PICK i \in Seat : seat[i] = o
      BY <1>2 DEF OnSeat
    <3>2. \/ u \in torn \cup gsUsers
          \/ \E s \in Thread : th[s].o = o /\ th[s].pc \in {"redis", "update", "clear"}
      BY <1>2, <3>1 DEF RecordInv, KnownInv
    <3>3. QED
      BY <1>3, <3>2 DEF Working
  <2>2. QED
    BY <1>3, <1>4, <1>5, <1>6, <2>1 DEF RecordInv, RemoveInv
<1>15. CountInv'
  BY <1>3 DEF RecordInv, CountInv
<1>16. QED
  BY <1>8, <1>9, <1>10, <1>11, <1>12, <1>13, <1>14, <1>15 DEF RecordInv

(* A user whom two handlers see on a seat sits once, as one GameUser.      *)
LEMMA SameObject ==
  ASSUME GameTableInv, NEW o, NEW p, o # 0, p # 0, OnSeat(o), OnSeat(p), obj[o].user = obj[p].user
  PROVE  o = p
  BY RecordTypes DEF OnSeat

(* GameServer takes the user off its map.                                  *)
LEMMA RemoveRecords ==
  ASSUME GameTableInv, RecordInv, NEW t \in Thread, onRemoveUser(t)
  PROVE  RecordInv'
<1>1. PICK o, v : o = th[t].o /\ v = UserAt(t) /\ v = obj[o].user
  BY DEF UserAt
<1>2. th[t].pc = "remove" /\ th[t].pc \in Leaving /\ o # 0
  BY <1>1, RecordTypes DEF onRemoveUser, At, Leaving
<1>3. /\ gsUsers' = gsUsers \ {v} /\ total' = total - 1 /\ UNCHANGED <<seat, obj, tid, torn>>
      /\ th' = [th EXCEPT ![t] = Frame("clear", th[t].q, o, th[t].k)]
  BY <1>1 DEF onRemoveUser, Suspend
<1>4. th'[t].pc = "clear" /\ th'[t].o = o /\ Others(t)
  BY <1>3, Moved, Zenon
<1>5. \A s \in Thread : th'[s].o = th[s].o /\ UserAt(s)' = UserAt(s) /\ (s # t => th'[s] = th[s])
  BY <1>1, <1>3, <1>4 DEF Others, UserAt
<1>6. \A s \in Thread : /\ th'[s].pc \in Leaving <=> th[s].pc \in Leaving
                        /\ th'[s].pc \in Working <=> th[s].pc \in Working
                        /\ th'[s].pc = "redis" <=> th[s].pc = "redis"
  BY <1>2, <1>4, <1>5 DEF Leaving, Working
<1>7. \A i \in Seat : v \notin torn /\ seat[i] # 0 /\ obj[seat[i]].user = v => seat[i] = o
  <2>1. v \notin torn => OnSeat(o)
    BY <1>1, <1>2 DEF RecordInv, LeaveInv
  <2>2. QED
    BY <1>1, <1>2, <2>1, SameObject DEF OnSeat
<1>8. SeatedInv'
  BY <1>3, <1>5, <1>6 DEF RecordInv, SeatedInv, Leaving
<1>9. StaleInv'
  BY <1>3 DEF RecordInv, StaleInv, SeatedUsers, Taken
<1>10. WriteInv' /\ LeaveInv' /\ ClashInv'
  BY <1>3, <1>5, <1>6 DEF RecordInv, WriteInv, LeaveInv, ClashInv, OnSeat
<1>11. KnownInv'
  <2>1. SUFFICES ASSUME NEW i \in Seat, seat[i] # 0, obj[seat[i]].user \notin torn \cup gsUsers'
                 PROVE  \E s \in Thread : th'[s].o = seat[i] /\ th'[s].pc \in {"redis", "update", "clear"}
    BY <1>3 DEF KnownInv
  <2>2. CASE obj[seat[i]].user = v
    BY <1>4, <1>7, <2>1, <2>2
  <2>3. CASE obj[seat[i]].user # v
    <3>1. PICK s \in Thread : th[s].o = seat[i] /\ th[s].pc \in {"redis", "update", "clear"}
      BY <1>3, <2>1, <2>3 DEF RecordInv, KnownInv
    <3>2. QED
      BY <1>2, <1>5, <3>1
  <2>4. QED
    BY <2>2, <2>3
<1>12. RemoveInv'
  <2>1. SUFFICES ASSUME NEW s \in Thread, th'[s].pc = "remove", UserAt(s)' \notin torn
                 PROVE  UserAt(s)' \in gsUsers'
    BY <1>3 DEF RemoveInv
  <2>2. s # t /\ th[s].pc = "remove" /\ th[s].pc \in Leaving /\ th[s].pc \in Working
    BY <1>4, <1>5, <2>1 DEF Leaving, Working
  <2>3. UserAt(s) \in gsUsers /\ OnSeat(th[s].o) /\ th[s].o # 0
    BY <1>5, <2>1, <2>2, RecordTypes DEF RecordInv, RemoveInv, LeaveInv
  <2>4. UserAt(s) # v
    <3>1. ASSUME UserAt(s) = v PROVE FALSE
      <4>1. OnSeat(o)
        BY <1>1, <1>2, <1>5, <2>1, <3>1 DEF RecordInv, LeaveInv
      <4>2. th[s].o = o
        BY <1>1, <1>2, <2>3, <3>1, <4>1, SameObject DEF UserAt
      <4>3. UserAt(t) \in torn
        BY <1>1, <1>2, <2>2, <4>2 DEF RecordInv, ClashInv
      <4>4. QED
        BY <1>1, <1>5, <2>1, <3>1, <4>3
    <3>2. QED
      BY <3>1
  <2>5. QED
    BY <1>3, <1>5, <2>3, <2>4
<1>13. CountInv'
  <2>1. IsFiniteSet(gsUsers) /\ IsFiniteSet(gsUsers \ {v})
    BY FS_RemoveElement DEF RecordInv, CountInv
  <2>2. ASSUME torn = {} PROVE total' = Cardinality(gsUsers')
    <3>1. v \in gsUsers /\ total = Cardinality(gsUsers)
      BY <1>1, <1>2, <2>2 DEF RecordInv, RemoveInv, CountInv
    <3>2. Cardinality(gsUsers \ {v}) = Cardinality(gsUsers) - 1
      BY <2>1, <3>1, FS_RemoveElement
    <3>3. QED
      BY <1>3, <3>1, <3>2
  <2>3. QED
    BY <1>3, <2>1, <2>2 DEF CountInv
<1>14. QED
  BY <1>8, <1>9, <1>10, <1>11, <1>12, <1>13 DEF RecordInv

(* The seat is emptied.                                                    *)
LEMMA ClearRecords ==
  ASSUME GameTableInv, RecordInv, NEW t \in Thread, ClearSeat(t)
  PROVE  RecordInv'
<1>1. PICK o, v : o = th[t].o /\ v = UserAt(t) /\ v = obj[o].user
  BY DEF UserAt
<1>2. th[t].pc = "clear" /\ th[t].pc \in Leaving /\ o # 0
  BY <1>1, RecordTypes DEF ClearSeat, At, Leaving
<1>3. /\ UNCHANGED <<gsUsers, total, obj, tid, torn>> /\ seat' = Cleared(o)
      /\ th' = [th EXCEPT ![t] = Frame("left", th[t].q, o, th[t].k)]
  BY <1>1 DEF ClearSeat, Suspend, serverVars
<1>4. th'[t].pc = "left" /\ th'[t].o = o /\ Others(t)
  BY <1>3, Moved, Zenon
<1>5. \A s \in Thread : th'[s].o = th[s].o /\ UserAt(s)' = UserAt(s) /\ (s # t => th'[s] = th[s])
  BY <1>1, <1>3, <1>4 DEF Others, UserAt
<1>6. \A s \in Thread : th'[s].pc \in Working \cup Leaving => s # t /\ th'[s] = th[s]
  BY <1>4, <1>5 DEF Leaving, Working
<1>7. \A i \in Seat : seat'[i] = IF seat[i] = o THEN 0 ELSE seat[i]
  BY <1>3 DEF Cleared
<1>8. \A p : p # 0 /\ p # o /\ OnSeat(p) => OnSeat(p)'
  BY <1>7 DEF OnSeat
<1>9. SeatedInv' /\ KnownInv'
  <2>1. \A i \in Seat, s \in Thread : seat'[i] # 0 /\ th[s].o = seat'[i] => th'[s] = th[s]
    BY <1>1, <1>5, <1>7
  <2>2. \A i \in Seat : seat'[i] # 0 => seat'[i] = seat[i] /\ seat[i] # 0
    BY <1>7
  <2>3. SeatedInv'
    BY <1>3, <2>1, <2>2 DEF RecordInv, SeatedInv
  <2>4. KnownInv'
    BY <1>3, <2>1, <2>2 DEF RecordInv, KnownInv
  <2>5. QED
    BY <2>3, <2>4
<1>10. StaleInv'
  <2>1. SUFFICES ASSUME NEW u \in tid, u \notin torn PROVE \E i \in Seat : seat'[i] # 0 /\ obj[seat'[i]].user = u
    BY <1>3 DEF StaleInv, SeatedUsers, Taken
  <2>2. PICK i \in Seat : seat[i] # 0 /\ obj[seat[i]].user = u
    BY <2>1 DEF RecordInv, StaleInv, SeatedUsers, Taken
  <2>3. seat[i] # o
    BY <1>1, <1>2, <2>1, <2>2 DEF RecordInv, LeaveInv
  <2>4. QED
    BY <1>7, <2>2, <2>3
<1>11. WriteInv' /\ LeaveInv'
  <2>1. ASSUME NEW s \in Thread, th'[s].pc \in Leaving \cup {"redis"}, UserAt(s) \notin torn, OnSeat(th[s].o)
        PROVE  OnSeat(th[s].o)'
    <3>1. s # t /\ th'[s] = th[s] /\ th[s].pc \in Working /\ th[s].o # 0
      BY <1>6, <2>1, RecordTypes DEF Leaving, Working
    <3>2. th[s].o # o
      <4>1. ASSUME th[s].o = o PROVE FALSE
        <5>1. UserAt(t) \in torn
          BY <1>1, <1>2, <3>1, <4>1 DEF RecordInv, ClashInv
        <5>2. QED
          BY <1>1, <2>1, <4>1, <5>1 DEF UserAt
      <4>2. QED
        BY <4>1
    <3>3. PICK p : p = th[s].o /\ p # 0 /\ p # o /\ OnSeat(p)
      BY <2>1, <3>1, <3>2
    <3>4. OnSeat(p)'
      BY <1>8, <3>3
    <3>5. QED
      BY <1>5, <3>3, <3>4 DEF OnSeat
  <2>2. WriteInv'
    <3>1. SUFFICES ASSUME NEW s \in Thread, th'[s].pc = "redis"
                   PROVE  s \in Conn /\ UserAt(s)' = UserOf[s] /\ (UserAt(s)' \in torn' \/ OnSeat(th[s].o)')
      BY DEF WriteInv
    <3>2. th[s].pc = "redis"
      BY <1>6, <3>1 DEF Working
    <3>3. QED
      BY <1>3, <1>5, <2>1, <3>1, <3>2 DEF RecordInv, WriteInv
  <2>3. LeaveInv'
    <3>1. SUFFICES ASSUME NEW s \in Thread, th'[s].pc \in Leaving
                   PROVE  UserAt(s)' \in torn' \/ (OnSeat(th[s].o)' /\ UserAt(s)' \notin tid')
      BY DEF LeaveInv
    <3>2. th[s].pc \in Leaving
      BY <1>6, <3>1
    <3>3. QED
      BY <1>3, <1>5, <2>1, <3>1, <3>2 DEF RecordInv, LeaveInv
  <2>4. QED
    BY <2>2, <2>3
<1>12. ClashInv' /\ RemoveInv'
  BY <1>3, <1>5, <1>6 DEF RecordInv, ClashInv, RemoveInv, Leaving
<1>13. CountInv'
  BY <1>3 DEF RecordInv, CountInv
<1>14. QED
  BY <1>9, <1>10, <1>11, <1>12, <1>13 DEF RecordInv

(* The table is reset at the end of a dismissal: whoever still sits is     *)
(* torn.                                                                   *)
LEMMA ResetRecords ==
  ASSUME GameTableInv, RecordInv, NEW t \in Thread, onResetTable(t)
  PROVE  RecordInv'
<1>1. th[t].pc = "reset" /\ th' = [th EXCEPT ![t] = Frame("tail", th[t].q, 0, 0)]
  BY DEF onResetTable, At, Suspend
<1>2. /\ UNCHANGED <<gsUsers, total, obj, tid>> /\ torn' = torn \cup SeatedUsers
      /\ \A i \in Seat : seat'[i] = 0
  BY DEF onResetTable
<1>3. th'[t].pc = "tail" /\ Others(t)
  BY <1>1, Moved, Zenon
<1>4. \A s \in Thread : th'[s].pc \in Working \cup Leaving =>
         th'[s] = th[s] /\ UserAt(s)' = UserAt(s)
  BY <1>2, <1>3 DEF Others, UserAt, Leaving, Working
<1>5. \A s \in Thread : th[s].o # 0 /\ OnSeat(th[s].o) => UserAt(s) \in SeatedUsers
  BY DEF OnSeat, UserAt, SeatedUsers, Taken
<1>6. SeatedInv' /\ KnownInv' /\ CountInv'
  BY <1>2 DEF RecordInv, SeatedInv, KnownInv, CountInv
<1>7. StaleInv'
  BY <1>2 DEF RecordInv, StaleInv
<1>8. \A s \in Thread : th'[s].pc \in Leaving \cup {"redis"} =>
         th'[s] = th[s] /\ UserAt(s)' = UserAt(s) /\ UserAt(s) \in torn'
  <2>1. SUFFICES ASSUME NEW s \in Thread, th'[s].pc \in Leaving \cup {"redis"}
                 PROVE  th'[s] = th[s] /\ UserAt(s)' = UserAt(s) /\ UserAt(s) \in torn'
    OBVIOUS
  <2>2. th'[s] = th[s] /\ UserAt(s)' = UserAt(s) /\ th[s].o # 0
    BY <1>4, <2>1, RecordTypes DEF Working
  <2>3. UserAt(s) \in torn \/ OnSeat(th[s].o)
    BY <2>1, <2>2 DEF RecordInv, WriteInv, LeaveInv
  <2>4. QED
    BY <1>2, <1>5, <2>2, <2>3
<1>9. WriteInv' /\ LeaveInv' /\ ClashInv' /\ RemoveInv'
  BY <1>2, <1>8 DEF RecordInv, WriteInv, LeaveInv, ClashInv, RemoveInv, Leaving
<1>10. QED
  BY <1>6, <1>7, <1>9 DEF RecordInv

(* A user gets a seat.                                                     *)
LEMMA SeatRecords ==
  ASSUME GameTableInv, RecordInv, NEW c \in Conn, NEW ready \in BOOLEAN, onAddNewUser(c, ready),
         th[c].pc \notin Working, UNCHANGED <<tid, torn, gsUsers, total>>
  PROVE  RecordInv'
<1>1. c \in Thread
  BY DEF Thread
<1>2. CASE Seat \ Taken = {}
  <2>1. th' = [th EXCEPT ![c] = Idle] /\ UNCHANGED <<seat, obj>>
    BY <1>2 DEF onAddNewUser, Finish
  <2>2. th'[c].pc = "idle" /\ Others(c) /\ UsersKept
    BY <1>1, <2>1, Ended DEF UsersKept
  <2>3. th'[c].pc \notin Working
    BY <2>2 DEF Working
  <2>4. QED
    BY <1>1, <2>1, <2>2, <2>3, NeutralRecords
<1>3. CASE Seat \ Taken # {}
  <2>1. PICK n, k : n = Len(obj) + 1 /\ k = Min(Seat \ Taken)
    OBVIOUS
  <2>2. /\ obj' = Append(obj, [user |-> UserOf[c], ready |-> ready])
        /\ seat' = [seat EXCEPT ![k] = n]
        /\ th' = [th EXCEPT ![c] = Frame("redis", th[c].q, n, 0)]
    BY <1>3, <2>1 DEF onAddNewUser, Suspend
  <2>3. k \in Seat /\ seat[k] = 0
    <3>1. Seat \ Taken \subseteq Nat
      BY GameTableAssumption DEF Seat
    <3>2. QED
      BY <1>3, <2>1, <3>1, MinIsLeast DEF Taken
  <2>4. th'[c].pc = "redis" /\ th'[c].o = n /\ Others(c)
    BY <1>1, <2>2, Moved, Zenon
  <2>5. /\ obj \in Seq(Players) /\ seat \in [Seat -> 0..Len(obj)] /\ Len(obj) \in Nat
        /\ \A s \in Thread : th[s].o \in 0..Len(obj)
        /\ \A i \in Seat : seat[i] # 0 => seat[i] \in 1..Len(obj)
    BY TypesAre, RecordTypes DEF GameTableInv, SeatTypes
  <2>6. n # 0 /\ n \notin 0..Len(obj) /\ obj'[n].user = UserOf[c] /\ \A p \in 1..Len(obj) : obj'[p] = obj[p]
    BY <2>1, <2>2, <2>5
  <2>7. \A i \in Seat : seat'[i] = IF i = k THEN n ELSE seat[i]
    BY <2>2, <2>5
  <2>8. \A s \in Thread : s # c => th'[s] = th[s]
    BY <2>4 DEF Others
  <2>9. \A s \in Thread : s # c /\ th[s].pc \in Leaving \cup {"redis"} =>
           UserAt(s)' = UserAt(s) /\ th[s].o # n
    BY <2>5, <2>6, <2>8, RecordTypes DEF UserAt
  <2>10. \A p : p # 0 /\ OnSeat(p) => OnSeat(p)'
    BY <2>3, <2>7 DEF OnSeat
  <2>11. \A i \in Seat : i # k /\ seat[i] # 0 => obj'[seat'[i]].user = obj[seat[i]].user
    BY <2>5, <2>6, <2>7
  <2>12. UserAt(c)' = UserOf[c] /\ OnSeat(n)'
    BY <2>3, <2>4, <2>6, <2>7 DEF UserAt, OnSeat
  <2>13. \A s \in Thread : th[s].pc \in Working => s # c /\ th'[s] = th[s]
    BY <2>8
  <2>14. SeatedInv' /\ KnownInv'
    <3>1. \A i \in Seat : i = k => th'[c].o = seat'[i]
      BY <2>4, <2>7
    <3>2. \A i \in Seat, s \in Thread : i # k /\ th[s].pc \in Working /\ th[s].o = seat[i] =>
             th'[s].o = seat'[i] /\ th'[s].pc = th[s].pc
      BY <2>7, <2>13
    <3>3. \A i \in Seat : seat'[i] # 0 /\ i # k => seat[i] # 0
      BY <2>7
    <3>4. SeatedInv'
      <4>1. SUFFICES ASSUME NEW i \in Seat, seat'[i] # 0, obj'[seat'[i]].user \notin tid
                     PROVE  \E s \in Thread : th'[s].o = seat'[i] /\ th'[s].pc \in {"redis", "remove", "clear"}
        BY DEF SeatedInv
      <4>2. CASE i = k
        BY <1>1, <2>4, <3>1, <4>2
      <4>3. CASE i # k
        <5>1. PICK s \in Thread : th[s].o = seat[i] /\ th[s].pc \in {"redis", "remove", "clear"}
          BY <2>11, <3>3, <4>1, <4>3 DEF RecordInv, SeatedInv
        <5>2. QED
          BY <3>2, <4>3, <5>1 DEF Working
      <4>4. QED
        BY <4>2, <4>3
    <3>5. KnownInv'
      <4>1. SUFFICES ASSUME NEW i \in Seat, seat'[i] # 0, obj'[seat'[i]].user \notin torn \cup gsUsers
                     PROVE  \E s \in Thread : th'[s].o = seat'[i] /\ th'[s].pc \in {"redis", "update", "clear"}
        BY DEF KnownInv
      <4>2. CASE i = k
        BY <1>1, <2>4, <3>1, <4>2
      <4>3. CASE i # k
        <5>1. PICK s \in Thread : th[s].o = seat[i] /\ th[s].pc \in {"redis", "update", "clear"}
          BY <2>11, <3>3, <4>1, <4>3 DEF RecordInv, KnownInv
        <5>2. QED
          BY <3>2, <4>3, <5>1 DEF Working
      <4>4. QED
        BY <4>2, <4>3
    <3>6. QED
      BY <3>4, <3>5
  <2>15. StaleInv'
    <3>1. SUFFICES ASSUME NEW u \in tid, u \notin torn PROVE \E i \in Seat : seat'[i] # 0 /\ obj'[seat'[i]].user = u
      BY DEF StaleInv, SeatedUsers, Taken
    <3>2. PICK i \in Seat : seat[i] # 0 /\ obj[seat[i]].user = u
      BY <3>1 DEF RecordInv, StaleInv, SeatedUsers, Taken
    <3>3. QED
      BY <2>3, <2>7, <2>11, <3>2
  <2>16. WriteInv' /\ LeaveInv'
    <3>1. ASSUME NEW s \in Thread, s # c, th[s].pc \in Leaving \cup {"redis"}, OnSeat(th[s].o)
          PROVE  OnSeat(th[s].o)'
      <4>1. PICK p : p = th[s].o /\ p # 0 /\ OnSeat(p) /\ p = th'[s].o
        BY <2>8, <3>1, RecordTypes
      <4>2. OnSeat(p)'
        BY <2>10, <4>1
      <4>3. QED
        BY <4>1, <4>2 DEF OnSeat
    <3>2. WriteInv'
      <4>1. SUFFICES ASSUME NEW s \in Thread, th'[s].pc = "redis"
                     PROVE  s \in Conn /\ UserAt(s)' = UserOf[s] /\ (UserAt(s)' \in torn' \/ OnSeat(th[s].o)')
        BY DEF WriteInv
      <4>2. CASE s = c
        BY <2>4, <2>12, <4>2 DEF OnSeat
      <4>3. CASE s # c
        BY <2>8, <2>9, <3>1, <4>1, <4>3 DEF RecordInv, WriteInv
      <4>4. QED
        BY <4>2, <4>3
    <3>3. LeaveInv'
      <4>1. SUFFICES ASSUME NEW s \in Thread, th'[s].pc \in Leaving
                     PROVE  UserAt(s)' \in torn' \/ (OnSeat(th[s].o)' /\ UserAt(s)' \notin tid')
        BY DEF LeaveInv
      <4>2. s # c
        BY <2>4, <4>1 DEF Leaving
      <4>3. QED
        BY <2>8, <2>9, <3>1, <4>1, <4>2 DEF RecordInv, LeaveInv
    <3>4. QED
      BY <3>2, <3>3
  <2>17. ClashInv'
    <3>1. SUFFICES ASSUME NEW r \in Thread, NEW s \in Thread, r # s, th'[s].pc \in Leaving,
                          th'[r].pc \in Working, th'[r].o = th'[s].o
                   PROVE  UserAt(s)' \in torn'
      BY DEF ClashInv
    <3>2. s # c
      BY <2>4, <3>1 DEF Leaving
    <3>3. r # c
      BY <2>4, <2>8, <2>9, <3>1, <3>2
    <3>4. QED
      BY <2>8, <2>9, <3>1, <3>2, <3>3 DEF RecordInv, ClashInv
  <2>18. RemoveInv'
    <3>1. SUFFICES ASSUME NEW s \in Thread, th'[s].pc = "remove" PROVE UserAt(s)' \in torn' \cup gsUsers'
      BY DEF RemoveInv
    <3>2. s # c /\ th[s].pc = "remove"
      BY <2>4, <2>8, <3>1
    <3>3. QED
      BY <2>9, <3>2 DEF RecordInv, RemoveInv, Leaving
  <2>19. CountInv'
    BY DEF RecordInv, CountInv
  <2>20. QED
    BY <2>14, <2>15, <2>16, <2>17, <2>18, <2>19 DEF RecordInv
<1>4. QED
  BY <1>2, <1>3

(* The login writes its record.                                            *)
LEMMA WriteRecords ==
  ASSUME GameTableInv, RecordInv, NEW c \in Conn, onDealUserLoginTableRedis(c)
  PROVE  RecordInv'
<1>1. PICK o, u : o = th[c].o /\ u = UserOf[c]
  OBVIOUS
<1>2. c \in Thread /\ th[c].pc = "redis" /\ o # 0
  BY <1>1, RecordTypes DEF onDealUserLoginTableRedis, At, Thread
<1>3. /\ tid' = tid \cup {u} /\ UNCHANGED <<seat, obj, torn, gsUsers, total>>
      /\ th' = [th EXCEPT ![c] = Frame("update", th[c].q, o, 0)]
  BY <1>1 DEF onDealUserLoginTableRedis, Suspend
<1>4. th'[c].pc = "update" /\ th'[c].o = o /\ Others(c)
  BY <1>2, <1>3, Moved, Zenon
<1>5. \A s \in Thread : th'[s].o = th[s].o /\ UserAt(s)' = UserAt(s) /\ (s # c => th'[s] = th[s])
  BY <1>1, <1>3, <1>4 DEF Others, UserAt
<1>6. obj[o].user = u /\ UserAt(c) = u /\ (u \in torn \/ OnSeat(o))
  BY <1>1, <1>2 DEF RecordInv, WriteInv, UserAt
<1>7. SeatedInv'
  <2>1. SUFFICES ASSUME NEW i \in Seat, seat[i] # 0, obj[seat[i]].user \notin tid'
                 PROVE  \E s \in Thread : th'[s].o = seat[i] /\ th'[s].pc \in {"redis", "remove", "clear"}
    BY <1>3 DEF SeatedInv
  <2>2. PICK s \in Thread : th[s].o = seat[i] /\ th[s].pc \in {"redis", "remove", "clear"}
    BY <1>3, <2>1 DEF RecordInv, SeatedInv
  <2>3. s # c
    BY <1>1, <1>3, <1>6, <2>1, <2>2
  <2>4. QED
    BY <1>5, <2>2, <2>3
<1>8. StaleInv'
  <2>1. SeatedUsers' = SeatedUsers
    BY <1>3 DEF SeatedUsers, Taken
  <2>2. u \in torn \/ u \in SeatedUsers
    BY <1>2, <1>6 DEF OnSeat, SeatedUsers, Taken
  <2>3. QED
    BY <1>3, <2>1, <2>2 DEF RecordInv, StaleInv
<1>9. WriteInv'
  BY <1>3, <1>4, <1>5 DEF RecordInv, WriteInv, OnSeat
<1>10. LeaveInv'
  <2>1. SUFFICES ASSUME NEW s \in Thread, th'[s].pc \in Leaving, UserAt(s) \notin torn
                 PROVE  OnSeat(th[s].o)' /\ UserAt(s) \notin tid'
    BY <1>3, <1>5 DEF LeaveInv
  <2>2. s # c /\ th[s].pc \in Leaving
    BY <1>4, <1>5, <2>1 DEF Leaving
  <2>3. OnSeat(th[s].o) /\ UserAt(s) \notin tid /\ th[s].o # 0
    BY <2>1, <2>2, RecordTypes DEF RecordInv, LeaveInv
  <2>4. UserAt(s) # u
    <3>1. ASSUME UserAt(s) = u PROVE FALSE
      <4>1. th[s].o = o
        BY <1>2, <1>6, <2>1, <2>3, <3>1, SameObject DEF UserAt
      <4>2. UserAt(s) \in torn
        BY <1>1, <1>2, <2>2, <4>1 DEF RecordInv, ClashInv, Working
      <4>3. QED
        BY <2>1, <4>2
    <3>2. QED
      BY <3>1
  <2>5. QED
    BY <1>3, <1>5, <2>3, <2>4 DEF OnSeat
<1>11. ClashInv' /\ RemoveInv'
  <2>1. \A s \in Thread : /\ th'[s].pc \in Leaving => th[s].pc \in Leaving
                          /\ th'[s].pc \in Working => th[s].pc \in Working
                          /\ th'[s].pc = "remove" => th[s].pc = "remove"
    BY <1>2, <1>4, <1>5 DEF Leaving, Working
  <2>2. QED
    BY <1>3, <1>5, <2>1 DEF RecordInv, ClashInv, RemoveInv
<1>12. KnownInv'
  <2>1. \A s \in Thread : th[s].pc \in {"redis", "update", "clear"} => th'[s].pc \in {"redis", "update", "clear"}
    BY <1>4, <1>5
  <2>2. QED
    BY <1>3, <1>5, <2>1 DEF RecordInv, KnownInv
<1>13. CountInv'
  BY <1>3 DEF RecordInv, CountInv
<1>14. QED
  BY <1>7, <1>8, <1>9, <1>10, <1>11, <1>12, <1>13 DEF RecordInv

(* The table reports its seats to GameServer.                              *)
LEMMA ReportRecords ==
  ASSUME GameTableInv, RecordInv, NEW c \in Conn, onGameTableUpdateTableData(c)
  PROVE  RecordInv'
<1>1. c \in Thread /\ th[c].pc = "update"
  BY DEF onGameTableUpdateTableData, At, Thread
<1>2. /\ gsUsers' = gsUsers \cup SeatedUsers /\ total' = total + Cardinality(SeatedUsers \ gsUsers)
      /\ UNCHANGED <<seat, obj, torn, tid>>
  BY DEF onGameTableUpdateTableData
<1>3. th'[c].pc \in {"idle", "bind"} /\ Others(c)
  <2>1. CASE th' = [th EXCEPT ![c] = Idle]
    BY <1>1, <2>1, Ended
  <2>2. CASE th' = [th EXCEPT ![c] = Frame("bind", th[c].q, th[c].o, 0)]
    <3>1. th'[c].pc = "bind" /\ Others(c)
      BY <1>1, <2>2, Moved, Zenon
    <3>2. QED
      BY <3>1
  <2>3. QED
    BY <2>1, <2>2 DEF onGameTableUpdateTableData, Finish, Suspend
<1>4. \A s \in Thread : th'[s].pc \in Working \cup Leaving =>
         s # c /\ th'[s] = th[s] /\ UserAt(s)' = UserAt(s)
  BY <1>2, <1>3 DEF Others, UserAt, Leaving, Working
<1>5. SeatedUsers' = SeatedUsers /\ \A i \in Seat : seat[i] # 0 => obj[seat[i]].user \in SeatedUsers
  BY <1>2 DEF SeatedUsers, Taken
<1>6. SeatedInv'
  <2>1. \A s \in Thread : th[s].pc \in {"redis", "remove", "clear"} => th'[s] = th[s]
    BY <1>1, <1>3 DEF Others
  <2>2. QED
    BY <1>2, <2>1 DEF RecordInv, SeatedInv
<1>7. StaleInv' /\ KnownInv'
  BY <1>2, <1>5 DEF RecordInv, StaleInv, KnownInv
<1>8. WriteInv' /\ LeaveInv' /\ ClashInv' /\ RemoveInv'
  BY <1>2, <1>4 DEF RecordInv, WriteInv, LeaveInv, ClashInv, RemoveInv, Leaving, Working, OnSeat
<1>9. CountInv'
  <2>1. IsFiniteSet(gsUsers) /\ (torn = {} => total = Cardinality(gsUsers)) /\ IsFiniteSet(SeatedUsers)
    BY SeatedTyped DEF RecordInv, CountInv
  <2>2. PICK A, B : A = gsUsers /\ B = SeatedUsers \ gsUsers
    OBVIOUS
  <2>3. IsFiniteSet(A) /\ IsFiniteSet(B) /\ A \cap B = {} /\ gsUsers' = A \cup B
    BY <1>2, <2>1, <2>2, FS_Difference
  <2>4. IsFiniteSet(A \cup B) /\ Cardinality(A \cup B) = Cardinality(A) + Cardinality(B)
    <3>1. Cardinality(A \cap B) = 0
      BY <2>3, FS_EmptySet
    <3>2. Cardinality(A) \in Nat /\ Cardinality(B) \in Nat
      BY <2>3, FS_CardinalityType
    <3>3. IsFiniteSet(A \cup B) /\ Cardinality(A \cup B) = Cardinality(A) + Cardinality(B) - Cardinality(A \cap B)
      BY <2>3, FS_Union, Zenon
    <3>4. QED
      BY <3>1, <3>2, <3>3
  <2>5. QED
    BY <1>2, <2>1, <2>2, <2>3, <2>4 DEF CountInv
<1>10. QED
  BY <1>6, <1>7, <1>8, <1>9 DEF RecordInv

(* The settlement of a round and a ready command touch m_ready only.       *)
LEMMA SettledUsers ==
  ASSUME GameTableInv, NEW t \in Thread, onUpdateMoneyExpAndLogEx(t)
  PROVE  UsersKept /\ th' = [th EXCEPT ![t] = Idle] /\ UNCHANGED <<seat, serverVars, agentVars>>
<1>1. DOMAIN obj = 1..Len(obj) /\ \A p \in DOMAIN obj : obj[p] \in Players
  BY TypesAre DEF GameTableInv, SeatTypes
<1>2. \A p \in DOMAIN obj : [obj[p] EXCEPT !.ready = FALSE].user = obj[p].user
  BY <1>1 DEF Players
<1>3. \A p \in DOMAIN obj : obj'[p] = obj[p] \/ obj'[p] = [obj[p] EXCEPT !.ready = FALSE]
  BY DEF onUpdateMoneyExpAndLogEx
<1>4. UsersKept
  BY <1>1, <1>2, <1>3 DEF UsersKept
<1>5. QED
  BY <1>4 DEF onUpdateMoneyExpAndLogEx, Finish, Dies

LEMMA ReadyUsers ==
  ASSUME GameTableInv, NEW c \in Conn, onClientCmdReady(c)
  PROVE  /\ UsersKept /\ th[c].pc = "idle" /\ UNCHANGED <<seat, serverVars, agentVars>>
         /\ th' = th \/ th' = [th EXCEPT ![c] = Frame("tail", "cs", 0, 0)]
<1>1. DOMAIN obj = 1..Len(obj) /\ \A p \in DOMAIN obj : obj[p] \in Players
  BY TypesAre DEF GameTableInv, SeatTypes
<1>2. PICK o : obj' = [obj EXCEPT ![o].ready = TRUE]
  BY DEF onClientCmdReady
<1>3. UsersKept
  BY <1>1, <1>2 DEF UsersKept, Players
<1>4. QED
  BY <1>3 DEF onClientCmdReady, Command, Idle, Frame

(* A step that moves one handler between waits of no consequence.          *)
LEMMA WaitRecords ==
  ASSUME GameTableInv, RecordInv, NEW t \in Thread, UsersKept, th[t].pc \notin Working,
         UNCHANGED <<seat, tid, gsUsers, total, torn>>, NEW pc, NEW q, NEW o, NEW k,
         \/ th' = th
         \/ th' = [th EXCEPT ![t] = Idle]
         \/ th' = [th EXCEPT ![t] = Frame(pc, q, o, k)],
         pc \notin Working \/ (pc = "update" /\ o = 0)
  PROVE  RecordInv'
<1>1. "idle" \notin Working
  BY DEF Working
<1>2. CASE th' = th
  BY <1>2, NeutralRecords DEF Others
<1>3. CASE th' = [th EXCEPT ![t] = Idle]
  <2>1. th'[t].pc = "idle" /\ Others(t)
    BY <1>3, Ended
  <2>2. QED
    BY <1>1, <2>1, NeutralRecords
<1>4. CASE th' = [th EXCEPT ![t] = Frame(pc, q, o, k)]
  <2>1. th'[t].pc = pc /\ th'[t].o = o /\ Others(t)
    BY <1>4, Moved, Zenon
  <2>2. QED
    BY <2>1, NeutralRecords
<1>5. QED
  BY <1>2, <1>3, <1>4

LEMMA SameUsers == UNCHANGED obj => UsersKept
  BY DEF UsersKept

(* The loop of a dismissal.                                                *)
LEMMA KickRecords ==
  ASSUME GameTableInv, RecordInv, NEW t \in Thread, NEW q, NEW k \in Nat, KickFrom(t, q, k),
         th[t].pc \notin Working, UNCHANGED <<seat, obj, gsUsers, total>>
  PROVE  RecordInv'
<1> DEFINE left == {i \in Taken : i >= k}
<1>1. CASE left = {}
  <2>1. th' = [th EXCEPT ![t] = Frame("reset", q, 0, 0)] /\ UNCHANGED <<tid, torn>>
    BY <1>1 DEF KickFrom
  <2>2. "reset" \notin Working /\ UsersKept
    BY SameUsers DEF Working
  <2>3. QED
    BY <2>1, <2>2, WaitRecords
<1>2. CASE left # {}
  <2>1. left \subseteq Nat
    BY DEF Taken, Seat
  <2>2. PICK m \in left : m = Min(left)
    BY <1>2, <2>1, MinIsLeast
  <2>3. m \in Seat /\ seat[m] # 0
    BY <2>2 DEF Taken
  <2>4. PICK u : u = obj[seat[m]].user
    OBVIOUS
  <2>5. onDealUserLogoutTableSuccess(t, u, q, m)
    BY <1>2, <2>2, <2>4 DEF KickFrom
  <2>6. u \in SeatedUsers
    BY <2>3, <2>4 DEF SeatedUsers, Taken
  <2>7. onGetUserByUserId(u) # 0
    BY <2>6, LookupSeat
  <2>8. QED
    BY <2>5, <2>7, LogoutRecords
<1>3. QED
  BY <1>1, <1>2

LEMMA DismissRecords ==
  ASSUME GameTableInv, RecordInv, NEW t \in Thread, NEW q, onDismissBattleRoom(t, q),
         th[t].pc \notin Working, UNCHANGED <<seat, obj, gsUsers, total>>
  PROVE  RecordInv'
<1>1. CASE RefundDue
  <2>1. th' = [th EXCEPT ![t] = Frame("kick", q, 0, 1)] /\ UNCHANGED <<tid, torn>>
    BY <1>1 DEF onDismissBattleRoom
  <2>2. "kick" \notin Working /\ UsersKept
    BY SameUsers DEF Working
  <2>3. QED
    BY <2>1, <2>2, WaitRecords
<1>2. CASE ~RefundDue
  BY <1>2, KickRecords DEF onDismissBattleRoom
<1>3. QED
  BY <1>1, <1>2

(* The commands and the disconnection of a connection.                     *)
LEMMA BeginRecords ==
  ASSUME GameTableInv, RecordInv, NEW c \in Conn, Begin(c)
  PROVE  RecordInv'
<1>1. c \in Thread /\ "idle" \notin Working /\ "tail" \notin Working /\ "offline" \notin Working /\ "status" \notin Working
  BY DEF Thread, Working
<1>2. CASE onClientCmdCreateBattleRoom(c)
  <2>1. /\ th[c].pc = "idle" /\ th' = [th EXCEPT ![c] = Frame("update", "gs", 0, 0)]
        /\ UNCHANGED <<seat, obj, tid, gsUsers, total, torn>>
    BY <1>2 DEF onClientCmdCreateBattleRoom, Unbound, Idle, Frame, serverVars
  <2>2. QED
    BY <1>1, <2>1, SameUsers, WaitRecords
<1>3. CASE onClientCmdLogin(c)
  <2>1. /\ th[c].pc = "idle" /\ th' = [th EXCEPT ![c] = Frame("status", "gs", 0, 0)]
        /\ UNCHANGED <<seat, obj, tid, gsUsers, total, torn>>
    BY <1>3 DEF onClientCmdLogin, Unbound, Idle, Frame, serverVars
  <2>2. QED
    BY <1>1, <2>1, SameUsers, WaitRecords
<1>4. CASE onClientCmdReady(c)
  <2>1. /\ UsersKept /\ th[c].pc = "idle" /\ UNCHANGED <<seat, serverVars, agentVars>>
        /\ th' = th \/ th' = [th EXCEPT ![c] = Frame("tail", "cs", 0, 0)]
    BY <1>4, ReadyUsers
  <2>2. UNCHANGED <<seat, tid, gsUsers, total, torn>>
    BY <2>1 DEF serverVars
  <2>3. QED
    BY <1>1, <2>1, <2>2, WaitRecords
<1>5. ASSUME NEW leave \in BOOLEAN, onClientCmdLogout(c, leave)
      PROVE  RecordInv'
  <2>1. /\ th[c].pc = "idle" /\ onGetUserByUserId(UserOf[c]) # 0 /\ UNCHANGED <<seat, obj, gsUsers, total>>
        /\ \/ onDismissBattleRoom(c, "cs")
           \/ onDealUserLogoutTableSuccess(c, UserOf[c], "cs", 0)
    BY <1>5 DEF onClientCmdLogout, Command, Idle, Frame
  <2>2. QED
    BY <1>1, <2>1, DismissRecords, LogoutRecords
<1>6. CASE disconnect(c)
  <2>1. /\ th[c].pc = "idle" /\ UNCHANGED <<seat, obj, tid, gsUsers, total, torn>>
        /\ th' = th \/ th' = [th EXCEPT ![c] = Frame("offline", "none", 0, 0)]
    BY <1>6 DEF disconnect, Idle, Frame
  <2>2. QED
    BY <1>1, <2>1, SameUsers, WaitRecords
<1>7. QED
  BY <1>2, <1>3, <1>4, <1>5, <1>6 DEF Begin

(* The steps of a login that only wait again.                              *)
LEMMA SearchRecords ==
  ASSUME GameTableInv, RecordInv, NEW c \in Conn,
         \/ onCheckTableStatus(c)
         \/ onCheckUserCertification(c)
         \/ onCheckUserMTkey(c)
         \/ onDealUserReconnectTableSuccess(c)
         \/ onClearOnUserDisconnect(c)
         \/ onSetUserdAndGameTable(c)
  PROVE  RecordInv'
<1>1. c \in Thread /\ th[c].pc \notin Working
  BY DEF Thread, Working, At, onCheckTableStatus, onCheckUserCertification, onCheckUserMTkey,
         onDealUserReconnectTableSuccess, onClearOnUserDisconnect, onSetUserdAndGameTable
<1>2. UNCHANGED <<seat, obj, tid, gsUsers, total, torn>>
  BY DEF onCheckTableStatus, onCheckUserCertification, onCheckUserMTkey, serverVars,
         onDealUserReconnectTableSuccess, onClearOnUserDisconnect, onSetUserdAndGameTable
<1>3. PICK pc \in {"error", "certify", "key", "reconnect", "info", "online", "bind", "tail"}, k \in {0, 1} :
        th' = [th EXCEPT ![c] = Idle] \/ th' = [th EXCEPT ![c] = Frame(pc, th[c].q, 0, k)]
  <2>1. CASE onCheckTableStatus(c)
    BY <2>1 DEF onCheckTableStatus, AskKey, Suspend
  <2>2. CASE onCheckUserCertification(c)
    BY <2>2 DEF onCheckUserCertification, AskKey, Suspend
  <2>3. CASE onCheckUserMTkey(c)
    BY <2>3 DEF onCheckUserMTkey, Suspend
  <2>4. CASE onDealUserReconnectTableSuccess(c)
    BY <2>4 DEF onDealUserReconnectTableSuccess, Suspend, Finish
  <2>5. CASE onClearOnUserDisconnect(c)
    BY <2>5 DEF onClearOnUserDisconnect, Suspend
  <2>6. CASE onSetUserdAndGameTable(c)
    BY <2>6 DEF onSetUserdAndGameTable, Suspend, Finish
  <2>7. QED
    BY <2>1, <2>2, <2>3, <2>4, <2>5, <2>6
<1>4. pc \notin Working
  BY DEF Working
<1>5. QED
  BY <1>1, <1>2, <1>3, <1>4, SameUsers, WaitRecords

LEMMA LoginRecords ==
  ASSUME GameTableInv, RecordInv, NEW c \in Conn, LoginStep(c) \/ onDisconnect(c)
  PROVE  RecordInv'
<1>1. c \in Thread /\ "error" \notin Working /\ "pay" \notin Working
  BY DEF Thread, Working
<1>2. CASE onGetUserInfo(c)
  <2>1. th[c].pc \notin Working /\ UNCHANGED <<tid, gsUsers, total, torn>>
    BY <1>2 DEF onGetUserInfo, At, Working, serverVars
  <2>2. \/ \E ready \in BOOLEAN : onAddNewUser(c, ready)
        \/ /\ UNCHANGED <<seat, obj>>
           /\ \E pc \in {"error", "pay"}, k \in {0, 1} : th' = [th EXCEPT ![c] = Frame(pc, th[c].q, 0, k)]
    <3>1. CASE FeeNotDue
      BY <1>2, <3>1 DEF onGetUserInfo, Suspend
    <3>2. CASE ~FeeNotDue
      BY <1>2, <3>2 DEF onGetUserInfo, Suspend
    <3>3. QED
      BY <3>1, <3>2
  <2>3. QED
    BY <1>1, <2>1, <2>2, SeatRecords, SameUsers, WaitRecords
<1>3. CASE onUpdateUserDiamond(c)
  <2>1. th[c].pc \notin Working /\ UNCHANGED <<tid, gsUsers, total, torn>>
    BY <1>3 DEF onUpdateUserDiamond, At, Working, serverVars
  <2>2. CASE FeeRefused(c)
    <3>1. th' = [th EXCEPT ![c] = Frame("error", th[c].q, 0, 0)] /\ UNCHANGED <<seat, obj>>
      BY <2>2 DEF FeeRefused, Suspend
    <3>2. QED
      BY <1>1, <2>1, <3>1, SameUsers, WaitRecords
  <2>3. CASE FeePaid(c)
    BY <2>1, <2>3, SeatRecords DEF FeePaid
  <2>4. QED
    BY <1>3, <2>2, <2>3 DEF onUpdateUserDiamond
<1>4. CASE onDealUserLoginError(c)
  <2>1. th[c].pc \notin Working /\ UNCHANGED <<seat, obj, gsUsers, total>>
    BY <1>4 DEF onDealUserLoginError, At, Working
  <2>2. CASE onDismissBattleRoom(c, "gs")
    BY <1>1, <2>1, <2>2, DismissRecords
  <2>3. CASE th' = [th EXCEPT ![c] = Idle] /\ UNCHANGED <<tid, torn>>
    BY <1>1, <2>1, <2>3, SameUsers, WaitRecords
  <2>4. QED
    BY <1>4, <2>2, <2>3 DEF onDealUserLoginError, Finish
<1>5. CASE onDisconnect(c)
  <2>1. th[c].pc \notin Working /\ UNCHANGED <<seat, obj, gsUsers, total>>
    BY <1>5 DEF onDisconnect, At, Working
  <2>2. CASE onGetUserByUserId(UserOf[c]) # 0 /\ onDealUserLogoutTableSuccess(c, UserOf[c], "none", 0)
    BY <1>1, <2>1, <2>2, LogoutRecords
  <2>3. CASE th' = [th EXCEPT ![c] = Idle] /\ UNCHANGED <<tid, torn>>
    BY <1>1, <2>1, <2>3, SameUsers, WaitRecords
  <2>4. QED
    BY <1>5, <2>2, <2>3 DEF onDisconnect, Finish
<1>6. QED
  BY <1>2, <1>3, <1>4, <1>5, SearchRecords, WriteRecords, ReportRecords DEF LoginStep

(* A handler whose call was answered, and the end of a round.              *)
LEMMA ResumeRecords ==
  ASSUME GameTableInv, RecordInv, NEW t \in Thread, onGameStopRound(t) \/ Resume(t)
  PROVE  RecordInv'
<1>1. "settle" \notin Working
  BY DEF Working
<1>2. CASE onGameStopRound(t)
  <2>1. th[t].pc \notin Working
    BY <1>2 DEF onGameStopRound, Command, Idle, Frame, Working
  <2>2. UNCHANGED <<seat, obj, tid, gsUsers, total, torn>>
    BY <1>2 DEF onGameStopRound, serverVars
  <2>3. \E q : th' = th \/ th' = [th EXCEPT ![t] = Idle] \/ th' = [th EXCEPT ![t] = Frame("settle", q, 0, 0)]
    BY <1>2 DEF onGameStopRound, Dies, Finish
  <2>4. QED
    BY <1>1, <2>1, <2>2, <2>3, SameUsers, WaitRecords
<1>3. CASE Answered(t)
  <2>1. th[t].pc \notin Working /\ th' = [th EXCEPT ![t] = Idle] /\ UNCHANGED <<seat, obj, tid, gsUsers, total, torn>>
    BY <1>3 DEF Answered, At, Working, Finish, serverVars
  <2>2. QED
    BY <1>1, <2>1, SameUsers, WaitRecords
<1>4. CASE onUpdateMoneyExpAndLogEx(t)
  <2>1. th[t].pc \notin Working
    BY <1>4 DEF onUpdateMoneyExpAndLogEx, At, Working
  <2>2. UsersKept /\ th' = [th EXCEPT ![t] = Idle] /\ UNCHANGED <<seat, tid, gsUsers, total, torn>>
    BY <1>4, SettledUsers DEF serverVars
  <2>3. QED
    BY <1>1, <2>1, <2>2, WaitRecords
<1>5. CASE Left(t)
  <2>1. th[t].pc \notin Working /\ UNCHANGED <<seat, obj, gsUsers, total>>
    BY <1>5 DEF Left, At, Working
  <2>2. CASE th[t].k = 0
    <3>1. th' = [th EXCEPT ![t] = Idle] /\ UNCHANGED <<tid, torn>>
      BY <1>5, <2>2 DEF Left, Finish
    <3>2. QED
      BY <1>1, <2>1, <3>1, SameUsers, WaitRecords
  <2>3. CASE th[t].k # 0
    <3>1. KickFrom(t, th[t].q, th[t].k + 1) /\ th[t].k + 1 \in Nat
      BY <1>5, <2>3, ThreadTypes DEF Left
    <3>2. QED
      BY <2>1, <3>1, KickRecords
  <2>4. QED
    BY <2>2, <2>3
<1>6. CASE Kick(t)
  <2>1. th[t].pc \notin Working /\ UNCHANGED <<seat, obj, gsUsers, total>> /\ KickFrom(t, th[t].q, 1)
    BY <1>6 DEF Kick, At, Working
  <2>2. QED
    BY <2>1, KickRecords
<1>7. CASE t # Timer /\ (LoginStep(t) \/ onDisconnect(t))
  BY <1>7, LoginRecords DEF Thread
<1>8. QED
  BY <1>2, <1>3, <1>4, <1>5, <1>6, <1>7, RemoveRecords, ClearRecords, ResetRecords DEF Resume

LEMMA NextRecords == GameTableInv /\ RecordInv /\ [Next]_vars => RecordInv'
<1>1. SUFFICES ASSUME GameTableInv, RecordInv, [Next]_vars PROVE RecordInv'
  OBVIOUS
<1>2. CASE Next
  BY <1>1, <1>2, BeginRecords, ResumeRecords DEF Next
<1>3. CASE UNCHANGED vars
  <2>1. UNCHANGED <<seat, obj, tid, gsUsers, total, torn, th>>
    BY <1>3 DEF vars
  <2>2. /\ SeatedUsers' = SeatedUsers
        /\ \A t : UserAt(t)' = UserAt(t) /\ (OnSeat(th[t].o)' <=> OnSeat(th[t].o))
    BY <2>1 DEF UserAt, OnSeat, SeatedUsers, Taken
  <2>3. SeatedInv' /\ StaleInv' /\ KnownInv' /\ CountInv'
    BY <1>1, <2>1, <2>2 DEF RecordInv, SeatedInv, StaleInv, KnownInv, CountInv
  <2>4. WriteInv' /\ LeaveInv' /\ ClashInv' /\ RemoveInv'
    BY <1>1, <2>1, <2>2 DEF RecordInv, WriteInv, LeaveInv, ClashInv, RemoveInv
  <2>5. QED
    BY <2>3, <2>4 DEF RecordInv
<1>4. QED
  BY <1>1, <1>2, <1>3

LEMMA InitRecords == Init => RecordInv
<1>1. SUFFICES ASSUME Init PROVE RecordInv
  OBVIOUS
<1>2. /\ \A i \in Seat : seat[i] = 0
      /\ tid = {} /\ gsUsers = {} /\ total = 0 /\ \A t \in Thread : th[t].pc = "idle"
  BY <1>1 DEF Init, Idle, Frame
<1>3. IsFiniteSet({}) /\ Cardinality({}) = 0
  BY FS_EmptySet
<1>4. CountInv
  BY <1>2, <1>3 DEF CountInv
<1>5. QED
  BY <1>2, <1>4 DEF RecordInv, SeatedInv, StaleInv, WriteInv, LeaveInv, ClashInv, KnownInv, RemoveInv, Leaving

(* Once no handler waits, for every set of users and connections, any      *)
(* number of them of one user, in battle rooms and in money rooms: whoever *)
(* sits has a redis record; a record without a seat is that of a user who  *)
(* was logged out while a login or another logout was at work on the same  *)
(* GameUser, or was swept off by a reset; and without such a user          *)
(* GameServer's count is the size of its map.                              *)
THEOREM RecordsFollowSeats == Spec => []RecordsMatchSeats
<1>1. GameTableInv /\ RecordInv => RecordsMatchSeats
  <2>1. SUFFICES ASSUME GameTableInv, RecordInv, Quiet
                 PROVE  /\ SeatedUsers \subseteq tid
                        /\ tid \ SeatedUsers \subseteq torn
                        /\ torn = {} => total = Cardinality(gsUsers)
    BY DEF RecordsMatchSeats
  <2>2. \A t \in Thread : th[t].pc = "idle"
    BY <2>1 DEF Quiet, Idle, Frame
  <2>3. SeatedUsers \subseteq tid
    BY <2>1, <2>2 DEF RecordInv, SeatedInv, SeatedUsers, Taken
  <2>4. QED
    BY <2>1, <2>3 DEF RecordInv, StaleInv, CountInv
<1>2. Spec => []GameTableInv
  BY GameTableInvariant
<1>3. Spec => []RecordInv
  BY <1>2, InitRecords, NextRecords, PTL DEF Spec
<1>4. QED
  BY <1>1, <1>2, <1>3, PTL

-----------------------------------------------------------------------------
(* The offline list, step by step.                                         *)

ServedBody == LoginInv /\ ServedInv

(* A step that seats nobody and takes nobody off the offline list.         *)
LEMMA ServedKept ==
  ASSUME GameTableInv, ServedBody, NEW t \in Thread, Others(t), SeatsKept, offline \subseteq offline',
         \A c \in Conn : c # t => (c \in open' <=> c \in open) /\ (c \in bound' <=> c \in bound),
         t \in Conn /\ Served(t) => Served(t)',
         t \in Conn /\ th'[t].pc \in LoginPC => t \in open' /\ t \notin bound'
  PROVE  ServedBody'
<1>1. \A c \in Conn : c \in Thread /\ (c # t => th'[c] = th[c])
  BY DEF Others, Thread
<1>2. \A c \in Conn : Served(c) => Served(c)'
  <2>1. SUFFICES ASSUME NEW c \in Conn, Served(c) PROVE Served(c)'
    OBVIOUS
  <2>2. CASE c = t
    BY <2>1, <2>2
  <2>3. CASE c # t
    BY <1>1, <2>1, <2>3 DEF Served
  <2>4. QED
    BY <2>2, <2>3
<1>3. LoginInv'
  BY <1>1 DEF ServedBody, LoginInv
<1>4. ServedInv'
  <2>1. SUFFICES ASSUME NEW i \in Seat, seat'[i] # 0
                 PROVE  \/ obj'[seat'[i]].user \in offline'
                        \/ \E c \in Conn : UserOf[c] = obj'[seat'[i]].user /\ Served(c)'
    BY DEF ServedInv
  <2>2. seat[i] # 0 /\ obj'[seat'[i]].user = obj[seat[i]].user
    BY <2>1 DEF SeatsKept
  <2>3. obj[seat[i]].user \in offline \/ \E c \in Conn : UserOf[c] = obj[seat[i]].user /\ Served(c)
    BY <2>2 DEF ServedBody, ServedInv
  <2>4. QED
    BY <1>2, <2>2, <2>3
<1>5. QED
  BY <1>3, <1>4 DEF ServedBody

LEMMA SeatsStay ==
  ASSUME GameTableInv, UNCHANGED seat, UsersKept
  PROVE  SeatsKept
  BY SameSeats DEF SeatsKept

(* A handler that is no login and opens, binds and closes nothing.         *)
LEMMA ServedElsewhere ==
  ASSUME GameTableInv, ServedBody, NEW t \in Thread, SeatsKept, UNCHANGED <<offline, open, bound>>,
         th[t].pc \notin LoginPC, NEW pc, NEW q, NEW o, NEW k, pc \notin LoginPC,
         th' = th \/ th' = [th EXCEPT ![t] = Idle] \/ th' = [th EXCEPT ![t] = Frame(pc, q, o, k)]
  PROVE  ServedBody'
<1>1. "idle" \notin LoginPC
  BY DEF LoginPC
<1>2. Others(t) /\ th'[t].pc \notin LoginPC
  <2>1. CASE th' = th
    BY <2>1 DEF Others
  <2>2. CASE th' = [th EXCEPT ![t] = Idle]
    <3>1. th'[t].pc = "idle" /\ Others(t)
      BY <2>2, Ended
    <3>2. QED
      BY <1>1, <3>1
  <2>3. CASE th' = [th EXCEPT ![t] = Frame(pc, q, o, k)]
    <3>1. th'[t].pc = pc /\ Others(t)
      BY <2>3, Moved, Zenon
    <3>2. QED
      BY <3>1
  <2>4. QED
    BY <2>1, <2>2, <2>3
<1>3. t \in Conn /\ Served(t) => Served(t)'
  BY DEF Served, LoginPC
<1>4. QED
  BY <1>2, <1>3, ServedKept

(* A login goes on to another wait before the seat, or ends without one.   *)
LEMMA ServedSearching ==
  ASSUME GameTableInv, ServedBody, NEW c \in Conn, SeatsKept, UNCHANGED <<offline, bound>>,
         c \in open /\ c \notin bound, ~Served(c), open' \subseteq open, open \subseteq open' \cup {c},
         NEW pc, NEW q, NEW o, NEW k, pc \in LoginPC => open' = open,
         th' = [th EXCEPT ![c] = Idle] \/ th' = [th EXCEPT ![c] = Frame(pc, q, o, k)]
  PROVE  ServedBody'
<1>1. c \in Thread /\ "idle" \notin LoginPC
  BY DEF Thread, LoginPC
<1>2. Others(c) /\ (th'[c].pc \in LoginPC => open' = open)
  <2>1. CASE th' = [th EXCEPT ![c] = Idle]
    <3>1. th'[c].pc = "idle" /\ Others(c)
      BY <1>1, <2>1, Ended
    <3>2. QED
      BY <1>1, <3>1
  <2>2. CASE th' = [th EXCEPT ![c] = Frame(pc, q, o, k)]
    <3>1. th'[c].pc = pc /\ Others(c)
      BY <1>1, <2>2, Moved, Zenon
    <3>2. QED
      BY <3>1
  <2>3. QED
    BY <2>1, <2>2
<1>3. QED
  BY <1>1, <1>2, ServedKept

(* A user gets a seat on a connection that is alive.                       *)
LEMMA ServedSeat ==
  ASSUME GameTableInv, ServedBody, NEW c \in Conn, NEW ready \in BOOLEAN, onAddNewUser(c, ready),
         UNCHANGED <<offline, open, bound>>, c \in open /\ c \notin bound, ~Served(c)
  PROVE  ServedBody'
<1>1. c \in Thread
  BY DEF Thread
<1>2. CASE Seat \ Taken = {}
  <2>1. th' = [th EXCEPT ![c] = Idle] /\ UNCHANGED <<seat, obj>>
    BY <1>2 DEF onAddNewUser, Finish
  <2>2. SeatsKept
    BY <2>1, SameUsers, SeatsStay
  <2>3. QED
    BY <2>1, <2>2, ServedSearching
<1>3. CASE Seat \ Taken # {}
  <2>1. PICK n, k : n = Len(obj) + 1 /\ k = Min(Seat \ Taken)
    OBVIOUS
  <2>2. /\ obj' = Append(obj, [user |-> UserOf[c], ready |-> ready])
        /\ seat' = [seat EXCEPT ![k] = n]
        /\ th' = [th EXCEPT ![c] = Frame("redis", th[c].q, n, 0)]
    BY <1>3, <2>1 DEF onAddNewUser, Suspend
  <2>3. th'[c].pc = "redis" /\ th'[c].o = n /\ Others(c)
    BY <1>1, <2>2, Moved, Zenon
  <2>4. /\ obj \in Seq(Players) /\ seat \in [Seat -> 0..Len(obj)] /\ Len(obj) \in Nat
        /\ \A i \in Seat : seat[i] # 0 => seat[i] \in 1..Len(obj)
    BY TypesAre, RecordTypes DEF GameTableInv, SeatTypes
  <2>5. obj'[n].user = UserOf[c] /\ \A p \in 1..Len(obj) : obj'[p] = obj[p]
    BY <2>1, <2>2, <2>4
  <2>6. \A i \in Seat : seat'[i] = IF i = k THEN n ELSE seat[i]
    BY <2>2, <2>4
  <2>7. \A d \in Conn : d \in Thread /\ (d # c => th'[d] = th[d])
    BY <2>3 DEF Others, Thread
  <2>8. \A d \in Conn : Served(d) => Served(d)'
    BY <2>7 DEF Served
  <2>9. Served(c)'
    BY <2>3 DEF Served
  <2>10. LoginInv'
    BY <2>7 DEF ServedBody, LoginInv
  <2>11. ServedInv'
    <3>1. SUFFICES ASSUME NEW i \in Seat, seat'[i] # 0
                   PROVE  \/ obj'[seat'[i]].user \in offline'
                          \/ \E d \in Conn : UserOf[d] = obj'[seat'[i]].user /\ Served(d)'
      BY DEF ServedInv
    <3>2. CASE i = k
      BY <2>5, <2>6, <2>9, <3>2
    <3>3. CASE i # k
      <4>1. seat[i] # 0 /\ obj'[seat'[i]].user = obj[seat[i]].user
        BY <2>4, <2>5, <2>6, <3>1, <3>3
      <4>2. obj[seat[i]].user \in offline \/ \E d \in Conn : UserOf[d] = obj[seat[i]].user /\ Served(d)
        BY <4>1 DEF ServedBody, ServedInv
      <4>3. QED
        BY <2>8, <4>1, <4>2
    <3>4. QED
      BY <3>2, <3>3
  <2>12. QED
    BY <2>10, <2>11 DEF ServedBody
<1>4. QED
  BY <1>2, <1>3

(* A reconnection takes the user off the list and is about to be bound.    *)
LEMMA ServedOnline ==
  ASSUME GameTableInv, ServedBody, NEW c \in Conn, onClearOnUserDisconnect(c)
  PROVE  ServedBody'
<1>1. c \in Thread /\ th[c].pc = "online" /\ c \in open /\ c \notin bound
  BY DEF onClearOnUserDisconnect, At, Thread, ServedBody, LoginInv, LoginPC
<1>2. /\ offline' = offline \ {UserOf[c]} /\ UNCHANGED <<seat, obj, open, bound>>
      /\ th' = [th EXCEPT ![c] = Frame("bind", th[c].q, 0, 0)]
  BY DEF onClearOnUserDisconnect, Suspend, agentVars
<1>3. th'[c].pc = "bind" /\ Others(c)
  BY <1>1, <1>2, Moved, Zenon
<1>4. \A d \in Conn : d # c => th'[d] = th[d]
  BY <1>3 DEF Others, Thread
<1>5. Served(c)' /\ \A d \in Conn : Served(d) => Served(d)'
  BY <1>1, <1>2, <1>3, <1>4 DEF Served
<1>6. LoginInv'
  BY <1>1, <1>2, <1>3, <1>4 DEF ServedBody, LoginInv
<1>7. ServedInv'
  <2>1. SUFFICES ASSUME NEW i \in Seat, seat[i] # 0, obj[seat[i]].user \notin offline'
                 PROVE  \E d \in Conn : UserOf[d] = obj[seat[i]].user /\ Served(d)'
    BY <1>2 DEF ServedInv
  <2>2. CASE obj[seat[i]].user = UserOf[c]
    BY <1>5, <2>2
  <2>3. CASE obj[seat[i]].user # UserOf[c]
    <3>1. PICK d \in Conn : UserOf[d] = obj[seat[i]].user /\ Served(d)
      BY <1>2, <2>1, <2>3 DEF ServedBody, ServedInv
    <3>2. QED
      BY <1>5, <3>1
  <2>4. QED
    BY <2>2, <2>3
<1>8. QED
  BY <1>6, <1>7 DEF ServedBody

(* A connection closes: a bound one puts its user, if seated, on the list. *)
LEMMA ServedGone ==
  ASSUME GameTableInv, ServedBody, NEW c \in Conn, disconnect(c)
  PROVE  ServedBody'
<1>1. c \in Thread /\ th[c].pc = "idle" /\ UNCHANGED <<seat, obj, bound>> /\ open' = open \ {c} /\ offline \subseteq offline'
  BY DEF disconnect, Idle, Frame, Thread
<1>2. Others(c) /\ th'[c].pc \notin LoginPC
  <2>1. CASE th' = th
    BY <1>1, <2>1 DEF Others, LoginPC
  <2>2. CASE th' = [th EXCEPT ![c] = Frame("offline", "none", 0, 0)]
    <3>1. th'[c].pc = "offline" /\ Others(c)
      BY <1>1, <2>2, Moved, Zenon
    <3>2. QED
      BY <3>1 DEF LoginPC
  <2>3. QED
    BY <2>1, <2>2 DEF disconnect
<1>3. \A d \in Conn : d # c => th'[d] = th[d]
  BY <1>2 DEF Others, Thread
<1>4. LoginInv'
  BY <1>1, <1>2, <1>3 DEF ServedBody, LoginInv
<1>5. ServedInv'
  <2>1. SUFFICES ASSUME NEW i \in Seat, seat[i] # 0, obj[seat[i]].user \notin offline'
                 PROVE  \E d \in Conn : UserOf[d] = obj[seat[i]].user /\ Served(d)'
    BY <1>1 DEF ServedInv
  <2>2. PICK d \in Conn : UserOf[d] = obj[seat[i]].user /\ Served(d)
    BY <1>1, <2>1 DEF ServedBody, ServedInv
  <2>3. d # c
    <3>1. ASSUME d = c PROVE FALSE
      <4>1. c \in bound
        BY <1>1, <2>2, <3>1 DEF Served
      <4>2. UserOf[c] \in SeatedUsers
        BY <2>1, <2>2, <3>1 DEF SeatedUsers, Taken
      <4>3. onGetUserByUserId(UserOf[c]) # 0
        BY <4>2, LookupSeat
      <4>4. UserOf[c] \in offline'
        BY <4>1, <4>3 DEF disconnect
      <4>5. QED
        BY <2>1, <2>2, <3>1, <4>4
    <3>2. QED
      BY <3>1
  <2>4. Served(d)'
    BY <1>1, <1>3, <2>2, <2>3 DEF Served
  <2>5. QED
    BY <2>2, <2>4
<1>6. QED
  BY <1>4, <1>5 DEF ServedBody

(* Where a dismissal or a logout waits next.                               *)
Going == {"reset", "remove", "kick", "tail", "clear", "left", "settle", "offline"}

LEMMA KickFrame ==
  ASSUME NEW t, NEW q, NEW k, KickFrom(t, q, k)
  PROVE  \E pc, o, j : pc \in Going /\ th' = [th EXCEPT ![t] = Frame(pc, q, o, j)]
  BY DEF KickFrom, onDealUserLogoutTableSuccess, Going

LEMMA DismissFrame ==
  ASSUME NEW t, NEW q, onDismissBattleRoom(t, q)
  PROVE  \E pc, o, j : pc \in Going /\ th' = [th EXCEPT ![t] = Frame(pc, q, o, j)]
<1>1. CASE RefundDue
  BY <1>1 DEF onDismissBattleRoom, Going
<1>2. CASE ~RefundDue
  BY <1>2, KickFrame DEF onDismissBattleRoom
<1>3. QED
  BY <1>1, <1>2

LEMMA GoingIsNoLogin == \A pc \in Going : pc \notin LoginPC
  BY DEF Going, LoginPC

(* The commands and the disconnection of a connection.                     *)
LEMMA BeginServed ==
  ASSUME GameTableInv, ServedBody, NEW c \in Conn, Begin(c)
  PROVE  ServedBody'
<1>1. c \in Thread
  BY DEF Thread
<1>2. CASE onClientCmdCreateBattleRoom(c) \/ onClientCmdLogin(c)
  <2>1. /\ th[c].pc = "idle" /\ c \in open /\ c \notin bound
        /\ UNCHANGED <<seat, obj, offline, open, bound>>
    BY <1>2 DEF onClientCmdCreateBattleRoom, onClientCmdLogin, Unbound, Idle, Frame, serverVars, agentVars
  <2>2. PICK pc : th' = [th EXCEPT ![c] = Frame(pc, "gs", 0, 0)]
    BY <1>2 DEF onClientCmdCreateBattleRoom, onClientCmdLogin
  <2>3. ~Served(c)
    BY <2>1 DEF Served
  <2>4. SeatsKept
    BY <2>1, SameUsers, SeatsStay
  <2>5. QED
    BY <2>1, <2>2, <2>3, <2>4, ServedSearching
<1>3. CASE onClientCmdReady(c)
  <2>1. /\ UsersKept /\ th[c].pc = "idle" /\ UNCHANGED <<seat, serverVars, agentVars>>
        /\ th' = th \/ th' = [th EXCEPT ![c] = Frame("tail", "cs", 0, 0)]
    BY <1>3, ReadyUsers
  <2>2. UNCHANGED <<offline, open, bound>> /\ SeatsKept
    BY <2>1, SeatsStay DEF serverVars, agentVars
  <2>3. "idle" \notin LoginPC /\ "tail" \notin LoginPC
    BY DEF LoginPC
  <2>4. QED
    BY <1>1, <2>1, <2>2, <2>3, ServedElsewhere
<1>4. ASSUME NEW leave \in BOOLEAN, onClientCmdLogout(c, leave)
      PROVE  ServedBody'
  <2>1. /\ th[c].pc = "idle" /\ UNCHANGED <<seat, obj, offline, open, bound>>
        /\ \/ onDismissBattleRoom(c, "cs")
           \/ onDealUserLogoutTableSuccess(c, UserOf[c], "cs", 0)
    BY <1>4 DEF onClientCmdLogout, Command, Idle, Frame, agentVars
  <2>2. PICK pc, o, j : pc \in Going /\ th' = [th EXCEPT ![c] = Frame(pc, "cs", o, j)]
    BY <2>1, DismissFrame DEF onDealUserLogoutTableSuccess, Going
  <2>3. SeatsKept /\ "idle" \notin LoginPC /\ pc \notin LoginPC
    BY <2>1, <2>2, SameUsers, SeatsStay, GoingIsNoLogin DEF LoginPC
  <2>4. QED
    BY <1>1, <2>1, <2>2, <2>3, ServedElsewhere
<1>5. QED
  BY <1>2, <1>3, <1>4, ServedGone DEF Begin

(* The steps of a login.                                                   *)
LEMMA LoginServed ==
  ASSUME GameTableInv, ServedBody, NEW c \in Conn, LoginStep(c)
  PROVE  ServedBody'
<1>1. c \in Thread
  BY DEF Thread
<1>2. c \in open /\ c \notin bound
  <2>1. th[c].pc \in LoginPC
    BY DEF LoginStep, LoginPC, At, onCheckTableStatus, onCheckUserCertification, onCheckUserMTkey,
           onDealUserReconnectTableSuccess, onClearOnUserDisconnect, onGetUserInfo, onUpdateUserDiamond,
           onDealUserLoginTableRedis, onGameTableUpdateTableData, onSetUserdAndGameTable, onDealUserLoginError
  <2>2. QED
    BY <2>1 DEF ServedBody, LoginInv
<1>3. CASE onCheckTableStatus(c) \/ onCheckUserCertification(c) \/ onCheckUserMTkey(c) \/ onDealUserReconnectTableSuccess(c)
  <2>1. th[c].pc \in {"status", "certify", "key", "reconnect"} /\ UNCHANGED <<seat, obj, offline, open, bound>>
    BY <1>3 DEF At, onCheckTableStatus, onCheckUserCertification, onCheckUserMTkey, serverVars, agentVars,
                onDealUserReconnectTableSuccess
  <2>2. \E pc, k : th' = [th EXCEPT ![c] = Idle] \/ th' = [th EXCEPT ![c] = Frame(pc, th[c].q, 0, k)]
    <3>1. CASE onCheckTableStatus(c)
      BY <3>1 DEF onCheckTableStatus, AskKey, Suspend
    <3>2. CASE onCheckUserCertification(c)
      BY <3>2 DEF onCheckUserCertification, AskKey, Suspend
    <3>3. CASE onCheckUserMTkey(c)
      BY <3>3 DEF onCheckUserMTkey, Suspend
    <3>4. CASE onDealUserReconnectTableSuccess(c)
      BY <3>4 DEF onDealUserReconnectTableSuccess, Suspend, Finish
    <3>5. QED
      BY <1>3, <3>1, <3>2, <3>3, <3>4
  <2>3. SeatsKept /\ ~Served(c)
    BY <1>2, <2>1, SameUsers, SeatsStay DEF Served
  <2>4. QED
    BY <1>2, <2>1, <2>2, <2>3, ServedSearching
<1>4. CASE onGetUserInfo(c)
  <2>1. ~Served(c) /\ UNCHANGED <<offline, open, bound>>
    BY <1>2, <1>4 DEF onGetUserInfo, At, Served, serverVars, agentVars
  <2>2. \/ \E ready \in BOOLEAN : onAddNewUser(c, ready)
        \/ /\ UNCHANGED <<seat, obj>>
           /\ \E pc, k : th' = [th EXCEPT ![c] = Frame(pc, th[c].q, 0, k)]
    <3>1. CASE FeeNotDue
      BY <1>4, <3>1 DEF onGetUserInfo, Suspend
    <3>2. CASE ~FeeNotDue
      BY <1>4, <3>2 DEF onGetUserInfo, Suspend
    <3>3. QED
      BY <3>1, <3>2
  <2>3. CASE \E ready \in BOOLEAN : onAddNewUser(c, ready)
    BY <1>2, <2>1, <2>3, ServedSeat
  <2>4. CASE UNCHANGED <<seat, obj>> /\ \E pc, k : th' = [th EXCEPT ![c] = Frame(pc, th[c].q, 0, k)]
    <3>1. SeatsKept
      BY <2>4, SameUsers, SeatsStay
    <3>2. QED
      BY <1>2, <2>1, <2>4, <3>1, ServedSearching
  <2>5. QED
    BY <2>2, <2>3, <2>4
<1>5. CASE onUpdateUserDiamond(c)
  <2>1. ~Served(c) /\ UNCHANGED <<offline, open, bound>>
    BY <1>2, <1>5 DEF onUpdateUserDiamond, At, Served, serverVars, agentVars
  <2>2. CASE FeeRefused(c)
    <3>1. th' = [th EXCEPT ![c] = Frame("error", th[c].q, 0, 0)] /\ UNCHANGED <<seat, obj>>
      BY <2>2 DEF FeeRefused, Suspend
    <3>2. SeatsKept
      BY <3>1, SameUsers, SeatsStay
    <3>3. QED
      BY <1>2, <2>1, <3>1, <3>2, ServedSearching
  <2>3. CASE FeePaid(c)
    BY <1>2, <2>1, <2>3, ServedSeat DEF FeePaid
  <2>4. QED
    BY <1>5, <2>2, <2>3 DEF onUpdateUserDiamond
<1>6. CASE onDealUserLoginTableRedis(c)
  <2>1. UNCHANGED <<seat, obj, offline, open, bound>> /\ th' = [th EXCEPT ![c] = Frame("update", th[c].q, th[c].o, 0)]
    BY <1>6 DEF onDealUserLoginTableRedis, Suspend, agentVars
  <2>2. th[c].o # 0
    BY <1>1, <1>6 DEF onDealUserLoginTableRedis, At, GameTableInv, LogoutInv
  <2>3. th'[c].pc = "update" /\ th'[c].o = th[c].o /\ Others(c)
    BY <1>1, <2>1, Moved, Zenon
  <2>4. Served(c)' /\ SeatsKept
    BY <1>2, <2>1, <2>2, <2>3, SameUsers, SeatsStay DEF Served
  <2>5. QED
    BY <1>1, <1>2, <2>1, <2>3, <2>4, ServedKept
<1>7. CASE onGameTableUpdateTableData(c)
  <2>1. th[c].pc = "update" /\ UNCHANGED <<seat, obj, offline, open, bound>>
    BY <1>7 DEF onGameTableUpdateTableData, At, agentVars
  <2>2. SeatsKept
    BY <2>1, SameUsers, SeatsStay
  <2>3. CASE th[c].o = 0
    <3>1. th' = [th EXCEPT ![c] = Idle]
      BY <1>7, <2>3 DEF onGameTableUpdateTableData, Finish
    <3>2. ~Served(c)
      BY <1>2, <2>1, <2>3 DEF Served
    <3>3. QED
      BY <1>2, <2>1, <2>2, <3>1, <3>2, ServedSearching
  <2>4. CASE th[c].o # 0
    <3>1. th' = [th EXCEPT ![c] = Frame("bind", th[c].q, th[c].o, 0)]
      BY <1>7, <2>4 DEF onGameTableUpdateTableData, Suspend
    <3>2. th'[c].pc = "bind" /\ Others(c)
      BY <1>1, <3>1, Moved, Zenon
    <3>3. Served(c)'
      BY <1>2, <2>1, <3>2 DEF Served
    <3>4. QED
      BY <1>1, <1>2, <2>1, <2>2, <3>2, <3>3, ServedKept
  <2>5. QED
    BY <2>3, <2>4
<1>8. CASE onSetUserdAndGameTable(c)
  <2>1. UNCHANGED <<seat, obj, offline, open>> /\ bound' = bound \cup {c}
    BY <1>8 DEF onSetUserdAndGameTable, serverVars
  <2>2. Others(c) /\ th'[c].pc \in {"idle", "tail"}
    <3>1. CASE th' = [th EXCEPT ![c] = Idle]
      BY <1>1, <3>1, Ended
    <3>2. CASE th' = [th EXCEPT ![c] = Frame("tail", th[c].q, 0, 0)]
      BY <1>1, <3>2, Moved, Zenon
    <3>3. QED
      BY <1>8, <3>1, <3>2 DEF onSetUserdAndGameTable, Finish, Suspend
  <2>3. Served(c)' /\ SeatsKept /\ th'[c].pc \notin LoginPC
    BY <1>2, <2>1, <2>2, SameUsers, SeatsStay DEF Served, LoginPC
  <2>4. QED
    BY <1>1, <2>1, <2>2, <2>3, ServedKept
<1>9. CASE onDealUserLoginError(c)
  <2>1. /\ th[c].pc = "error" /\ UNCHANGED <<seat, obj, offline, bound>>
        /\ open' \subseteq open /\ open \subseteq open' \cup {c}
    BY <1>9 DEF onDealUserLoginError, At
  <2>2. ~Served(c) /\ SeatsKept
    BY <1>2, <2>1, SameUsers, SeatsStay DEF Served
  <2>3. CASE onDismissBattleRoom(c, "gs")
    <3>1. PICK pc, o, j : pc \in Going /\ th' = [th EXCEPT ![c] = Frame(pc, "gs", o, j)]
      BY <2>3, DismissFrame
    <3>2. pc \notin LoginPC
      BY <3>1, GoingIsNoLogin
    <3>3. QED
      BY <1>2, <2>1, <2>2, <3>1, <3>2, ServedSearching
  <2>4. CASE th' = [th EXCEPT ![c] = Idle]
    <3>1. "idle" \notin LoginPC
      BY DEF LoginPC
    <3>2. QED
      BY <1>2, <2>1, <2>2, <2>4, <3>1, ServedSearching
  <2>5. QED
    BY <1>9, <2>3, <2>4 DEF onDealUserLoginError, Finish
<1>10. QED
  BY <1>3, <1>4, <1>5, <1>6, <1>7, <1>8, <1>9, ServedOnline DEF LoginStep

(* The handlers that are no login, and the end of a round.                 *)
LEMMA ResumeServed ==
  ASSUME GameTableInv, ServedBody, NEW t \in Thread, onGameStopRound(t) \/ Resume(t)
  PROVE  ServedBody'
<1>1. CASE t # Timer /\ LoginStep(t)
  BY <1>1, LoginServed DEF Thread
<1>2. CASE onUpdateMoneyExpAndLogEx(t)
  <2>1. th[t].pc \notin LoginPC
    BY <1>2 DEF onUpdateMoneyExpAndLogEx, At, LoginPC
  <2>2. th' = [th EXCEPT ![t] = Idle] /\ UNCHANGED <<offline, open, bound>> /\ SeatsKept
    BY <1>2, SettledUsers, SeatsStay DEF serverVars, agentVars
  <2>3. PICK pc : pc = "idle"
    OBVIOUS
  <2>4. pc \notin LoginPC
    BY <2>3 DEF LoginPC
  <2>5. QED
    BY <2>1, <2>2, <2>4, ServedElsewhere
<1>3. CASE ClearSeat(t) \/ onResetTable(t)
  <2>1. th[t].pc \notin LoginPC /\ UNCHANGED <<obj, offline, open, bound>>
    BY <1>3 DEF ClearSeat, onResetTable, At, LoginPC, serverVars, agentVars
  <2>2. SeatsKept
    BY <1>3, <2>1 DEF SeatsKept, ClearSeat, Cleared, onResetTable
  <2>3. PICK pc, q, o, k : pc \in Going /\ th' = [th EXCEPT ![t] = Frame(pc, q, o, k)]
    BY <1>3 DEF ClearSeat, onResetTable, Suspend, Going
  <2>4. pc \notin LoginPC
    BY <2>3, GoingIsNoLogin
  <2>5. QED
    BY <2>1, <2>2, <2>3, <2>4, ServedElsewhere
<1>4. CASE onGameStopRound(t) \/ Answered(t) \/ onRemoveUser(t) \/ Left(t) \/ Kick(t) \/ onDisconnect(t)
  <2>1. th[t].pc \notin LoginPC
    BY <1>4 DEF onGameStopRound, Command, Idle, Frame, Answered, onRemoveUser, Left, Kick, onDisconnect, At, LoginPC
  <2>2. UNCHANGED <<seat, obj, offline, open, bound>>
    BY <1>4 DEF onGameStopRound, Answered, onRemoveUser, Left, Kick, onDisconnect, serverVars, agentVars
  <2>3. PICK pc, q, o, k :
          /\ pc \in Going
          /\ th' = th \/ th' = [th EXCEPT ![t] = Idle] \/ th' = [th EXCEPT ![t] = Frame(pc, q, o, k)]
    <3>0. "tail" \in Going /\ "settle" \in Going
      BY DEF Going
    <3>1. CASE onGameStopRound(t)
      <4>1. \/ th' = th \/ th' = [th EXCEPT ![t] = Idle]
            \/ \E q : th' = [th EXCEPT ![t] = Frame("settle", q, 0, 0)]
        BY <3>1 DEF onGameStopRound, Dies, Finish
      <4>2. QED
        BY <3>0, <4>1
    <3>2. CASE Answered(t)
      BY <3>0, <3>2 DEF Answered, Finish
    <3>3. CASE onRemoveUser(t)
      <4>1. "clear" \in Going /\ th' = [th EXCEPT ![t] = Frame("clear", th[t].q, th[t].o, th[t].k)]
        BY <3>3 DEF onRemoveUser, Suspend, Going
      <4>2. QED
        BY <4>1
    <3>4. CASE Left(t)
      <4>1. CASE th[t].k = 0
        BY <3>4, <4>1 DEF Left, Finish, Going
      <4>2. CASE th[t].k # 0
        <5>1. PICK q, k : KickFrom(t, q, k)
          BY <3>4, <4>2 DEF Left
        <5>2. QED
          BY <5>1, KickFrame
      <4>3. QED
        BY <4>1, <4>2
    <3>5. CASE Kick(t)
      <4>1. PICK q : KickFrom(t, q, 1)
        BY <3>5 DEF Kick
      <4>2. QED
        BY <4>1, KickFrame
    <3>6. CASE onDisconnect(t)
      BY <3>6 DEF onDisconnect, onDealUserLogoutTableSuccess, Finish, Going
    <3>7. QED
      BY <1>4, <3>1, <3>2, <3>3, <3>4, <3>5, <3>6
  <2>4. SeatsKept /\ pc \notin LoginPC
    BY <2>2, <2>3, SameUsers, SeatsStay, GoingIsNoLogin
  <2>5. QED
    BY <2>1, <2>2, <2>3, <2>4, ServedElsewhere
<1>5. QED
  BY <1>1, <1>2, <1>3, <1>4 DEF Resume

LEMMA NextServed == GameTableInv /\ ServedBody /\ [Next]_vars => ServedBody'
<1>1. SUFFICES ASSUME GameTableInv, ServedBody, [Next]_vars PROVE ServedBody'
  OBVIOUS
<1>2. CASE Next
  BY <1>1, <1>2, BeginServed, ResumeServed DEF Next
<1>3. CASE UNCHANGED vars
  <2>1. UNCHANGED <<seat, obj, offline, open, bound, th>>
    BY <1>3 DEF vars
  <2>2. \A c : Served(c)' <=> Served(c)
    BY <2>1 DEF Served
  <2>3. QED
    BY <1>1, <2>1, <2>2 DEF ServedBody, LoginInv, ServedInv
<1>4. QED
  BY <1>1, <1>2, <1>3

LEMMA InitServed == Init => ServedBody
<1>1. SUFFICES ASSUME Init PROVE ServedBody
  OBVIOUS
<1>2. /\ \A i \in Seat : seat[i] = 0
      /\ \A c \in Conn : th[c].pc = "idle"
  BY <1>1 DEF Init, Idle, Frame, Thread
<1>3. QED
  BY <1>2 DEF ServedBody, LoginInv, ServedInv, LoginPC

(* Once no handler waits, for every set of users and connections, a user   *)
(* who sits is on the offline list or has an open connection bound to the  *)
(* table.                                                                  *)
THEOREM SeatedAreServed == Spec => []NobodyStranded
<1>1. ServedBody => NobodyStranded
  <2>1. SUFFICES ASSUME ServedBody, Quiet, NEW u \in SeatedUsers
                 PROVE  u \in offline \/ \E c \in open \cap bound : UserOf[c] = u
    BY DEF NobodyStranded
  <2>2. \A c \in Conn : th[c].pc = "idle"
    BY <2>1 DEF Quiet, Idle, Frame, Thread
  <2>3. PICK i \in Seat : seat[i] # 0 /\ obj[seat[i]].user = u
    BY <2>1, SeatedMeans
  <2>4. u \in offline \/ \E c \in Conn : UserOf[c] = u /\ Served(c)
    BY <2>1, <2>3 DEF ServedBody, ServedInv
  <2>5. QED
    BY <2>2, <2>4 DEF Served
<1>2. Spec => []GameTableInv
  BY GameTableInvariant
<1>3. Spec => []ServedBody
  BY <1>2, InitServed, NextServed, PTL DEF Spec
<1>4. QED
  BY <1>1, <1>3, PTL
=============================================================================
