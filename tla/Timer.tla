------------------------------- MODULE Timer -------------------------------
(***************************************************************************)
(* skynet-src/skynet_timer.c: the hierarchical timing wheel.  Timers due   *)
(* in the current block of TIME_NEAR ticks wait in `near`; later ones in   *)
(* one of four levels of coarser blocks, and cascade down when the clock   *)
(* enters their block.  The clock wraps.  The timer thread gives the       *)
(* wheel's lock away while it delivers, so services add timers then.       *)
(***************************************************************************)
EXTENDS Integers, Sequences

CONSTANTS
  Timer,              \* the timers, each may be set again once it has fired
  Delay,              \* the delays asked for, positive, in ticks
  TIME_NEAR,          \* ticks of the near block, 256 in the code
  TIME_LEVEL,         \* lists of a level, 64 in the code
  MaxDiff,            \* ticks the thread may find elapsed at once
  MaxTicks            \* bound on the ticks of a behaviour

(* The ticks of the block that level l covers as a whole: the mask that    *)
(* add_node and timer_shift move from level to level.                      *)
Block[l \in 0 .. 4] == IF l = 0 THEN TIME_NEAR ELSE Block[l - 1] * TIME_LEVEL

(* The clock is an unsigned integer of this many values (2^32). *)
WRAP == Block[4]

ASSUME SizeAssumption == TIME_NEAR \in Nat \ {0} /\ TIME_LEVEL \in Nat \ {0, 1}
ASSUME DelayAssumption == Delay \subseteq 1 .. (WRAP \div 2 - 1)
ASSUME BoundAssumption == MaxDiff \in Nat /\ MaxTicks \in Nat

VARIABLES
  time,      \* T->time
  near,      \* the lists of the current block
  t,         \* the lists of the four levels
  pc,        \* the timer thread: "idle", "execute" or "shifted" (lock held),
             \* "dispatch0" or "dispatch" (lock given away)
  todo,      \* ticks skynet_updatetime has still to process
  current,   \* the list cut off by timer_execute, being dispatched
  ticks,     \* ghost: ticks since the start, without wrap
  due,       \* ghost: the tick at which every timer must fire, 0 if not set
  older      \* ghost: <<x, y>> when both are set, and x was first

vars == <<time, near, t, pc, todo, current, ticks, due, older>>

(* timer_create_timer *)
Init ==
  /\ time = 0
  /\ near = [i \in 0 .. TIME_NEAR - 1 |-> <<>>]
  /\ t = [l \in 0 .. 3 |-> [i \in 0 .. TIME_LEVEL - 1 |-> <<>>]]
  /\ pc = "idle"
  /\ todo = 0
  /\ current = <<>>
  /\ ticks = 0
  /\ due = [x \in Timer |-> 0]
  /\ older = {}

-----------------------------------------------------------------------------
(* Mutant: near is decided by distance and not by block. *)
SameBlockByDistance(x, y, b) == (x - y) % WRAP <= b

(* Two times that agree above the low bits of a block of b ticks. *)
SameBlock(x, y, b) == x \div b = y \div b

(* add_node: the wheel w, at clock now, with one more node. *)
add_node(w, now, node) ==
  IF SameBlock(node.expire, now, TIME_NEAR)
  THEN [w EXCEPT !.near[node.expire % TIME_NEAR] = Append(@, node)]
  ELSE LET fits == {l \in 0 .. 2 : SameBlock(node.expire, now, Block[l + 1])}
           l    == IF fits = {} THEN 3 ELSE CHOOSE i \in fits : \A j \in fits : i <= j
       IN  [w EXCEPT !.t[l][(node.expire \div Block[l]) % TIME_LEVEL] =
                        Append(@, node)]

(* Mutant: the nodes are added again from the last to the first. *)
move_list_reversed(w, now, level, idx) ==
  LET list == w.t[level][idx]
      moved[k \in 0 .. Len(list)] ==
        IF k = 0 THEN [w EXCEPT !.t[level][idx] = <<>>]
                 ELSE add_node(moved[k - 1], now, list[Len(list) + 1 - k])
  IN  moved[Len(list)]

(* move_list: the nodes of one list of a level are added again, in order. *)
move_list(w, now, level, idx) ==
  LET list == w.t[level][idx]
      moved[k \in 0 .. Len(list)] ==
        IF k = 0 THEN [w EXCEPT !.t[level][idx] = <<>>]
                 ELSE add_node(moved[k - 1], now, list[k])
  IN  moved[Len(list)]

(* Mutant: the wrap of the clock is not treated. *)
timer_shift_no_wrap(w, ct) ==
  LET starts == {l \in 0 .. 3 : ct % Block[l] = 0 /\ (ct \div Block[l]) % TIME_LEVEL # 0}
  IN  IF starts = {} THEN w
      ELSE LET l == CHOOSE i \in starts : \A j \in starts : i <= j
           IN  move_list(w, ct, l, (ct \div Block[l]) % TIME_LEVEL)

(* timer_shift, at the new clock ct: the level whose block begins at ct    *)
(* cascades: the first one whose index is not 0, or level 3 at the wrap.   *)
timer_shift(w, ct) ==
  IF ct = 0 THEN move_list(w, ct, 3, 0)
  ELSE LET starts == {l \in 0 .. 3 : /\ ct % Block[l] = 0
                                    /\ (ct \div Block[l]) % TIME_LEVEL # 0}
       IN  IF starts = {} THEN w
           ELSE LET l == CHOOSE i \in starts : \A j \in starts : i <= j
                IN  move_list(w, ct, l, (ct \div Block[l]) % TIME_LEVEL)

Wheel == [near |-> near, t |-> t]
SetWheel(w) == near' = w.near /\ t' = w.t

-----------------------------------------------------------------------------
(* skynet_timeout with a positive delay, from a service's thread: whenever *)
(* the timer thread does not hold the lock.                                *)
timer_add(x, delay) ==
  /\ pc \in {"idle", "dispatch0", "dispatch"}
  /\ due[x] = 0
  /\ ticks + todo + delay <= MaxTicks
  /\ SetWheel(add_node(Wheel, time, [id |-> x, expire |-> (time + delay) % WRAP]))
  /\ due' = [due EXCEPT ![x] = ticks + delay]
  /\ older' = older \cup {<<y, x>> : y \in {z \in Timer : due[z] # 0}}
  /\ UNCHANGED <<time, pc, todo, current, ticks>>

(* skynet_updatetime finds that diff ticks have passed. *)
skynet_updatetime ==
  /\ pc = "idle"
  /\ todo = 0
  /\ \E diff \in 1 .. MaxDiff : ticks + diff <= MaxTicks /\ todo' = diff
  /\ UNCHANGED <<time, near, t, pc, current, ticks, due, older>>

(* timer_update takes the lock. *)
timer_update ==
  /\ pc = "idle"
  /\ todo > 0
  /\ todo' = todo - 1
  /\ pc' = "execute"
  /\ UNCHANGED <<time, near, t, current, ticks, due, older>>

(* timer_execute: the list of the current tick is cut off and the lock     *)
(* given away, before the shift ("execute") and after it ("shifted").      *)
timer_execute ==
  /\ pc \in {"execute", "shifted"}
  /\ near[time % TIME_NEAR] # <<>>
  /\ current' = near[time % TIME_NEAR]
  /\ near' = [near EXCEPT ![time % TIME_NEAR] = <<>>]
  /\ pc' = IF pc = "execute" THEN "dispatch0" ELSE "dispatch"
  /\ UNCHANGED <<time, t, todo, ticks, due, older>>

(* dispatch_list: the oldest node is sent to its service; after the last   *)
(* one the lock is taken again and timer_execute looks once more.          *)
dispatch_list ==
  /\ pc \in {"dispatch0", "dispatch"}
  /\ due' = [due EXCEPT ![current[1].id] = 0]
  /\ older' = {p \in older : current[1].id \notin {p[1], p[2]}}
  /\ current' = Tail(current)
  /\ pc' = IF Len(current) > 1 THEN pc
           ELSE IF pc = "dispatch0" THEN "execute" ELSE "shifted"
  /\ UNCHANGED <<time, near, t, todo, ticks>>

(* Nothing left at the old tick: the clock advances. *)
Shift ==
  /\ pc = "execute"
  /\ near[time % TIME_NEAR] = <<>>
  /\ time' = (time + 1) % WRAP
  /\ SetWheel(timer_shift(Wheel, (time + 1) % WRAP))
  /\ ticks' = ticks + 1
  /\ pc' = "shifted"
  /\ UNCHANGED <<todo, current, due, older>>

(* Nothing left at the new tick: the lock is given back. *)
UpdateDone ==
  /\ pc = "shifted"
  /\ near[time % TIME_NEAR] = <<>>
  /\ pc' = "idle"
  /\ UNCHANGED <<time, near, t, todo, current, ticks, due, older>>

Next ==
  \/ \E x \in Timer, d \in Delay : timer_add(x, d)
  \/ skynet_updatetime
  \/ timer_update
  \/ timer_execute
  \/ dispatch_list
  \/ Shift
  \/ UpdateDone

(* The timer thread never stops; nothing forces services to set timers. *)
Spec ==
  /\ Init /\ [][Next]_vars
  /\ WF_vars(skynet_updatetime \/ timer_update \/ timer_execute
               \/ dispatch_list \/ Shift \/ UpdateDone)

-----------------------------------------------------------------------------
(* Every list of the wheel, and the one being dispatched. *)
Lists ==
  {near[i] : i \in DOMAIN near}
    \cup {t[l][i] : l \in 0 .. 3, i \in 0 .. TIME_LEVEL - 1}
    \cup {current}

(* The wheel is well formed: every list holds set timers.                  *)
TypeOK ==
  /\ time \in 0 .. WRAP - 1
  /\ time = ticks % WRAP
  /\ todo \in 0 .. MaxDiff
  /\ due \in [Timer -> 0 .. MaxTicks]
  /\ \A list \in Lists : \A i \in DOMAIN list :
       list[i].id \in Timer /\ due[list[i].id] # 0

(* A timer is delivered exactly at the tick it was set for: never early,   *)
(* never late, through all cascades and the wrap of the clock.  Until then *)
(* it is in the wheel, and its tick has not passed.                        *)
FiresOnTime ==
  /\ TypeOK
  /\ \A i \in DOMAIN current : due[current[i].id] = ticks
  /\ \A x \in Timer : due[x] # 0 =>
       /\ \E list \in Lists : \E i \in DOMAIN list : list[i].id = x
       /\ due[x] >= ticks
       /\ pc = "idle" => due[x] > ticks

(* Timers of the same tick are delivered in the order in which they were   *)
(* set, even when one has cascaded through the levels and the other has    *)
(* not.                                                                    *)
SameTickInOrder ==
  \A i, j \in DOMAIN current : i < j => <<current[i].id, current[j].id>> \in older

(* Every timer that a service sets is delivered.                           *)
EveryTimerFires == \A x \in Timer : due[x] # 0 ~> due[x] = 0
=============================================================================
