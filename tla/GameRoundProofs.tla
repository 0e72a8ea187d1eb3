-------------------------- MODULE GameRoundProofs --------------------------
(***************************************************************************)
(* Proofs about a round of mahjong (GameRound.tla).                        *)
(*                                                                         *)
(*  - RoundInv: a round that is being played waits with its timeout.       *)
(*  - CardsInv: where the cards are, what the players were offered and the *)
(*    kongs counted, after every handler and after the ones that fail.  It *)
(*    counts with sums over seats, cards and melds, whose laws come first. *)
(*  - Made: what the search for melds computes.                            *)
(***************************************************************************)
EXTENDS GameRound, FiniteSetTheorems, WellFoundedInduction, TLAPS

(* The fields of the round.                                                *)
Fields == {"status", "cur", "timers", "opt", "seated", "pool", "stack", "out",
           "hand", "meld", "gangs", "win", "over", "err"}
IsRound(s) == DOMAIN s = Fields

-----------------------------------------------------------------------------
(* The round waits with the timeout of its state pending.                  *)
Waits(s) ==
  \/ s.status = "none" /\ ("makeBanker" \in s.timers \/ "dealCards" \in s.timers)
  \/ s.status = "draw" /\ "drawCard" \in s.timers
  \/ s.status = "out" /\ "outCard" \in s.timers
  \/ s.status = "opOut" /\ "opOutCard" \in s.timers
  \/ s.status = "opDraw" /\ "opDarwCard" \in s.timers
  \/ s.status = "opBuGang" /\ "opBuGangCard" \in s.timers

(* How a handler leaves the round: it failed, it is over, or it waits.     *)
Left(u) == u.err \/ u.over \/ (u.seated /\ Waits(u))

(* u is s with other timers, as far as waiting is concerned.               *)
Retimed(s, u, T) == IsRound(u) /\ u.timers = T /\ u.status = s.status /\ u.seated = s.seated

LEMMA TimerSet ==
  ASSUME NEW s, IsRound(s), NEW k, NEW K
  PROVE  /\ Retimed(s, startTimer(s, k), s.timers \cup {k})
         /\ Retimed(s, stopTimer(s, K), s.timers \ K)
BY DEF Retimed, startTimer, stopTimer, IsRound, Fields

(* A status with its timer started.                                        *)
LEMMA StartWaits ==
  ASSUME NEW v, IsRound(v), NEW k, NEW u, u = startTimer(v, k),
         \/ v.status = "out" /\ k = "outCard"
         \/ v.status = "opOut" /\ k = "opOutCard"
         \/ v.status = "opDraw" /\ k = "opDarwCard"
         \/ v.status = "opBuGang" /\ k = "opBuGangCard"
  PROVE  IsRound(u) /\ (v.seated => Left(u))
<1>1. Retimed(v, u, v.timers \cup {k})
  BY TimerSet, Zenon
<1>2. QED
  BY <1>1 DEF Retimed, Left, Waits

\* onGameStopRound leaves the round over, or failed on the way.
LEMMA StopWaits ==
  ASSUME NEW s, IsRound(s), NEW u \in onGameStopRound(s)
  PROVE  IsRound(u) /\ (u.err \/ u.over)
<1>1. PICK t : t = clearAllRoundTimer(s)
  OBVIOUS
<1>2. IsRound(t)
  BY <1>1, TimerSet DEF clearAllRoundTimer, Retimed
<1>3. u = Error(t) \/ u = [onReset(t) EXCEPT !.over = TRUE]
  BY <1>1 DEF onGameStopRound
<1>4. PICK q : q = clearAllRoundTimer(t)
  OBVIOUS
<1>5. IsRound(q)
  BY <1>2, <1>4, TimerSet DEF clearAllRoundTimer, Retimed
<1>6. PICK v : v = onReset(t)
  OBVIOUS
<1>7. v = [q EXCEPT !.status = "none", !.opt = <<>>, !.gangs = <<>>, !.cur = -1]
  BY <1>4, <1>6 DEF onReset
<1>8. IsRound(v)
  BY <1>5, <1>7 DEF IsRound
<1>9. CASE u = Error(t)
  BY <1>2, <1>9 DEF Error, IsRound, Fields
<1>10. CASE u = [v EXCEPT !.over = TRUE]
  BY <1>8, <1>10 DEF IsRound, Fields
<1>11. QED
  BY <1>3, <1>6, <1>9, <1>10

\* After a draw the round waits for an operation or for a discard.
LEMMA AfterDrawWaits ==
  ASSUME NEW s, IsRound(s), NEW i, NEW c, NEW u, u = AfterDraw(s, i, c)
  PROVE  IsRound(u) /\ (s.seated => Left(u))
<1>1. PICK tab : tab = onGetUserOpValueWhenDrawCard(s, i, c)
  OBVIOUS
<1>2. PICK t : t = [s EXCEPT !.opt = [onClearUserOp EXCEPT ![i] = Offer(tab)], !.cur = i]
  OBVIOUS
<1>3. IsRound(t) /\ t.seated = s.seated
  BY <1>2 DEF IsRound, Fields
<1>4. \/ u = startTimer([t EXCEPT !.status = "opDraw"], "opDarwCard")
      \/ u = startTimer([t EXCEPT !.status = "out"], "outCard")
  BY <1>1, <1>2, Zenon DEF AfterDraw
<1>5. CASE u = startTimer([t EXCEPT !.status = "opDraw"], "opDarwCard")
  <2>1. PICK v : v = [t EXCEPT !.status = "opDraw"]
    OBVIOUS
  <2>2. IsRound(v) /\ v.seated = s.seated /\ v.status = "opDraw"
    BY <1>3, <2>1 DEF IsRound, Fields
  <2>3. QED
    BY <1>5, <2>1, <2>2, StartWaits
<1>6. CASE u = startTimer([t EXCEPT !.status = "out"], "outCard")
  <2>1. PICK v : v = [t EXCEPT !.status = "out"]
    OBVIOUS
  <2>2. IsRound(v) /\ v.seated = s.seated /\ v.status = "out"
    BY <1>3, <2>1 DEF IsRound, Fields
  <2>3. QED
    BY <1>6, <2>1, <2>2, StartWaits
<1>7. QED
  BY <1>4, <1>5, <1>6

\* drawCard goes on to the wait after the draw, or ends the round.
LEMMA DrawWaits ==
  ASSUME NEW s, IsRound(s), s.status = "draw", NEW i, NEW u \in drawCard(s, i)
  PROVE  IsRound(u) /\ (s.seated => Left(u))
<1>1. CASE Size(s.pool) = 0
  <2>1. u \in onGameStopRound(s)
    BY <1>1, Zenon DEF drawCard
  <2>2. QED
    BY <2>1, StopWaits DEF Left
<1>2. CASE Size(s.pool) # 0
  <2>1. PICK c \in Draws(s) : u = AfterDraw([pop(s, c) EXCEPT !.hand[i][c] = @ + 1], i, c)
    BY <1>2, Zenon DEF drawCard
  <2>2. PICK p : p = pop(s, c)
    OBVIOUS
  <2>3. IsRound(p) /\ p.seated = s.seated
    BY <2>2 DEF pop, IsRound, Fields
  <2>4. PICK v : v = [p EXCEPT !.hand[i][c] = @ + 1]
    OBVIOUS
  <2>5. IsRound(v) /\ v.seated = s.seated
    BY <2>3, <2>4 DEF IsRound, Fields
  <2>6. QED
    BY <2>1, <2>2, <2>4, <2>5, AfterDrawWaits, Zenon
<1>3. QED
  BY <1>1, <1>2

LEMMA DrawingWaits ==
  ASSUME NEW s, IsRound(s), NEW cur, NEW i, NEW u \in drawCard(Drawing(s, cur), i)
  PROVE  IsRound(u) /\ (s.seated => Left(u))
<1>1. PICK t : t = Drawing(s, cur)
  OBVIOUS
<1>2. IsRound(t) /\ t.status = "draw" /\ t.seated = s.seated
  BY <1>1 DEF Drawing, IsRound, Fields
<1>3. QED
  BY <1>1, <1>2, DrawWaits, Zenon

(* A change of one status with its timer.                                  *)
LEMMA TimedWaits ==
  ASSUME NEW s, IsRound(s), NEW u,
         \/ u = startTimer([s EXCEPT !.status = "opOut"], "opOutCard")
         \/ u = startTimer([s EXCEPT !.status = "opBuGang"], "opBuGangCard")
         \/ u = startTimer([s EXCEPT !.status = "out"], "outCard")
         \/ \E i : u = startTimer([s EXCEPT !.status = "out", !.cur = i], "outCard")
  PROVE  IsRound(u) /\ (s.seated => Left(u))
<1>1. CASE u = startTimer([s EXCEPT !.status = "opOut"], "opOutCard")
  <2>1. PICK v : v = [s EXCEPT !.status = "opOut"]
    OBVIOUS
  <2>2. IsRound(v) /\ v.seated = s.seated /\ v.status = "opOut"
    BY <2>1 DEF IsRound, Fields
  <2>3. QED
    BY <1>1, <2>1, <2>2, StartWaits
<1>2. CASE u = startTimer([s EXCEPT !.status = "opBuGang"], "opBuGangCard")
  <2>1. PICK v : v = [s EXCEPT !.status = "opBuGang"]
    OBVIOUS
  <2>2. IsRound(v) /\ v.seated = s.seated /\ v.status = "opBuGang"
    BY <2>1 DEF IsRound, Fields
  <2>3. QED
    BY <1>2, <2>1, <2>2, StartWaits
<1>3. CASE u = startTimer([s EXCEPT !.status = "out"], "outCard")
  <2>1. PICK v : v = [s EXCEPT !.status = "out"]
    OBVIOUS
  <2>2. IsRound(v) /\ v.seated = s.seated /\ v.status = "out"
    BY <2>1 DEF IsRound, Fields
  <2>3. QED
    BY <1>3, <2>1, <2>2, StartWaits
<1>4. CASE \E i : u = startTimer([s EXCEPT !.status = "out", !.cur = i], "outCard")
  <2>1. PICK i : u = startTimer([s EXCEPT !.status = "out", !.cur = i], "outCard")
    BY <1>4
  <2>2. PICK v : v = [s EXCEPT !.status = "out", !.cur = i]
    OBVIOUS
  <2>3. IsRound(v) /\ v.seated = s.seated /\ v.status = "out"
    BY <2>2 DEF IsRound, Fields
  <2>4. QED
    BY <2>1, <2>2, <2>3, StartWaits
<1>5. QED
  BY <1>1, <1>2, <1>3, <1>4

\* Every operation carried out leaves a wait that is timed.
LEMMA TakeOpWaits ==
  ASSUME NEW s, IsRound(s), NEW i, NEW op, NEW u \in onDealClientUserTakeOp(s, i, op)
  PROVE  IsRound(u) /\ (s.seated => Left(u))
<1>1. PICK laid : laid = LayDown(s, i, op)
  OBVIOUS
<1>2. IsRound(laid) /\ laid.seated = s.seated
  BY <1>1 DEF LayDown, IsRound, Fields
<1>3. PICK paid : paid = onDealGangTurnMoney(laid, i, op)
  OBVIOUS
<1>4. IsRound(paid) /\ paid.seated = s.seated
  BY <1>2, <1>3 DEF onDealGangTurnMoney, IsRound, Fields
<1>5. PICK t : t = [paid EXCEPT !.opt = [j \in Seat |->
                 IF op[1] = "BU_GANG" /\ j # i
                 THEN Offer(onGetUserOpValueWhenBuGang(paid, j, op[2])) ELSE Offer({})]]
  OBVIOUS
<1>6. IsRound(t) /\ t.seated = s.seated
  BY <1>4, <1>5 DEF IsRound, Fields
<1>7. \/ u = Error(laid)
      \/ u = startTimer([t EXCEPT !.status = "opBuGang"], "opBuGangCard")
      \/ u = startTimer([t EXCEPT !.status = "out", !.cur = i], "outCard")
      \/ u \in drawCard(Drawing(t, 0), i)
  BY <1>1, <1>3, <1>5, Zenon DEF onDealClientUserTakeOp
<1>8. CASE u = Error(laid)
  BY <1>2, <1>8 DEF Error, Left, IsRound, Fields
<1>9. CASE \/ u = startTimer([t EXCEPT !.status = "opBuGang"], "opBuGangCard")
           \/ u = startTimer([t EXCEPT !.status = "out", !.cur = i], "outCard")
  BY <1>6, <1>9, TimedWaits
<1>10. CASE u \in drawCard(Drawing(t, 0), i)
  BY <1>6, <1>10, DrawingWaits, Zenon
<1>11. QED
  BY <1>7, <1>8, <1>9, <1>10

OpTimers == {"opOutCard", "opDarwCard", "opBuGangCard"}

(* The status stays and only timers of operations are stopped.             *)
Stays(s, u) == u.status = s.status /\ u.timers = s.timers \ OpTimers /\ u.seated = s.seated

\* So does the end of a round of answers, whichever timers it stops.
LEMMA AllOpWaits ==
  ASSUME NEW s, IsRound(s), NEW u \in onClientUserHasAllOp(s)
  PROVE  /\ IsRound(u)
         /\ s.seated => Left(u) \/ (s.status \notin {"opOut", "opDraw", "opBuGang"} /\ Stays(s, u))
<1>1. PICK t : t = stopTimer(s, OpTimers)
  OBVIOUS
<1>2. IsRound(t) /\ t.seated = s.seated /\ t.status = s.status /\ t.timers = s.timers \ OpTimers
  BY <1>1, TimerSet DEF Retimed
<1>3. PICK x : x = [t EXCEPT !.opt = onClearUserOp]
  OBVIOUS
<1>4. IsRound(x) /\ x.seated = s.seated /\ x.status = s.status /\ x.timers = s.timers \ OpTimers
  BY <1>2, <1>3 DEF IsRound, Fields
<1>5. CASE ~s.seated
  BY <1>1, <1>2, <1>5 DEF onClientUserHasAllOp, OpTimers
<1>6. CASE s.seated
  <2>1. \/ u = Error(t)
        \/ \E first, op : u \in onGameStopRound(onDealClientUserHu(t, first, op))
        \/ \E first, op : u \in onDealClientUserTakeOp(t, first, op)
        \/ s.status = "opOut" /\ u \in drawCard(Drawing(x, x.cur), onGetNextSeat(x.cur))
        \/ s.status = "opDraw" /\ u = startTimer([x EXCEPT !.status = "out"], "outCard")
        \/ s.status = "opBuGang" /\ u \in drawCard(Drawing(x, x.cur), x.cur)
        \/ s.status \notin {"opOut", "opDraw", "opBuGang"} /\ u = x
    BY <1>1, <1>3, <1>6 DEF onClientUserHasAllOp, OpTimers
  <2>2. CASE u = Error(t)
    BY <1>2, <2>2 DEF Error, Left, IsRound, Fields
  <2>3. CASE \E first, op : u \in onGameStopRound(onDealClientUserHu(t, first, op))
    <3>1. PICK first, op : u \in onGameStopRound(onDealClientUserHu(t, first, op))
      BY <2>3
    <3>2. PICK v : v = onDealClientUserHu(t, first, op)
      OBVIOUS
    <3>3. IsRound(v)
      BY <1>2, <3>2 DEF onDealClientUserHu, IsRound
    <3>4. QED
      BY <3>1, <3>2, <3>3, StopWaits DEF Left
  <2>4. CASE \E first, op : u \in onDealClientUserTakeOp(t, first, op)
    BY <1>2, <2>4, TakeOpWaits, Zenon
  <2>5. CASE u \in drawCard(Drawing(x, x.cur), onGetNextSeat(x.cur)) \/ u \in drawCard(Drawing(x, x.cur), x.cur)
    BY <1>4, <2>5, DrawingWaits, Zenon
  <2>6. CASE u = startTimer([x EXCEPT !.status = "out"], "outCard")
    BY <1>4, <2>6, TimedWaits
  <2>7. CASE s.status \notin {"opOut", "opDraw", "opBuGang"} /\ u = x
    BY <1>4, <2>7 DEF Stays
  <2>8. QED
    BY <2>1, <2>2, <2>3, <2>4, <2>5, <2>6, <2>7
<1>7. QED
  BY <1>5, <1>6

\* So does a discard.
LEMMA OutCardWaits ==
  ASSUME NEW s, IsRound(s), NEW i, NEW c, NEW u \in onClientCmdOutCard(s, i, c)
  PROVE  /\ IsRound(u)
         /\ CanDiscard(s, i, c) /\ s.seated => Left(u)
         /\ ~CanDiscard(s, i, c) => u = s
<1>1. CASE ~CanDiscard(s, i, c)
  BY <1>1, Zenon DEF onClientCmdOutCard
<1>2. CASE CanDiscard(s, i, c)
  <2>1. PICK p : p = stopTimer(s, {"outCard"})
    OBVIOUS
  <2>2. IsRound(p) /\ p.seated = s.seated
    BY <2>1, TimerSet DEF Retimed
  <2>3. PICK t : t = [p EXCEPT !.hand[i] = Remove(@, c, 1), !.out[c] = @ + 1]
    OBVIOUS
  <2>4. IsRound(t) /\ t.seated = s.seated
    BY <2>2, <2>3 DEF IsRound, Fields
  <2>5. PICK tabs : tabs = [j \in Seat |-> IF j = i THEN {} ELSE onGetUserOpValueWhenOutCard(t, j, c)]
    OBVIOUS
  <2>6. PICK v : v = [t EXCEPT !.opt = [j \in Seat |-> Offer(tabs[j])]]
    OBVIOUS
  <2>7. IsRound(v) /\ v.seated = s.seated
    BY <2>4, <2>6 DEF IsRound, Fields
  <2>8. \/ u = startTimer([v EXCEPT !.status = "opOut"], "opOutCard")
        \/ u \in drawCard(Drawing(v, 0), onGetNextSeat(i))
    <3>1. u \in IF \E j \in Seat : tabs[j] # {}
                 THEN {startTimer([v EXCEPT !.status = "opOut"], "opOutCard")}
                 ELSE drawCard(Drawing(v, 0), onGetNextSeat(i))
      <4>1. t = [stopTimer(s, {"outCard"}) EXCEPT !.hand[i] = Remove(@, c, 1), !.out[c] = @ + 1]
        BY <2>1, <2>3
      <4>2. QED
        BY <1>2, <2>5, <2>6, <4>1 DEF onClientCmdOutCard
    <3>2. QED
      BY <3>1
  <2>9. CASE u = startTimer([v EXCEPT !.status = "opOut"], "opOutCard")
    BY <1>2, <2>7, <2>9, TimedWaits
  <2>10. CASE u \in drawCard(Drawing(v, 0), onGetNextSeat(i))
    BY <1>2, <2>7, <2>10, DrawingWaits, Zenon
  <2>11. QED
    BY <2>8, <2>9, <2>10
<1>3. QED
  BY <1>1, <1>2

-----------------------------------------------------------------------------
(* The round is a record; until a handler fails the scheduler runs and a   *)
(* round that is being played has its players and the timeout of its state *)
(* pending.                                                                *)
RoundInv ==
  /\ IsRound(r) /\ errs \in Nat
  /\ ~failed => ticking /\ (playing => r.seated /\ Waits(r))

(* How a timer or a command leaves a round that was waiting.               *)
LEMMA FiredWaits ==
  ASSUME NEW q, IsRound(q), NEW k \in Timer, NEW u \in callback(stopTimer(q, {k}), k)
  PROVE  IsRound(u) /\ (q.seated /\ Waits(q) => Left(u))
<1>1. PICK s : s = stopTimer(q, {k})
  OBVIOUS
<1>2. Retimed(q, s, q.timers \ {k})
  BY <1>1, TimerSet, Zenon
<1>3. IsRound(s) /\ s.timers = q.timers \ {k} /\ s.status = q.status /\ s.seated = q.seated
  BY <1>2 DEF Retimed
<1>4. u \in callback(s, k)
  BY <1>1
<1>5. CASE k = "makeBanker"
  <2>1. u = process_dealCards(s)
    BY <1>4, <1>5 DEF callback
  <2>2. PICK v : u = startTimer(v, "dealCards") /\ IsRound(v) /\ v.seated = s.seated
                 /\ v.status = s.status /\ v.timers = s.timers
    <3>1. PICK hand, pool, stack :
            u = startTimer([s EXCEPT !.hand = hand, !.pool = pool, !.stack = stack], "dealCards")
      BY <2>1, Zenon DEF process_dealCards
    <3>2. PICK v : v = [s EXCEPT !.hand = hand, !.pool = pool, !.stack = stack]
      OBVIOUS
    <3>3. IsRound(v) /\ v.seated = s.seated /\ v.status = s.status /\ v.timers = s.timers
      BY <1>3, <3>2 DEF IsRound, Fields
    <3>4. QED
      BY <3>1, <3>2, <3>3
  <2>3. Retimed(v, u, v.timers \cup {"dealCards"})
    BY <2>2, TimerSet, Zenon
  <2>4. QED
    BY <1>3, <1>5, <2>2, <2>3 DEF Retimed, Left, Waits
<1>6. CASE k = "dealCards"
  <2>1. u = startTimer(Drawing(s, 1), "drawCard")
    BY <1>4, <1>6 DEF callback, onDealCardsTimerCallback
  <2>2. PICK v : v = Drawing(s, 1)
    OBVIOUS
  <2>3. IsRound(v) /\ v.seated = s.seated /\ v.status = "draw"
    BY <1>3, <2>2 DEF Drawing, IsRound, Fields
  <2>4. Retimed(v, u, v.timers \cup {"drawCard"})
    BY <2>1, <2>2, <2>3, TimerSet, Zenon
  <2>5. QED
    BY <1>3, <2>3, <2>4 DEF Retimed, Left, Waits
<1>7. CASE k = "drawCard"
  <2>1. u \in drawCard(s, s.cur)
    BY <1>4, <1>7 DEF callback
  <2>2. CASE s.status = "draw"
    BY <1>3, <2>1, <2>2, DrawWaits, Zenon
  <2>3. CASE s.status # "draw"
    <3>1. u = s
      BY <2>1, <2>3 DEF drawCard
    <3>2. QED
      BY <1>3, <1>7, <2>3, <3>1 DEF Left, Waits
  <2>4. QED
    BY <2>2, <2>3
<1>8. CASE k = "outCard"
  <2>1. PICK c \in Card : s.hand[s.cur][c] > 0 /\ u \in onClientCmdOutCard(s, s.cur, c)
    BY <1>4, <1>8 DEF callback, onOutCardTimerTimeOut
  <2>2. IsRound(u) /\ (CanDiscard(s, s.cur, c) /\ s.seated => Left(u)) /\ (~CanDiscard(s, s.cur, c) => u = s)
    BY <1>3, <2>1, OutCardWaits, Zenon
  <2>3. CASE s.status = "out"
    BY <1>3, <2>1, <2>2, <2>3 DEF CanDiscard
  <2>4. CASE s.status # "out"
    BY <1>3, <1>8, <2>2, <2>4 DEF Left, Waits
  <2>5. QED
    BY <2>3, <2>4
<1>9. CASE k \in OpTimers
  <2>1. u \in onClientUserHasAllOp(s)
    BY <1>4, <1>9 DEF callback, OpTimers
  <2>2. /\ IsRound(u)
        /\ s.seated => Left(u) \/ (s.status \notin {"opOut", "opDraw", "opBuGang"} /\ Stays(s, u))
    BY <1>3, <2>1, AllOpWaits, Zenon
  <2>3. QED
    BY <1>3, <1>9, <2>2 DEF Left, Waits, Stays, OpTimers
<1>10. QED
  BY <1>5, <1>6, <1>7, <1>8, <1>9 DEF Timer, OpTimers

LEMMA DiscardWaits ==
  ASSUME NEW q, IsRound(q), NEW i, NEW c, NEW u \in onClientCmdOutCard(q, i, c)
  PROVE  IsRound(u) /\ (q.seated /\ Waits(q) => Left(u))
<1>1. IsRound(u) /\ (CanDiscard(q, i, c) /\ q.seated => Left(u)) /\ (~CanDiscard(q, i, c) => u = q)
  BY OutCardWaits, Zenon
<1>2. QED
  BY <1>1 DEF Left

LEMMA OperateWaits ==
  ASSUME NEW q, IsRound(q), NEW i, NEW op, NEW u \in onClientCmdTakeOpreation(q, i, op)
  PROVE  IsRound(u) /\ (q.seated /\ Waits(q) => Left(u))
<1>1. PICK opt : opt = IF q.opt[i].val /\ q.opt[i].sel = {} /\ op \in q.opt[i].tab
               THEN [j \in Seat |-> IF j = i THEN [q.opt[i] EXCEPT !.sel = {op}]
                                             ELSE [q.opt[j] EXCEPT !.val = FALSE]]
               ELSE [q.opt EXCEPT ![i].val = FALSE]
  OBVIOUS
<1>2. PICK t : t = [q EXCEPT !.opt = opt]
  OBVIOUS
<1>3. IsRound(t) /\ t.seated = q.seated /\ t.status = q.status /\ t.timers = q.timers
  BY <1>2 DEF IsRound, Fields
<1>4. \/ u = q
      \/ u = t
      \/ q.status \in {"opOut", "opDraw", "opBuGang"} /\ u \in onClientUserHasAllOp(t)
  BY <1>1, <1>2 DEF onClientCmdTakeOpreation
<1>5. CASE u = q
  BY <1>5 DEF Left
<1>6. CASE u = t
  BY <1>3, <1>6 DEF Left, Waits
<1>7. CASE q.status \in {"opOut", "opDraw", "opBuGang"} /\ u \in onClientUserHasAllOp(t)
  <2>1. /\ IsRound(u)
        /\ t.seated => Left(u) \/ (t.status \notin {"opOut", "opDraw", "opBuGang"} /\ Stays(t, u))
    BY <1>3, <1>7, AllOpWaits, Zenon
  <2>2. QED
    BY <1>3, <1>7, <2>1
<1>8. QED
  BY <1>4, <1>5, <1>6, <1>7

(* What a handler leaves is a state of the invariant.                      *)
LEMMA HandledWaits ==
  ASSUME RoundInv, NEW s, Handled(s), IsRound(s),
         r.seated /\ Waits(r) => Left(s),
         ticking' = ticking \/ ticking' = (~s.err)
  PROVE  RoundInv'
<1>1. IsRound(r')
  BY DEF Handled, IsRound, Fields
<1>2. errs' \in Nat
  BY DEF Handled, RoundInv
<1>3. ASSUME ~failed' PROVE ~failed /\ ~s.err
  BY <1>3 DEF failed, Handled, RoundInv
<1>4. ASSUME ~failed' PROVE ticking'
  BY <1>3, <1>4 DEF RoundInv
<1>5. ASSUME ~failed', playing' PROVE (r.seated /\ Waits(r))'
  <2>1. playing /\ ~s.over
    BY <1>5 DEF Handled
  <2>2. s.seated /\ Waits(s)
    BY <1>3, <1>5, <2>1 DEF RoundInv, Left
  <2>3. QED
    BY <2>2 DEF Handled, Waits
<1>6. QED
  BY <1>1, <1>2, <1>4, <1>5 DEF RoundInv

\* The error of an earlier handler is forgotten before the next.
LEMMA FreshRound ==
  ASSUME IsRound(r)
  PROVE  IsRound(Fresh) /\ (r.seated /\ Waits(r) => Fresh.seated /\ Waits(Fresh)) /\ ~Fresh.err
BY DEF Fresh, IsRound, Fields, Waits

\* Every step keeps the invariant.
LEMMA RoundStep ==
  ASSUME RoundInv, [Next]_vars
  PROVE  RoundInv'
<1>1. PICK q : q = Fresh
  OBVIOUS
<1>2. IsRound(q) /\ (r.seated /\ Waits(r) => q.seated /\ Waits(q))
  BY <1>1, FreshRound DEF RoundInv
<1>3. CASE Start
  <2>1. PICK t : t = clearAllRoundTimer(q)
    OBVIOUS
  <2>2. IsRound(t)
    BY <1>2, <2>1, TimerSet DEF clearAllRoundTimer, Retimed
  <2>3. PICK v : v = onReset(q)
    OBVIOUS
  <2>4. v = [t EXCEPT !.status = "none", !.opt = <<>>, !.gangs = <<>>, !.cur = -1]
    BY <2>1, <2>3 DEF onReset
  <2>5. IsRound(v) /\ v.status = "none"
    BY <2>2, <2>4 DEF IsRound, Fields
  <2>6. PICK stack : r' = startTimer([v EXCEPT !.seated = TRUE, !.over = FALSE, !.win = NoWin,
                 !.hand = [i \in Seat |-> None], !.meld = [i \in Seat |-> <<>>],
                 !.out = None, !.pool = [c \in Card |-> Copies], !.stack = stack, !.cur = 1],
              "makeBanker")
    BY <1>1, <1>3, <2>3, Zenon DEF Start, onGameStart
  <2>7. PICK w : w = [v EXCEPT !.seated = TRUE, !.over = FALSE, !.win = NoWin,
                 !.hand = [i \in Seat |-> None], !.meld = [i \in Seat |-> <<>>],
                 !.out = None, !.pool = [c \in Card |-> Copies], !.stack = stack, !.cur = 1]
    OBVIOUS
  <2>8. IsRound(w) /\ w.seated /\ w.status = "none"
    BY <2>5, <2>7 DEF IsRound, Fields
  <2>9. PICK z : z = r'
    OBVIOUS
  <2>10. Retimed(w, z, w.timers \cup {"makeBanker"})
    BY <2>6, <2>7, <2>8, <2>9, TimerSet, Zenon
  <2>11. IsRound(z) /\ z.seated /\ Waits(z)
    BY <2>8, <2>10 DEF Retimed, Waits
  <2>12. IsRound(r') /\ r'.seated /\ Waits(r)'
    BY <2>9, <2>11 DEF Waits
  <2>13. errs' = errs /\ ticking' = ticking
    BY <1>3 DEF Start
  <2>14. IsRound(r)'
    BY <2>12 DEF IsRound, Fields
  <2>15. QED
    BY <2>12, <2>13, <2>14 DEF RoundInv, failed
<1>4. ASSUME NEW k \in Timer, Fire(k) PROVE RoundInv'
  <2>1. PICK s \in callback(stopTimer(q, {k}), k) : Handled(s) /\ ticking' = (~s.err)
    BY <1>1, <1>4 DEF Fire
  <2>2. IsRound(s) /\ (q.seated /\ Waits(q) => Left(s))
    BY <1>2, <2>1, FiredWaits, Zenon
  <2>3. QED
    BY <1>2, <2>1, <2>2, HandledWaits
<1>5. ASSUME NEW i \in Seat, NEW c \in Card, Discard(i, c) PROVE RoundInv'
  <2>1. PICK s \in onClientCmdOutCard(q, i, c) : Handled(s) /\ ticking' = ticking
    BY <1>1, <1>5 DEF Discard
  <2>2. IsRound(s) /\ (q.seated /\ Waits(q) => Left(s))
    BY <1>2, <2>1, DiscardWaits, Zenon
  <2>3. QED
    BY <1>2, <2>1, <2>2, HandledWaits
<1>6. ASSUME NEW i \in Seat, NEW op \in Answers(i), Operate(i, op) PROVE RoundInv'
  <2>1. PICK s \in onClientCmdTakeOpreation(q, i, op) : Handled(s) /\ ticking' = ticking
    BY <1>1, <1>6 DEF Operate
  <2>2. IsRound(s) /\ (q.seated /\ Waits(q) => Left(s))
    BY <1>2, <2>1, OperateWaits, Zenon
  <2>3. QED
    BY <1>2, <2>1, <2>2, HandledWaits
<1>7. CASE Dismiss
  <2>1. PICK t : t = clearAllRoundTimer(q)
    OBVIOUS
  <2>2. IsRound(t)
    BY <1>2, <2>1, TimerSet DEF clearAllRoundTimer, Retimed
  <2>3. PICK v : v = onReset(q)
    OBVIOUS
  <2>4. v = [t EXCEPT !.status = "none", !.opt = <<>>, !.gangs = <<>>, !.cur = -1]
    BY <2>1, <2>3 DEF onReset
  <2>5. IsRound(v)
    BY <2>2, <2>4 DEF IsRound, Fields
  <2>6. PICK s : s = [v EXCEPT !.seated = FALSE, !.over = TRUE]
    OBVIOUS
  <2>7. IsRound(s) /\ s.over
    BY <2>5, <2>6 DEF IsRound, Fields
  <2>8. Handled(s) /\ ticking' = ticking
    BY <1>1, <1>7, <2>3, <2>6 DEF Dismiss
  <2>9. QED
    BY <2>7, <2>8, HandledWaits DEF Left
<1>8. CASE UNCHANGED vars
  BY <1>8 DEF vars, RoundInv, IsRound, Fields, Waits, failed
<1>9. QED
  BY <1>3, <1>4, <1>5, <1>6, <1>7, <1>8 DEF Next

LEMMA RoundStarts ==
  ASSUME Init
  PROVE  RoundInv
BY DEF Init, RoundInv, IsRound, Fields, failed

(* Until a handler fails, a round that is being played never waits for a   *)
(* player only: for every number of players, every set of cards and every  *)
(* wall, whatever answers and timeouts overlap, the timer that moves the   *)
(* round out of its state is pending and the scheduler polls.              *)
THEOREM WaitsStayTimed == Spec => []WaitsAreTimed
<1>1. RoundInv => WaitsAreTimed
  BY DEF RoundInv, WaitsAreTimed, Timed, Timeout, Waits
<1>2. QED
  BY <1>1, RoundStarts, RoundStep, PTL DEF Spec

-----------------------------------------------------------------------------
(***************************************************************************)
(* Sums.  SumFunctionOnSet is a recursive function over the subsets of a   *)
(* set that takes its elements in the order of CHOOSE: it is shown to      *)
(* exist, and then not to depend on that order.                            *)
(***************************************************************************)
LEMMA LeastNat ==
  ASSUME NEW S \in SUBSET Nat, S # {}
  PROVE  \E x \in S : \A y \in S : x <= y
<1> DEFINE R == {ss \in Nat \X Nat : ss[1] < ss[2]}
<1>1. IsWellFoundedOn(R, Nat)
  BY NatLessThanWellFounded DEF OpToRel
<1>2. PICK x \in S : \A y \in S : <<y, x>> \notin R
  <2> HIDE DEF R
  <2> QED BY <1>1, WFMin
<1>3. ASSUME NEW y \in S
      PROVE  x <= y
  <2>1. <<y, x>> \in Nat \X Nat /\ x \in Nat /\ y \in Nat
    OBVIOUS
  <2>2. ~ (y < x)
    BY <1>2, <2>1
  <2>3. QED
    BY <2>1, <2>2
<1>4. QED
  BY <1>2, <1>3

LEMMA LessOne ==
  ASSUME NEW S, IsFiniteSet(S), NEW x \in S
  PROVE  IsFiniteSet(S \ {x}) /\ Cardinality(S) \in Nat \ {0}
         /\ Cardinality(S \ {x}) = Cardinality(S) - 1 /\ Cardinality(S \ {x}) \in Nat
<1>1. IsFiniteSet(S \ {x}) /\ Cardinality(S \ {x}) = Cardinality(S) - 1
  BY FS_RemoveElement
<1>2. Cardinality(S) \in Nat /\ Cardinality(S \ {x}) \in Nat
  BY <1>1, FS_CardinalityType
<1>3. QED
  BY <1>1, <1>2

(* Induction over the subsets of a finite set.                             *)
LEMMA SubsetInduction ==
  ASSUME NEW S, IsFiniteSet(S), NEW G, {} \in G,
         \A T \in SUBSET S : T # {} /\ (\A x \in T : T \ {x} \in G) => T \in G
  PROVE  \A T \in SUBSET S : T \in G
<1> DEFINE Bad == {T \in SUBSET S : T \notin G}
           N   == {Cardinality(T) : T \in Bad}
<1>1. SUFFICES ASSUME Bad # {} PROVE FALSE
  OBVIOUS
<1>2. \A T \in SUBSET S : IsFiniteSet(T) /\ Cardinality(T) \in Nat
  BY FS_Subset, FS_CardinalityType
<1>3. PICK n \in N : \A m \in N : n <= m
  <2>1. N \in SUBSET Nat /\ N # {}
    BY <1>1, <1>2
  <2> HIDE DEF N
  <2> QED BY <2>1, LeastNat
<1>4. PICK T \in Bad : n = Cardinality(T)
  OBVIOUS
<1>5. ASSUME NEW x \in T PROVE T \ {x} \in G
  <2>1. IsFiniteSet(T)
    BY <1>2
  <2>2. Cardinality(T \ {x}) = n - 1 /\ n \in Nat \ {0}
    BY <1>4, <2>1, LessOne
  <2>3. T \ {x} \in SUBSET S
    OBVIOUS
  <2>4. CASE T \ {x} \notin G
    <3>1. n - 1 \in N
      BY <2>2, <2>3, <2>4
    <3>2. n <= n - 1
      BY <1>3, <3>1
    <3>3. QED
      BY <2>2, <3>2
  <2>5. QED
    BY <2>4
<1>6. QED
  BY <1>4, <1>5

Ch(s) == CHOOSE x \in s : TRUE
SumEqn(it, f, S) ==
  it = [s \in SUBSET S |-> IF s = {} THEN 0
                           ELSE f[CHOOSE x \in s : TRUE] + it[s \ {CHOOSE x \in s : TRUE}]]

LEMMA ChIn ==
  ASSUME NEW s, s # {}
  PROVE  Ch(s) \in s
BY DEF Ch

\* The sum is what the recursive function of its definition gives.
LEMMA SumIs ==
  ASSUME NEW f, NEW S
  PROVE  SumFunctionOnSet(f, S) = (CHOOSE it : SumEqn(it, f, S))[S]
BY Zenon DEF SumFunctionOnSet, FoldFunctionOnSet, MapThenFoldSet, SumEqn

\* That function, at a set.
LEMMA EqnAt ==
  ASSUME NEW f, NEW S, NEW it, SumEqn(it, f, S)
  PROVE  /\ it[{}] = 0
         /\ \A s \in SUBSET S : s # {} => it[s] = f[Ch(s)] + it[s \ {Ch(s)}]
<1>1. {} \in SUBSET S
  OBVIOUS
<1>2. \A s \in SUBSET S : it[s] = IF s = {} THEN 0 ELSE f[Ch(s)] + it[s \ {Ch(s)}]
  BY DEF SumEqn, Ch
<1>3. QED
  BY <1>1, <1>2

(* The function exists.                                                    *)
LEMMA SumExists ==
  ASSUME NEW S, IsFiniteSet(S), NEW f
  PROVE  \E it : SumEqn(it, f, S)
<1> DEFINE E(T) == \E it : SumEqn(it, f, T)
           D(n) == {s \in SUBSET S : Cardinality(s) <= n}
           Good(g, n) == /\ DOMAIN g = D(n) /\ g = [s \in D(n) |-> g[s]]
                         /\ \A s \in D(n) : g[s] = IF s = {} THEN 0 ELSE f[Ch(s)] + g[s \ {Ch(s)}]
           Bad == {n \in Nat : ~\E g : Good(g, n)}
<1>1. \A T \in SUBSET S : IsFiniteSet(T) /\ Cardinality(T) \in Nat
  BY FS_Subset, FS_CardinalityType
<1>2. ASSUME NEW s \in SUBSET S, s # {}
      PROVE  s \ {Ch(s)} \in SUBSET S /\ Cardinality(s \ {Ch(s)}) = Cardinality(s) - 1
  BY <1>1, <1>2, ChIn, LessOne
<1>3. Bad = {}
  <2>1. SUFFICES ASSUME Bad # {} PROVE FALSE
    OBVIOUS
  <2>2. PICK n \in Bad : \A m \in Bad : n <= m
    <3>1. Bad \in SUBSET Nat
      OBVIOUS
    <3> HIDE DEF Bad
    <3> QED BY <2>1, <3>1, LeastNat
  <2>3. CASE n = 0
    <3>1. D(0) = {{}}
      <4>1. Cardinality({}) = 0
        BY FS_EmptySet
      <4>2. \A s \in SUBSET S : Cardinality(s) <= 0 => s = {}
        BY <1>1, FS_EmptySet
      <4>3. {} \in D(0)
        BY <4>1
      <4>4. D(0) \subseteq {{}}
        BY <4>2
      <4>5. QED
        BY <4>3, <4>4, Zenon
    <3>2. PICK g : g = [s \in D(0) |-> 0]
      OBVIOUS
    <3>3. Good(g, 0)
      BY <3>1, <3>2
    <3>4. QED
      BY <2>3, <3>3
  <2>4. CASE n # 0
    <3>1. n \in Nat /\ n - 1 \in Nat /\ ~(n <= n - 1)
      BY <2>4
    <3>2. n - 1 \notin Bad
      <4> HIDE DEF Bad
      <4> QED BY <2>2, <3>1
    <3>3. PICK g : Good(g, n - 1)
      BY <3>1, <3>2
    <3>4. PICK h : h = [s \in D(n) |-> IF s = {} THEN 0 ELSE f[Ch(s)] + g[s \ {Ch(s)}]]
      OBVIOUS
    <3>5. D(n - 1) \subseteq D(n)
      BY <1>1, <3>1
    <3>6. \A s \in D(n) : s # {} => s \ {Ch(s)} \in D(n - 1)
      BY <1>1, <1>2, <3>1
    <3>7. \A s \in D(n - 1) : h[s] = g[s]
      BY <3>3, <3>4, <3>5
    <3>8. \A s \in D(n) : h[s] = IF s = {} THEN 0 ELSE f[Ch(s)] + h[s \ {Ch(s)}]
      BY <3>4, <3>6, <3>7
    <3>9. DOMAIN h = D(n) /\ h = [s \in D(n) |-> h[s]]
      BY <3>4
    <3>10. Good(h, n)
      BY <3>8, <3>9
    <3>11. QED
      BY <2>2, <3>10
  <2>5. QED
    BY <2>3, <2>4
<1>4. PICK n \in Nat : n = Cardinality(S)
  BY <1>1
<1>5. PICK g : Good(g, n)
  <2> HIDE DEF Good
  <2> QED BY <1>3
<1>6. D(n) = SUBSET S
  BY <1>1, <1>4, FS_Subset
<1>7. g = [s \in SUBSET S |-> IF s = {} THEN 0 ELSE f[Ch(s)] + g[s \ {Ch(s)}]]
  BY <1>5, <1>6
<1>8. QED
  BY <1>7, Zenon DEF SumEqn, Ch

(* The sum of a set is what the function of a larger one gives.            *)
LEMMA SumOfSubset ==
  ASSUME NEW S, IsFiniteSet(S), NEW f, NEW it, SumEqn(it, f, S), NEW T \in SUBSET S
  PROVE  it[T] = SumFunctionOnSet(f, T)
<1>0. \A u \in SUBSET S : u # {} => it[u] = f[Ch(u)] + it[u \ {Ch(u)}]
  BY EqnAt
<1>1. PICK g : g = CHOOSE h : SumEqn(h, f, T)
  OBVIOUS
<1>2. SumEqn(g, f, T)
  BY <1>1, SumExists, FS_Subset
<1>3. SumFunctionOnSet(f, T) = g[T]
  BY <1>1, SumIs
<1>4. \A s \in SUBSET T : s \in {u \in SUBSET T : g[u] = it[u]}
  <2>1. IsFiniteSet(T)
    BY FS_Subset
  <2>2. {} \in {u \in SUBSET T : g[u] = it[u]}
    BY <1>2, EqnAt
  <2>3. ASSUME NEW s \in SUBSET T, s # {}, \A x \in s : s \ {x} \in {u \in SUBSET T : g[u] = it[u]}
        PROVE  s \in {u \in SUBSET T : g[u] = it[u]}
    <3>1. g[s] = f[Ch(s)] + g[s \ {Ch(s)}]
      <4>1. \A u \in SUBSET T : u # {} => g[u] = f[Ch(u)] + g[u \ {Ch(u)}]
        BY <1>2, EqnAt
      <4>2. QED
        BY <2>3, <4>1
    <3>2. it[s] = f[Ch(s)] + it[s \ {Ch(s)}]
      <4>1. s \in SUBSET S
        BY <2>3
      <4>2. QED
        BY <1>0, <2>3, <4>1
    <3>3. g[s \ {Ch(s)}] = it[s \ {Ch(s)}]
      BY <2>3, ChIn
    <3>4. QED
      BY <3>1, <3>2, <3>3
  <2>4. PICK G : G = {u \in SUBSET T : g[u] = it[u]}
    OBVIOUS
  <2>5. QED
    BY <2>1, <2>2, <2>3, <2>4, SubsetInduction
<1>5. QED
  BY <1>3, <1>4

\* The element CHOOSE takes first.
LEMMA SumStep ==
  ASSUME NEW S, IsFiniteSet(S), S # {}, NEW f
  PROVE  SumFunctionOnSet(f, S) = f[Ch(S)] + SumFunctionOnSet(f, S \ {Ch(S)})
<1>1. PICK it : SumEqn(it, f, S)
  BY SumExists
<1>2. it[S] = f[Ch(S)] + it[S \ {Ch(S)}]
  BY <1>1, EqnAt
<1>3. it[S] = SumFunctionOnSet(f, S) /\ it[S \ {Ch(S)}] = SumFunctionOnSet(f, S \ {Ch(S)})
  BY <1>1, SumOfSubset
<1>4. QED
  BY <1>2, <1>3

LEMMA SumEmpty ==
  ASSUME NEW f
  PROVE  SumFunctionOnSet(f, {}) = 0
<1>1. PICK it : SumEqn(it, f, {})
  BY SumExists, FS_EmptySet
<1>2. it[{}] = 0
  BY <1>1, EqnAt
<1>3. it[{}] = SumFunctionOnSet(f, {})
  BY <1>1, SumOfSubset, FS_EmptySet
<1>4. QED
  BY <1>2, <1>3

LEMMA SumInt ==
  ASSUME NEW S, IsFiniteSet(S), NEW f, \A x \in S : f[x] \in Int
  PROVE  SumFunctionOnSet(f, S) \in Int
<1>1. PICK G : G = {T \in SUBSET S : SumFunctionOnSet(f, T) \in Int}
  OBVIOUS
<1>2. {} \in G
  BY <1>1, SumEmpty
<1>3. ASSUME NEW T \in SUBSET S, T # {}, \A x \in T : T \ {x} \in G
      PROVE  T \in G
  <2>1. PICK y \in T : y = Ch(T)
    BY <1>3, ChIn
  <2>2. SumFunctionOnSet(f, T) = f[y] + SumFunctionOnSet(f, T \ {y})
    BY <1>3, <2>1, FS_Subset, SumStep
  <2>3. f[y] \in Int /\ SumFunctionOnSet(f, T \ {y}) \in Int
    BY <1>1, <1>3
  <2>4. QED
    BY <1>1, <2>2, <2>3
<1>4. \A T \in SUBSET S : T \in G
  BY <1>2, <1>3, SubsetInduction
<1>5. QED
  BY <1>1, <1>4

(* Any element may be taken first.                                         *)
LEMMA SumRemove ==
  ASSUME NEW S, IsFiniteSet(S), NEW f, \A z \in S : f[z] \in Int, NEW w \in S
  PROVE  SumFunctionOnSet(f, S) = f[w] + SumFunctionOnSet(f, S \ {w})
<1>1. PICK G : G = {T \in SUBSET S : \A z \in T :
                      SumFunctionOnSet(f, T) = f[z] + SumFunctionOnSet(f, T \ {z})}
  OBVIOUS
<1>2. {} \in G
  BY <1>1
<1>3. ASSUME NEW T \in SUBSET S, T # {}, \A z \in T : T \ {z} \in G
      PROVE  T \in G
  <2>1. SUFFICES ASSUME NEW x \in T
                 PROVE  SumFunctionOnSet(f, T) = f[x] + SumFunctionOnSet(f, T \ {x})
    BY <1>1
  <2>2. PICK y \in T : y = Ch(T)
    BY <1>3, ChIn
  <2>3. SumFunctionOnSet(f, T) = f[y] + SumFunctionOnSet(f, T \ {y})
    BY <1>3, <2>2, FS_Subset, SumStep
  <2>4. CASE x = y
    BY <2>3, <2>4
  <2>5. CASE x # y
    <3>1. PICK a, b, m, p, q : /\ a = f[x] /\ b = f[y] /\ m = SumFunctionOnSet(f, (T \ {x}) \ {y})
                               /\ p = SumFunctionOnSet(f, T \ {y}) /\ q = SumFunctionOnSet(f, T \ {x})
      OBVIOUS
    <3>2. a \in Int /\ b \in Int /\ m \in Int /\ p \in Int /\ q \in Int
      <4>1. ASSUME NEW U \in SUBSET S PROVE SumFunctionOnSet(f, U) \in Int
        BY SumInt, FS_Subset
      <4>2. (T \ {x}) \ {y} \in SUBSET S /\ T \ {y} \in SUBSET S /\ T \ {x} \in SUBSET S
        OBVIOUS
      <4>3. QED
        BY <3>1, <4>1, <4>2
    <3>3. p = a + m
      <4>1. T \ {y} \in G /\ x \in T \ {y}
        BY <1>3, <2>1, <2>5
      <4>2. (T \ {y}) \ {x} = (T \ {x}) \ {y}
        OBVIOUS
      <4>3. QED
        BY <1>1, <3>1, <4>1, <4>2
    <3>4. q = b + m
      BY <1>1, <1>3, <2>5, <3>1
    <3>5. QED
      BY <2>3, <3>1, <3>2, <3>3, <3>4
  <2>6. QED
    BY <2>4, <2>5
<1>4. \A T \in SUBSET S : T \in G
  BY <1>2, <1>3, SubsetInduction
<1>5. QED
  BY <1>1, <1>4

(* The sum depends on the values only.                                     *)
LEMMA SumSame ==
  ASSUME NEW S, IsFiniteSet(S), NEW f, NEW g, \A x \in S : f[x] = g[x] /\ f[x] \in Int
  PROVE  SumFunctionOnSet(f, S) = SumFunctionOnSet(g, S)
<1>1. PICK G : G = {T \in SUBSET S : SumFunctionOnSet(f, T) = SumFunctionOnSet(g, T)}
  OBVIOUS
<1>2. {} \in G
  BY <1>1, SumEmpty
<1>3. ASSUME NEW T \in SUBSET S, T # {}, \A z \in T : T \ {z} \in G
      PROVE  T \in G
  <2>1. PICK y \in T : y = Ch(T)
    BY <1>3, ChIn
  <2>2. SumFunctionOnSet(f, T) = f[y] + SumFunctionOnSet(f, T \ {y})
    BY <1>3, <2>1, FS_Subset, SumStep
  <2>3. SumFunctionOnSet(g, T) = g[y] + SumFunctionOnSet(g, T \ {y})
    BY <1>3, <2>1, FS_Subset, SumStep
  <2>4. QED
    BY <1>1, <1>3, <2>2, <2>3
<1>4. \A T \in SUBSET S : T \in G
  BY <1>2, <1>3, SubsetInduction
<1>5. QED
  BY <1>1, <1>4

(* A change of one value changes the sum by as much.                       *)
Shifted(f, g, x, S) ==
  /\ SumFunctionOnSet(f, S) \in Int /\ SumFunctionOnSet(g, S) \in Int
  /\ SumFunctionOnSet(g, S) = SumFunctionOnSet(f, S) + (g[x] - f[x])

\* Shifted: the sums differ by the change at x.
LEMMA SumChange ==
  ASSUME NEW S, IsFiniteSet(S), NEW f, NEW g, NEW x \in S,
         \A z \in S : f[z] \in Int /\ g[z] \in Int,
         \A z \in S \ {x} : g[z] = f[z]
  PROVE  Shifted(f, g, x, S)
<1>1. SumFunctionOnSet(f, S) = f[x] + SumFunctionOnSet(f, S \ {x})
  BY SumRemove
<1>2. SumFunctionOnSet(g, S) = g[x] + SumFunctionOnSet(g, S \ {x})
  BY SumRemove
<1>3. IsFiniteSet(S \ {x})
  BY FS_Subset
<1>4. SumFunctionOnSet(f, S \ {x}) = SumFunctionOnSet(g, S \ {x})
  BY <1>3, SumSame
<1>5. SumFunctionOnSet(f, S) \in Int /\ SumFunctionOnSet(g, S) \in Int
      /\ SumFunctionOnSet(f, S \ {x}) \in Int
  BY <1>3, SumInt
<1>6. f[x] \in Int /\ g[x] \in Int
  OBVIOUS
<1>7. QED
  BY <1>1, <1>2, <1>4, <1>5, <1>6 DEF Shifted

(* A sum of natural numbers is at least what one or two of them are.       *)
LEMMA SumNat ==
  ASSUME NEW S, IsFiniteSet(S), NEW f, \A x \in S : f[x] \in Nat
  PROVE  /\ SumFunctionOnSet(f, S) \in Nat
         /\ \A x \in S : f[x] <= SumFunctionOnSet(f, S)
<1>1. PICK G : G = {T \in SUBSET S : SumFunctionOnSet(f, T) \in Nat}
  OBVIOUS
<1>2. {} \in G
  BY <1>1, SumEmpty
<1>3. ASSUME NEW T \in SUBSET S, T # {}, \A z \in T : T \ {z} \in G
      PROVE  T \in G
  <2>1. PICK y \in T : y = Ch(T)
    BY <1>3, ChIn
  <2>2. SumFunctionOnSet(f, T) = f[y] + SumFunctionOnSet(f, T \ {y})
    BY <1>3, <2>1, FS_Subset, SumStep
  <2>3. f[y] \in Nat /\ SumFunctionOnSet(f, T \ {y}) \in Nat
    BY <1>1, <1>3
  <2>4. QED
    BY <1>1, <2>2, <2>3
<1>4. \A T \in SUBSET S : T \in G
  BY <1>2, <1>3, SubsetInduction
<1>5. ASSUME NEW x \in S PROVE f[x] <= SumFunctionOnSet(f, S)
  <2>1. SumFunctionOnSet(f, S) = f[x] + SumFunctionOnSet(f, S \ {x})
    BY SumRemove
  <2>2. SumFunctionOnSet(f, S \ {x}) \in Nat /\ f[x] \in Nat
    BY <1>1, <1>4
  <2>3. QED
    BY <2>1, <2>2
<1>6. QED
  BY <1>1, <1>4, <1>5

LEMMA SumTwo ==
  ASSUME NEW S, IsFiniteSet(S), NEW f, \A x \in S : f[x] \in Nat,
         NEW x \in S, NEW y \in S, x # y
  PROVE  f[x] + f[y] <= SumFunctionOnSet(f, S)
<1>1. SumFunctionOnSet(f, S) = f[x] + SumFunctionOnSet(f, S \ {x})
  BY SumRemove
<1>2. IsFiniteSet(S \ {x}) /\ y \in S \ {x}
  BY FS_Subset
<1>3. SumFunctionOnSet(f, S \ {x}) \in Nat /\ f[y] <= SumFunctionOnSet(f, S \ {x})
  BY <1>2, SumNat
<1>4. f[x] \in Nat /\ f[y] \in Nat
  OBVIOUS
<1>5. QED
  BY <1>1, <1>3, <1>4

(* The sizes of disjoint sets add up to that of their union.               *)
LEMMA SumOfSizes ==
  ASSUME NEW D, IsFiniteSet(D), NEW A,
         \A i \in D : IsFiniteSet(A[i]),
         \A i \in D, j \in D : i # j => A[i] \cap A[j] = {},
         NEW f, \A i \in D : f[i] = Cardinality(A[i])
  PROVE  SumFunctionOnSet(f, D) = Cardinality(UNION {A[i] : i \in D})
<1> DEFINE U(T) == UNION {A[i] : i \in T}
<1>1. PICK G : G = {T \in SUBSET D : IsFiniteSet(U(T)) /\ SumFunctionOnSet(f, T) = Cardinality(U(T))}
  OBVIOUS
<1>2. {} \in G
  <2>1. U({}) = {}
    OBVIOUS
  <2>2. QED
    BY <1>1, <2>1, SumEmpty, FS_EmptySet
<1>3. ASSUME NEW T \in SUBSET D, T # {}, \A z \in T : T \ {z} \in G
      PROVE  T \in G
  <2>1. PICK y \in T : y = Ch(T)
    BY <1>3, ChIn
  <2>2. SumFunctionOnSet(f, T) = f[y] + SumFunctionOnSet(f, T \ {y})
    BY <1>3, <2>1, FS_Subset, SumStep
  <2>3. U(T) = U(T \ {y}) \cup A[y]
    BY <2>1
  <2>4. U(T \ {y}) \cap A[y] = {}
    BY <2>1
  <2>5. PICK P, Q : P = U(T \ {y}) /\ Q = A[y]
    OBVIOUS
  <2>6. IsFiniteSet(P) /\ IsFiniteSet(Q) /\ SumFunctionOnSet(f, T \ {y}) = Cardinality(P)
    BY <1>1, <1>3, <2>5
  <2>7. Cardinality(P) \in Nat /\ Cardinality(Q) \in Nat
    BY <2>6, FS_CardinalityType
  <2>8. /\ IsFiniteSet(P \cup Q)
        /\ Cardinality(P \cup Q) = Cardinality(P) + Cardinality(Q) - Cardinality(P \cap Q)
    BY <2>6, FS_Union
  <2>9. Cardinality(P \cap Q) = 0
    BY <2>4, <2>5, FS_EmptySet
  <2>10. f[y] = Cardinality(Q)
    BY <2>1, <2>5
  <2>11. Cardinality(P \cup Q) = f[y] + Cardinality(P)
    BY <2>7, <2>8, <2>9, <2>10
  <2>12. U(T) = P \cup Q
    BY <2>3, <2>5
  <2>13. QED
    BY <1>1, <2>2, <2>6, <2>8, <2>11, <2>12
<1>4. \A T \in SUBSET D : T \in G
  BY <1>2, <1>3, SubsetInduction
<1>5. QED
  BY <1>1, <1>4

-----------------------------------------------------------------------------
(***************************************************************************)
(* Rows of melds.  A weight gives every meld a number; a row is worth the  *)
(* sum of the weights of its melds.                                        *)
(***************************************************************************)
Weight == [Op -> Nat]
Worth(w, row) == SumFunction([k \in DOMAIN row |-> w[row[k]]])

LaidWeight(c) ==
  [m \in Op |-> CASE m[2] # c -> 0 [] m = <<"PENG", c>> -> 2 [] m = <<"AN_GANG", c>> -> 4 [] OTHER -> 3]
ClaimWeight(c) == [m \in Op |-> IF m[2] = c /\ m[1] # "AN_GANG" THEN 1 ELSE 0]

(* As LaidWeight, without the concealed kongs.                             *)
OpenWeight(c) ==
  [m \in Op |-> IF m[2] # c \/ m[1] = "AN_GANG" THEN 0 ELSE IF m[1] = "PENG" THEN 2 ELSE 3]

LEMMA WeightsAre ==
  ASSUME NEW c
  PROVE  LaidWeight(c) \in Weight /\ ClaimWeight(c) \in Weight /\ OpenWeight(c) \in Weight
BY DEF LaidWeight, ClaimWeight, OpenWeight, Weight

\* Laid and Claimed are the worth of a row under two weights.
LEMMA LaidIs ==
  ASSUME NEW c, NEW row \in Seq(Op)
  PROVE  Laid(row, c) = Worth(LaidWeight(c), row) /\ Claimed(row, c) = Worth(ClaimWeight(c), row)
<1>1. \A k \in DOMAIN row : row[k] \in Op
  OBVIOUS
<1>2. [k \in DOMAIN row |-> LaidWeight(c)[row[k]]] =
      [k \in DOMAIN row |-> CASE row[k][2] # c -> 0 [] row[k] = <<"PENG", c>> -> 2
                              [] row[k] = <<"AN_GANG", c>> -> 4 [] OTHER -> 3]
  BY <1>1 DEF LaidWeight
<1>3. [k \in DOMAIN row |-> ClaimWeight(c)[row[k]]] =
      [k \in DOMAIN row |-> IF row[k][2] = c /\ row[k][1] # "AN_GANG" THEN 1 ELSE 0]
  BY <1>1 DEF ClaimWeight
<1>4. QED
  BY <1>2, <1>3, Zenon DEF Laid, Claimed, Worth

LEMMA WorthSum ==
  ASSUME NEW w \in Weight, NEW row \in Seq(Op)
  PROVE  \E f : /\ f = [k \in DOMAIN row |-> w[row[k]]] /\ DOMAIN f = 1 .. Len(row)
                /\ IsFiniteSet(1 .. Len(row)) /\ Len(row) \in Nat
                /\ \A k \in 1 .. Len(row) : f[k] = w[row[k]] /\ f[k] \in Nat /\ row[k] \in Op
                /\ Worth(w, row) = SumFunctionOnSet(f, 1 .. Len(row))
<1>1. PICK f : f = [k \in DOMAIN row |-> w[row[k]]]
  OBVIOUS
<1>2. Len(row) \in Nat /\ DOMAIN row = 1 .. Len(row) /\ \A k \in 1 .. Len(row) : row[k] \in Op
  OBVIOUS
<1>3. IsFiniteSet(1 .. Len(row))
  BY <1>2, FS_Interval
<1>4. DOMAIN f = 1 .. Len(row) /\ \A k \in 1 .. Len(row) : f[k] = w[row[k]] /\ f[k] \in Nat
  BY <1>1, <1>2 DEF Weight
<1>5. Worth(w, row) = SumFunctionOnSet(f, 1 .. Len(row))
  BY <1>1, <1>4 DEF Worth, SumFunction
<1>6. QED
  BY <1>1, <1>2, <1>3, <1>4, <1>5

\* A row is worth at least what a meld, or two, of it weigh.
LEMMA WorthParts ==
  ASSUME NEW w \in Weight, NEW row \in Seq(Op)
  PROVE  /\ Worth(w, row) \in Nat
         /\ \A k \in DOMAIN row : w[row[k]] <= Worth(w, row)
         /\ \A k \in DOMAIN row, l \in DOMAIN row : k # l => w[row[k]] + w[row[l]] <= Worth(w, row)
<1>1. PICK f : /\ DOMAIN f = 1 .. Len(row) /\ IsFiniteSet(1 .. Len(row)) /\ Len(row) \in Nat
               /\ \A k \in 1 .. Len(row) : f[k] = w[row[k]] /\ f[k] \in Nat /\ row[k] \in Op
               /\ Worth(w, row) = SumFunctionOnSet(f, 1 .. Len(row))
  BY WorthSum
<1>2. DOMAIN row = 1 .. Len(row)
  OBVIOUS
<1>3. Worth(w, row) \in Nat /\ \A k \in DOMAIN row : w[row[k]] <= Worth(w, row)
  <2>1. PICK D : D = 1 .. Len(row)
    OBVIOUS
  <2>2. IsFiniteSet(D) /\ \A k \in D : f[k] \in Nat
    BY <1>1, <2>1
  <2>3. SumFunctionOnSet(f, D) \in Nat /\ \A k \in D : f[k] <= SumFunctionOnSet(f, D)
    BY <2>2, SumNat, Zenon
  <2>4. DOMAIN row = D /\ Worth(w, row) = SumFunctionOnSet(f, D) /\ \A k \in D : f[k] = w[row[k]]
    <3>1. DOMAIN row = D
      BY <1>2, <2>1
    <3>2. Worth(w, row) = SumFunctionOnSet(f, D)
      BY <1>1, <2>1
    <3>3. \A k \in D : f[k] = w[row[k]]
      BY <1>1, <2>1
    <3>4. QED
      BY <3>1, <3>2, <3>3
  <2>5. QED
    BY <2>3, <2>4, Zenon
<1>4. ASSUME NEW k \in DOMAIN row, NEW l \in DOMAIN row, k # l
      PROVE  w[row[k]] + w[row[l]] <= Worth(w, row)
  BY <1>1, <1>2, <1>4, SumTwo
<1>5. QED
  BY <1>3, <1>4

LEMMA WorthEmpty ==
  ASSUME NEW w
  PROVE  Worth(w, << >>) = 0
<1>1. PICK f : f = [k \in DOMAIN << >> |-> w[<< >>[k]]]
  OBVIOUS
<1>2. DOMAIN f = {}
  BY <1>1
<1>3. QED
  BY <1>1, <1>2, SumEmpty DEF Worth, SumFunction

\* A meld more.
LEMMA WorthAppend ==
  ASSUME NEW w \in Weight, NEW row \in Seq(Op), NEW m \in Op
  PROVE  /\ Append(row, m) \in Seq(Op) /\ Len(Append(row, m)) = Len(row) + 1
         /\ Worth(w, Append(row, m)) = Worth(w, row) + w[m]
<1>1. PICK n, new : n = Len(row) /\ new = Append(row, m)
  OBVIOUS
<1>2. n \in Nat /\ new \in Seq(Op) /\ Len(new) = n + 1 /\ new[n + 1] = m
      /\ \A k \in 1 .. n : new[k] = row[k]
  BY <1>1
<1>3. PICK f : /\ IsFiniteSet(1 .. n)
               /\ \A k \in 1 .. n : f[k] = w[row[k]] /\ f[k] \in Nat
               /\ Worth(w, row) = SumFunctionOnSet(f, 1 .. n)
  BY <1>1, WorthSum
<1>4. PICK g : /\ IsFiniteSet(1 .. (n + 1))
               /\ \A k \in 1 .. (n + 1) : g[k] = w[new[k]] /\ g[k] \in Nat
               /\ Worth(w, new) = SumFunctionOnSet(g, 1 .. (n + 1))
  <2>1. PICK g : /\ IsFiniteSet(1 .. Len(new))
                 /\ \A k \in 1 .. Len(new) : g[k] = w[new[k]] /\ g[k] \in Nat
                 /\ Worth(w, new) = SumFunctionOnSet(g, 1 .. Len(new))
    <3>1. new \in Seq(Op)
      BY <1>2
    <3>2. QED
      BY <3>1, WorthSum
  <2>2. Len(new) = n + 1
    BY <1>2
  <2>3. QED
    BY <2>1, <2>2, Zenon
<1>5. (1 .. (n + 1)) \ {n + 1} = 1 .. n /\ n + 1 \in 1 .. (n + 1)
  BY <1>2
<1>6. SumFunctionOnSet(g, 1 .. (n + 1)) = g[n + 1] + SumFunctionOnSet(g, (1 .. (n + 1)) \ {n + 1})
  <2>1. PICK D, x : D = 1 .. (n + 1) /\ x = n + 1
    OBVIOUS
  <2>2. IsFiniteSet(D) /\ x \in D /\ \A k \in D : g[k] \in Int
    BY <1>4, <1>5, <2>1
  <2>3. SumFunctionOnSet(g, D) = g[x] + SumFunctionOnSet(g, D \ {x})
    BY <2>2, SumRemove
  <2>4. QED
    BY <2>1, <2>3
<1>7. SumFunctionOnSet(g, 1 .. n) = SumFunctionOnSet(f, 1 .. n)
  <2>1. \A k \in 1 .. n : g[k] = f[k] /\ g[k] \in Int
    BY <1>2, <1>3, <1>4
  <2>2. QED
    BY <1>3, <2>1, SumSame
<1>8. g[n + 1] = w[m] /\ g[n + 1] \in Nat
  BY <1>2, <1>4, <1>5
<1>9. Worth(w, row) \in Nat
  BY WorthParts
<1>10. Worth(w, new) = Worth(w, row) + w[m]
  <2>1. Worth(w, new) = w[m] + Worth(w, row)
    <3>1. Worth(w, new) = g[n + 1] + SumFunctionOnSet(g, 1 .. n)
      BY <1>4, <1>5, <1>6, Zenon
    <3>2. PICK a, b, x, y, z : /\ a = Worth(w, new) /\ b = Worth(w, row) /\ x = g[n + 1]
                               /\ y = SumFunctionOnSet(g, 1 .. n) /\ z = SumFunctionOnSet(f, 1 .. n)
      OBVIOUS
    <3>3. a = x + y /\ b = z /\ y = z /\ x = w[m]
      <4>1. a = x + y
        BY <3>1, <3>2
      <4>2. b = z
        BY <1>3, <3>2
      <4>3. y = z
        BY <1>7, <3>2
      <4>4. x = w[m]
        BY <1>8, <3>2
      <4>5. QED
        BY <4>1, <4>2, <4>3, <4>4
    <3>4. QED
      BY <3>2, <3>3, Zenon
  <2>2. w[m] \in Nat
    BY <1>8
  <2>3. QED
    BY <1>9, <2>1, <2>2
<1>11. QED
  BY <1>1, <1>2, <1>10

\* A meld replaced.
LEMMA WorthExcept ==
  ASSUME NEW w \in Weight, NEW row \in Seq(Op), NEW m \in Op, NEW j \in DOMAIN row
  PROVE  /\ [row EXCEPT ![j] = m] \in Seq(Op) /\ Len([row EXCEPT ![j] = m]) = Len(row)
         /\ Worth(w, [row EXCEPT ![j] = m]) = Worth(w, row) + (w[m] - w[row[j]])
<1>1. PICK n, new : n = Len(row) /\ new = [row EXCEPT ![j] = m]
  OBVIOUS
<1>2. n \in Nat /\ new \in Seq(Op) /\ Len(new) = n /\ new[j] = m /\ j \in 1 .. n
      /\ \A k \in 1 .. n : k # j => new[k] = row[k]
  BY <1>1
<1>3. PICK f : /\ IsFiniteSet(1 .. n)
               /\ \A k \in 1 .. n : f[k] = w[row[k]] /\ f[k] \in Nat
               /\ Worth(w, row) = SumFunctionOnSet(f, 1 .. n)
  BY <1>1, WorthSum
<1>4. PICK g : /\ IsFiniteSet(1 .. n)
               /\ \A k \in 1 .. n : g[k] = w[new[k]] /\ g[k] \in Nat
               /\ Worth(w, new) = SumFunctionOnSet(g, 1 .. n)
  BY <1>2, WorthSum
<1>5. SumFunctionOnSet(g, 1 .. n) = SumFunctionOnSet(f, 1 .. n) + (g[j] - f[j])
  <2>1. \A k \in 1 .. n : g[k] \in Int /\ f[k] \in Int
    BY <1>3, <1>4
  <2>2. \A k \in (1 .. n) \ {j} : g[k] = f[k]
    BY <1>2, <1>3, <1>4
  <2>3. QED
    <3>1. PICK D : D = 1 .. n
      OBVIOUS
    <3>2. IsFiniteSet(D) /\ j \in D /\ (\A k \in D : f[k] \in Int /\ g[k] \in Int)
          /\ \A k \in D \ {j} : g[k] = f[k]
      BY <1>2, <1>3, <2>1, <2>2, <3>1
    <3>3. /\ SumFunctionOnSet(f, D) \in Int /\ SumFunctionOnSet(g, D) \in Int
          /\ SumFunctionOnSet(g, D) = SumFunctionOnSet(f, D) + (g[j] - f[j])
      <4>1. IsFiniteSet(D) /\ j \in D
        BY <3>2
      <4>2. \A k \in D : f[k] \in Int /\ g[k] \in Int
        BY <3>2
      <4>3. \A k \in D \ {j} : g[k] = f[k]
        BY <3>2
      <4>4. QED
        <5>1. Shifted(f, g, j, D)
          BY <4>1, <4>2, <4>3, SumChange, Zenon
        <5>2. QED
          BY <5>1 DEF Shifted
    <3>4. QED
      BY <3>1, <3>3
<1>6. QED
  BY <1>1, <1>2, <1>3, <1>4, <1>5

LEMMA MinIn ==
  ASSUME NEW S \in SUBSET Nat, S # {}
  PROVE  Min(S) \in S /\ \A y \in S : Min(S) <= y
<1>1. \E x \in S : \A y \in S : x <= y
  BY LeastNat
<1>2. QED
  BY <1>1, Zenon DEF Min

(* Regrade changes the first such meld, if there is one.                   *)
Regraded(row, u, m, op) ==
  \E j \in DOMAIN row : row[j] = m /\ u = [row EXCEPT ![j] = <<op, m[2]>>]

LEMMA RegradeIs ==
  ASSUME NEW row \in Seq(Op), NEW m, NEW op, NEW u, u = Regrade(row, m, op)
  PROVE  \/ m \notin Range(row) /\ u = row
         \/ Regraded(row, u, m, op)
<1>1. PICK at : at = {k \in DOMAIN row : row[k] = m}
  OBVIOUS
<1>2. u = IF at = {} THEN row ELSE [row EXCEPT ![Min(at)] = <<op, m[2]>>]
  BY <1>1 DEF Regrade
<1>3. CASE at = {}
  BY <1>1, <1>2, <1>3 DEF Range
<1>4. CASE at # {}
  <2>1. at \in SUBSET Nat
    BY <1>1
  <2>2. Min(at) \in at
    BY <1>4, <2>1, MinIn
  <2>3. QED
    BY <1>1, <1>2, <1>4, <2>2 DEF Regraded
<1>5. QED
  BY <1>3, <1>4

-----------------------------------------------------------------------------
(***************************************************************************)
(* The cards.  A card is in the wall, in a discard row, in a hand, in a    *)
(* meld its owner laid down, or was robbed.                                *)
(***************************************************************************)
LEMMA SeatFacts ==
  /\ NPlayer \in Nat \ {0} /\ Copies \in Nat \ {0} /\ DealCount \in Nat \ {0}
  /\ Seat = 1 .. NPlayer /\ IsFiniteSet(Seat) /\ Card \subseteq Nat /\ IsFiniteSet(Card)
  /\ Seat \subseteq Nat \ {0}
<1>1. NPlayer \in Nat \ {0} /\ Copies \in Nat \ {0} /\ DealCount \in Nat \ {0}
      /\ Card \subseteq Nat /\ IsFiniteSet(Card)
  BY GameRoundAssumption
<1>2. IsFiniteSet(1 .. NPlayer) /\ 1 .. NPlayer \subseteq Nat \ {0}
  BY <1>1, FS_Interval
<1>3. QED
  BY <1>1, <1>2 DEF Seat

Hands == [Seat -> [Card -> Nat]]
Rows  == [Seat -> Seq(Op)]

(* What the players hold of card c, with the melds weighed by w, and how   *)
(* often it was claimed.                                                   *)
Share(w, hand, meld, c) == [i \in Seat |-> hand[i][c] + Worth(w, meld[i])]
Held(w, hand, meld, c) == SumFunctionOnSet(Share(w, hand, meld, c), Seat)
ClaimsOf(meld, c) == [i \in Seat |-> Worth(ClaimWeight(c), meld[i])]
Claims(meld, c) == SumFunctionOnSet(ClaimsOf(meld, c), Seat)

LEMMA ShareNat ==
  ASSUME NEW w \in Weight, NEW hand \in Hands, NEW meld \in Rows, NEW c \in Card, NEW i \in Seat
  PROVE  /\ Share(w, hand, meld, c)[i] = hand[i][c] + Worth(w, meld[i])
         /\ Share(w, hand, meld, c)[i] \in Nat /\ hand[i][c] \in Nat /\ Worth(w, meld[i]) \in Nat
         /\ meld[i] \in Seq(Op) /\ hand[i] \in [Card -> Nat]
<1>1. meld[i] \in Seq(Op) /\ hand[i] \in [Card -> Nat]
  BY DEF Rows, Hands
<1>2. hand[i][c] \in Nat
  BY <1>1
<1>3. Worth(w, meld[i]) \in Nat
  BY <1>1, WorthParts
<1>4. Share(w, hand, meld, c)[i] = hand[i][c] + Worth(w, meld[i])
  BY DEF Share
<1>5. QED
  BY <1>1, <1>2, <1>3, <1>4

\* What all seats hold is at least what one, or two, of them hold.
LEMMA HeldParts ==
  ASSUME NEW w \in Weight, NEW hand \in Hands, NEW meld \in Rows, NEW c \in Card
  PROVE  /\ Held(w, hand, meld, c) \in Nat
         /\ \A i \in Seat : hand[i][c] + Worth(w, meld[i]) <= Held(w, hand, meld, c)
         /\ \A i \in Seat, j \in Seat : i # j =>
              (hand[i][c] + Worth(w, meld[i])) + (hand[j][c] + Worth(w, meld[j])) <= Held(w, hand, meld, c)
<1>1. PICK f : f = Share(w, hand, meld, c)
  OBVIOUS
<1>2. \A i \in Seat : f[i] \in Nat /\ f[i] = hand[i][c] + Worth(w, meld[i])
  BY <1>1, ShareNat
<1>3. IsFiniteSet(Seat)
  BY SeatFacts
<1>4. SumFunctionOnSet(f, Seat) \in Nat /\ \A i \in Seat : f[i] <= SumFunctionOnSet(f, Seat)
  BY <1>2, <1>3, SumNat
<1>5. ASSUME NEW i \in Seat, NEW j \in Seat, i # j PROVE f[i] + f[j] <= SumFunctionOnSet(f, Seat)
  BY <1>2, <1>3, <1>5, SumTwo
<1>6. Held(w, hand, meld, c) = SumFunctionOnSet(f, Seat)
  BY <1>1 DEF Held
<1>7. QED
  BY <1>2, <1>4, <1>5, <1>6

HeldShift(w, hand, meld, hand2, meld2, c, i) ==
  /\ Held(w, hand, meld, c) \in Nat /\ Held(w, hand2, meld2, c) \in Nat
  /\ Held(w, hand2, meld2, c) = Held(w, hand, meld, c)
       + ((hand2[i][c] + Worth(w, meld2[i])) - (hand[i][c] + Worth(w, meld[i])))

\* One seat has another hand and another row.
LEMMA HeldChange ==
  ASSUME NEW w \in Weight, NEW hand \in Hands, NEW meld \in Rows,
         NEW hand2 \in Hands, NEW meld2 \in Rows, NEW c \in Card, NEW i \in Seat,
         \A j \in Seat \ {i} : hand2[j] = hand[j] /\ meld2[j] = meld[j]
  PROVE  HeldShift(w, hand, meld, hand2, meld2, c, i)
<1>1. PICK f, g : f = Share(w, hand, meld, c) /\ g = Share(w, hand2, meld2, c)
  OBVIOUS
<1>2. \A j \in Seat : /\ f[j] \in Nat /\ f[j] = hand[j][c] + Worth(w, meld[j])
                      /\ g[j] \in Nat /\ g[j] = hand2[j][c] + Worth(w, meld2[j])
  BY <1>1, ShareNat
<1>3. \A j \in Seat : f[j] \in Int /\ g[j] \in Int
  BY <1>2
<1>4. \A j \in Seat \ {i} : g[j] = f[j]
  BY <1>2
<1>5. IsFiniteSet(Seat)
  BY SeatFacts
<1>6. Shifted(f, g, i, Seat)
  BY <1>3, <1>4, <1>5, SumChange, Zenon
<1>7. Held(w, hand, meld, c) = SumFunctionOnSet(f, Seat) /\ Held(w, hand2, meld2, c) = SumFunctionOnSet(g, Seat)
  BY <1>1 DEF Held
<1>8. Held(w, hand, meld, c) \in Nat /\ Held(w, hand2, meld2, c) \in Nat
  BY HeldParts
<1>9. QED
  BY <1>2, <1>6, <1>7, <1>8 DEF Shifted, HeldShift

LEMMA ClaimsParts ==
  ASSUME NEW meld \in Rows, NEW c \in Card
  PROVE  /\ Claims(meld, c) \in Nat
         /\ \A i \in Seat : Worth(ClaimWeight(c), meld[i]) <= Claims(meld, c)
         /\ \A i \in Seat, j \in Seat : i # j =>
              Worth(ClaimWeight(c), meld[i]) + Worth(ClaimWeight(c), meld[j]) <= Claims(meld, c)
<1>1. PICK f : f = ClaimsOf(meld, c)
  OBVIOUS
<1>2. \A i \in Seat : f[i] \in Nat /\ f[i] = Worth(ClaimWeight(c), meld[i])
  <2>1. ASSUME NEW i \in Seat PROVE f[i] \in Nat /\ f[i] = Worth(ClaimWeight(c), meld[i])
    <3>1. meld[i] \in Seq(Op) /\ ClaimWeight(c) \in Weight
      BY WeightsAre DEF Rows
    <3>2. Worth(ClaimWeight(c), meld[i]) \in Nat
      BY <3>1, WorthParts
    <3>3. QED
      BY <1>1, <3>2 DEF ClaimsOf
  <2>2. QED
    BY <2>1
<1>3. IsFiniteSet(Seat)
  BY SeatFacts
<1>4. SumFunctionOnSet(f, Seat) \in Nat /\ \A i \in Seat : f[i] <= SumFunctionOnSet(f, Seat)
  BY <1>2, <1>3, SumNat
<1>5. ASSUME NEW i \in Seat, NEW j \in Seat, i # j PROVE f[i] + f[j] <= SumFunctionOnSet(f, Seat)
  BY <1>2, <1>3, <1>5, SumTwo
<1>6. Claims(meld, c) = SumFunctionOnSet(f, Seat)
  BY <1>1 DEF Claims
<1>7. QED
  BY <1>2, <1>4, <1>5, <1>6

ClaimsShift(meld, meld2, c, i) ==
  /\ Claims(meld, c) \in Nat /\ Claims(meld2, c) \in Nat
  /\ Claims(meld2, c) = Claims(meld, c) + (Worth(ClaimWeight(c), meld2[i]) - Worth(ClaimWeight(c), meld[i]))

\* One seat has another row.
LEMMA ClaimsChange ==
  ASSUME NEW meld \in Rows, NEW meld2 \in Rows, NEW c \in Card, NEW i \in Seat,
         \A j \in Seat \ {i} : meld2[j] = meld[j]
  PROVE  ClaimsShift(meld, meld2, c, i)
<1>1. PICK f, g : f = ClaimsOf(meld, c) /\ g = ClaimsOf(meld2, c)
  OBVIOUS
<1>2. \A j \in Seat : /\ f[j] = Worth(ClaimWeight(c), meld[j]) /\ g[j] = Worth(ClaimWeight(c), meld2[j])
                      /\ f[j] \in Int /\ g[j] \in Int
  <2>1. ASSUME NEW j \in Seat
        PROVE  /\ f[j] = Worth(ClaimWeight(c), meld[j]) /\ g[j] = Worth(ClaimWeight(c), meld2[j])
               /\ f[j] \in Int /\ g[j] \in Int
    <3>1. meld[j] \in Seq(Op) /\ meld2[j] \in Seq(Op) /\ ClaimWeight(c) \in Weight
      BY WeightsAre DEF Rows
    <3>2. Worth(ClaimWeight(c), meld[j]) \in Nat /\ Worth(ClaimWeight(c), meld2[j]) \in Nat
      BY <3>1, WorthParts
    <3>3. QED
      BY <1>1, <3>2 DEF ClaimsOf
  <2>2. QED
    BY <2>1
<1>3. \A j \in Seat : f[j] \in Int /\ g[j] \in Int
  BY <1>2
<1>4. \A j \in Seat \ {i} : g[j] = f[j]
  BY <1>2
<1>5. IsFiniteSet(Seat)
  BY SeatFacts
<1>6. Shifted(f, g, i, Seat)
  BY <1>3, <1>4, <1>5, SumChange, Zenon
<1>7. Claims(meld, c) = SumFunctionOnSet(f, Seat) /\ Claims(meld2, c) = SumFunctionOnSet(g, Seat)
  BY <1>1 DEF Claims
<1>8. Claims(meld, c) \in Nat /\ Claims(meld2, c) \in Nat
  BY ClaimsParts
<1>9. QED
  BY <1>2, <1>6, <1>7, <1>8 DEF Shifted, ClaimsShift

\* Another number of one card changes the size of a hand by as much.
LEMMA SizeChange ==
  ASSUME NEW h \in [Card -> Nat], NEW c \in Card, NEW n \in Nat
  PROVE  Size(h) \in Nat /\ Size([h EXCEPT ![c] = n]) = Size(h) + (n - h[c])
<1>1. PICK g : g = [h EXCEPT ![c] = n]
  OBVIOUS
<1>2. g \in [Card -> Nat] /\ g[c] = n /\ \A d \in Card \ {c} : g[d] = h[d]
  BY <1>1
<1>3. \A d \in Card : h[d] \in Int /\ g[d] \in Int
  BY <1>2
<1>4. IsFiniteSet(Card)
  BY SeatFacts
<1>5. Shifted(h, g, c, Card)
  BY <1>2, <1>3, <1>4, SumChange, Zenon
<1>6. Size(h) = SumFunctionOnSet(h, Card) /\ Size(g) = SumFunctionOnSet(g, Card)
  <2>1. DOMAIN h = Card /\ DOMAIN g = Card
    BY <1>2
  <2>2. QED
    BY <2>1 DEF Size, SumFunction
<1>7. SumFunctionOnSet(h, Card) \in Nat
  BY <1>4, SumNat
<1>8. QED
  BY <1>1, <1>2, <1>5, <1>6, <1>7 DEF Shifted

(* How often a card is in a sequence, and in what is left of it.           *)
Occ(q, c) == Cardinality({k \in DOMAIN q : q[k] = c})

OccSplit(q, p, n, c) ==
  /\ Occ(p, c) \in Nat /\ Cardinality({k \in 1 .. n : q[k] = c}) \in Nat
  /\ Occ(q, c) = Occ(p, c) + Cardinality({k \in 1 .. n : q[k] = c})

\* The cards of a sequence are those of its first n and of the rest.
LEMMA OccDrop ==
  ASSUME NEW q \in Seq(Card), NEW n \in 0 .. Len(q), NEW p \in Seq(Card), Len(p) = Len(q) - n,
         \A k \in 1 .. Len(p) : p[k] = q[k + n], NEW c
  PROVE  OccSplit(q, p, n, c)
<1>1. PICK A, B, C, F : /\ A = {k \in 1 .. n : q[k] = c} /\ B = {k \in (n + 1) .. Len(q) : q[k] = c}
                        /\ C = {k \in 1 .. Len(p) : p[k] = c} /\ F = [k \in B |-> k - n]
  OBVIOUS
<1>2. Len(q) \in Nat /\ Len(p) \in Nat /\ n \in Nat /\ n <= Len(q)
  OBVIOUS
<1>3. IsFiniteSet(A) /\ IsFiniteSet(B) /\ IsFiniteSet(C)
  <2>1. IsFiniteSet(1 .. n) /\ IsFiniteSet((n + 1) .. Len(q)) /\ IsFiniteSet(1 .. Len(p))
    BY <1>2, FS_Interval
  <2>2. A \subseteq 1 .. n /\ B \subseteq (n + 1) .. Len(q) /\ C \subseteq 1 .. Len(p)
    BY <1>1
  <2>3. QED
    BY <2>1, <2>2, FS_Subset
<1>4. F \in Bijection(B, C)
  <2>1. F \in [B -> C]
    BY <1>1, <1>2
  <2>2. \A a, b \in B : F[a] = F[b] => a = b
    BY <1>1, <1>2
  <2>3. \A k \in C : \E b \in B : F[b] = k
    <3>1. ASSUME NEW k \in C PROVE k + n \in B /\ F[k + n] = k
      BY <1>1, <1>2
    <3>2. QED
      BY <3>1
  <2>4. QED
    BY <2>1, <2>2, <2>3 DEF Bijection, Injection, Surjection, IsInjective
<1>5. Cardinality(C) = Cardinality(B)
  BY <1>3, <1>4, FS_Bijection DEF ExistsBijection
<1>6. A \cap B = {} /\ A \cup B = {k \in DOMAIN q : q[k] = c} /\ C = {k \in DOMAIN p : p[k] = c}
  BY <1>1, <1>2
<1>7. Cardinality(A \cup B) = Cardinality(A) + Cardinality(B) - Cardinality(A \cap B)
  BY <1>3, FS_Union
<1>8. Cardinality(A \cap B) = 0
  BY <1>6, FS_EmptySet
<1>9. Cardinality(A) \in Nat /\ Cardinality(B) \in Nat /\ Cardinality(C) \in Nat
  BY <1>3, FS_CardinalityType
<1>10. Occ(q, c) = Cardinality(A \cup B) /\ Occ(p, c) = Cardinality(C)
  BY <1>6 DEF Occ
<1>11. QED
  BY <1>1, <1>5, <1>7, <1>8, <1>9, <1>10 DEF OccSplit

Cards(s) == /\ s.pool \in [Card -> Nat] /\ s.out \in [Card -> Nat]
            /\ s.hand \in Hands /\ s.meld \in Rows /\ s.stack \in Seq(Card)
RobbedOf(win, c) == IF win.op = "QIANGGANGHU" /\ win.card = c THEN 1 ELSE 0
Stock(s, c) == s.pool[c] + s.out[c] + RobbedOf(s.win, c)
Gross(w, s, c) == Stock(s, c) + Held(w, s.hand, s.meld, c)

(* No card is there more often than it was put up, even when concealed     *)
(* kongs are not counted; every claim is backed by a discard; the order    *)
(* of the wall is one of cards of the wall.                                *)
Fits(s) == \A c \in Card : /\ Gross(OpenWeight(c), s, c) <= Copies
                           /\ Claims(s.meld, c) <= s.out[c]
                           /\ Occ(s.stack, c) <= s.pool[c]

(* No card is missing either.                                              *)
Exact(s) == \A c \in Card : Gross(LaidWeight(c), s, c) = Copies

(* Everybody has the cards of a hand, seat j one more.                     *)
Sized(s, j) == \A i \in Seat :
  Size(s.hand[i]) + 3 * Len(s.meld[i]) = DealCount + (IF i = j THEN 1 ELSE 0)

(* What a move of cards from s to u keeps.                                 *)
Keeps(s, u) == Cards(u) /\ (Fits(s) => Fits(u)) /\ (Exact(s) => Exact(u))

LEMMA StockNat ==
  ASSUME NEW s, Cards(s), NEW c \in Card
  PROVE  /\ Stock(s, c) \in Nat /\ s.pool[c] \in Nat /\ s.out[c] \in Nat /\ RobbedOf(s.win, c) \in 0 .. 1
         /\ Stock(s, c) = s.pool[c] + s.out[c] + RobbedOf(s.win, c)
<1>1. s.pool[c] \in Nat /\ s.out[c] \in Nat
  BY DEF Cards
<1>2. RobbedOf(s.win, c) \in 0 .. 1
  BY DEF RobbedOf
<1>3. QED
  BY <1>1, <1>2 DEF Stock

(* Cards that hold the same.                                               *)
LEMMA SameCards ==
  ASSUME NEW s, NEW u, Cards(s), u.pool = s.pool, u.out = s.out, u.hand = s.hand, u.meld = s.meld,
         u.stack = s.stack, u.win = s.win
  PROVE  Keeps(s, u) /\ \A j : Sized(s, j) => Sized(u, j)
<1>1. Cards(u)
  BY DEF Cards
<1>2. \A c \in Card, w \in Weight : Gross(w, u, c) = Gross(w, s, c)
  BY DEF Gross, Stock
<1>3. QED
  BY <1>1, <1>2, WeightsAre DEF Keeps, Fits, Exact, Sized

\* A draw moves one card from the wall to a hand.
LEMMA DrawKeeps ==
  ASSUME NEW s, NEW u, Cards(s), Fits(s), NEW i \in Seat, NEW c \in Draws(s),
         u.pool = Remove(s.pool, c, 1), u.hand = [s.hand EXCEPT ![i][c] = @ + 1],
         u.out = s.out, u.meld = s.meld, u.win = s.win,
         u.stack = IF s.stack = <<>> THEN s.stack ELSE Tail(s.stack)
  PROVE  c \in Card /\ Keeps(s, u) /\ (Sized(s, 0) => Sized(u, i))
<1>1. s.pool \in [Card -> Nat] /\ s.hand \in Hands /\ s.meld \in Rows /\ s.stack \in Seq(Card)
  BY DEF Cards
<1>2. \A d \in Card : Occ(s.stack, d) <= s.pool[d]
  BY DEF Fits
<1>3. /\ c \in Card /\ s.pool[c] > 0 /\ u.stack \in Seq(Card)
      /\ \A d \in Card : Occ(u.stack, d) <= u.pool[d]
  <2>1. CASE s.stack = <<>>
    <3>1. c \in Card /\ s.pool[c] > 0 /\ u.stack = <<>>
      BY <2>1 DEF Draws
    <3>2. ASSUME NEW d \in Card PROVE Occ(u.stack, d) <= u.pool[d]
      <4>1. u.pool[d] \in Nat
        BY <1>1, <3>1 DEF Remove
      <4>2. {k \in DOMAIN u.stack : u.stack[k] = d} = {}
        <5>1. {k \in DOMAIN << >> : << >>[k] = d} = {}
          OBVIOUS
        <5>2. QED
          BY <3>1, <5>1, Zenon
      <4>3. Occ(u.stack, d) = 0
        BY <4>2, FS_EmptySet DEF Occ
      <4>4. QED
        BY <4>1, <4>3
    <3>3. u.stack \in Seq(Card)
      BY <1>1, <2>1, <3>1
    <3>4. QED
      BY <3>1, <3>2, <3>3
  <2>2. CASE s.stack # <<>>
    <3>1. c = Head(s.stack) /\ u.stack = Tail(s.stack)
      BY <2>2 DEF Draws
    <3>2. PICK q, p : q = s.stack /\ p = u.stack
      OBVIOUS
    <3>3. /\ q \in Seq(Card) /\ p \in Seq(Card) /\ Len(q) \in Nat \ {0} /\ Len(p) = Len(q) - 1
          /\ q[1] = c /\ c \in Card /\ \A k \in 1 .. Len(p) : p[k] = q[k + 1]
      BY <1>1, <2>2, <3>1, <3>2
    <3>4. ASSUME NEW d \in Card
          PROVE  /\ Occ(p, d) \in Nat /\ Occ(q, d) = Occ(p, d) + (IF d = c THEN 1 ELSE 0)
                 /\ Occ(q, d) <= s.pool[d]
      <4>1. /\ Occ(p, d) \in Nat /\ Cardinality({k \in 1 .. 1 : q[k] = d}) \in Nat
            /\ Occ(q, d) = Occ(p, d) + Cardinality({k \in 1 .. 1 : q[k] = d})
        <5>1. 1 \in 0 .. Len(q)
          BY <3>3
        <5>2. OccSplit(q, p, 1, d)
          BY <3>3, <5>1, OccDrop, Zenon
        <5>3. QED
          BY <5>2 DEF OccSplit
      <4>2. CASE d = c
        <5>1. {k \in 1 .. 1 : q[k] = d} = {1}
          BY <3>3, <4>2
        <5>2. Cardinality({1}) = 1
          BY FS_Singleton
        <5>3. QED
          BY <1>2, <3>2, <4>1, <4>2, <5>1, <5>2
      <4>3. CASE d # c
        <5>1. {k \in 1 .. 1 : q[k] = d} = {}
          BY <3>3, <4>3
        <5>2. Cardinality({}) = 0
          BY FS_EmptySet
        <5>3. QED
          BY <1>2, <3>2, <4>1, <4>3, <5>1, <5>2
      <4>4. QED
        BY <4>2, <4>3
    <3>5. s.pool[c] > 0
      BY <1>1, <3>3, <3>4
    <3>6. ASSUME NEW d \in Card PROVE Occ(u.stack, d) <= u.pool[d]
      <4>1. u.pool[d] = s.pool[d] - (IF d = c THEN 1 ELSE 0) /\ s.pool[d] \in Nat
        BY <1>1, <3>3 DEF Remove
      <4>2. QED
        BY <3>2, <3>4, <4>1
    <3>7. QED
      BY <3>2, <3>3, <3>5, <3>6
  <2>3. QED
    BY <2>1, <2>2
<1>4. u.pool \in [Card -> Nat] /\ \A d \in Card : u.pool[d] = s.pool[d] - (IF d = c THEN 1 ELSE 0)
  BY <1>1, <1>3 DEF Remove
<1>5. /\ u.hand \in Hands /\ \A j \in Seat \ {i} : u.hand[j] = s.hand[j]
      /\ u.hand[i] = [s.hand[i] EXCEPT ![c] = @ + 1]
      /\ \A d \in Card : u.hand[i][d] = s.hand[i][d] + (IF d = c THEN 1 ELSE 0)
  BY <1>1, <1>3 DEF Hands
<1>6. Cards(u)
  BY <1>3, <1>4, <1>5 DEF Cards
<1>7. ASSUME NEW d \in Card, NEW w \in Weight
      PROVE  Gross(w, u, d) = Gross(w, s, d)
  <2>1. HeldShift(w, s.hand, s.meld, u.hand, u.meld, d, i)
    BY <1>1, <1>5, HeldChange
  <2>2. Worth(w, s.meld[i]) \in Nat /\ s.hand[i][d] \in Nat /\ u.hand[i][d] \in Nat
    BY <1>1, <1>5, ShareNat
  <2>3. Held(w, u.hand, u.meld, d) = Held(w, s.hand, s.meld, d) + (IF d = c THEN 1 ELSE 0)
        /\ Held(w, s.hand, s.meld, d) \in Nat
    BY <1>5, <2>1, <2>2 DEF HeldShift
  <2>4. Stock(u, d) = Stock(s, d) - (IF d = c THEN 1 ELSE 0) /\ Stock(s, d) \in Nat
    <3>1. s.pool[d] \in Nat /\ s.out[d] \in Nat /\ RobbedOf(s.win, d) \in 0 .. 1
          /\ Stock(s, d) \in Nat /\ Stock(s, d) = s.pool[d] + s.out[d] + RobbedOf(s.win, d)
      BY StockNat
    <3>2. Stock(u, d) = u.pool[d] + s.out[d] + RobbedOf(s.win, d)
      BY DEF Stock
    <3>3. QED
      BY <1>4, <3>1, <3>2
  <2>5. QED
    BY <2>3, <2>4 DEF Gross
<1>8. Fits(u)
  <2>1. \A d \in Card : Gross(OpenWeight(d), u, d) = Gross(OpenWeight(d), s, d)
    BY <1>7, WeightsAre
  <2>2. QED
    BY <1>3, <2>1 DEF Fits
<1>9. Exact(s) => Exact(u)
  BY <1>7, WeightsAre DEF Exact
<1>10. Sized(s, 0) => Sized(u, i)
  <2>1. ASSUME Sized(s, 0), NEW j \in Seat
        PROVE  Size(u.hand[j]) + 3 * Len(u.meld[j]) = DealCount + (IF j = i THEN 1 ELSE 0)
    <3>1. Size(s.hand[j]) + 3 * Len(s.meld[j]) = DealCount
      BY <2>1, SeatFacts DEF Sized
    <3>2. CASE j # i
      BY <1>5, <3>1, <3>2, SeatFacts
    <3>3. CASE j = i
      <4>1. s.hand[i] \in [Card -> Nat] /\ s.hand[i][c] + 1 \in Nat /\ s.hand[i][c] \in Nat
        <5>1. PICK h : h = s.hand[i]
          OBVIOUS
        <5>2. h \in [Card -> Nat]
          BY <1>1, <5>1 DEF Hands
        <5>3. h[c] \in Nat /\ h[c] + 1 \in Nat
          BY <1>3, <5>2
        <5>4. QED
          BY <5>1, <5>2, <5>3, Zenon
      <4>2. Size(s.hand[i]) \in Nat
            /\ Size([s.hand[i] EXCEPT ![c] = s.hand[i][c] + 1]) = Size(s.hand[i]) + ((s.hand[i][c] + 1) - s.hand[i][c])
        BY <1>3, <4>1, SizeChange
      <4>3. u.hand[i] = [s.hand[i] EXCEPT ![c] = s.hand[i][c] + 1]
        BY <1>5
      <4>4. Len(s.meld[i]) \in Nat
        BY <1>1 DEF Rows
      <4>5. Size(u.hand[i]) = Size(s.hand[i]) + 1
        BY <4>1, <4>2, <4>3
      <4>6. QED
        BY <3>1, <3>3, <4>2, <4>4, <4>5, SeatFacts
    <3>4. QED
      BY <3>2, <3>3
  <2>2. QED
    BY <2>1 DEF Sized
<1>11. QED
  BY <1>3, <1>6, <1>8, <1>9, <1>10 DEF Keeps

LEMMA SumMono ==
  ASSUME NEW S, IsFiniteSet(S), NEW f, NEW g, \A x \in S : f[x] \in Int /\ g[x] \in Int /\ g[x] <= f[x]
  PROVE  SumFunctionOnSet(g, S) <= SumFunctionOnSet(f, S)
<1>1. PICK G : G = {T \in SUBSET S : SumFunctionOnSet(g, T) <= SumFunctionOnSet(f, T)}
  OBVIOUS
<1>2. {} \in G
  <2>1. SumFunctionOnSet(g, {}) = 0 /\ SumFunctionOnSet(f, {}) = 0
    BY SumEmpty
  <2>2. SumFunctionOnSet(g, {}) <= SumFunctionOnSet(f, {})
    BY <2>1
  <2>3. QED
    BY <1>1, <2>2
<1>3. ASSUME NEW T \in SUBSET S, T # {}, \A z \in T : T \ {z} \in G
      PROVE  T \in G
  <2>1. PICK y \in T : y = Ch(T)
    BY <1>3, ChIn
  <2>2. SumFunctionOnSet(f, T) = f[y] + SumFunctionOnSet(f, T \ {y})
    BY <1>3, <2>1, FS_Subset, SumStep
  <2>3. SumFunctionOnSet(g, T) = g[y] + SumFunctionOnSet(g, T \ {y})
    BY <1>3, <2>1, FS_Subset, SumStep
  <2>4. SumFunctionOnSet(f, T \ {y}) \in Int /\ SumFunctionOnSet(g, T \ {y}) \in Int
    <3>1. IsFiniteSet(T \ {y}) /\ \A z \in T \ {y} : f[z] \in Int /\ g[z] \in Int
      BY FS_Subset
    <3>2. QED
      BY <3>1, SumInt
  <2>5. f[y] \in Int /\ g[y] \in Int /\ g[y] <= f[y]
        /\ SumFunctionOnSet(g, T \ {y}) <= SumFunctionOnSet(f, T \ {y})
    BY <1>1, <1>3
  <2>6. SumFunctionOnSet(g, T) <= SumFunctionOnSet(f, T)
    BY <2>2, <2>3, <2>4, <2>5
  <2>7. QED
    BY <1>1, <2>6
<1>4. \A T \in SUBSET S : T \in G
  BY <1>2, <1>3, SubsetInduction
<1>5. QED
  BY <1>1, <1>4

LEMMA SumZero ==
  ASSUME NEW S, IsFiniteSet(S), NEW f, \A x \in S : f[x] = 0
  PROVE  SumFunctionOnSet(f, S) = 0
<1>1. PICK G : G = {T \in SUBSET S : SumFunctionOnSet(f, T) = 0}
  OBVIOUS
<1>2. {} \in G
  BY <1>1, SumEmpty
<1>3. ASSUME NEW T \in SUBSET S, T # {}, \A z \in T : T \ {z} \in G
      PROVE  T \in G
  <2>1. PICK y \in T : y = Ch(T)
    BY <1>3, ChIn
  <2>2. SumFunctionOnSet(f, T) = f[y] + SumFunctionOnSet(f, T \ {y})
    BY <1>3, <2>1, FS_Subset, SumStep
  <2>3. QED
    BY <1>1, <1>3, <2>2
<1>4. \A T \in SUBSET S : T \in G
  BY <1>2, <1>3, SubsetInduction
<1>5. QED
  BY <1>1, <1>4

LEMMA MaxZero ==
  ASSUME NEW a \in Int
  PROVE  Max({a, 0}) = IF a >= 0 THEN a ELSE 0
<1>1. \E x \in {a, 0} : \A y \in {a, 0} : x >= y
  <2>1. CASE a >= 0
    BY <2>1
  <2>2. CASE ~(a >= 0)
    BY <2>2
  <2>3. QED
    BY <2>1, <2>2
<1>2. Max({a, 0}) \in {a, 0} /\ \A y \in {a, 0} : Max({a, 0}) >= y
  BY <1>1, Zenon DEF Max
<1>3. QED
  BY <1>2

\* A discard moves one card from a hand to the row of discards.
LEMMA DiscardKeeps ==
  ASSUME NEW s, NEW u, Cards(s), Fits(s), NEW i \in Seat, NEW c \in Card, s.hand[i][c] > 0,
         u.hand = [s.hand EXCEPT ![i] = Remove(@, c, 1)], u.out = [s.out EXCEPT ![c] = @ + 1],
         u.pool = s.pool, u.meld = s.meld, u.win = s.win, u.stack = s.stack
  PROVE  Keeps(s, u) /\ (Sized(s, i) => Sized(u, 0)) /\ Claims(u.meld, c) < u.out[c]
<1>1. s.pool \in [Card -> Nat] /\ s.out \in [Card -> Nat] /\ s.hand \in Hands /\ s.meld \in Rows
      /\ s.stack \in Seq(Card)
  BY DEF Cards
<1>2. u.out \in [Card -> Nat] /\ \A d \in Card : u.out[d] = s.out[d] + (IF d = c THEN 1 ELSE 0)
  BY <1>1
<1>3. PICK h, n : h = s.hand[i] /\ n = h[c] - 1
  OBVIOUS
<1>4. h \in [Card -> Nat] /\ n \in Nat /\ h[c] = n + 1
  <2>1. h \in [Card -> Nat]
    BY <1>1, <1>3 DEF Hands
  <2>2. h[c] \in Nat /\ h[c] > 0
    BY <1>3, <2>1
  <2>3. QED
    BY <1>3, <2>1, <2>2
<1>5. u.hand[i] = [h EXCEPT ![c] = n]
  BY <1>1, <1>3 DEF Remove, Hands
<1>6. [h EXCEPT ![c] = n] \in [Card -> Nat]
  BY <1>4
<1>7. u.hand \in Hands /\ \A j \in Seat \ {i} : u.hand[j] = s.hand[j]
  <2>1. u.hand = [s.hand EXCEPT ![i] = [h EXCEPT ![c] = n]]
    BY <1>3 DEF Remove
  <2>2. QED
    BY <1>1, <1>6, <2>1 DEF Hands
<1>8. \A d \in Card : u.hand[i][d] = s.hand[i][d] - (IF d = c THEN 1 ELSE 0)
  BY <1>3, <1>4, <1>5
<1>9. Cards(u)
  BY <1>1, <1>2, <1>7 DEF Cards
<1>10. ASSUME NEW d \in Card, NEW w \in Weight
      PROVE  Gross(w, u, d) = Gross(w, s, d)
  <2>1. HeldShift(w, s.hand, s.meld, u.hand, u.meld, d, i)
    BY <1>1, <1>7, HeldChange
  <2>2. Worth(w, s.meld[i]) \in Nat /\ s.hand[i][d] \in Nat /\ u.hand[i][d] \in Nat
    BY <1>1, <1>7, ShareNat
  <2>3. Held(w, u.hand, u.meld, d) = Held(w, s.hand, s.meld, d) - (IF d = c THEN 1 ELSE 0)
        /\ Held(w, s.hand, s.meld, d) \in Nat
    BY <1>8, <2>1, <2>2 DEF HeldShift
  <2>4. Stock(u, d) = Stock(s, d) + (IF d = c THEN 1 ELSE 0) /\ Stock(s, d) \in Nat
    <3>1. s.pool[d] \in Nat /\ s.out[d] \in Nat /\ RobbedOf(s.win, d) \in 0 .. 1
          /\ Stock(s, d) \in Nat /\ Stock(s, d) = s.pool[d] + s.out[d] + RobbedOf(s.win, d)
      BY StockNat
    <3>2. Stock(u, d) = s.pool[d] + u.out[d] + RobbedOf(s.win, d)
      BY DEF Stock
    <3>3. QED
      BY <1>2, <3>1, <3>2
  <2>5. QED
    BY <2>3, <2>4 DEF Gross
<1>11. \A d \in Card : Claims(s.meld, d) \in Nat /\ Claims(s.meld, d) <= s.out[d] /\ s.out[d] \in Nat
  BY <1>1, ClaimsParts DEF Fits
<1>12. Fits(u)
  <2>1. \A d \in Card : Gross(OpenWeight(d), u, d) = Gross(OpenWeight(d), s, d)
    BY <1>10, WeightsAre
  <2>2. \A d \in Card : Claims(u.meld, d) <= u.out[d]
    BY <1>2, <1>11
  <2>3. QED
    BY <2>1, <2>2 DEF Fits
<1>13. Exact(s) => Exact(u)
  BY <1>10, WeightsAre DEF Exact
<1>14. Sized(s, i) => Sized(u, 0)
  <2>1. ASSUME Sized(s, i), NEW j \in Seat
        PROVE  Size(u.hand[j]) + 3 * Len(u.meld[j]) = DealCount + (IF j = 0 THEN 1 ELSE 0)
    <3>0. j # 0 /\ DealCount \in Nat
      BY SeatFacts
    <3>1. Size(s.hand[j]) + 3 * Len(s.meld[j]) = DealCount + (IF j = i THEN 1 ELSE 0)
      BY <2>1 DEF Sized
    <3>2. CASE j # i
      BY <1>7, <3>0, <3>1, <3>2
    <3>3. CASE j = i
      <4>1. Size(h) \in Nat /\ Size([h EXCEPT ![c] = n]) = Size(h) + (n - h[c])
        BY <1>4, SizeChange
      <4>2. Len(s.meld[i]) \in Nat
        BY <1>1 DEF Rows
      <4>3. Size(u.hand[i]) = Size(s.hand[i]) - 1 /\ Size(s.hand[i]) \in Nat
        BY <1>3, <1>4, <1>5, <4>1
      <4>4. QED
        BY <3>0, <3>1, <3>3, <4>2, <4>3
    <3>4. QED
      BY <3>2, <3>3
  <2>2. QED
    BY <2>1 DEF Sized
<1>15. Claims(u.meld, c) < u.out[c]
  BY <1>2, <1>11
<1>16. QED
  BY <1>9, <1>12, <1>13, <1>14, <1>15 DEF Keeps

-----------------------------------------------------------------------------
(***************************************************************************)
(* The invariant of the cards.  s is a state of the round, e the number of *)
(* handlers that failed so far.                                            *)
(***************************************************************************)
Kinds   == {"none", "draw", "out", "opOut", "opDraw", "opBuGang"}
Entry   == {o \in [val : BOOLEAN, tab : SUBSET Op, sel : SUBSET Op] :
              o.sel = {} \/ \E x \in o.tab : o.sel = {x}}
Options == [Seat -> Entry]

Shape(s) ==
  /\ IsRound(s) /\ Cards(s)
  /\ s.status \in Kinds /\ s.cur \in (-1) .. NPlayer /\ s.timers \in SUBSET Timer
  /\ s.opt = <<>> \/ s.opt \in Options
  /\ s.gangs \in Seq(Seat \X Card)
  /\ s.seated \in BOOLEAN /\ s.over \in BOOLEAN /\ s.err \in BOOLEAN

(* The cards are still in the wall.                                        *)
Undealt(s) ==
  /\ s.hand = [i \in Seat |-> None] /\ s.meld = [i \in Seat |-> <<>>]
  /\ Len(s.stack) >= NPlayer * DealCount

(* Where the timers that move cards, or a round on to the draw, may be     *)
(* pending.                                                                *)
Timing(s) ==
  /\ "makeBanker" \in s.timers => s.status = "none" /\ "dealCards" \notin s.timers /\ Undealt(s)
  /\ "dealCards" \in s.timers => s.status = "none"
  /\ "drawCard" \in s.timers => s.status = "draw" /\ s.cur \in Seat
  /\ s.over => s.status = "none" /\ s.timers \subseteq {"opBuGangCard"}

(* Nobody is asked.                                                        *)
Quiet(opt) == opt = <<>> \/ (opt \in Options /\ \A i \in Seat : ~opt[i].val)

(* What was offered after a discard can still be done: the cards are there *)
(* and the discard is claimed by nobody.                                   *)
OpOut(s) ==
  \E c \in Card : /\ Claims(s.meld, c) < s.out[c]
                  /\ \A i \in Seat : s.opt[i].val =>
                       s.opt[i].tab \subseteq onGetUserOpValueWhenOutCard(s, i, c)

(* What was offered after a draw can still be done, unless it was tried    *)
(* and failed.                                                             *)
OpDraw(s, e) ==
  \A i \in Seat : s.opt[i].val =>
    /\ i = s.cur
    /\ \/ \E d \in Card : s.opt[i].tab \subseteq onGetUserOpValueWhenDrawCard(s, i, d)
       \/ e > 0 /\ \E d \in Card : s.opt[i].sel = {<<"AN_GANG", d>>} \/ s.opt[i].sel = {<<"ZIMO", d>>}

(* The kong that may be robbed is the last that was counted, unless it was *)
(* robbed and the settlement failed.                                       *)
Kong(s, c) == /\ <<"BU_GANG", c>> \in Range(s.meld[s.cur])
              /\ s.gangs # <<>> /\ s.gangs[Len(s.gangs)] = <<s.cur, c>>
RobbedHere(s, c) == /\ <<"PENG", c>> \in Range(s.meld[s.cur])
                    /\ s.win.op = "QIANGGANGHU" /\ s.win.card = c
OpBuGang(s, e) ==
  \E c \in Card : \A i \in Seat : s.opt[i].val =>
    /\ i # s.cur /\ s.opt[i].tab \subseteq {<<"QIANGGANGHU", c>>}
    /\ Kong(s, c) \/ (e > 0 /\ RobbedHere(s, c))

Waiting(s, e) ==
  /\ s.status = "none" => s.opt = <<>>
  /\ s.status = "draw" => Quiet(s.opt)
  /\ s.status \notin {"none", "draw"} => s.cur \in Seat /\ s.opt \in Options
  /\ s.status = "out" => Quiet(s.opt)
  /\ s.status = "opOut" => OpOut(s)
  /\ s.status = "opDraw" => OpDraw(s, e)
  /\ s.status = "opBuGang" => OpBuGang(s, e)

(* A kong that was counted is one, and is counted once; a win is paid, and *)
(* who was robbed has the pung again.                                      *)
Kongs(s) ==
  /\ \A n \in DOMAIN s.gangs : <<"BU_GANG", s.gangs[n][2]>> \in Range(s.meld[s.gangs[n][1]])
  /\ \A m, n \in DOMAIN s.gangs : s.gangs[m] = s.gangs[n] => m = n
Won(s) ==
  s.win = NoWin \/
    /\ s.win.seat \in Seat /\ s.win.from \in Seat /\ s.win.op \in {"ZIMO", "QIANGGANGHU"}
    /\ s.win.turn = onSetHuTurnMonyInfo(s.win.seat, s.win.from, s.win.op)
    /\ s.win.op = "QIANGGANGHU" => /\ s.win.from # s.win.seat /\ s.win.card \in Card
                                   /\ <<"PENG", s.win.card>> \in Range(s.meld[s.win.from])

(* Who has to discard.                                                     *)
Turn(s) == IF s.status \in {"out", "opDraw"} THEN s.cur ELSE 0

Counted(s, e) ==
  /\ Fits(s) /\ Kongs(s) /\ Won(s)
  /\ ~s.over /\ e < 2 => Exact(s)
  /\ ~s.over /\ e = 0 => s.win = NoWin
  /\ ~s.over /\ e = 0 /\ "makeBanker" \notin s.timers => Sized(s, Turn(s))

CardInv(s, e) == Shape(s) /\ Timing(s) /\ Waiting(s, e) /\ Counted(s, e)
CardsInv == CardInv(r, errs) /\ errs \in Nat /\ playing = ~r.over

-----------------------------------------------------------------------------
(* What four copies of a card cannot make.                                 *)

LEMMA OpIs ==
  ASSUME NEW c \in Card
  PROVE  /\ <<"PENG", c>> \in Op /\ <<"GANG", c>> \in Op /\ <<"AN_GANG", c>> \in Op /\ <<"BU_GANG", c>> \in Op
         /\ <<"ZIMO", c>> \in Op /\ <<"QIANGGANGHU", c>> \in Op
BY DEF Op

(* The weights of the melds of a card.                                     *)
LEMMA WeightOf ==
  ASSUME NEW c \in Card, NEW d
  PROVE  /\ OpenWeight(d)[<<"PENG", c>>] = IF c = d THEN 2 ELSE 0
         /\ OpenWeight(d)[<<"GANG", c>>] = IF c = d THEN 3 ELSE 0
         /\ OpenWeight(d)[<<"BU_GANG", c>>] = IF c = d THEN 3 ELSE 0
         /\ OpenWeight(d)[<<"AN_GANG", c>>] = 0
         /\ LaidWeight(d)[<<"PENG", c>>] = IF c = d THEN 2 ELSE 0
         /\ LaidWeight(d)[<<"GANG", c>>] = IF c = d THEN 3 ELSE 0
         /\ LaidWeight(d)[<<"BU_GANG", c>>] = IF c = d THEN 3 ELSE 0
         /\ LaidWeight(d)[<<"AN_GANG", c>>] = IF c = d THEN 4 ELSE 0
         /\ ClaimWeight(d)[<<"PENG", c>>] = IF c = d THEN 1 ELSE 0
         /\ ClaimWeight(d)[<<"GANG", c>>] = IF c = d THEN 1 ELSE 0
         /\ ClaimWeight(d)[<<"BU_GANG", c>>] = IF c = d THEN 1 ELSE 0
         /\ ClaimWeight(d)[<<"AN_GANG", c>>] = 0
<1>1. <<"PENG", c>> \in Op /\ <<"GANG", c>> \in Op /\ <<"AN_GANG", c>> \in Op /\ <<"BU_GANG", c>> \in Op
  BY OpIs
<1>2. /\ <<"PENG", c>>[2] = c /\ <<"GANG", c>>[2] = c /\ <<"AN_GANG", c>>[2] = c /\ <<"BU_GANG", c>>[2] = c
      /\ <<"PENG", c>>[1] = "PENG" /\ <<"GANG", c>>[1] = "GANG" /\ <<"AN_GANG", c>>[1] = "AN_GANG"
      /\ <<"BU_GANG", c>>[1] = "BU_GANG"
  OBVIOUS
<1>3. /\ OpenWeight(d)[<<"PENG", c>>] = IF c = d THEN 2 ELSE 0
      /\ OpenWeight(d)[<<"GANG", c>>] = IF c = d THEN 3 ELSE 0
      /\ OpenWeight(d)[<<"BU_GANG", c>>] = IF c = d THEN 3 ELSE 0
      /\ OpenWeight(d)[<<"AN_GANG", c>>] = 0
  BY <1>1, <1>2 DEF OpenWeight
<1>4. /\ LaidWeight(d)[<<"PENG", c>>] = IF c = d THEN 2 ELSE 0
      /\ LaidWeight(d)[<<"GANG", c>>] = IF c = d THEN 3 ELSE 0
      /\ LaidWeight(d)[<<"BU_GANG", c>>] = IF c = d THEN 3 ELSE 0
      /\ LaidWeight(d)[<<"AN_GANG", c>>] = IF c = d THEN 4 ELSE 0
  BY <1>1, <1>2 DEF LaidWeight
<1>5. /\ ClaimWeight(d)[<<"PENG", c>>] = IF c = d THEN 1 ELSE 0
      /\ ClaimWeight(d)[<<"GANG", c>>] = IF c = d THEN 1 ELSE 0
      /\ ClaimWeight(d)[<<"BU_GANG", c>>] = IF c = d THEN 1 ELSE 0
      /\ ClaimWeight(d)[<<"AN_GANG", c>>] = 0
  BY <1>1, <1>2 DEF ClaimWeight
<1>6. QED
  BY <1>3, <1>4, <1>5

(* A row that holds a meld weighs as much, one that holds two both.        *)
LEMMA RowHolds ==
  ASSUME NEW w \in Weight, NEW row \in Seq(Op), NEW m \in Range(row)
  PROVE  /\ Worth(w, row) \in Nat /\ w[m] \in Nat /\ w[m] <= Worth(w, row)
         /\ \A n \in Range(row) : n # m => w[m] + w[n] <= Worth(w, row)
<1>1. PICK k \in DOMAIN row : row[k] = m
  BY DEF Range
<1>2. Worth(w, row) \in Nat /\ w[row[k]] <= Worth(w, row)
  BY WorthParts
<1>3. m \in Op /\ w[m] \in Nat
  BY <1>1 DEF Weight
<1>4. ASSUME NEW n \in Range(row), n # m PROVE w[m] + w[n] <= Worth(w, row)
  <2>1. PICK l \in DOMAIN row : row[l] = n
    BY DEF Range
  <2>2. w[row[k]] + w[row[l]] <= Worth(w, row)
    BY <1>1, <1>4, <2>1, WorthParts
  <2>3. QED
    BY <1>1, <2>1, <2>2
<1>5. QED
  BY <1>1, <1>2, <1>3, <1>4

(* A card of a meld, of a hand and of the stock are different cards.       *)
LEMMA Bounds ==
  ASSUME NEW s, Cards(s), Fits(s), NEW c \in Card
  PROVE  /\ \A i \in Seat : /\ Worth(OpenWeight(c), s.meld[i]) \in Nat /\ s.hand[i][c] \in Nat
                            /\ s.pool[c] + s.out[c] + RobbedOf(s.win, c)
                                 + (s.hand[i][c] + Worth(OpenWeight(c), s.meld[i])) <= 4
         /\ \A i \in Seat, j \in Seat : i # j =>
              Worth(OpenWeight(c), s.meld[i]) + Worth(OpenWeight(c), s.meld[j]) <= 4
         /\ s.pool[c] \in Nat /\ s.out[c] \in Nat /\ RobbedOf(s.win, c) \in 0 .. 1
         /\ s.pool[c] + s.out[c] + RobbedOf(s.win, c) <= Copies
         /\ \A i \in Seat : s.hand[i][c] <= Copies
<1>1. PICK w : w = OpenWeight(c)
  OBVIOUS
<1>2. w \in Weight /\ s.hand \in Hands /\ s.meld \in Rows
  BY <1>1, WeightsAre DEF Cards
<1>3. PICK H, S : H = Held(w, s.hand, s.meld, c) /\ S = Stock(s, c)
  OBVIOUS
<1>4. H \in Nat /\ S \in Nat /\ S + H <= Copies /\ Copies <= 4 /\ Copies \in Nat
  <2>1. H \in Nat
    BY <1>2, <1>3, HeldParts
  <2>2. S \in Nat
    BY <1>3, StockNat
  <2>3. S + H <= Copies
    BY <1>1, <1>3 DEF Fits, Gross
  <2>4. QED
    BY <2>1, <2>2, <2>3, GameRoundAssumption
<1>5. s.pool[c] \in Nat /\ s.out[c] \in Nat /\ RobbedOf(s.win, c) \in 0 .. 1
      /\ S = s.pool[c] + s.out[c] + RobbedOf(s.win, c)
  BY <1>3, StockNat
<1>6. ASSUME NEW i \in Seat
      PROVE  /\ s.hand[i][c] + Worth(w, s.meld[i]) <= H /\ s.hand[i][c] \in Nat /\ Worth(w, s.meld[i]) \in Nat
  BY <1>2, <1>3, HeldParts, ShareNat
<1>7. ASSUME NEW i \in Seat, NEW j \in Seat, i # j
      PROVE  (s.hand[i][c] + Worth(w, s.meld[i])) + (s.hand[j][c] + Worth(w, s.meld[j])) <= H
  BY <1>2, <1>3, <1>7, HeldParts
<1>8. \A i \in Seat : S + (s.hand[i][c] + Worth(w, s.meld[i])) <= 4 /\ s.hand[i][c] <= Copies
  BY <1>4, <1>6
<1>9. \A i \in Seat, j \in Seat : i # j => Worth(w, s.meld[i]) + Worth(w, s.meld[j]) <= 4
  BY <1>4, <1>6, <1>7
<1>10. QED
  BY <1>1, <1>4, <1>5, <1>6, <1>8, <1>9

(* Two kongs, or a pung and a kong, of the same card; a pung whose fourth  *)
(* card was robbed with one more in the hand.                              *)
LEMMA Few ==
  ASSUME NEW s, Cards(s), Fits(s), NEW c \in Card, NEW i \in Seat
  PROVE  /\ \A j \in Seat : /\ <<"BU_GANG", c>> \in Range(s.meld[i]) /\ <<"BU_GANG", c>> \in Range(s.meld[j]) => i = j
                            /\ ~(<<"BU_GANG", c>> \in Range(s.meld[i]) /\ <<"PENG", c>> \in Range(s.meld[j]))
         /\ <<"PENG", c>> \in Range(s.meld[i]) /\ RobbedOf(s.win, c) = 1 => s.hand[i][c] = 0
<1>1. OpenWeight(c) \in Weight /\ ClaimWeight(c) \in Weight /\ \A j \in Seat : s.meld[j] \in Seq(Op)
  BY WeightsAre DEF Cards, Rows
<1>2. /\ OpenWeight(c)[<<"PENG", c>>] = 2 /\ OpenWeight(c)[<<"BU_GANG", c>>] = 3
      /\ ClaimWeight(c)[<<"PENG", c>>] = 1
  BY WeightOf
<1>3. ASSUME NEW j \in Seat, <<"BU_GANG", c>> \in Range(s.meld[i]), <<"BU_GANG", c>> \in Range(s.meld[j]), i # j
      PROVE  FALSE
  <2>1. 3 <= Worth(OpenWeight(c), s.meld[i]) /\ 3 <= Worth(OpenWeight(c), s.meld[j])
    BY <1>1, <1>2, <1>3, RowHolds
  <2>2. /\ Worth(OpenWeight(c), s.meld[i]) + Worth(OpenWeight(c), s.meld[j]) <= 4
        /\ Worth(OpenWeight(c), s.meld[i]) \in Nat /\ Worth(OpenWeight(c), s.meld[j]) \in Nat
    BY <1>3, Bounds
  <2>3. QED
    BY <2>1, <2>2
<1>4. ASSUME NEW j \in Seat, <<"BU_GANG", c>> \in Range(s.meld[i]), <<"PENG", c>> \in Range(s.meld[j])
      PROVE  FALSE
  <2>1. CASE i # j
    <3>1. 3 <= Worth(OpenWeight(c), s.meld[i]) /\ 2 <= Worth(OpenWeight(c), s.meld[j])
      BY <1>1, <1>2, <1>4, RowHolds
    <3>2. /\ Worth(OpenWeight(c), s.meld[i]) + Worth(OpenWeight(c), s.meld[j]) <= 4
          /\ Worth(OpenWeight(c), s.meld[i]) \in Nat /\ Worth(OpenWeight(c), s.meld[j]) \in Nat
      BY <2>1, Bounds
    <3>3. QED
      BY <3>1, <3>2
  <2>2. CASE i = j
    <3>1. <<"BU_GANG", c>> # <<"PENG", c>>
      OBVIOUS
    <3>2. OpenWeight(c)[<<"PENG", c>>] + OpenWeight(c)[<<"BU_GANG", c>>] <= Worth(OpenWeight(c), s.meld[i])
      <4>1. <<"BU_GANG", c>> \in Range(s.meld[i]) /\ <<"PENG", c>> \in Range(s.meld[i])
        BY <1>4, <2>2
      <4>2. QED
        BY <1>1, <3>1, <4>1, RowHolds
    <3>3. PICK a, b, h : /\ a = Worth(OpenWeight(c), s.meld[i]) /\ h = s.hand[i][c]
                         /\ b = s.pool[c] + s.out[c] + RobbedOf(s.win, c)
      OBVIOUS
    <3>4. a \in Nat /\ h \in Nat /\ b \in Nat /\ b + (h + a) <= 4
      BY <3>3, Bounds
    <3>5. 5 <= a
      BY <1>2, <3>2, <3>3
    <3>6. QED
      BY <3>4, <3>5
  <2>3. QED
    BY <2>1, <2>2
<1>5. ASSUME <<"PENG", c>> \in Range(s.meld[i]), RobbedOf(s.win, c) = 1
      PROVE  s.hand[i][c] = 0
  <2>1. 2 <= Worth(OpenWeight(c), s.meld[i]) /\ 1 <= Worth(ClaimWeight(c), s.meld[i])
        /\ Worth(ClaimWeight(c), s.meld[i]) \in Nat
    BY <1>1, <1>2, <1>5, RowHolds
  <2>2. Worth(ClaimWeight(c), s.meld[i]) <= s.out[c]
    <3>1. Worth(ClaimWeight(c), s.meld[i]) <= Claims(s.meld, c) /\ Claims(s.meld, c) \in Nat
      BY ClaimsParts DEF Cards
    <3>2. Claims(s.meld, c) <= s.out[c] /\ s.out[c] \in Nat
      BY DEF Fits, Cards
    <3>3. QED
      BY <2>1, <3>1, <3>2
  <2>3. PICK a, o, p, h : /\ a = Worth(OpenWeight(c), s.meld[i]) /\ h = s.hand[i][c] /\ p = s.pool[c] /\ o = s.out[c]
    OBVIOUS
  <2>4. a \in Nat /\ h \in Nat /\ p \in Nat /\ o \in Nat /\ p + o + 1 + (h + a) <= 4
    BY <1>5, <2>3, Bounds
  <2>5. o >= 1 /\ a >= 2
    BY <2>1, <2>2, <2>3, <2>4
  <2>6. QED
    BY <2>3, <2>4, <2>5
<1>6. QED
  BY <1>3, <1>4, <1>5

-----------------------------------------------------------------------------
(* Laying cards down.  Seat i has n cards c left and the row of melds row. *)

Moved(s, u, i, c, n, row) ==
  /\ u.hand = [s.hand EXCEPT ![i][c] = n] /\ u.meld = [s.meld EXCEPT ![i] = row]
  /\ u.pool = s.pool /\ u.out = s.out /\ u.stack = s.stack

(* What the move does to the numbers.                                      *)
Reckoned(s, u, i, c, n, row) ==
  /\ Cards(u)
  /\ s.hand[i][c] \in Nat /\ s.meld[i] \in Seq(Op) /\ Size(s.hand[i]) \in Nat
  /\ u.hand[i] = [s.hand[i] EXCEPT ![c] = n] /\ u.meld[i] = row
  /\ \A j \in Seat \ {i} : u.hand[j] = s.hand[j] /\ u.meld[j] = s.meld[j]
  /\ \A d \in Card, w \in Weight :
       /\ Worth(w, row) \in Nat /\ Worth(w, s.meld[i]) \in Nat
       /\ Held(w, s.hand, s.meld, d) \in Nat /\ Held(w, u.hand, u.meld, d) \in Nat
       /\ Held(w, u.hand, u.meld, d) = Held(w, s.hand, s.meld, d)
            + ((IF d = c THEN n - s.hand[i][c] ELSE 0) + (Worth(w, row) - Worth(w, s.meld[i])))
  /\ \A d \in Card :
       /\ Claims(s.meld, d) \in Nat /\ Claims(u.meld, d) \in Nat
       /\ Claims(u.meld, d) = Claims(s.meld, d)
            + (Worth(ClaimWeight(d), row) - Worth(ClaimWeight(d), s.meld[i]))
  /\ Size(u.hand[i]) = Size(s.hand[i]) + (n - s.hand[i][c])

\* What a change of one hand and one row of melds leaves alone.
LEMMA MeldMove ==
  ASSUME NEW s, NEW u, Cards(s), NEW i \in Seat, NEW c \in Card, NEW n \in Nat, NEW row \in Seq(Op),
         Moved(s, u, i, c, n, row)
  PROVE  Reckoned(s, u, i, c, n, row)
<1>1. s.hand \in Hands /\ s.meld \in Rows
  BY DEF Cards
<1>2. PICK h : h = s.hand[i]
  OBVIOUS
<1>3. h \in [Card -> Nat] /\ h[c] \in Nat /\ [h EXCEPT ![c] = n] \in [Card -> Nat] /\ s.meld[i] \in Seq(Op)
  <2>1. h \in [Card -> Nat] /\ s.meld[i] \in Seq(Op)
    BY <1>1, <1>2 DEF Hands, Rows
  <2>2. QED
    BY <2>1
<1>4. u.hand = [s.hand EXCEPT ![i] = [h EXCEPT ![c] = n]]
  BY <1>2 DEF Moved
<1>5. u.hand \in Hands /\ u.hand[i] = [h EXCEPT ![c] = n] /\ \A j \in Seat \ {i} : u.hand[j] = s.hand[j]
  BY <1>1, <1>3, <1>4 DEF Hands
<1>6. u.meld \in Rows /\ u.meld[i] = row /\ \A j \in Seat \ {i} : u.meld[j] = s.meld[j]
  BY <1>1 DEF Moved, Rows
<1>7. Cards(u)
  BY <1>5, <1>6 DEF Cards, Moved
<1>8. Size(h) \in Nat /\ Size(u.hand[i]) = Size(h) + (n - h[c])
  <2>1. Size(h) \in Nat /\ Size([h EXCEPT ![c] = n]) = Size(h) + (n - h[c])
    BY <1>3, SizeChange, Zenon
  <2>2. QED
    BY <1>5, <2>1, Zenon
<1>9. ASSUME NEW d \in Card, NEW w \in Weight
      PROVE  /\ Worth(w, row) \in Nat /\ Worth(w, s.meld[i]) \in Nat
             /\ Held(w, s.hand, s.meld, d) \in Nat /\ Held(w, u.hand, u.meld, d) \in Nat
             /\ Held(w, u.hand, u.meld, d) = Held(w, s.hand, s.meld, d)
                  + ((IF d = c THEN n - h[c] ELSE 0) + (Worth(w, row) - Worth(w, s.meld[i])))
  <2>1. HeldShift(w, s.hand, s.meld, u.hand, u.meld, d, i)
    <3>1. \A j \in Seat \ {i} : u.hand[j] = s.hand[j] /\ u.meld[j] = s.meld[j]
      BY <1>5, <1>6
    <3>2. QED
      BY <1>1, <1>5, <1>6, <3>1, HeldChange
  <2>2. Worth(w, s.meld[i]) \in Nat /\ Worth(w, row) \in Nat
    BY <1>3, WorthParts
  <2>3. u.hand[i][d] = (IF d = c THEN n ELSE h[d]) /\ h[d] \in Nat
    BY <1>3, <1>5
  <2>4. PICK x, y, a, b : x = Held(w, s.hand, s.meld, d) /\ y = Held(w, u.hand, u.meld, d)
                          /\ a = Worth(w, row) /\ b = Worth(w, s.meld[i])
    OBVIOUS
  <2>5. x \in Nat /\ y \in Nat /\ y = x + ((u.hand[i][d] + a) - (h[d] + b))
    BY <1>2, <1>6, <2>1, <2>4 DEF HeldShift
  <2>6. a \in Nat /\ b \in Nat
    BY <2>2, <2>4
  <2>7. y = x + ((IF d = c THEN n - h[c] ELSE 0) + (a - b))
    BY <1>3, <2>3, <2>5, <2>6
  <2>8. QED
    BY <2>2, <2>4, <2>5, <2>7
<1>10. ASSUME NEW d \in Card
      PROVE  /\ Claims(s.meld, d) \in Nat /\ Claims(u.meld, d) \in Nat
             /\ Claims(u.meld, d) = Claims(s.meld, d)
                 + (Worth(ClaimWeight(d), row) - Worth(ClaimWeight(d), s.meld[i]))
  <2>1. ClaimsShift(s.meld, u.meld, d, i)
    BY <1>1, <1>6, ClaimsChange
  <2>2. QED
    BY <1>6, <2>1 DEF ClaimsShift
<1>11. QED
  BY <1>2, <1>3, <1>5, <1>6, <1>7, <1>8, <1>9, <1>10 DEF Reckoned

(* The kongs counted, and the pung that was robbed, as the rows show them. *)
Shown(s, u) ==
  /\ Kongs(s) => Kongs(u)
  /\ Won(s) => Won(u)

LEMMA RowsGrow ==
  ASSUME NEW s, NEW u, u.gangs = s.gangs, u.win = s.win,
         s.gangs \in Seq(Seat \X Card),
         \A k \in Seat : \A c \in Card :
            /\ <<"BU_GANG", c>> \in Range(s.meld[k]) => <<"BU_GANG", c>> \in Range(u.meld[k])
            /\ s.win.op = "QIANGGANGHU" /\ s.win.card = c /\ <<"PENG", c>> \in Range(s.meld[k])
                 => <<"PENG", c>> \in Range(u.meld[k])
  PROVE  Shown(s, u)
<1>1. \A n \in DOMAIN s.gangs : s.gangs[n][1] \in Seat /\ s.gangs[n][2] \in Card
  OBVIOUS
<1>2. Kongs(s) => Kongs(u)
  BY <1>1 DEF Kongs
<1>3. Won(s) => Won(u)
  BY DEF Won
<1>4. QED
  BY <1>2, <1>3 DEF Shown

(* What the row and the hand balance, nobody gains or loses.               *)
Change(w, s, i, c, n, row, d) ==
  (IF d = c THEN n - s.hand[i][c] ELSE 0) + (Worth(w, row) - Worth(w, s.meld[i]))

LEMMA Balance ==
  ASSUME NEW s, NEW u, Cards(s), Fits(s), NEW i \in Seat, NEW c \in Card, NEW n \in Nat, NEW row \in Seq(Op),
         Moved(s, u, i, c, n, row), u.win = s.win,
         \A d \in Card : Change(OpenWeight(d), s, i, c, n, row, d) <= 0,
         \A d \in Card : Worth(ClaimWeight(d), row) - Worth(ClaimWeight(d), s.meld[i]) = 0
                         \/ (Worth(ClaimWeight(d), row) - Worth(ClaimWeight(d), s.meld[i]) = 1
                             /\ Claims(s.meld, d) < s.out[d])
  PROVE  /\ Cards(u) /\ Fits(u)
         /\ (\A d \in Card : Change(LaidWeight(d), s, i, c, n, row, d) = 0) /\ Exact(s) => Exact(u)
<1>1. Reckoned(s, u, i, c, n, row)
  BY MeldMove
<1>2. Cards(u)
  BY <1>1 DEF Reckoned
<1>3. ASSUME NEW d \in Card, NEW w \in Weight
      PROVE  /\ Gross(w, s, d) \in Nat /\ Gross(w, u, d) \in Nat /\ Change(w, s, i, c, n, row, d) \in Int
             /\ Gross(w, u, d) = Gross(w, s, d) + Change(w, s, i, c, n, row, d)
  <2>1. /\ Held(w, s.hand, s.meld, d) \in Nat /\ Held(w, u.hand, u.meld, d) \in Nat
        /\ Held(w, u.hand, u.meld, d) = Held(w, s.hand, s.meld, d) + Change(w, s, i, c, n, row, d)
    BY <1>1 DEF Reckoned, Change
  <2>2. Stock(s, d) \in Nat /\ Stock(u, d) = Stock(s, d)
    <3>1. Stock(s, d) \in Nat
      BY StockNat
    <3>2. QED
      BY <3>1 DEF Moved, Stock
  <2>3. Change(w, s, i, c, n, row, d) \in Int
    <3>1. s.hand[i][c] \in Nat /\ Worth(w, row) \in Nat /\ Worth(w, s.meld[i]) \in Nat
      BY <1>1 DEF Reckoned
    <3>2. QED
      BY <3>1 DEF Change
  <2>4. QED
    BY <2>1, <2>2, <2>3 DEF Gross
<1>4. \A d \in Card : Gross(OpenWeight(d), u, d) <= Copies
  <2>1. ASSUME NEW d \in Card PROVE Gross(OpenWeight(d), u, d) <= Copies
    <3>1. PICK a, b, x : a = Gross(OpenWeight(d), s, d) /\ b = Gross(OpenWeight(d), u, d)
                         /\ x = Change(OpenWeight(d), s, i, c, n, row, d)
      OBVIOUS
    <3>2. a \in Nat /\ b \in Nat /\ x \in Int /\ b = a + x
      BY <1>3, <3>1, WeightsAre
    <3>3. x <= 0 /\ a <= Copies /\ Copies \in Nat
      BY <3>1, SeatFacts DEF Fits
    <3>4. QED
      BY <3>1, <3>2, <3>3
  <2>2. QED
    BY <2>1
<1>5. \A d \in Card : Claims(u.meld, d) <= u.out[d]
  <2>1. ASSUME NEW d \in Card PROVE Claims(u.meld, d) <= s.out[d]
    <3>1. PICK a, b, x : a = Claims(s.meld, d) /\ b = Claims(u.meld, d)
                         /\ x = Worth(ClaimWeight(d), row) - Worth(ClaimWeight(d), s.meld[i])
      OBVIOUS
    <3>2. a \in Nat /\ b \in Nat /\ b = a + x
      BY <1>1, <3>1 DEF Reckoned
    <3>3. a <= s.out[d] /\ s.out[d] \in Nat /\ (x = 0 \/ (x = 1 /\ a < s.out[d]))
      BY <3>1 DEF Fits, Cards
    <3>4. QED
      BY <3>1, <3>2, <3>3
  <2>2. QED
    BY <2>1 DEF Moved
<1>6. Fits(u)
  BY <1>4, <1>5 DEF Fits, Moved
<1>7. ASSUME \A d \in Card : Change(LaidWeight(d), s, i, c, n, row, d) = 0, Exact(s)
      PROVE  Exact(u)
  <2>1. ASSUME NEW d \in Card PROVE Gross(LaidWeight(d), u, d) = Copies
    <3>1. Gross(LaidWeight(d), s, d) = Copies /\ Change(LaidWeight(d), s, i, c, n, row, d) = 0
      BY <1>7 DEF Exact
    <3>2. /\ Gross(LaidWeight(d), u, d) = Gross(LaidWeight(d), s, d) + Change(LaidWeight(d), s, i, c, n, row, d)
          /\ Gross(LaidWeight(d), s, d) \in Nat
      BY <1>3, WeightsAre
    <3>3. QED
      BY <3>1, <3>2
  <2>2. QED
    BY <2>1 DEF Exact
<1>8. QED
  BY <1>2, <1>6, <1>7

(* A new meld m at the end of the row, of cards from the hand.             *)
LEMMA AppendChange ==
  ASSUME NEW s, Cards(s), NEW i \in Seat, NEW c \in Card, NEW n \in Nat, NEW m \in Op,
         NEW w \in Weight, NEW d \in Card
  PROVE  /\ Append(s.meld[i], m) \in Seq(Op) /\ Len(Append(s.meld[i], m)) = Len(s.meld[i]) + 1
         /\ s.hand[i][c] \in Nat /\ w[m] \in Nat
         /\ Worth(w, Append(s.meld[i], m)) - Worth(w, s.meld[i]) = w[m]
         /\ Change(w, s, i, c, n, Append(s.meld[i], m), d) = (IF d = c THEN n - s.hand[i][c] ELSE 0) + w[m]
<1>1. s.meld[i] \in Seq(Op) /\ s.hand[i] \in [Card -> Nat]
  BY DEF Cards, Rows, Hands
<1>2. s.hand[i][c] \in Nat /\ w[m] \in Nat
  BY <1>1 DEF Weight
<1>3. PICK row, new : row = s.meld[i] /\ new = Append(s.meld[i], m)
  OBVIOUS
<1>4. new \in Seq(Op) /\ Len(new) = Len(row) + 1 /\ Worth(w, new) = Worth(w, row) + w[m]
  BY <1>1, <1>3, WorthAppend
<1>5. Worth(w, row) \in Nat
  BY <1>1, <1>3, WorthParts
<1>6. Worth(w, new) - Worth(w, row) = w[m]
  BY <1>2, <1>4, <1>5
<1>7. Change(w, s, i, c, n, new, d) = (IF d = c THEN n - s.hand[i][c] ELSE 0) + w[m]
  BY <1>3, <1>6 DEF Change
<1>8. QED
  BY <1>2, <1>3, <1>4, <1>6, <1>7, Zenon

(* Everything but the hands and the rows is the same.                      *)
SameRest(s, u) ==
  /\ IsRound(u) /\ u.status = s.status /\ u.cur = s.cur /\ u.timers = s.timers /\ u.opt = s.opt
  /\ u.seated = s.seated /\ u.pool = s.pool /\ u.stack = s.stack /\ u.out = s.out
  /\ u.gangs = s.gangs /\ u.win = s.win /\ u.over = s.over /\ u.err = s.err

Left4(s, i, c, k) == IF s.hand[i][c] >= pCardCount(k) THEN s.hand[i][c] - pCardCount(k) ELSE 0

\* The state after cards of a hand were laid down as a meld.
LEMMA LayDownIs ==
  ASSUME NEW s, IsRound(s), Cards(s), NEW i \in Seat, NEW c \in Card,
         NEW k \in {"PENG", "GANG", "BU_GANG", "AN_GANG"}, NEW u, u = LayDown(s, i, <<k, c>>),
         NEW row, row = IF k = "BU_GANG" THEN Regrade(s.meld[i], <<"PENG", c>>, "BU_GANG")
                                         ELSE Append(s.meld[i], <<k, c>>)
  PROVE  SameRest(s, u) /\ Left4(s, i, c, k) \in Nat /\ Moved(s, u, i, c, Left4(s, i, c, k), row)
<1>1. s.hand[i][c] \in Nat /\ pCardCount(k) \in Nat
  <2>1. s.hand[i] \in [Card -> Nat]
    BY DEF Cards, Hands
  <2>2. QED
    BY <2>1 DEF pCardCount
<1>2. s.hand[i][c] - pCardCount(k) \in Int
  BY <1>1
<1>3. Max({s.hand[i][c] - pCardCount(k), 0}) = Left4(s, i, c, k)
  <2>1. PICK a, h, p : a = h - p /\ h = s.hand[i][c] /\ p = pCardCount(k)
    OBVIOUS
  <2>2. Max({a, 0}) = IF a >= 0 THEN a ELSE 0
    <3>1. a \in Int
      BY <1>2, <2>1
    <3>2. QED
      BY <3>1, MaxZero
  <2>3. (a >= 0) <=> (h >= p)
    BY <1>1, <2>1
  <2>4. QED
    BY <2>1, <2>2, <2>3, Zenon DEF Left4
<1>4. Left4(s, i, c, k) \in Nat
  BY <1>1 DEF Left4
<1>5. PICK n : n = Left4(s, i, c, k)
  OBVIOUS
<1>6. u = [s EXCEPT !.meld[i] = row, !.hand[i][c] = n]
  <2>1. <<k, c>>[1] = k /\ <<k, c>>[2] = c
    OBVIOUS
  <2>2. u = [s EXCEPT !.meld[i] = IF k = "BU_GANG" THEN Regrade(s.meld[i], <<"PENG", c>>, "BU_GANG")
                                         ELSE Append(s.meld[i], <<k, c>>),
                      !.hand[i][c] = Max({s.hand[i][c] - pCardCount(k), 0})]
    BY <2>1 DEF LayDown, IsRound, Fields
  <2>3. QED
    BY <1>3, <1>5, <2>2, Zenon
<1>7. SameRest(s, u) /\ u.hand = [s.hand EXCEPT ![i][c] = n] /\ u.meld = [s.meld EXCEPT ![i] = row]
  BY <1>6 DEF SameRest, IsRound, Fields
<1>8. QED
  BY <1>4, <1>5, <1>7 DEF Moved, SameRest

LEMMA SizedMove ==
  ASSUME NEW s, NEW u, Cards(s), NEW i \in Seat, NEW c \in Card, NEW n \in Nat, NEW row \in Seq(Op),
         Moved(s, u, i, c, n, row), NEW j \in {0, i}, NEW l \in {0, i}, Sized(s, j),
         (n - s.hand[i][c]) + 3 * (Len(row) - Len(s.meld[i])) = (IF l = i THEN 1 ELSE 0) - (IF j = i THEN 1 ELSE 0)
  PROVE  Sized(u, l)
<1>1. Reckoned(s, u, i, c, n, row)
  BY MeldMove
<1>2. i # 0 /\ i \in Nat /\ DealCount \in Nat /\ \A k \in Seat : k # 0
  BY SeatFacts
<1>3. ASSUME NEW k \in Seat
      PROVE  Size(u.hand[k]) + 3 * Len(u.meld[k]) = DealCount + (IF k = l THEN 1 ELSE 0)
  <2>1. Size(s.hand[k]) + 3 * Len(s.meld[k]) = DealCount + (IF k = j THEN 1 ELSE 0)
    BY DEF Sized
  <2>2. CASE k # i
    <3>1. u.hand[k] = s.hand[k] /\ u.meld[k] = s.meld[k] /\ k # j /\ k # l
      BY <1>1, <1>2, <2>2 DEF Reckoned
    <3>2. QED
      BY <2>1, <3>1
  <2>3. CASE k = i
    <3>1. PICK a, b, x, y, h : /\ a = Size(s.hand[i]) /\ b = Size(u.hand[i]) /\ h = s.hand[i][c]
                               /\ x = Len(s.meld[i]) /\ y = Len(row)
      OBVIOUS
    <3>2. a \in Nat /\ h \in Nat /\ x \in Nat /\ y \in Nat /\ b = a + (n - h) /\ u.meld[i] = row
      BY <1>1, <3>1 DEF Reckoned
    <3>3. a + 3 * x = DealCount + (IF i = j THEN 1 ELSE 0)
      BY <2>1, <2>3, <3>1
    <3>4. (n - h) + 3 * (y - x) = (IF l = i THEN 1 ELSE 0) - (IF j = i THEN 1 ELSE 0)
      BY <3>1
    <3>5. b + 3 * y = DealCount + (IF i = l THEN 1 ELSE 0)
      BY <1>2, <3>2, <3>3, <3>4
    <3>6. QED
      BY <2>3, <3>1, <3>2, <3>5
  <2>4. QED
    BY <2>2, <2>3
<1>4. QED
  BY <1>3 DEF Sized

LEMMA AppendHolds ==
  ASSUME NEW row \in Seq(Op), NEW m \in Op
  PROVE  Range(Append(row, m)) = Range(row) \cup {m}
<1>1. PICK new, n : new = Append(row, m) /\ n = Len(row)
  OBVIOUS
<1>2. /\ DOMAIN row = 1 .. n /\ DOMAIN new = 1 .. (n + 1) /\ n \in Nat /\ new[n + 1] = m
      /\ \A k \in 1 .. n : new[k] = row[k]
  BY <1>1
<1>3. ASSUME NEW x \in Range(new) PROVE x \in Range(row) \cup {m}
  <2>1. PICK k \in 1 .. (n + 1) : x = new[k]
    BY <1>2 DEF Range
  <2>2. CASE k = n + 1
    BY <1>2, <2>1, <2>2
  <2>3. CASE k \in 1 .. n
    BY <1>2, <2>1, <2>3 DEF Range
  <2>4. QED
    BY <1>2, <2>2, <2>3
<1>4. ASSUME NEW x \in Range(row) \cup {m} PROVE x \in Range(new)
  <2>1. CASE x = m
    <3>1. n + 1 \in DOMAIN new
      BY <1>2
    <3>2. QED
      BY <1>2, <2>1, <3>1 DEF Range
  <2>2. CASE x \in Range(row)
    <3>1. PICK k \in 1 .. n : x = row[k]
      BY <1>2, <2>2 DEF Range
    <3>2. k \in DOMAIN new /\ new[k] = x
      BY <1>2, <3>1
    <3>3. QED
      BY <3>2 DEF Range
  <2>3. QED
    BY <2>1, <2>2
<1>5. QED
  BY <1>1, <1>3, <1>4

(* Rows that only grow show what they showed.                              *)
LEMMA GrowShown ==
  ASSUME NEW s, NEW u, Cards(s), s.gangs \in Seq(Seat \X Card), u.gangs = s.gangs, u.win = s.win,
         NEW i \in Seat, NEW m \in Op, NEW row, row = Append(s.meld[i], m),
         NEW c, NEW n, Moved(s, u, i, c, n, row)
  PROVE  Shown(s, u)
<1>1. s.meld \in Rows /\ u.meld = [s.meld EXCEPT ![i] = row]
  BY DEF Cards, Moved
<1>2. \A k \in Seat : Range(s.meld[k]) \subseteq Range(u.meld[k])
  <2>1. ASSUME NEW k \in Seat PROVE Range(s.meld[k]) \subseteq Range(u.meld[k])
    <3>1. CASE k = i
      <4>1. s.meld[i] \in Seq(Op) /\ u.meld[i] = Append(s.meld[i], m)
        BY <1>1 DEF Rows
      <4>2. QED
        BY <3>1, <4>1, AppendHolds
    <3>2. CASE k # i
      BY <1>1, <3>2 DEF Rows
    <3>3. QED
      BY <3>1, <3>2
  <2>2. QED
    BY <2>1
<1>3. QED
  BY <1>2, RowsGrow

(* What laying cards down keeps: j has to discard before, l afterwards.    *)
LaidKeeps(s, u, j, l) ==
  /\ SameRest(s, u) /\ Cards(u) /\ Fits(u) /\ Shown(s, u)
  /\ Exact(s) => Exact(u)
  /\ Sized(s, j) => Sized(u, l)

(* A discard is claimed.                                                   *)
LEMMA ClaimLaid ==
  ASSUME NEW s, IsRound(s), Cards(s), Fits(s), s.gangs \in Seq(Seat \X Card),
         NEW i \in Seat, NEW c \in Card, NEW k \in {"PENG", "GANG"},
         NEW u, u = LayDown(s, i, <<k, c>>),
         s.hand[i][c] >= pCardCount(k), Claims(s.meld, c) < s.out[c]
  PROVE  LaidKeeps(s, u, 0, IF k = "PENG" THEN i ELSE 0)
<1>1. PICK row, n, m : row = Append(s.meld[i], m) /\ n = Left4(s, i, c, k) /\ m = <<k, c>>
  OBVIOUS
<1>2. SameRest(s, u) /\ n \in Nat /\ Moved(s, u, i, c, n, row)
  <2>1. row = IF k = "BU_GANG" THEN Regrade(s.meld[i], <<"PENG", c>>, "BU_GANG") ELSE Append(s.meld[i], <<k, c>>)
    BY <1>1
  <2>2. k \in {"PENG", "GANG", "BU_GANG", "AN_GANG"}
    OBVIOUS
  <2>3. QED
    BY <1>1, <2>1, <2>2, LayDownIs, Zenon
<1>3. m \in Op
  BY <1>1, OpIs
<1>4. PICK p : p = pCardCount(k)
  OBVIOUS
<1>5. p = (IF k = "PENG" THEN 2 ELSE 3) /\ n = s.hand[i][c] - p
  BY <1>1, <1>4 DEF pCardCount, Left4
<1>6. ASSUME NEW d \in Card, NEW w \in Weight
      PROVE  /\ row \in Seq(Op) /\ Len(row) = Len(s.meld[i]) + 1 /\ s.hand[i][c] \in Nat /\ w[m] \in Nat
             /\ Worth(w, row) - Worth(w, s.meld[i]) = w[m]
             /\ Change(w, s, i, c, n, row, d) = (IF d = c THEN n - s.hand[i][c] ELSE 0) + w[m]
  BY <1>1, <1>2, <1>3, AppendChange
<1>7. /\ row \in Seq(Op) /\ Len(row) = Len(s.meld[i]) + 1 /\ s.hand[i][c] \in Nat
  BY <1>6, WeightsAre
<1>8. ASSUME NEW d \in Card
      PROVE  /\ Change(OpenWeight(d), s, i, c, n, row, d) = 0 /\ Change(LaidWeight(d), s, i, c, n, row, d) = 0
             /\ Worth(ClaimWeight(d), row) - Worth(ClaimWeight(d), s.meld[i]) = (IF d = c THEN 1 ELSE 0)
  <2>1. /\ OpenWeight(d)[m] = (IF d = c THEN p ELSE 0) /\ LaidWeight(d)[m] = (IF d = c THEN p ELSE 0)
        /\ ClaimWeight(d)[m] = (IF d = c THEN 1 ELSE 0)
    <3>1. CASE k = "PENG"
      <4>1. m = <<"PENG", c>> /\ p = 2
        BY <1>1, <1>5, <3>1
      <4>2. QED
        BY <4>1, WeightOf
    <3>2. CASE k = "GANG"
      <4>1. m = <<"GANG", c>> /\ p = 3
        BY <1>1, <1>5, <3>2
      <4>2. QED
        BY <4>1, WeightOf
    <3>3. QED
      BY <3>1, <3>2
  <2>2. n - s.hand[i][c] = -p /\ p \in Nat
    BY <1>5, <1>7
  <2>3. OpenWeight(d) \in Weight /\ LaidWeight(d) \in Weight /\ ClaimWeight(d) \in Weight
    BY WeightsAre
  <2>4. Change(OpenWeight(d), s, i, c, n, row, d) = 0
    BY <1>6, <2>1, <2>2, <2>3
  <2>5. Change(LaidWeight(d), s, i, c, n, row, d) = 0
    BY <1>6, <2>1, <2>2, <2>3
  <2>6. Worth(ClaimWeight(d), row) - Worth(ClaimWeight(d), s.meld[i]) = (IF d = c THEN 1 ELSE 0)
    BY <1>6, <2>1, <2>3
  <2>7. QED
    BY <2>4, <2>5, <2>6
<1>9. Cards(u) /\ Fits(u) /\ (Exact(s) => Exact(u))
  <2>1. \A d \in Card : Change(OpenWeight(d), s, i, c, n, row, d) <= 0
    BY <1>8
  <2>2. \A d \in Card : \/ Worth(ClaimWeight(d), row) - Worth(ClaimWeight(d), s.meld[i]) = 0
                        \/ /\ Worth(ClaimWeight(d), row) - Worth(ClaimWeight(d), s.meld[i]) = 1
                           /\ Claims(s.meld, d) < s.out[d]
    BY <1>8
  <2>3. u.win = s.win
    BY <1>2 DEF SameRest
  <2>4. QED
    BY <1>2, <1>7, <1>8, <2>1, <2>2, <2>3, Balance
<1>10. Shown(s, u)
  <2>1. u.gangs = s.gangs /\ u.win = s.win
    BY <1>2 DEF SameRest
  <2>2. QED
    BY <1>1, <1>2, <1>3, <2>1, GrowShown, Zenon
<1>11. ASSUME Sized(s, 0) PROVE Sized(u, IF k = "PENG" THEN i ELSE 0)
  <2>1. PICK l : l = IF k = "PENG" THEN i ELSE 0
    OBVIOUS
  <2>2. i # 0 /\ i \in Nat /\ Len(s.meld[i]) \in Nat
    BY SeatFacts DEF Cards, Rows
  <2>3. (n - s.hand[i][c]) + 3 * (Len(row) - Len(s.meld[i])) = (IF l = i THEN 1 ELSE 0) - (IF 0 = i THEN 1 ELSE 0)
    BY <1>5, <1>7, <2>1, <2>2
  <2>4. Sized(u, l)
    BY <1>2, <1>7, <1>11, <2>1, <2>3, SizedMove
  <2>5. QED
    BY <2>1, <2>4
<1>12. QED
  BY <1>2, <1>9, <1>10, <1>11 DEF LaidKeeps

(* A concealed kong, also one whose cards are no longer all there.         *)
LEMMA HiddenLaid ==
  ASSUME NEW s, IsRound(s), Cards(s), Fits(s), s.gangs \in Seq(Seat \X Card),
         NEW i \in Seat, NEW c \in Card, NEW u, u = LayDown(s, i, <<"AN_GANG", c>>)
  PROVE  /\ SameRest(s, u) /\ Cards(u) /\ Fits(u) /\ Shown(s, u)
         /\ Exact(s) /\ s.hand[i][c] >= 4 => Exact(u)
<1>1. PICK row, n, m, k : row = Append(s.meld[i], m) /\ n = Left4(s, i, c, k) /\ m = <<k, c>> /\ k = "AN_GANG"
  OBVIOUS
<1>2. SameRest(s, u) /\ n \in Nat /\ Moved(s, u, i, c, n, row)
  <2>1. row = IF k = "BU_GANG" THEN Regrade(s.meld[i], <<"PENG", c>>, "BU_GANG") ELSE Append(s.meld[i], <<k, c>>)
    BY <1>1
  <2>2. k \in {"PENG", "GANG", "BU_GANG", "AN_GANG"} /\ u = LayDown(s, i, <<k, c>>)
    BY <1>1
  <2>3. QED
    BY <1>1, <2>1, <2>2, LayDownIs, Zenon
<1>3. m \in Op
  BY <1>1, OpIs
<1>4. n = (IF s.hand[i][c] >= 4 THEN s.hand[i][c] - 4 ELSE 0)
  BY <1>1 DEF pCardCount, Left4
<1>6. ASSUME NEW d \in Card, NEW w \in Weight
      PROVE  /\ row \in Seq(Op) /\ s.hand[i][c] \in Nat /\ w[m] \in Nat
             /\ Worth(w, row) - Worth(w, s.meld[i]) = w[m]
             /\ Change(w, s, i, c, n, row, d) = (IF d = c THEN n - s.hand[i][c] ELSE 0) + w[m]
  BY <1>1, <1>2, <1>3, AppendChange
<1>7. row \in Seq(Op) /\ s.hand[i][c] \in Nat
  BY <1>6, WeightsAre
<1>8. ASSUME NEW d \in Card
      PROVE  /\ Change(OpenWeight(d), s, i, c, n, row, d) <= 0
             /\ s.hand[i][c] >= 4 => Change(LaidWeight(d), s, i, c, n, row, d) = 0
             /\ Worth(ClaimWeight(d), row) - Worth(ClaimWeight(d), s.meld[i]) = 0
  <2>1. /\ OpenWeight(d)[m] = 0 /\ LaidWeight(d)[m] = (IF d = c THEN 4 ELSE 0) /\ ClaimWeight(d)[m] = 0
    BY <1>1, WeightOf
  <2>2. n - s.hand[i][c] <= 0 /\ n - s.hand[i][c] \in Int /\ (s.hand[i][c] >= 4 => n - s.hand[i][c] = -4)
    BY <1>4, <1>7
  <2>3. OpenWeight(d) \in Weight /\ LaidWeight(d) \in Weight /\ ClaimWeight(d) \in Weight
    BY WeightsAre
  <2>4. Change(OpenWeight(d), s, i, c, n, row, d) <= 0
    BY <1>6, <2>1, <2>2, <2>3
  <2>5. s.hand[i][c] >= 4 => Change(LaidWeight(d), s, i, c, n, row, d) = 0
    BY <1>6, <2>1, <2>2, <2>3
  <2>6. Worth(ClaimWeight(d), row) - Worth(ClaimWeight(d), s.meld[i]) = 0
    BY <1>6, <2>1, <2>3
  <2>7. QED
    BY <2>4, <2>5, <2>6
<1>9. Cards(u) /\ Fits(u) /\ (Exact(s) /\ s.hand[i][c] >= 4 => Exact(u))
  <2>1. u.win = s.win
    BY <1>2 DEF SameRest
  <2>2. QED
    BY <1>2, <1>7, <1>8, <2>1, Balance
<1>10. Shown(s, u)
  <2>1. u.gangs = s.gangs /\ u.win = s.win
    BY <1>2 DEF SameRest
  <2>2. QED
    BY <1>1, <1>2, <1>3, <2>1, GrowShown, Zenon
<1>11. QED
  BY <1>2, <1>9, <1>10

(* A pung becomes a kong.                                                  *)
LEMMA KongLaid ==
  ASSUME NEW s, IsRound(s), Cards(s), Fits(s), s.gangs \in Seq(Seat \X Card),
         NEW i \in Seat, NEW c \in Card, NEW u, u = LayDown(s, i, <<"BU_GANG", c>>),
         s.hand[i][c] >= 1, <<"PENG", c>> \in Range(s.meld[i])
  PROVE  LaidKeeps(s, u, i, 0) /\ <<"BU_GANG", c>> \in Range(u.meld[i]) /\ <<"BU_GANG", c>> \notin Range(s.meld[i])
<1>1. PICK row, n, k : row = Regrade(s.meld[i], <<"PENG", c>>, k) /\ n = Left4(s, i, c, k) /\ k = "BU_GANG"
  OBVIOUS
<1>2. SameRest(s, u) /\ n \in Nat /\ Moved(s, u, i, c, n, row)
  <2>1. row = IF k = "BU_GANG" THEN Regrade(s.meld[i], <<"PENG", c>>, "BU_GANG") ELSE Append(s.meld[i], <<k, c>>)
    BY <1>1
  <2>2. k \in {"PENG", "GANG", "BU_GANG", "AN_GANG"} /\ u = LayDown(s, i, <<k, c>>)
    BY <1>1
  <2>3. QED
    BY <1>1, <2>1, <2>2, LayDownIs, Zenon
<1>3. s.hand[i][c] \in Nat /\ s.meld[i] \in Seq(Op) /\ s.meld \in Rows
  <2>1. s.hand[i] \in [Card -> Nat]
    BY DEF Cards, Hands
  <2>2. QED
    BY <2>1 DEF Cards, Rows
<1>4. n = s.hand[i][c] - 1
  BY <1>1, <1>3 DEF pCardCount, Left4
<1>5. PICK m, old : m = <<"BU_GANG", c>> /\ old = s.meld[i]
  OBVIOUS
<1>6. PICK j \in DOMAIN old : old[j] = <<"PENG", c>> /\ row = [old EXCEPT ![j] = m]
  <2>1. <<"PENG", c>>[2] = c
    OBVIOUS
  <2>2. PICK q : q = <<"PENG", c>>
    OBVIOUS
  <2>3. row = Regrade(old, q, k) /\ old \in Seq(Op) /\ q \in Range(old)
    BY <1>1, <1>3, <1>5, <2>2
  <2>4. Regraded(old, row, q, k)
    BY <2>3, RegradeIs, Zenon
  <2>5. QED
    BY <1>1, <1>5, <2>1, <2>2, <2>4 DEF Regraded
<1>7. m \in Op /\ old \in Seq(Op)
  BY <1>3, <1>5, OpIs
<1>8. ASSUME NEW w \in Weight
      PROVE  row \in Seq(Op) /\ Len(row) = Len(old) /\ Worth(w, row) = Worth(w, old) + (w[m] - w[old[j]])
             /\ Worth(w, old) \in Nat
  BY <1>6, <1>7, WorthExcept, WorthParts
<1>9. row \in Seq(Op) /\ Len(row) = Len(old)
  BY <1>8, WeightsAre
<1>10. ASSUME NEW d \in Card
       PROVE  /\ Change(OpenWeight(d), s, i, c, n, row, d) = 0 /\ Change(LaidWeight(d), s, i, c, n, row, d) = 0
              /\ Worth(ClaimWeight(d), row) - Worth(ClaimWeight(d), s.meld[i]) = 0
  <2>1. /\ OpenWeight(d)[m] - OpenWeight(d)[old[j]] = (IF d = c THEN 1 ELSE 0)
        /\ LaidWeight(d)[m] - LaidWeight(d)[old[j]] = (IF d = c THEN 1 ELSE 0)
        /\ ClaimWeight(d)[m] - ClaimWeight(d)[old[j]] = 0
    <3>1. m = <<"BU_GANG", c>> /\ old[j] = <<"PENG", c>>
      BY <1>5, <1>6
    <3>2. /\ OpenWeight(d)[<<"PENG", c>>] = (IF c = d THEN 2 ELSE 0)
          /\ OpenWeight(d)[<<"BU_GANG", c>>] = (IF c = d THEN 3 ELSE 0)
          /\ LaidWeight(d)[<<"PENG", c>>] = (IF c = d THEN 2 ELSE 0)
          /\ LaidWeight(d)[<<"BU_GANG", c>>] = (IF c = d THEN 3 ELSE 0)
          /\ ClaimWeight(d)[<<"PENG", c>>] = (IF c = d THEN 1 ELSE 0)
          /\ ClaimWeight(d)[<<"BU_GANG", c>>] = (IF c = d THEN 1 ELSE 0)
      BY WeightOf
    <3>3. QED
      BY <3>1, <3>2
  <2>2. n - s.hand[i][c] = -1
    BY <1>3, <1>4
  <2>3. OpenWeight(d) \in Weight /\ LaidWeight(d) \in Weight /\ ClaimWeight(d) \in Weight
    BY WeightsAre
  <2>4. ASSUME NEW w \in Weight, w[m] - w[old[j]] = (IF d = c THEN 1 ELSE 0)
        PROVE  Change(w, s, i, c, n, row, d) = 0
    <3>1. Worth(w, row) - Worth(w, old) = (IF d = c THEN 1 ELSE 0)
      BY <1>8, <2>4
    <3>2. QED
      BY <1>5, <2>2, <3>1 DEF Change
  <2>5. Worth(ClaimWeight(d), row) - Worth(ClaimWeight(d), old) = 0
    BY <1>8, <2>1, <2>3
  <2>6. QED
    BY <1>5, <2>1, <2>3, <2>4, <2>5
<1>11. Cards(u) /\ Fits(u) /\ (Exact(s) => Exact(u))
  <2>1. u.win = s.win
    BY <1>2 DEF SameRest
  <2>2. \A d \in Card : Change(OpenWeight(d), s, i, c, n, row, d) <= 0
    BY <1>10
  <2>3. \A d \in Card : \/ Worth(ClaimWeight(d), row) - Worth(ClaimWeight(d), s.meld[i]) = 0
                        \/ /\ Worth(ClaimWeight(d), row) - Worth(ClaimWeight(d), s.meld[i]) = 1
                           /\ Claims(s.meld, d) < s.out[d]
    BY <1>10
  <2>4. QED
    BY <1>2, <1>9, <1>10, <2>1, <2>2, <2>3, Balance
<1>12. DOMAIN row = DOMAIN old /\ row[j] = m /\ \A l \in DOMAIN old : l # j => row[l] = old[l]
  BY <1>6, <1>7
<1>13. \A x : x \in Range(old) /\ x # <<"PENG", c>> => x \in Range(row)
  <2>1. ASSUME NEW x \in Range(old), x # <<"PENG", c>> PROVE x \in Range(row)
    <3>1. PICK l \in DOMAIN old : old[l] = x
      BY DEF Range
    <3>2. l # j
      BY <1>6, <2>1, <3>1
    <3>3. QED
      BY <1>12, <3>1, <3>2 DEF Range
  <2>2. QED
    BY <2>1
<1>14. u.meld[i] = row /\ \A l \in Seat \ {i} : u.meld[l] = s.meld[l]
  BY <1>2, <1>3 DEF Moved, Rows
<1>15. Shown(s, u)
  <2>1. ASSUME NEW l \in Seat, NEW d \in Card, <<"BU_GANG", d>> \in Range(s.meld[l])
        PROVE  <<"BU_GANG", d>> \in Range(u.meld[l])
    <3>1. CASE l = i
      <4>1. <<"BU_GANG", d>> # <<"PENG", c>>
        OBVIOUS
      <4>2. QED
        BY <1>5, <1>13, <1>14, <2>1, <3>1, <4>1
    <3>2. CASE l # i
      BY <1>14, <2>1, <3>2
    <3>3. QED
      BY <3>1, <3>2
  <2>2. ASSUME NEW l \in Seat, NEW d \in Card, <<"PENG", d>> \in Range(s.meld[l]),
               s.win.op = "QIANGGANGHU", s.win.card = d
        PROVE  <<"PENG", d>> \in Range(u.meld[l])
    <3>1. RobbedOf(s.win, d) = 1
      BY <2>2 DEF RobbedOf
    <3>2. s.hand[l][d] = 0
      BY <2>2, <3>1, Few
    <3>3. CASE l = i
      <4>1. d # c
        BY <1>3, <3>2, <3>3
      <4>2. <<"PENG", d>> # <<"PENG", c>>
        BY <4>1
      <4>3. QED
        BY <1>5, <1>13, <1>14, <2>2, <3>3, <4>2
    <3>4. CASE l # i
      BY <1>14, <2>2, <3>4
    <3>5. QED
      BY <3>3, <3>4
  <2>3. u.gangs = s.gangs /\ u.win = s.win
    BY <1>2 DEF SameRest
  <2>4. QED
    BY <2>1, <2>2, <2>3, RowsGrow
<1>16. <<"BU_GANG", c>> \in Range(u.meld[i])
  BY <1>5, <1>6, <1>12, <1>14 DEF Range
<1>17. <<"BU_GANG", c>> \notin Range(s.meld[i])
  BY Few
<1>18. ASSUME Sized(s, i) PROVE Sized(u, 0)
  <2>1. i # 0 /\ i \in Nat /\ Len(s.meld[i]) \in Nat
    BY <1>3, SeatFacts
  <2>2. (n - s.hand[i][c]) + 3 * (Len(row) - Len(s.meld[i])) = (IF 0 = i THEN 1 ELSE 0) - (IF i = i THEN 1 ELSE 0)
    BY <1>3, <1>4, <1>5, <1>9, <2>1
  <2>3. QED
    BY <1>2, <1>9, <1>18, <2>2, SizedMove
<1>19. QED
  BY <1>2, <1>11, <1>15, <1>16, <1>17, <1>18 DEF LaidKeeps

-----------------------------------------------------------------------------
(* A win changes the rows, the kongs counted and the win.                  *)
WinOnly(s, u) ==
  /\ IsRound(u) /\ u.status = s.status /\ u.cur = s.cur /\ u.timers = s.timers /\ u.opt = s.opt
  /\ u.seated = s.seated /\ u.pool = s.pool /\ u.stack = s.stack /\ u.out = s.out /\ u.hand = s.hand
  /\ u.over = s.over /\ u.err = s.err
WinKeeps(s, u) ==
  /\ WinOnly(s, u) /\ Cards(u) /\ Fits(u) /\ Kongs(u) /\ Won(u) /\ u.gangs \in Seq(Seat \X Card)
  /\ s.win = NoWin /\ Exact(s) => Exact(u)

\* A win on the own draw moves no card.
LEMMA ZimoKeeps ==
  ASSUME NEW s, IsRound(s), Cards(s), Fits(s), Kongs(s), s.gangs \in Seq(Seat \X Card), s.cur \in Seat,
         NEW i \in Seat, NEW c \in Card, NEW u, u = onDealClientUserHu(s, i, <<"ZIMO", c>>)
  PROVE  WinKeeps(s, u)
<1>1. PICK win : win = [seat |-> i, from |-> s.cur, op |-> "ZIMO", card |-> c,
                        turn |-> onSetHuTurnMonyInfo(i, s.cur, "ZIMO")]
  OBVIOUS
<1>2. u = [s EXCEPT !.meld = s.meld, !.gangs = s.gangs, !.win = win]
  BY <1>1 DEF onDealClientUserHu, IsRound, Fields
<1>3. WinOnly(s, u) /\ u.meld = s.meld /\ u.gangs = s.gangs /\ u.win = win
  BY <1>2 DEF WinOnly, IsRound, Fields
<1>4. Cards(u)
  BY <1>3 DEF Cards, WinOnly
<1>5. ASSUME NEW d \in Card, NEW w \in Weight
      PROVE  Gross(w, u, d) <= Gross(w, s, d) /\ (s.win = NoWin => Gross(w, u, d) = Gross(w, s, d))
  <2>1. Held(w, u.hand, u.meld, d) = Held(w, s.hand, s.meld, d) /\ Held(w, s.hand, s.meld, d) \in Nat
    <3>1. Held(w, s.hand, s.meld, d) \in Nat
      BY HeldParts DEF Cards
    <3>2. QED
      BY <1>3, <3>1 DEF WinOnly
  <2>2. RobbedOf(u.win, d) = 0 /\ (s.win = NoWin => RobbedOf(s.win, d) = 0)
    BY <1>1, <1>3 DEF RobbedOf, NoWin
  <2>3. s.pool[d] \in Nat /\ s.out[d] \in Nat /\ RobbedOf(s.win, d) \in 0 .. 1
    BY StockNat
  <2>4. Stock(u, d) = s.pool[d] + s.out[d] + 0
    BY <1>3, <2>2 DEF Stock, WinOnly
  <2>5. QED
    BY <2>1, <2>2, <2>3, <2>4 DEF Gross, Stock
<1>6. Fits(u)
  <2>1. ASSUME NEW d \in Card PROVE Gross(OpenWeight(d), u, d) <= Copies
    <3>1. PICK a, b : a = Gross(OpenWeight(d), s, d) /\ b = Gross(OpenWeight(d), u, d)
      OBVIOUS
    <3>2. b <= a
      BY <1>5, <3>1, WeightsAre
    <3>3. a <= Copies /\ a \in Int /\ b \in Int /\ Copies \in Int
      <4>1. Held(OpenWeight(d), s.hand, s.meld, d) \in Nat /\ Held(OpenWeight(d), u.hand, u.meld, d) \in Nat
        BY <1>4, WeightsAre, HeldParts DEF Cards
      <4>2. Stock(s, d) \in Nat /\ Stock(u, d) \in Nat
        BY <1>4, StockNat
      <4>3. a <= Copies
        BY <1>4, <3>1 DEF Fits
      <4>4. a \in Int /\ b \in Int
        BY <3>1, <4>1, <4>2 DEF Gross
      <4>5. QED
        BY <4>3, <4>4, SeatFacts
    <3>4. QED
      BY <3>1, <3>2, <3>3
  <2>2. QED
    BY <1>3, <2>1 DEF Fits, WinOnly
<1>7. s.win = NoWin /\ Exact(s) => Exact(u)
  BY <1>5, WeightsAre DEF Exact
<1>8. Kongs(u) /\ u.gangs \in Seq(Seat \X Card)
  BY <1>3 DEF Kongs
<1>9. Won(u)
  <2>1. u.win.seat = i /\ u.win.from = s.cur /\ u.win.op = "ZIMO"
        /\ u.win.turn = onSetHuTurnMonyInfo(i, s.cur, "ZIMO")
    BY <1>1, <1>3
  <2>2. QED
    BY <2>1 DEF Won
<1>10. QED
  BY <1>3, <1>4, <1>6, <1>7, <1>8, <1>9 DEF WinKeeps

LEMMA MaxOne ==
  ASSUME NEW a \in Int
  PROVE  Max({a}) = a
<1>1. \E x \in {a} : \A y \in {a} : x >= y
  OBVIOUS
<1>2. Max({a}) \in {a}
  BY <1>1, Zenon DEF Max
<1>3. QED
  BY <1>2

(* Whoever robs, the row of the current player is the one that changes.    *)
HasRobbed(s, u, i, c) ==
  /\ WinOnly(s, u) /\ u.gangs = SubSeq(s.gangs, 1, Len(s.gangs) - 1)
  /\ u.win = [seat |-> i, from |-> s.cur, op |-> "QIANGGANGHU", card |-> c,
              turn |-> onSetHuTurnMonyInfo(i, s.cur, "QIANGGANGHU")]
  /\ \/ Kong(s, c) /\ \E row : /\ Regraded(s.meld[s.cur], row, <<"BU_GANG", c>>, "PENG")
                               /\ u.meld = [s.meld EXCEPT ![s.cur] = row]
     \/ RobbedHere(s, c) /\ u.meld = s.meld

\* A robbed kong is a pung again and its card is the robber's.
LEMMA RobIs ==
  ASSUME NEW s, IsRound(s), Cards(s), Fits(s), s.cur \in Seat, NEW i \in Seat, NEW c \in Card,
         NEW u, u = onDealClientUserHu(s, i, <<"QIANGGANGHU", c>>), Kong(s, c) \/ RobbedHere(s, c)
  PROVE  HasRobbed(s, u, i, c)
<1>1. PICK m, robbed, from, win : /\ m = <<"BU_GANG", c>> /\ robbed = {k \in Seat : m \in Range(s.meld[k])}
                                  /\ from = IF robbed # {} THEN Max(robbed) ELSE s.cur
                                  /\ win = [seat |-> i, from |-> from, op |-> "QIANGGANGHU", card |-> c,
                                            turn |-> onSetHuTurnMonyInfo(i, from, "QIANGGANGHU")]
  OBVIOUS
<1>2. u = [s EXCEPT !.meld = [k \in Seat |-> Regrade(s.meld[k], m, "PENG")],
                    !.gangs = SubSeq(s.gangs, 1, Len(s.gangs) - 1), !.win = win]
  <2>1. <<"QIANGGANGHU", c>>[1] = "QIANGGANGHU" /\ <<"QIANGGANGHU", c>>[2] = c
    OBVIOUS
  <2>2. QED
    BY <1>1, <2>1 DEF onDealClientUserHu, IsRound, Fields
<1>3. /\ WinOnly(s, u) /\ u.gangs = SubSeq(s.gangs, 1, Len(s.gangs) - 1) /\ u.win = win
      /\ u.meld = [k \in Seat |-> Regrade(s.meld[k], m, "PENG")]
  BY <1>2 DEF WinOnly, IsRound, Fields
<1>4. s.meld \in Rows /\ \A k \in Seat : s.meld[k] \in Seq(Op)
  BY DEF Cards, Rows
<1>5. \A k \in Seat : m \notin Range(s.meld[k]) => Regrade(s.meld[k], m, "PENG") = s.meld[k]
  <2>1. ASSUME NEW k \in Seat, m \notin Range(s.meld[k]) PROVE Regrade(s.meld[k], m, "PENG") = s.meld[k]
    <3>1. PICK row, v : row = s.meld[k] /\ v = Regrade(row, m, "PENG")
      OBVIOUS
    <3>2. v = row \/ Regraded(row, v, m, "PENG")
      BY <1>4, <3>1, RegradeIs, Zenon
    <3>3. ~Regraded(row, v, m, "PENG")
      BY <2>1, <3>1 DEF Regraded, Range
    <3>4. QED
      BY <3>1, <3>2, <3>3
  <2>2. QED
    BY <2>1
<1>6. CASE Kong(s, c)
  <2>1. m \in Range(s.meld[s.cur])
    BY <1>1, <1>6 DEF Kong
  <2>2. \A k \in Seat : m \in Range(s.meld[k]) => k = s.cur
    BY <1>1, <2>1, Few
  <2>3. robbed = {s.cur}
    BY <1>1, <2>1, <2>2
  <2>4. from = s.cur
    <3>1. s.cur \in Int
      BY SeatFacts
    <3>2. Max({s.cur}) = s.cur
      BY <3>1, MaxOne
    <3>3. QED
      BY <1>1, <2>3, <3>2
  <2>5. PICK row : row = Regrade(s.meld[s.cur], m, "PENG")
    OBVIOUS
  <2>6. Regraded(s.meld[s.cur], row, m, "PENG")
    <3>1. PICK old : old = s.meld[s.cur]
      OBVIOUS
    <3>2. old \in Seq(Op) /\ row = Regrade(old, m, "PENG") /\ m \in Range(old)
      BY <1>4, <2>1, <2>5, <3>1
    <3>3. Regraded(old, row, m, "PENG")
      BY <3>2, RegradeIs, Zenon
    <3>4. QED
      BY <3>1, <3>3
  <2>7. u.meld = [s.meld EXCEPT ![s.cur] = row]
    <3>1. \A k \in Seat : k # s.cur => Regrade(s.meld[k], m, "PENG") = s.meld[k]
      BY <1>5, <2>2
    <3>2. [s.meld EXCEPT ![s.cur] = row] = [k \in Seat |-> IF k = s.cur THEN row ELSE s.meld[k]]
      BY <1>4 DEF Rows
    <3>3. \A k \in Seat : Regrade(s.meld[k], m, "PENG") = IF k = s.cur THEN row ELSE s.meld[k]
      BY <2>5, <3>1
    <3>4. QED
      BY <1>3, <3>2, <3>3
  <2>8. QED
    BY <1>1, <1>3, <1>6, <2>4, <2>6, <2>7 DEF HasRobbed
<1>7. CASE RobbedHere(s, c)
  <2>1. \A k \in Seat : m \notin Range(s.meld[k])
    BY <1>1, <1>7, Few DEF RobbedHere
  <2>2. robbed = {} /\ from = s.cur
    BY <1>1, <2>1
  <2>3. u.meld = s.meld
    <3>1. s.meld = [k \in Seat |-> s.meld[k]]
      BY <1>4 DEF Rows
    <3>2. QED
      BY <1>3, <1>5, <2>1, <3>1
  <2>4. QED
    BY <1>1, <1>3, <1>7, <2>2, <2>3 DEF HasRobbed
<1>8. QED
  BY <1>6, <1>7

(* The kongs that stay counted.                                            *)
LEMMA DropLast ==
  ASSUME NEW S, NEW q \in Seq(S), NEW p, p = SubSeq(q, 1, Len(q) - 1)
  PROVE  p \in Seq(S) /\ DOMAIN p \subseteq DOMAIN q /\ Len(q) \notin DOMAIN p /\ \A n \in DOMAIN p : p[n] = q[n]
<1>1. CASE Len(q) = 0
  <2>1. DOMAIN p = {} /\ p \in Seq(S)
    BY <1>1
  <2>2. QED
    BY <2>1
<1>2. CASE Len(q) > 0
  <2>1. Len(q) - 1 \in Nat /\ Len(q) - 1 <= Len(q)
    BY <1>2
  <2>2. PICK l : l = Len(q) - 1
    OBVIOUS
  <2>3. l \in Nat /\ l <= Len(q) /\ Len(q) = l + 1 /\ p = SubSeq(q, 1, l)
    BY <2>1, <2>2
  <2>4. p \in Seq(S) /\ Len(p) = l
    BY <2>3
  <2>5. \A n \in 1 .. l : p[n] = q[n]
    BY <2>3
  <2>6. DOMAIN p = 1 .. l /\ DOMAIN q = 1 .. (l + 1)
    BY <2>3, <2>4
  <2>7. QED
    BY <2>3, <2>4, <2>5, <2>6
<1>3. QED
  BY <1>1, <1>2

\* Robbing a kong moves its fourth card and uncounts it.
LEMMA RobKeeps ==
  ASSUME NEW s, IsRound(s), Cards(s), Fits(s), Kongs(s), s.gangs \in Seq(Seat \X Card), s.cur \in Seat,
         NEW i \in Seat, i # s.cur, NEW c \in Card, NEW u, u = onDealClientUserHu(s, i, <<"QIANGGANGHU", c>>),
         Kong(s, c) \/ RobbedHere(s, c)
  PROVE  WinKeeps(s, u) /\ RobbedHere(u, c)
<1>1. PICK win : win = [seat |-> i, from |-> s.cur, op |-> "QIANGGANGHU", card |-> c,
                        turn |-> onSetHuTurnMonyInfo(i, s.cur, "QIANGGANGHU")]
  OBVIOUS
<1>2. /\ WinOnly(s, u) /\ u.gangs = SubSeq(s.gangs, 1, Len(s.gangs) - 1) /\ u.win = win
      /\ \/ Kong(s, c) /\ \E row : /\ Regraded(s.meld[s.cur], row, <<"BU_GANG", c>>, "PENG")
                                   /\ u.meld = [s.meld EXCEPT ![s.cur] = row]
         \/ RobbedHere(s, c) /\ u.meld = s.meld
  <2>1. HasRobbed(s, u, i, c)
    BY RobIs, Zenon
  <2>2. QED
    BY <1>1, <2>1 DEF HasRobbed
<1>3. /\ u.gangs \in Seq(Seat \X Card) /\ DOMAIN u.gangs \subseteq DOMAIN s.gangs
      /\ Len(s.gangs) \notin DOMAIN u.gangs /\ \A n \in DOMAIN u.gangs : u.gangs[n] = s.gangs[n]
  <2>1. u.gangs = SubSeq(s.gangs, 1, Len(s.gangs) - 1)
    BY <1>2
  <2>2. QED
    BY <2>1, DropLast, Zenon
<1>4. /\ win.seat = i /\ win.from = s.cur /\ win.op = "QIANGGANGHU" /\ win.card = c
      /\ win.turn = onSetHuTurnMonyInfo(i, s.cur, "QIANGGANGHU")
  BY <1>1
<1>5. ASSUME <<"PENG", c>> \in Range(u.meld[s.cur])
      PROVE  Won(u) /\ RobbedHere(u, c)
  BY <1>2, <1>4, <1>5 DEF Won, RobbedHere, WinOnly
<1>6. CASE RobbedHere(s, c) /\ u.meld = s.meld
  <2>1. Cards(u)
    BY <1>2, <1>6 DEF WinOnly, Cards
  <2>2. <<"PENG", c>> \in Range(u.meld[s.cur])
    BY <1>6 DEF RobbedHere
  <2>3. \A d : RobbedOf(u.win, d) = RobbedOf(s.win, d)
    BY <1>2, <1>4, <1>6 DEF RobbedHere, RobbedOf
  <2>4. \A d \in Card : Stock(u, d) = Stock(s, d)
    BY <1>2, <2>3 DEF Stock, WinOnly
  <2>5. \A d \in Card, w \in Weight : Gross(w, u, d) = Gross(w, s, d)
    BY <1>2, <1>6, <2>4 DEF Gross, WinOnly
  <2>6. Fits(u)
    BY <1>2, <1>6, <2>5, WeightsAre DEF Fits, WinOnly
  <2>7. Exact(s) => Exact(u)
    BY <2>5, WeightsAre DEF Exact
  <2>8. Kongs(u)
    <3>1. ASSUME NEW n \in DOMAIN u.gangs
          PROVE  <<"BU_GANG", u.gangs[n][2]>> \in Range(u.meld[u.gangs[n][1]])
      <4>1. n \in DOMAIN s.gangs /\ u.gangs[n] = s.gangs[n]
        BY <1>3
      <4>2. <<"BU_GANG", s.gangs[n][2]>> \in Range(s.meld[s.gangs[n][1]])
        BY <4>1 DEF Kongs
      <4>3. QED
        BY <1>6, <4>1, <4>2
    <3>2. ASSUME NEW a \in DOMAIN u.gangs, NEW b \in DOMAIN u.gangs, u.gangs[a] = u.gangs[b]
          PROVE  a = b
      <4>1. a \in DOMAIN s.gangs /\ b \in DOMAIN s.gangs /\ s.gangs[a] = s.gangs[b]
        BY <1>3, <3>2
      <4>2. QED
        BY <4>1 DEF Kongs
    <3>3. QED
      BY <3>1, <3>2 DEF Kongs
  <2>9. QED
    BY <1>2, <1>3, <1>5, <2>1, <2>2, <2>6, <2>7, <2>8 DEF WinKeeps
<1>7. ASSUME NEW row, Kong(s, c), Regraded(s.meld[s.cur], row, <<"BU_GANG", c>>, "PENG"),
             u.meld = [s.meld EXCEPT ![s.cur] = row]
      PROVE  WinKeeps(s, u) /\ RobbedHere(u, c)
  <2>1. PICK old, k, h : old = s.meld[s.cur] /\ k = s.cur /\ h = s.hand[k][c]
    OBVIOUS
  <2>2. old \in Seq(Op) /\ k \in Seat /\ h \in Nat /\ s.meld \in Rows /\ s.hand \in Hands
    <3>1. s.hand[s.cur] \in [Card -> Nat]
      BY DEF Cards, Hands
    <3>2. QED
      BY <2>1, <3>1 DEF Cards, Rows
  <2>3. PICK j \in DOMAIN old : old[j] = <<"BU_GANG", c>> /\ row = [old EXCEPT ![j] = <<"PENG", c>>]
    <3>1. <<"BU_GANG", c>>[2] = c
      OBVIOUS
    <3>2. QED
      BY <1>7, <2>1, <3>1 DEF Regraded
  <2>4. PICK m : m = <<"PENG", c>>
    OBVIOUS
  <2>5. m \in Op
    BY <2>4, OpIs
  <2>6. ASSUME NEW w \in Weight
        PROVE  row \in Seq(Op) /\ Worth(w, row) = Worth(w, old) + (w[m] - w[old[j]]) /\ Worth(w, old) \in Nat
    BY <2>2, <2>3, <2>4, <2>5, WorthExcept, WorthParts
  <2>7. row \in Seq(Op)
    BY <2>6, WeightsAre
  <2>8. Moved(s, u, k, c, h, row)
    <3>1. s.hand = [s.hand EXCEPT ![k][c] = h]
      BY <2>1, <2>2 DEF Hands
    <3>2. QED
      BY <1>2, <1>7, <2>1, <3>1 DEF Moved, WinOnly
  <2>9. Reckoned(s, u, k, c, h, row)
    BY <2>2, <2>7, <2>8, MeldMove
  <2>10. Cards(u)
    BY <2>9 DEF Reckoned
  <2>11. /\ DOMAIN row = DOMAIN old /\ row[j] = m /\ \A l \in DOMAIN old : l # j => row[l] = old[l]
    BY <2>2, <2>3, <2>4
  <2>12. u.meld[s.cur] = row /\ <<"PENG", c>> \in Range(u.meld[s.cur])
    <3>1. u.meld[s.cur] = row
      BY <1>7, <2>2 DEF Rows
    <3>2. QED
      BY <2>3, <2>4, <2>11, <3>1 DEF Range
  <2>13. ASSUME NEW d \in Card
         PROVE  /\ OpenWeight(d)[m] - OpenWeight(d)[old[j]] = (IF d = c THEN -1 ELSE 0)
                /\ LaidWeight(d)[m] - LaidWeight(d)[old[j]] = (IF d = c THEN -1 ELSE 0)
                /\ ClaimWeight(d)[m] - ClaimWeight(d)[old[j]] = 0
    <3>1. old[j] = <<"BU_GANG", c>> /\ m = <<"PENG", c>>
      BY <2>3, <2>4
    <3>2. /\ OpenWeight(d)[<<"PENG", c>>] = (IF c = d THEN 2 ELSE 0)
          /\ OpenWeight(d)[<<"BU_GANG", c>>] = (IF c = d THEN 3 ELSE 0)
          /\ LaidWeight(d)[<<"PENG", c>>] = (IF c = d THEN 2 ELSE 0)
          /\ LaidWeight(d)[<<"BU_GANG", c>>] = (IF c = d THEN 3 ELSE 0)
          /\ ClaimWeight(d)[<<"PENG", c>>] = (IF c = d THEN 1 ELSE 0)
          /\ ClaimWeight(d)[<<"BU_GANG", c>>] = (IF c = d THEN 1 ELSE 0)
      BY WeightOf
    <3>3. QED
      BY <3>1, <3>2
  <2>14. ASSUME NEW d \in Card, NEW w \in Weight, w[m] - w[old[j]] = (IF d = c THEN -1 ELSE 0)
         PROVE  /\ Gross(w, s, d) \in Nat /\ Gross(w, u, d) \in Nat
                /\ Gross(w, u, d) <= Gross(w, s, d)
                /\ s.win = NoWin => Gross(w, u, d) = Gross(w, s, d)
    <3>1. PICK x, y : x = Held(w, s.hand, s.meld, d) /\ y = Held(w, u.hand, u.meld, d)
      OBVIOUS
    <3>2. /\ x \in Nat /\ y \in Nat
          /\ y = x + ((IF d = c THEN h - s.hand[k][c] ELSE 0) + (Worth(w, row) - Worth(w, s.meld[k])))
      BY <2>9, <3>1 DEF Reckoned
    <3>3. y = x + (IF d = c THEN -1 ELSE 0)
      <4>1. h - s.hand[k][c] = 0
        BY <2>1, <2>2
      <4>2. Worth(w, row) - Worth(w, s.meld[k]) = (IF d = c THEN -1 ELSE 0)
        BY <2>1, <2>6, <2>14
      <4>3. QED
        BY <3>2, <4>1, <4>2
    <3>4. s.pool[d] \in Nat /\ s.out[d] \in Nat /\ RobbedOf(s.win, d) \in 0 .. 1
      BY StockNat
    <3>5. RobbedOf(u.win, d) = (IF d = c THEN 1 ELSE 0) /\ (s.win = NoWin => RobbedOf(s.win, d) = 0)
      BY <1>2, <1>4 DEF RobbedOf, NoWin
    <3>6. Stock(u, d) = s.pool[d] + s.out[d] + (IF d = c THEN 1 ELSE 0)
      BY <1>2, <3>5 DEF Stock, WinOnly
    <3>7. PICK a, b : a = Stock(s, d) /\ b = Stock(u, d)
      OBVIOUS
    <3>8. a \in Nat /\ b \in Nat /\ b <= a + (IF d = c THEN 1 ELSE 0)
          /\ (s.win = NoWin => b = a + (IF d = c THEN 1 ELSE 0))
      BY <3>4, <3>5, <3>6, <3>7 DEF Stock
    <3>9. Gross(w, s, d) = a + x /\ Gross(w, u, d) = b + y
      BY <3>1, <3>7 DEF Gross
    <3>10. a + x \in Nat /\ b + y \in Nat /\ b + y <= a + x /\ (s.win = NoWin => b + y = a + x)
      <4>1. CASE d = c
        <5>1. x \in Nat /\ y \in Nat /\ a \in Nat /\ b \in Nat /\ y = x - 1 /\ b <= a + 1
          BY <3>2, <3>3, <3>8, <4>1
        <5>2. s.win = NoWin => b = a + 1
          BY <3>8, <4>1
        <5>3. QED
          BY <5>1, <5>2
      <4>2. CASE d # c
        <5>1. x \in Nat /\ y \in Nat /\ a \in Nat /\ b \in Nat /\ y = x /\ b <= a
          BY <3>2, <3>3, <3>8, <4>2
        <5>2. s.win = NoWin => b = a
          BY <3>8, <4>2
        <5>3. QED
          BY <5>1, <5>2
      <4>3. QED
        BY <4>1, <4>2
    <3>11. QED
      BY <3>9, <3>10
  <2>15. Fits(u)
    <3>1. ASSUME NEW d \in Card PROVE Gross(OpenWeight(d), u, d) <= Copies
      <4>1. /\ Gross(OpenWeight(d), s, d) \in Nat /\ Gross(OpenWeight(d), u, d) \in Nat
            /\ Gross(OpenWeight(d), u, d) <= Gross(OpenWeight(d), s, d)
        BY <2>13, <2>14, WeightsAre
      <4>2. QED
        BY <4>1, SeatFacts DEF Fits
    <3>2. ASSUME NEW d \in Card PROVE Claims(u.meld, d) <= s.out[d]
      <4>1. Worth(ClaimWeight(d), row) = Worth(ClaimWeight(d), old) /\ Worth(ClaimWeight(d), old) \in Nat
        BY <2>6, <2>13, WeightsAre
      <4>2. PICK x, y, a, b : /\ x = Claims(s.meld, d) /\ y = Claims(u.meld, d)
                              /\ a = Worth(ClaimWeight(d), row) /\ b = Worth(ClaimWeight(d), old)
        OBVIOUS
      <4>3. x \in Nat /\ y = x + (a - b)
        BY <2>1, <2>9, <4>2 DEF Reckoned
      <4>4. a = b /\ b \in Nat /\ x <= s.out[d]
        BY <4>1, <4>2 DEF Fits
      <4>5. y = x
        BY <4>3, <4>4
      <4>6. QED
        BY <4>2, <4>4, <4>5
    <3>3. QED
      BY <1>2, <3>1, <3>2 DEF Fits, WinOnly
  <2>16. s.win = NoWin /\ Exact(s) => Exact(u)
    <3>1. ASSUME s.win = NoWin, NEW d \in Card PROVE Gross(LaidWeight(d), u, d) = Gross(LaidWeight(d), s, d)
      BY <2>13, <2>14, <3>1, WeightsAre
    <3>2. QED
      BY <3>1 DEF Exact
  <2>17. Kongs(u)
    <3>1. ASSUME NEW n \in DOMAIN u.gangs
          PROVE  <<"BU_GANG", u.gangs[n][2]>> \in Range(u.meld[u.gangs[n][1]])
      <4>1. PICK l, d : l = u.gangs[n][1] /\ d = u.gangs[n][2]
        OBVIOUS
      <4>2. l \in Seat /\ d \in Card /\ u.gangs[n] = <<l, d>>
        <5>1. u.gangs[n] \in Seat \X Card
          BY <1>3
        <5>2. PICK g : g = u.gangs[n]
          OBVIOUS
        <5>3. g \in Seat \X Card /\ l = g[1] /\ d = g[2]
          BY <4>1, <5>1, <5>2
        <5>4. QED
          BY <5>2, <5>3
      <4>3. n \in DOMAIN s.gangs /\ u.gangs[n] = s.gangs[n] /\ n # Len(s.gangs)
        BY <1>3
      <4>4. <<"BU_GANG", d>> \in Range(s.meld[l])
        BY <4>1, <4>3 DEF Kongs
      <4>5. CASE l # k
        BY <1>7, <2>1, <2>2, <4>1, <4>2, <4>4, <4>5 DEF Rows
      <4>6. CASE l = k
        <5>1. d # c
          <6>1. Len(s.gangs) \in DOMAIN s.gangs /\ s.gangs[Len(s.gangs)] = <<k, c>>
            BY <1>7, <2>1 DEF Kong
          <6>2. s.gangs[n] # s.gangs[Len(s.gangs)]
            BY <4>3, <6>1 DEF Kongs
          <6>3. QED
            BY <4>2, <4>3, <4>6, <6>1, <6>2
        <5>2. PICK x \in DOMAIN old : old[x] = <<"BU_GANG", d>>
          BY <2>1, <4>4, <4>6 DEF Range
        <5>3. x # j
          <6>1. <<"BU_GANG", d>> # <<"BU_GANG", c>>
            BY <5>1
          <6>2. QED
            BY <2>3, <5>2, <6>1
        <5>4. row[x] = <<"BU_GANG", d>> /\ x \in DOMAIN row
          BY <2>11, <5>2, <5>3
        <5>5. QED
          BY <2>1, <2>12, <4>1, <4>6, <5>4 DEF Range
      <4>7. QED
        BY <4>5, <4>6
    <3>2. ASSUME NEW a \in DOMAIN u.gangs, NEW b \in DOMAIN u.gangs, u.gangs[a] = u.gangs[b]
          PROVE  a = b
      <4>1. a \in DOMAIN s.gangs /\ b \in DOMAIN s.gangs /\ s.gangs[a] = s.gangs[b]
        BY <1>3, <3>2
      <4>2. QED
        BY <4>1 DEF Kongs
    <3>3. QED
      BY <3>1, <3>2 DEF Kongs
  <2>18. QED
    BY <1>2, <1>3, <1>5, <2>10, <2>12, <2>15, <2>16, <2>17 DEF WinKeeps
<1>8. QED
  BY <1>2, <1>6, <1>7

-----------------------------------------------------------------------------
(* The deal: the first cards of the wall, a block for each seat.           *)
Block(i) == {(i - 1) * DealCount + j : j \in 1 .. DealCount}
Among(q, ks, c) == Cardinality({k \in ks : q[k] = c})

LEMMA Product ==
  ASSUME NEW a \in Nat, NEW d \in Nat
  PROVE  a * d \in Nat /\ (a + 1) * d = a * d + d
<1>1. a * d \in Nat
  BY SMT
<1>2. (a + 1) * d = a * d + d
  BY SMT
<1>3. QED
  BY <1>1, <1>2

LEMMA ProductLess ==
  ASSUME NEW a \in Nat, NEW b \in Nat, a <= b, NEW d \in Nat
  PROVE  a * d <= b * d
<1>1. PICK x \in Nat : b = a + x
  <2>1. b - a \in Nat /\ b = a + (b - a)
    OBVIOUS
  <2>2. QED
    BY <2>1
<1>2. b * d = a * d + x * d
  BY <1>1, SMT
<1>3. a * d \in Nat /\ x * d \in Nat
  BY Product
<1>4. QED
  BY <1>2, <1>3

LEMMA BlockIs ==
  ASSUME NEW i \in Seat
  PROVE  /\ (i - 1) * DealCount \in Nat /\ i * DealCount = (i - 1) * DealCount + DealCount
         /\ Block(i) = ((i - 1) * DealCount + 1) .. (i * DealCount)
         /\ IsFiniteSet(Block(i)) /\ Cardinality(Block(i)) = DealCount
         /\ i * DealCount <= NPlayer * DealCount
<1>1. i \in Nat /\ i >= 1 /\ i <= NPlayer /\ NPlayer \in Nat /\ DealCount \in Nat /\ i - 1 \in Nat
  BY SeatFacts
<1>2. PICK a : a = (i - 1) * DealCount
  OBVIOUS
<1>3. a \in Nat /\ i * DealCount = a + DealCount
  <2>1. PICK y : y = i - 1
    OBVIOUS
  <2>2. y \in Nat /\ i = y + 1
    BY <1>1, <2>1
  <2>3. y * DealCount \in Nat /\ (y + 1) * DealCount = y * DealCount + DealCount
    BY <1>1, <2>2, Product
  <2>4. QED
    BY <1>2, <2>1, <2>2, <2>3
<1>4. Block(i) = (a + 1) .. (a + DealCount)
  <2>1. Block(i) = {a + j : j \in 1 .. DealCount}
    BY <1>2 DEF Block
  <2>2. ASSUME NEW k \in (a + 1) .. (a + DealCount) PROVE k \in Block(i)
    <3>1. k - a \in 1 .. DealCount /\ k = a + (k - a)
      BY <1>1, <1>3
    <3>2. QED
      BY <2>1, <3>1
  <2>3. Block(i) \subseteq (a + 1) .. (a + DealCount)
    BY <1>1, <1>3, <2>1
  <2>4. QED
    BY <2>2, <2>3
<1>5. IsFiniteSet(Block(i)) /\ Cardinality(Block(i)) = DealCount
  <2>1. PICK x, y : x = a + 1 /\ y = a + DealCount
    OBVIOUS
  <2>2. x \in Int /\ y \in Int /\ y - x + 1 = DealCount /\ x <= y + 1
    BY <1>1, <1>3, <2>1
  <2>3. IsFiniteSet(x .. y) /\ Cardinality(x .. y) = IF x > y THEN 0 ELSE y - x + 1
    BY <2>2, FS_Interval
  <2>4. Cardinality(x .. y) = DealCount
    BY <1>1, <2>2, <2>3
  <2>5. QED
    BY <1>4, <2>1, <2>3, <2>4
<1>6. i * DealCount <= NPlayer * DealCount
  BY <1>1, ProductLess
<1>7. QED
  BY <1>2, <1>3, <1>4, <1>5, <1>6

\* No two seats are dealt from the same place of the wall,
LEMMA BlocksApart ==
  ASSUME NEW i \in Seat, NEW j \in Seat, i # j
  PROVE  Block(i) \cap Block(j) = {}
<1>1. ASSUME NEW x \in Seat, NEW y \in Seat, x < y PROVE Block(x) \cap Block(y) = {}
  <2>1. x \in Nat /\ y - 1 \in Nat /\ x <= y - 1 /\ DealCount \in Nat
    BY <1>1, SeatFacts
  <2>2. PICK a, b : a = x * DealCount /\ b = (y - 1) * DealCount
    OBVIOUS
  <2>3. a <= b
    BY <2>1, <2>2, ProductLess
  <2>4. /\ (x - 1) * DealCount \in Nat /\ a = (x - 1) * DealCount + DealCount
        /\ Block(x) = ((x - 1) * DealCount + 1) .. a /\ b \in Nat /\ Block(y) = (b + 1) .. (y * DealCount)
        /\ y * DealCount = b + DealCount
    BY <2>2, BlockIs
  <2>5. QED
    BY <2>1, <2>3, <2>4
<1>2. i \in Nat /\ j \in Nat
  BY SeatFacts
<1>3. i < j \/ j < i
  BY <1>2
<1>4. QED
  BY <1>1, <1>3

\* and together they are dealt its first places.
LEMMA BlocksCover ==
  UNION {Block(i) : i \in Seat} = 1 .. (NPlayer * DealCount)
<1>1. NPlayer \in Nat /\ DealCount \in Nat \ {0} /\ Seat = 1 .. NPlayer
  BY SeatFacts
<1>2. ASSUME NEW i \in Seat PROVE Block(i) \subseteq 1 .. (NPlayer * DealCount)
  <2>1. PICK a, b, n : a = (i - 1) * DealCount /\ b = i * DealCount /\ n = NPlayer * DealCount
    OBVIOUS
  <2>2. a \in Nat /\ b = a + DealCount /\ Block(i) = (a + 1) .. b /\ b <= n
    BY <2>1, BlockIs
  <2>3. n \in Nat
    BY <1>1, <2>1, Product
  <2>4. QED
    BY <1>1, <2>1, <2>2, <2>3
<1>3. ASSUME NEW k \in 1 .. (NPlayer * DealCount) PROVE \E i \in Seat : k \in Block(i)
  <2>1. k \in Nat /\ k >= 1
    OBVIOUS
  <2>2. PICK S : S = {i \in Nat : k <= i * DealCount}
    OBVIOUS
  <2>3. NPlayer \in S
    BY <1>1, <2>2
  <2>4. PICK i \in S : \A y \in S : i <= y
    BY <2>2, <2>3, LeastNat
  <2>5. i \in Nat /\ k <= i * DealCount /\ i <= NPlayer
    BY <2>2, <2>3, <2>4
  <2>6. i # 0
    <3>1. 0 * DealCount = 0
      BY <1>1
    <3>2. QED
      BY <2>1, <2>5, <3>1
  <2>7. i \in Seat /\ i - 1 \in Nat
    BY <1>1, <2>5, <2>6
  <2>8. ~(k <= (i - 1) * DealCount)
    <3>1. ASSUME i - 1 \in S PROVE FALSE
      <4>1. i <= i - 1
        BY <2>4, <3>1
      <4>2. QED
        BY <2>5, <4>1
    <3>2. QED
      BY <2>2, <2>7, <3>1
  <2>9. PICK a, b : a = (i - 1) * DealCount /\ b = i * DealCount
    OBVIOUS
  <2>10. a \in Nat /\ b = a + DealCount /\ Block(i) = (a + 1) .. b
    BY <2>7, <2>9, BlockIs
  <2>11. k \in (a + 1) .. b
    BY <1>1, <2>1, <2>5, <2>8, <2>9, <2>10
  <2>12. QED
    BY <2>7, <2>10, <2>11
<1>4. QED
  BY <1>2, <1>3

(* What the seats get of a card, and what a seat gets of all cards.        *)
LEMMA DealSums ==
  ASSUME NEW q \in Seq(Card), NPlayer * DealCount <= Len(q)
  PROVE  /\ \A c \in Card : \A f : (\A i \in Seat : f[i] = Among(q, Block(i), c)) =>
              SumFunctionOnSet(f, Seat) = Among(q, 1 .. (NPlayer * DealCount), c)
         /\ \A i \in Seat : \A f : (\A c \in Card : f[c] = Among(q, Block(i), c)) =>
              SumFunctionOnSet(f, Card) = DealCount
         /\ \A i \in Seat, c \in Card : Among(q, Block(i), c) \in Nat
<1>1. IsFiniteSet(Seat) /\ IsFiniteSet(Card)
  BY SeatFacts
<1>2. PICK n : n = NPlayer * DealCount
  OBVIOUS
<1>3. \A i \in Seat : Block(i) \subseteq 1 .. n
  BY <1>2, BlocksCover
<1>4. n \in Nat /\ \A k \in 1 .. n : q[k] \in Card
  <2>1. n \in Nat
    BY <1>2, SeatFacts, Product
  <2>2. QED
    BY <1>2, <2>1
<1>5. ASSUME NEW i \in Seat, NEW c
      PROVE  IsFiniteSet({k \in Block(i) : q[k] = c}) /\ Among(q, Block(i), c) \in Nat
  <2>1. {k \in Block(i) : q[k] = c} \subseteq Block(i) /\ IsFiniteSet(Block(i))
    BY BlockIs
  <2>2. IsFiniteSet({k \in Block(i) : q[k] = c})
    BY <2>1, FS_Subset
  <2>3. QED
    BY <2>2, FS_CardinalityType DEF Among
<1>6. ASSUME NEW c \in Card, NEW f, \A i \in Seat : f[i] = Among(q, Block(i), c)
      PROVE  SumFunctionOnSet(f, Seat) = Among(q, 1 .. n, c)
  <2>1. PICK A : A = [i \in Seat |-> {k \in Block(i) : q[k] = c}]
    OBVIOUS
  <2>2. \A i \in Seat : IsFiniteSet(A[i]) /\ f[i] = Cardinality(A[i])
    BY <1>5, <1>6, <2>1 DEF Among
  <2>3. \A i \in Seat, j \in Seat : i # j => A[i] \cap A[j] = {}
    <3>1. ASSUME NEW i \in Seat, NEW j \in Seat, i # j PROVE A[i] \cap A[j] = {}
      <4>1. Block(i) \cap Block(j) = {}
        BY <3>1, BlocksApart
      <4>2. A[i] \subseteq Block(i) /\ A[j] \subseteq Block(j)
        BY <2>1
      <4>3. QED
        BY <4>1, <4>2
    <3>2. QED
      BY <3>1
  <2>4. SumFunctionOnSet(f, Seat) = Cardinality(UNION {A[i] : i \in Seat})
    BY <1>1, <2>2, <2>3, SumOfSizes
  <2>5. UNION {A[i] : i \in Seat} = {k \in 1 .. n : q[k] = c}
    <3>1. ASSUME NEW k \in 1 .. n, q[k] = c PROVE \E i \in Seat : k \in A[i]
      <4>1. PICK i \in Seat : k \in Block(i)
        BY <1>2, BlocksCover
      <4>2. QED
        BY <2>1, <3>1, <4>1
    <3>2. ASSUME NEW i \in Seat PROVE A[i] \subseteq {k \in 1 .. n : q[k] = c}
      BY <1>3, <2>1
    <3>3. QED
      BY <3>1, <3>2
  <2>6. QED
    BY <2>4, <2>5 DEF Among
<1>7. ASSUME NEW i \in Seat, NEW f, \A c \in Card : f[c] = Among(q, Block(i), c)
      PROVE  SumFunctionOnSet(f, Card) = DealCount
  <2>1. PICK A : A = [c \in Card |-> {k \in Block(i) : q[k] = c}]
    OBVIOUS
  <2>2. \A c \in Card : IsFiniteSet(A[c]) /\ f[c] = Cardinality(A[c])
    BY <1>5, <1>7, <2>1 DEF Among
  <2>3. \A c \in Card, d \in Card : c # d => A[c] \cap A[d] = {}
    BY <2>1
  <2>4. SumFunctionOnSet(f, Card) = Cardinality(UNION {A[c] : c \in Card})
    BY <1>1, <2>2, <2>3, SumOfSizes
  <2>5. UNION {A[c] : c \in Card} = Block(i)
    <3>1. ASSUME NEW k \in Block(i) PROVE \E c \in Card : k \in A[c]
      <4>1. q[k] \in Card
        BY <1>3, <1>4
      <4>2. k \in A[q[k]]
        BY <2>1, <4>1
      <4>3. QED
        BY <4>1, <4>2
    <3>2. \A c \in Card : A[c] \subseteq Block(i)
      BY <2>1
    <3>3. QED
      BY <3>1, <3>2
  <2>6. QED
    BY <2>4, <2>5, BlockIs
<1>8. QED
  BY <1>2, <1>5, <1>6, <1>7

(* The deal moves cards from the wall to the hands, as many to each.       *)
DealMove(s, u) ==
  /\ u.hand = [i \in Seat |-> [c \in Card |-> s.hand[i][c] + Among(s.stack, Block(i), c)]]
  /\ u.pool = [c \in Card |-> s.pool[c] - Among(s.stack, 1 .. (NPlayer * DealCount), c)]
  /\ u.stack = SubSeq(s.stack, NPlayer * DealCount + 1, Len(s.stack))
  /\ u.out = s.out /\ u.meld = s.meld /\ u.win = s.win

\* The deal loses no card and gives everybody DealCount.
LEMMA DealKeeps ==
  ASSUME NEW s, NEW u, Cards(s), Fits(s), Undealt(s), DealMove(s, u)
  PROVE  Keeps(s, u) /\ Sized(u, 0)
<1> USE DEF DealMove
<1>1. PICK q, p, n : q = s.stack /\ p = u.stack /\ n = NPlayer * DealCount
  OBVIOUS
<1>2. /\ q \in Seq(Card) /\ n \in Nat /\ n <= Len(q) /\ Len(q) \in Nat /\ p = SubSeq(q, n + 1, Len(q))
      /\ s.pool \in [Card -> Nat] /\ s.meld \in Rows /\ s.hand \in Hands
  <2>1. n \in Nat
    BY <1>1, SeatFacts, Product
  <2>2. q \in Seq(Card) /\ n <= Len(q) /\ p = SubSeq(q, n + 1, Len(q))
    BY <1>1, <2>1 DEF Cards, Undealt
  <2>3. QED
    BY <2>1, <2>2 DEF Cards
<1>3. p \in Seq(Card) /\ Len(p) = Len(q) - n /\ \A k \in 1 .. Len(p) : p[k] = q[k + n]
  <2>1. p \in Seq(Card) /\ Len(p) = Len(q) - n
    BY <1>2
  <2>2. \A k \in 1 .. (Len(q) - n) : p[k] = q[k + n]
    BY <1>2
  <2>3. QED
    BY <2>1, <2>2
<1>4. ASSUME NEW c \in Card
      PROVE  /\ Occ(p, c) \in Nat /\ Among(q, 1 .. n, c) \in Nat /\ s.pool[c] \in Nat
             /\ u.pool[c] = s.pool[c] - Among(q, 1 .. n, c) /\ Occ(p, c) <= u.pool[c]
  <2>1. OccSplit(q, p, n, c)
    <3>1. n \in 0 .. Len(q)
      BY <1>2
    <3>2. QED
      BY <1>2, <1>3, <3>1, OccDrop, Zenon
  <2>2. Occ(p, c) \in Nat /\ Among(q, 1 .. n, c) \in Nat /\ Occ(q, c) = Occ(p, c) + Among(q, 1 .. n, c)
    BY <2>1 DEF OccSplit, Among
  <2>3. Occ(q, c) <= s.pool[c] /\ s.pool[c] \in Nat
    BY <1>1, <1>2 DEF Fits
  <2>4. u.pool[c] = s.pool[c] - Among(q, 1 .. n, c)
    BY <1>1
  <2>5. QED
    BY <2>2, <2>3, <2>4
<1>5. u.pool \in [Card -> Nat]
  <2>1. \A c \in Card : u.pool[c] \in Nat
    BY <1>4
  <2>2. QED
    BY <2>1
<1>6. \A i \in Seat, c \in Card : /\ s.hand[i][c] = 0 /\ Among(q, Block(i), c) \in Nat
                                  /\ u.hand[i][c] = Among(q, Block(i), c)
  <2>1. ASSUME NEW i \in Seat, NEW c \in Card
        PROVE  /\ s.hand[i][c] = 0 /\ Among(q, Block(i), c) \in Nat /\ u.hand[i][c] = Among(q, Block(i), c)
    <3>1. s.hand[i][c] = 0
      BY DEF Undealt, None
    <3>2. Among(q, Block(i), c) \in Nat
      BY <1>1, <1>2, DealSums
    <3>3. u.hand[i][c] = s.hand[i][c] + Among(q, Block(i), c)
      BY <1>1
    <3>4. QED
      BY <3>1, <3>2, <3>3
  <2>2. QED
    BY <2>1
<1>7. u.hand \in Hands
  <2>1. \A i \in Seat : u.hand[i] \in [Card -> Nat]
    <3>1. ASSUME NEW i \in Seat PROVE u.hand[i] \in [Card -> Nat]
      <4>1. u.hand[i] = [c \in Card |-> s.hand[i][c] + Among(s.stack, Block(i), c)]
        OBVIOUS
      <4>2. \A c \in Card : s.hand[i][c] + Among(s.stack, Block(i), c) \in Nat
        BY <1>1, <1>6
      <4>3. QED
        BY <4>1, <4>2
    <3>2. QED
      BY <3>1
  <2>2. QED
    BY <2>1 DEF Hands
<1>8. Cards(u)
  BY <1>1, <1>3, <1>5, <1>7 DEF Cards
<1>9. ASSUME NEW w \in Weight, NEW c \in Card
      PROVE  Gross(w, u, c) = Gross(w, s, c)
  <2>1. \A i \in Seat : Worth(w, s.meld[i]) = 0
    BY WorthEmpty DEF Undealt
  <2>2. Held(w, s.hand, s.meld, c) = 0
    <3>1. PICK f : f = Share(w, s.hand, s.meld, c)
      OBVIOUS
    <3>2. \A i \in Seat : f[i] = 0
      BY <1>6, <2>1, <3>1 DEF Share
    <3>3. SumFunctionOnSet(f, Seat) = 0
      BY <3>2, SeatFacts, SumZero
    <3>4. QED
      BY <3>1, <3>3 DEF Held
  <2>3. Held(w, u.hand, u.meld, c) = Among(q, 1 .. n, c)
    <3>1. PICK f : f = Share(w, u.hand, u.meld, c)
      OBVIOUS
    <3>2. \A i \in Seat : f[i] = Among(q, Block(i), c)
      BY <1>6, <2>1, <3>1 DEF Share
    <3>3. SumFunctionOnSet(f, Seat) = Among(q, 1 .. n, c)
      BY <1>1, <1>2, <3>2, DealSums
    <3>4. QED
      BY <3>1, <3>3 DEF Held
  <2>4. s.pool[c] \in Nat /\ s.out[c] \in Nat /\ RobbedOf(s.win, c) \in 0 .. 1
    BY StockNat
  <2>5. Stock(u, c) = u.pool[c] + s.out[c] + RobbedOf(s.win, c)
    BY DEF Stock
  <2>6. PICK a, o, b, x, y : a = Among(q, 1 .. n, c) /\ x = s.pool[c] /\ y = u.pool[c]
                             /\ o = s.out[c] /\ b = RobbedOf(s.win, c)
    OBVIOUS
  <2>7. a \in Nat /\ x \in Nat /\ y = x - a /\ o \in Nat /\ b \in Nat
    BY <1>4, <2>4, <2>6
  <2>8. Gross(w, s, c) = (x + o + b) + 0
    BY <2>2, <2>6 DEF Gross, Stock
  <2>9. Gross(w, u, c) = (y + o + b) + a
    BY <2>3, <2>5, <2>6 DEF Gross
  <2>10. QED
    BY <2>7, <2>8, <2>9
<1>10. Fits(u)
  <2>1. \A c \in Card : Gross(OpenWeight(c), u, c) = Gross(OpenWeight(c), s, c)
    BY <1>9, WeightsAre
  <2>2. \A c \in Card : Occ(u.stack, c) <= u.pool[c]
    BY <1>1, <1>4
  <2>3. QED
    BY <2>1, <2>2 DEF Fits
<1>11. Exact(s) => Exact(u)
  BY <1>9, WeightsAre DEF Exact
<1>12. Sized(u, 0)
  <2>1. ASSUME NEW i \in Seat
        PROVE  Size(u.hand[i]) + 3 * Len(u.meld[i]) = DealCount + (IF i = 0 THEN 1 ELSE 0)
    <3>1. PICK f : f = u.hand[i]
      OBVIOUS
    <3>2. DOMAIN f = Card /\ \A c \in Card : f[c] = Among(q, Block(i), c)
      BY <1>6, <3>1
    <3>3. SumFunctionOnSet(f, Card) = DealCount
      BY <1>1, <1>2, <3>2, DealSums
    <3>4. Size(u.hand[i]) = DealCount
      BY <3>1, <3>2, <3>3 DEF Size, SumFunction
    <3>5. Len(u.meld[i]) = 0
      BY DEF Undealt
    <3>6. QED
      BY <3>4, <3>5, SeatFacts
  <2>2. QED
    BY <2>1 DEF Sized
<1>13. QED
  BY <1>8, <1>10, <1>11, <1>12 DEF Keeps

-----------------------------------------------------------------------------
(***************************************************************************)
(* The handlers keep the invariant.  After(u, e) is the number of handlers *)
(* that failed after one that left the round in u.                         *)
(***************************************************************************)
After(u, e) == IF u.err THEN e + 1 ELSE e

(* The cards, the kongs and the win of s and u are the same.               *)
SameTable(s, u) ==
  /\ u.pool = s.pool /\ u.stack = s.stack /\ u.out = s.out /\ u.hand = s.hand /\ u.meld = s.meld
  /\ u.gangs = s.gangs /\ u.win = s.win

Core(s) == Cards(s) /\ Fits(s) /\ Kongs(s) /\ Won(s) /\ s.gangs \in Seq(Seat \X Card)

LEMMA SameCore ==
  ASSUME NEW s, NEW u, Core(s), SameTable(s, u)
  PROVE  Core(u) /\ (Exact(s) => Exact(u)) /\ \A j : Sized(s, j) => Sized(u, j)
<1>1. Keeps(s, u) /\ \A j : Sized(s, j) => Sized(u, j)
  BY SameCards, Zenon DEF Core, SameTable
<1>2. Kongs(u) /\ Won(u)
  BY DEF Core, SameTable, Kongs, Won
<1>3. QED
  BY <1>1, <1>2 DEF Core, SameTable, Keeps

(* What was offered depends on the cards only.                             *)
LEMMA SameOffers ==
  ASSUME NEW s, NEW u, SameTable(s, u), NEW i, NEW c
  PROVE  /\ onGetUserOpValueWhenOutCard(u, i, c) = onGetUserOpValueWhenOutCard(s, i, c)
         /\ onGetUserOpValueWhenDrawCard(u, i, c) = onGetUserOpValueWhenDrawCard(s, i, c)
BY DEF SameTable, onGetUserOpValueWhenOutCard, onGetUserOpValueWhenDrawCard

(* Timers that stop, except that of the deal, and an error.                *)
Fewer(s, u) ==
  /\ IsRound(u) /\ SameTable(s, u) /\ u.status = s.status /\ u.cur = s.cur /\ u.opt = s.opt
  /\ u.seated = s.seated /\ u.over = s.over /\ u.err \in BOOLEAN
  /\ u.timers \subseteq s.timers /\ ("makeBanker" \in s.timers => "makeBanker" \in u.timers)

\* More failures only weaken what a wait promises.
LEMMA WaitingStays ==
  ASSUME NEW s, NEW u, NEW e \in Nat, NEW f \in Nat, e <= f, Waiting(s, e),
         SameTable(s, u), u.status = s.status, u.cur = s.cur, u.opt = s.opt
  PROVE  Waiting(u, f)
<1>1. OpOut(s) => OpOut(u)
  BY SameOffers DEF OpOut, SameTable
<1>2. e > 0 => f > 0
  OBVIOUS
<1>3. OpDraw(s, e) => OpDraw(u, f)
  <2>1. ASSUME OpDraw(s, e), NEW i \in Seat, u.opt[i].val
        PROVE  /\ i = u.cur
               /\ \/ \E d \in Card : u.opt[i].tab \subseteq onGetUserOpValueWhenDrawCard(u, i, d)
                  \/ f > 0 /\ \E d \in Card : u.opt[i].sel = {<<"AN_GANG", d>>} \/ u.opt[i].sel = {<<"ZIMO", d>>}
    <3>1. /\ i = s.cur
          /\ \/ \E d \in Card : s.opt[i].tab \subseteq onGetUserOpValueWhenDrawCard(s, i, d)
             \/ e > 0 /\ \E d \in Card : s.opt[i].sel = {<<"AN_GANG", d>>} \/ s.opt[i].sel = {<<"ZIMO", d>>}
      BY <2>1 DEF OpDraw
    <3>2. QED
      BY <1>2, <3>1, SameOffers
  <2>2. QED
    BY <2>1 DEF OpDraw
<1>4. OpBuGang(s, e) => OpBuGang(u, f)
  <2>1. \A c : (Kong(s, c) => Kong(u, c)) /\ (RobbedHere(s, c) => RobbedHere(u, c))
    BY DEF Kong, RobbedHere, SameTable
  <2>2. QED
    BY <1>2, <2>1 DEF OpBuGang
<1>5. QED
  BY <1>1, <1>3, <1>4 DEF Waiting

\* A handler that only stops timers keeps the invariant.
LEMMA FewerTimers ==
  ASSUME NEW s, NEW u, NEW e \in Nat, CardInv(s, e), Fewer(s, u), NEW f \in {e, e + 1}
  PROVE  CardInv(u, f)
<1>1. Core(s)
  BY DEF CardInv, Shape, Counted, Core
<1>2. Core(u) /\ (Exact(s) => Exact(u)) /\ \A j : Sized(s, j) => Sized(u, j)
  BY <1>1, SameCore DEF Fewer
<1>3. Shape(u)
  BY <1>2 DEF CardInv, Shape, Core, Fewer
<1>4. Timing(u)
  BY DEF CardInv, Timing, Fewer, SameTable, Undealt
<1>5. Waiting(u, f)
  BY WaitingStays DEF CardInv, Fewer
<1>6. Counted(u, f)
  <2>1. Turn(u) = Turn(s)
    BY DEF Turn, Fewer
  <2>2. (f < 2 => e < 2) /\ (f = 0 => e = 0)
    OBVIOUS
  <2>3. u.over = s.over /\ u.win = s.win /\ ("makeBanker" \notin u.timers => "makeBanker" \notin s.timers)
    BY DEF Fewer, SameTable
  <2>4. QED
    BY <1>2, <2>1, <2>2, <2>3 DEF CardInv, Counted, Core
<1>7. QED
  BY <1>3, <1>4, <1>5, <1>6 DEF CardInv

(* The end of a round, or its failure.                                     *)
LEMMA StopInv ==
  ASSUME NEW s, NEW e \in Nat, Shape(s), ~s.over, ~s.err, Waiting(s, e + 1),
         Fits(s), Kongs(s), Won(s), e = 0 => Exact(s), NEW u \in onGameStopRound(s)
  PROVE  CardInv(u, After(u, e))
<1>1. PICK t : t = clearAllRoundTimer(s)
  OBVIOUS
<1>2. /\ IsRound(t) /\ SameTable(s, t) /\ t.status = s.status /\ t.cur = s.cur /\ t.opt = s.opt
      /\ t.seated = s.seated /\ t.over = s.over /\ t.err = s.err
      /\ t.timers = s.timers \ {"drawCard", "dealCards", "outCard", "opOutCard", "opDarwCard", "makeBanker"}
  BY <1>1 DEF clearAllRoundTimer, stopTimer, Shape, IsRound, Fields, SameTable
<1>3. t.timers \subseteq {"opBuGangCard"} /\ t.timers \in SUBSET Timer
  BY <1>2 DEF Shape, Timer
<1>4. Core(s)
  BY DEF Shape, Core
<1>5. u = Error(t) \/ u = [onReset(t) EXCEPT !.over = TRUE]
  BY <1>1 DEF onGameStopRound
<1>6. CASE u = Error(t)
  <2>1. /\ IsRound(u) /\ SameTable(s, u) /\ u.status = s.status /\ u.cur = s.cur /\ u.opt = s.opt
        /\ u.seated = s.seated /\ u.over = s.over /\ u.err = TRUE /\ u.timers = t.timers
    BY <1>2, <1>6 DEF Error, IsRound, Fields, SameTable
  <2>2. Core(u) /\ (Exact(s) => Exact(u))
    BY <1>4, <2>1, SameCore
  <2>3. After(u, e) = e + 1 /\ ~(e + 1 = 0) /\ (e + 1 < 2 => e = 0)
    BY <2>1 DEF After
  <2>4. Shape(u)
    BY <1>3, <2>1, <2>2 DEF Shape, Core
  <2>5. Timing(u)
    BY <1>3, <2>1 DEF Timing
  <2>6. Waiting(u, e + 1)
    BY <2>1, WaitingStays
  <2>7. Counted(u, e + 1)
    BY <2>1, <2>2, <2>3 DEF Counted, Core
  <2>8. QED
    BY <2>3, <2>4, <2>5, <2>6, <2>7 DEF CardInv
<1>7. CASE u = [onReset(t) EXCEPT !.over = TRUE]
  <2>1. PICK v : v = clearAllRoundTimer(t)
    OBVIOUS
  <2>2. /\ IsRound(v) /\ SameTable(t, v) /\ v.timers \subseteq t.timers /\ v.seated = t.seated /\ v.err = t.err
    BY <1>2, <2>1 DEF clearAllRoundTimer, stopTimer, IsRound, Fields, SameTable
  <2>3. u = [[v EXCEPT !.status = "none", !.opt = <<>>, !.gangs = <<>>, !.cur = -1] EXCEPT !.over = TRUE]
    BY <1>7, <2>1 DEF onReset
  <2>4. /\ IsRound(u) /\ u.status = "none" /\ u.opt = <<>> /\ u.gangs = <<>> /\ u.cur = -1 /\ u.over = TRUE
        /\ u.err = v.err /\ u.seated = v.seated /\ u.timers = v.timers /\ u.pool = v.pool /\ u.stack = v.stack
        /\ u.out = v.out /\ u.hand = v.hand /\ u.meld = v.meld /\ u.win = v.win
    BY <2>2, <2>3 DEF IsRound, Fields
  <2>5. /\ u.pool = s.pool /\ u.stack = s.stack /\ u.out = s.out /\ u.hand = s.hand /\ u.meld = s.meld
        /\ u.win = s.win /\ u.err = s.err /\ u.seated = s.seated /\ u.timers \subseteq {"opBuGangCard"}
    BY <1>2, <1>3, <2>2, <2>4 DEF SameTable
  <2>6. After(u, e) = e
    BY <2>5 DEF After
  <2>7. Keeps(s, u)
    <3>1. Cards(s)
      BY DEF Shape
    <3>2. QED
      BY <2>5, <3>1, SameCards
  <2>8. Kongs(u) /\ u.gangs \in Seq(Seat \X Card)
    BY <2>4 DEF Kongs
  <2>9. Won(u)
    BY <2>5 DEF Won
  <2>10. Shape(u)
    <3>1. -1 \in (-1) .. NPlayer
      BY SeatFacts
    <3>2. QED
      BY <1>3, <2>2, <2>4, <2>5, <2>7, <2>8, <3>1 DEF Shape, Keeps, Kinds, Timer
  <2>11. Timing(u) /\ Waiting(u, e)
    BY <2>4, <2>5 DEF Timing, Waiting
  <2>12. Counted(u, e)
    BY <2>4, <2>7, <2>8, <2>9 DEF Counted, Keeps
  <2>13. QED
    BY <2>6, <2>10, <2>11, <2>12 DEF CardInv
<1>8. QED
  BY <1>5, <1>6, <1>7

-----------------------------------------------------------------------------
(* The draw.                                                               *)

LEMMA OfferIs ==
  ASSUME NEW tab \in SUBSET Op
  PROVE  /\ Offer(tab) \in Entry /\ Offer(tab).val = (tab # {}) /\ Offer(tab).tab = tab /\ Offer(tab).sel = {}
BY DEF Offer, Entry

LEMMA ClearIs ==
  onClearUserOp \in Options /\ \A i \in Seat : onClearUserOp[i].val = FALSE
<1>1. {} \in SUBSET Op
  OBVIOUS
<1>2. Offer({}) \in Entry /\ Offer({}).val = FALSE
  BY <1>1, OfferIs
<1>3. QED
  BY <1>2 DEF onClearUserOp, Options

LEMMA OffersAreOps ==
  ASSUME NEW s, NEW i, NEW c \in Card
  PROVE  /\ onGetUserOpValueWhenDrawCard(s, i, c) \in SUBSET Op
         /\ onGetUserOpValueWhenOutCard(s, i, c) \in SUBSET {<<"GANG", c>>, <<"PENG", c>>}
         /\ onGetUserOpValueWhenOutCard(s, i, c) \in SUBSET Op
         /\ onGetUserOpValueWhenBuGang(s, i, c) \in SUBSET {<<"QIANGGANGHU", c>>}
         /\ onGetUserOpValueWhenBuGang(s, i, c) \in SUBSET Op
<1>1. onGetUserOpValueWhenDrawCard(s, i, c) \in SUBSET Op
  <2>1. {<<"AN_GANG", d>> : d \in {d \in Card : isCanAnGang(s.hand[i], d)}} \subseteq Op
    BY OpIs
  <2>2. {<<"BU_GANG", d>> : d \in {d \in Card : s.hand[i][d] > 0 /\ isCanBuGang(s.meld[i], d)}} \subseteq Op
    BY OpIs
  <2>3. <<"ZIMO", c>> \in Op
    BY OpIs
  <2>4. QED
    BY <2>1, <2>2, <2>3, Zenon DEF onGetUserOpValueWhenDrawCard
<1>2. onGetUserOpValueWhenOutCard(s, i, c) \in SUBSET {<<"GANG", c>>, <<"PENG", c>>}
  BY DEF onGetUserOpValueWhenOutCard
<1>3. onGetUserOpValueWhenBuGang(s, i, c) \in SUBSET {<<"QIANGGANGHU", c>>}
  BY DEF onGetUserOpValueWhenBuGang
<1>4. <<"GANG", c>> \in Op /\ <<"PENG", c>> \in Op /\ <<"QIANGGANGHU", c>> \in Op
  BY OpIs
<1>5. QED
  BY <1>1, <1>2, <1>3, <1>4

(* The round is about to draw.                                             *)
Ready(s, e) ==
  /\ Shape(s) /\ s.status = "draw" /\ ~s.over /\ ~s.err /\ Quiet(s.opt)
  /\ Fits(s) /\ Kongs(s) /\ Won(s)
  /\ e < 2 => Exact(s)
  /\ e = 0 => s.win = NoWin /\ Sized(s, 0)
  /\ "makeBanker" \notin s.timers /\ "dealCards" \notin s.timers /\ "drawCard" \notin s.timers

(* Seat i has one card more and may operate on it, or has to discard.      *)
Drawn(v, e, i) ==
  /\ Shape(v) /\ ~v.over /\ ~v.err
  /\ Fits(v) /\ Kongs(v) /\ Won(v)
  /\ e < 2 => Exact(v)
  /\ e = 0 => v.win = NoWin /\ Sized(v, i)
  /\ "makeBanker" \notin v.timers /\ "dealCards" \notin v.timers /\ "drawCard" \notin v.timers

\* What is offered after a draw can be done.
LEMMA AfterDrawInv ==
  ASSUME NEW v, NEW e \in Nat, NEW i \in Seat, NEW c \in Card, Drawn(v, e, i), NEW u, u = AfterDraw(v, i, c)
  PROVE  CardInv(u, e) /\ ~u.err
<1>1. PICK tab, opt : tab = onGetUserOpValueWhenDrawCard(v, i, c) /\ opt = [onClearUserOp EXCEPT ![i] = Offer(tab)]
  OBVIOUS
<1>2. tab \in SUBSET Op
  BY <1>1, OffersAreOps
<1>3. /\ opt \in Options /\ opt[i] = Offer(tab) /\ \A j \in Seat : j # i => opt[j].val = FALSE
  BY <1>1, <1>2, OfferIs, ClearIs DEF Options
<1>4. opt[i].val = (tab # {}) /\ opt[i].tab = tab /\ opt[i].sel = {}
  BY <1>2, <1>3, OfferIs
<1>5. IsRound(v) /\ Core(v)
  BY DEF Drawn, Shape, Core
<1>6. PICK st, k : /\ st = (IF tab # {} THEN "opDraw" ELSE "out") /\ k = (IF tab # {} THEN "opDarwCard" ELSE "outCard")
                   /\ u = startTimer([[v EXCEPT !.opt = opt, !.cur = i] EXCEPT !.status = st], k)
  <2>1. CASE tab # {}
    BY <1>1, <2>1 DEF AfterDraw
  <2>2. CASE tab = {}
    BY <1>1, <2>2 DEF AfterDraw
  <2>3. QED
    BY <2>1, <2>2
<1>7. /\ IsRound(u) /\ SameTable(v, u) /\ u.status = st /\ u.cur = i /\ u.opt = opt /\ u.timers = v.timers \cup {k}
      /\ u.seated = v.seated /\ u.over = v.over /\ u.err = v.err
  BY <1>5, <1>6 DEF startTimer, IsRound, Fields, SameTable
<1>8. Core(u) /\ (Exact(v) => Exact(u)) /\ \A j : Sized(v, j) => Sized(u, j)
  BY <1>5, <1>7, SameCore
<1>9. st \in {"opDraw", "out"} /\ k \in {"opDarwCard", "outCard"}
  BY <1>6
<1>10. Shape(u)
  <2>1. i \in (-1) .. NPlayer
    BY SeatFacts
  <2>2. u.timers \in SUBSET Timer
    BY <1>7, <1>9 DEF Drawn, Shape, Timer
  <2>3. QED
    BY <1>3, <1>7, <1>8, <1>9, <2>1, <2>2 DEF Shape, Core, Kinds, Drawn
<1>11. Timing(u)
  BY <1>7, <1>9 DEF Drawn, Timing
<1>12. Waiting(u, e)
  <2>1. CASE tab # {}
    <3>1. u.status = "opDraw"
      BY <1>6, <1>7, <2>1
    <3>2. onGetUserOpValueWhenDrawCard(u, i, c) = tab
      BY <1>1, <1>7, SameOffers
    <3>3. OpDraw(u, e)
      BY <1>3, <1>4, <1>7, <3>2 DEF OpDraw
    <3>4. QED
      BY <1>3, <1>7, <3>1, <3>3 DEF Waiting
  <2>2. CASE tab = {}
    <3>1. u.status = "out"
      BY <1>6, <1>7, <2>2
    <3>2. Quiet(u.opt)
      BY <1>3, <1>4, <1>7, <2>2 DEF Quiet
    <3>3. QED
      BY <1>3, <1>7, <3>1, <3>2 DEF Waiting
  <2>3. QED
    BY <2>1, <2>2
<1>13. Counted(u, e)
  <2>1. Turn(u) = i
    BY <1>7, <1>9 DEF Turn
  <2>2. u.win = v.win
    BY <1>7 DEF SameTable
  <2>3. QED
    BY <1>8, <2>1, <2>2 DEF Counted, Core, Drawn
<1>14. QED
  BY <1>7, <1>10, <1>11, <1>12, <1>13 DEF CardInv, Drawn

\* drawCard keeps the invariant, also when the wall is empty.
LEMMA DrawInv ==
  ASSUME NEW s, NEW e \in Nat, Ready(s, e), NEW i \in Seat, NEW u \in drawCard(s, i)
  PROVE  CardInv(u, After(u, e))
<1>1. \/ u \in onGameStopRound(s)
      \/ \E c \in Draws(s) : u = AfterDraw([pop(s, c) EXCEPT !.hand[i][c] = @ + 1], i, c)
  BY DEF drawCard, Ready
<1>2. CASE u \in onGameStopRound(s)
  <2>1. Waiting(s, e + 1)
    BY DEF Ready, Waiting
  <2>2. Shape(s) /\ ~s.over /\ ~s.err /\ Fits(s) /\ Kongs(s) /\ Won(s) /\ (e = 0 => Exact(s))
    BY DEF Ready
  <2>3. QED
    BY <1>2, <2>1, <2>2, StopInv, Zenon
<1>3. ASSUME NEW c \in Draws(s), u = AfterDraw([pop(s, c) EXCEPT !.hand[i][c] = @ + 1], i, c)
      PROVE  CardInv(u, After(u, e))
  <2>1. IsRound(s) /\ Cards(s) /\ Fits(s)
    BY DEF Ready, Shape
  <2>2. PICK p : p = pop(s, c)
    OBVIOUS
  <2>3. /\ IsRound(p) /\ p.pool = Remove(s.pool, c, 1) /\ p.stack = (IF s.stack = <<>> THEN s.stack ELSE Tail(s.stack))
        /\ p.hand = s.hand /\ p.meld = s.meld /\ p.out = s.out /\ p.win = s.win /\ p.gangs = s.gangs
        /\ p.status = s.status /\ p.cur = s.cur /\ p.timers = s.timers /\ p.opt = s.opt /\ p.seated = s.seated
        /\ p.over = s.over /\ p.err = s.err
    BY <2>1, <2>2 DEF pop, IsRound, Fields
  <2>4. PICK v : v = [p EXCEPT !.hand[i][c] = @ + 1]
    OBVIOUS
  <2>5. /\ IsRound(v) /\ v.pool = p.pool /\ v.stack = p.stack /\ v.hand = [p.hand EXCEPT ![i][c] = @ + 1]
        /\ v.meld = p.meld /\ v.out = p.out /\ v.win = p.win /\ v.gangs = p.gangs
        /\ v.status = p.status /\ v.cur = p.cur /\ v.timers = p.timers /\ v.opt = p.opt /\ v.seated = p.seated
        /\ v.over = p.over /\ v.err = p.err
    BY <2>3, <2>4 DEF IsRound, Fields
  <2>6. v.hand = [s.hand EXCEPT ![i][c] = @ + 1]
    BY <2>3, <2>5
  <2>7. c \in Card /\ Keeps(s, v) /\ (Sized(s, 0) => Sized(v, i))
    BY <2>1, <2>3, <2>5, <2>6, DrawKeeps
  <2>8. Kongs(v) /\ Won(v)
    <3>1. v.gangs = s.gangs /\ v.meld = s.meld /\ v.win = s.win
      BY <2>3, <2>5
    <3>2. QED
      BY <3>1 DEF Ready, Kongs, Won
  <2>9. Shape(v)
    BY <2>3, <2>5, <2>7 DEF Ready, Shape, Keeps
  <2>10. Drawn(v, e, i)
    BY <2>3, <2>5, <2>7, <2>8, <2>9 DEF Ready, Drawn, Keeps
  <2>11. u = AfterDraw(v, i, c)
    BY <1>3, <2>2, <2>4
  <2>12. CardInv(u, e) /\ ~u.err
    BY <2>7, <2>10, <2>11, AfterDrawInv
  <2>13. QED
    BY <2>12 DEF After
<1>4. QED
  BY <1>1, <1>2, <1>3

-----------------------------------------------------------------------------
(* Between the steps of a handler: another status, other offers.           *)
LateTimers == {"outCard", "opOutCard", "opDarwCard", "opBuGangCard"}

Reset(v, u) ==
  /\ IsRound(u) /\ SameTable(v, u) /\ u.seated = v.seated /\ u.over = v.over /\ u.err = v.err
  /\ u.timers \subseteq v.timers \cup LateTimers
  /\ u.status \in Kinds /\ u.cur \in (-1) .. NPlayer /\ (u.opt = <<>> \/ u.opt \in Options)

LEMMA DrawnStays ==
  ASSUME NEW v, NEW e \in Nat, NEW j, Drawn(v, e, j), NEW u, Reset(v, u)
  PROVE  Drawn(u, e, j)
<1>1. Core(v)
  BY DEF Drawn, Shape, Core
<1>2. Core(u) /\ (Exact(v) => Exact(u)) /\ \A l : Sized(v, l) => Sized(u, l)
  BY <1>1, SameCore DEF Reset
<1>3. Shape(u)
  <2>1. u.timers \in SUBSET Timer
    BY DEF Reset, Drawn, Shape, LateTimers, Timer
  <2>2. QED
    BY <1>2, <2>1 DEF Shape, Core, Reset, Drawn
<1>4. u.win = v.win
  BY DEF Reset, SameTable
<1>5. QED
  BY <1>2, <1>3, <1>4 DEF Drawn, Core, Reset, LateTimers

\* A state with the right cards, and a wait that is right, is one of the invariant.
LEMMA DrawnWaits ==
  ASSUME NEW u, NEW e \in Nat, Drawn(u, e, Turn(u)), u.status \notin {"none", "draw"}, Waiting(u, e)
  PROVE  CardInv(u, e) /\ After(u, e) = e /\ CardInv(u, After(u, e))
<1>1. Timing(u)
  BY DEF Drawn, Timing
<1>2. Counted(u, e)
  BY DEF Drawn, Counted
<1>3. CardInv(u, e)
  BY <1>1, <1>2 DEF Drawn, CardInv
<1>4. After(u, e) = e
  BY DEF Drawn, After
<1>5. QED
  BY <1>3, <1>4

\* The cards alone, out of the invariant.
LEMMA InvDrawn ==
  ASSUME NEW s, NEW e \in Nat, CardInv(s, e), s.status \notin {"none", "draw"}, ~s.err
  PROVE  Drawn(s, e, Turn(s)) /\ s.cur \in Seat /\ s.opt \in Options
<1>1. ~s.over /\ "makeBanker" \notin s.timers /\ "dealCards" \notin s.timers /\ "drawCard" \notin s.timers
  BY DEF CardInv, Timing
<1>2. s.cur \in Seat /\ s.opt \in Options
  BY DEF CardInv, Waiting
<1>3. QED
  BY <1>1, <1>2 DEF CardInv, Counted, Drawn

LEMMA DrawingReady ==
  ASSUME NEW v, NEW e \in Nat, Drawn(v, e, 0), v.opt \in Options, \A i \in Seat : ~v.opt[i].val,
         NEW x \in (-1) .. NPlayer, NEW u, u = Drawing(v, x)
  PROVE  Ready(u, e)
<1>1. IsRound(v)
  BY DEF Drawn, Shape
<1>2. /\ IsRound(u) /\ SameTable(v, u) /\ u.status = "draw" /\ u.cur = x /\ u.opt = v.opt /\ u.timers = v.timers
      /\ u.seated = v.seated /\ u.over = v.over /\ u.err = v.err
  BY <1>1 DEF Drawing, IsRound, Fields, SameTable
<1>3. Reset(v, u)
  BY <1>2 DEF Reset, Kinds
<1>4. Drawn(u, e, 0)
  BY <1>3, DrawnStays
<1>5. Quiet(u.opt)
  BY <1>2 DEF Quiet
<1>6. QED
  BY <1>2, <1>4, <1>5 DEF Drawn, Ready

\* The turn goes on to a draw.
LEMMA DrawingInv ==
  ASSUME NEW v, NEW e \in Nat, Drawn(v, e, 0), v.opt \in Options, \A i \in Seat : ~v.opt[i].val,
         NEW x \in (-1) .. NPlayer, NEW i \in Seat, NEW u \in drawCard(Drawing(v, x), i)
  PROVE  CardInv(u, After(u, e))
<1>1. PICK q : q = Drawing(v, x)
  OBVIOUS
<1>2. Ready(q, e)
  BY <1>1, DrawingReady
<1>3. u \in drawCard(q, i)
  BY <1>1
<1>4. QED
  BY <1>2, <1>3, DrawInv

-----------------------------------------------------------------------------
(* What a player chose can be done.                                        *)
Chosen(s, e, i, op) ==
  \/ \E c \in Card, k \in {"PENG", "GANG"} :
       op = <<k, c>> /\ s.status = "opOut" /\ s.hand[i][c] >= pCardCount(k) /\ Claims(s.meld, c) < s.out[c]
  \/ \E c \in Card : op = <<"AN_GANG", c>> /\ s.status = "opDraw" /\ i = s.cur /\ (e = 0 => s.hand[i][c] >= 4)
  \/ \E c \in Card : /\ op = <<"BU_GANG", c>> /\ s.status = "opDraw" /\ i = s.cur
                     /\ s.hand[i][c] > 0 /\ <<"PENG", c>> \in Range(s.meld[i])
  \/ \E c \in Card : op = <<"ZIMO", c>> /\ s.status = "opDraw" /\ i = s.cur
  \/ \E c \in Card : /\ op = <<"QIANGGANGHU", c>> /\ s.status = "opBuGang" /\ i # s.cur
                     /\ \A j \in Seat : s.opt[j].val => j # s.cur /\ s.opt[j].tab \subseteq {op}
                     /\ Kong(s, c) \/ (e > 0 /\ RobbedHere(s, c))

\* What a player chose is an operation that was offered to him.
LEMMA ChoiceIs ==
  ASSUME NEW s, NEW e \in Nat, CardInv(s, e), s.status \in {"opOut", "opDraw", "opBuGang"},
         NEW i \in Seat, s.opt[i].val, NEW op, op \in s.opt[i].tab, s.opt[i].sel = {op}
  PROVE  Chosen(s, e, i, op)
<1>1. CASE s.status = "opOut"
  <2>1. OpOut(s)
    BY <1>1 DEF CardInv, Waiting
  <2>2. PICK c \in Card : /\ Claims(s.meld, c) < s.out[c]
                          /\ s.opt[i].tab \subseteq onGetUserOpValueWhenOutCard(s, i, c)
    BY <2>1 DEF OpOut
  <2>3. \/ op = <<"GANG", c>> /\ s.hand[i][c] >= 3
        \/ op = <<"PENG", c>> /\ s.hand[i][c] >= 2
    BY <2>2 DEF onGetUserOpValueWhenOutCard, isCanGang, isCanPeng
  <2>4. pCardCount("GANG") = 3 /\ pCardCount("PENG") = 2
    BY DEF pCardCount
  <2>5. \E k \in {"PENG", "GANG"} : op = <<k, c>> /\ s.hand[i][c] >= pCardCount(k)
    BY <2>3, <2>4
  <2>6. QED
    BY <1>1, <2>2, <2>5 DEF Chosen
<1>2. CASE s.status = "opDraw"
  <2>1. /\ i = s.cur
        /\ \/ \E d \in Card : s.opt[i].tab \subseteq onGetUserOpValueWhenDrawCard(s, i, d)
           \/ e > 0 /\ \E d \in Card : s.opt[i].sel = {<<"AN_GANG", d>>} \/ s.opt[i].sel = {<<"ZIMO", d>>}
    BY <1>2 DEF CardInv, Waiting, OpDraw
  <2>2. CASE \E d \in Card : s.opt[i].tab \subseteq onGetUserOpValueWhenDrawCard(s, i, d)
    <3>1. PICK d \in Card : op \in onGetUserOpValueWhenDrawCard(s, i, d)
      BY <2>2
    <3>2. \/ \E c \in Card : op = <<"AN_GANG", c>> /\ isCanAnGang(s.hand[i], c)
          \/ \E c \in Card : op = <<"BU_GANG", c>> /\ s.hand[i][c] > 0 /\ isCanBuGang(s.meld[i], c)
          \/ op = <<"ZIMO", d>>
      BY <3>1, Zenon DEF onGetUserOpValueWhenDrawCard
    <3>3. QED
      BY <1>2, <2>1, <3>2 DEF Chosen, isCanAnGang, isCanBuGang
  <2>3. CASE e > 0 /\ \E d \in Card : s.opt[i].sel = {<<"AN_GANG", d>>} \/ s.opt[i].sel = {<<"ZIMO", d>>}
    <3>1. PICK d \in Card : op = <<"AN_GANG", d>> \/ op = <<"ZIMO", d>>
      BY <2>3
    <3>2. e # 0
      BY <2>3
    <3>3. QED
      BY <1>2, <2>1, <3>1, <3>2 DEF Chosen
  <2>4. QED
    BY <2>1, <2>2, <2>3
<1>3. CASE s.status = "opBuGang"
  <2>1. PICK c \in Card : \A j \in Seat : s.opt[j].val =>
          /\ j # s.cur /\ s.opt[j].tab \subseteq {<<"QIANGGANGHU", c>>}
          /\ Kong(s, c) \/ (e > 0 /\ RobbedHere(s, c))
    BY <1>3 DEF CardInv, Waiting, OpBuGang
  <2>2. op = <<"QIANGGANGHU", c>>
    BY <2>1
  <2>3. QED
    BY <1>3, <2>1, <2>2 DEF Chosen
<1>4. QED
  BY <1>1, <1>2, <1>3

-----------------------------------------------------------------------------
(* The melds.  q is the state after the cards were laid down and counted.  *)
TakeOpts(q, i, op) ==
  [j \in Seat |-> IF op[1] = "BU_GANG" /\ j # i
                  THEN Offer(onGetUserOpValueWhenBuGang(q, j, op[2])) ELSE Offer({})]

LEMMA TakeOptsAre ==
  ASSUME NEW q, NEW i, NEW k, NEW c \in Card, NEW opt, opt = TakeOpts(q, i, <<k, c>>)
  PROVE  /\ opt \in Options
         /\ \A j \in Seat : opt[j].val => k = "BU_GANG" /\ j # i /\ opt[j].tab \subseteq {<<"QIANGGANGHU", c>>}
<1>1. ASSUME NEW j \in Seat
      PROVE  \E tab \in SUBSET Op : /\ opt[j] = Offer(tab) /\ tab \subseteq {<<"QIANGGANGHU", c>>}
                                    /\ tab # {} => k = "BU_GANG" /\ j # i
  <2>1. CASE k = "BU_GANG" /\ j # i
    <3>1. opt[j] = Offer(onGetUserOpValueWhenBuGang(q, j, c))
      BY <2>1 DEF TakeOpts
    <3>2. onGetUserOpValueWhenBuGang(q, j, c) \in SUBSET Op
          /\ onGetUserOpValueWhenBuGang(q, j, c) \in SUBSET {<<"QIANGGANGHU", c>>}
      BY OffersAreOps
    <3>3. QED
      BY <2>1, <3>1, <3>2
  <2>2. CASE ~(k = "BU_GANG" /\ j # i)
    <3>1. opt[j] = Offer({})
      BY <2>2 DEF TakeOpts
    <3>2. QED
      BY <3>1
  <2>3. QED
    BY <2>1, <2>2
<1>2. ASSUME NEW j \in Seat
      PROVE  opt[j] \in Entry /\ (opt[j].val => k = "BU_GANG" /\ j # i /\ opt[j].tab \subseteq {<<"QIANGGANGHU", c>>})
  <2>1. PICK tab \in SUBSET Op : /\ opt[j] = Offer(tab) /\ tab \subseteq {<<"QIANGGANGHU", c>>}
                                 /\ tab # {} => k = "BU_GANG" /\ j # i
    BY <1>1
  <2>2. Offer(tab) \in Entry /\ Offer(tab).val = (tab # {}) /\ Offer(tab).tab = tab
    BY OfferIs
  <2>3. QED
    BY <2>1, <2>2
<1>3. opt \in Options
  BY <1>2 DEF TakeOpts, Options
<1>4. QED
  BY <1>2, <1>3

(* After a pung the seat discards, after an exposed kong it draws.         *)
LEMMA ClaimInv ==
  ASSUME NEW s, NEW e \in Nat, CardInv(s, e), ~s.err, s.status = "opOut",
         NEW i \in Seat, NEW c \in Card, NEW k \in {"PENG", "GANG"},
         s.hand[i][c] >= pCardCount(k), Claims(s.meld, c) < s.out[c],
         NEW u \in onDealClientUserTakeOp(s, i, <<k, c>>)
  PROVE  CardInv(u, After(u, e))
<1>1. Drawn(s, e, 0) /\ s.cur \in Seat
  <2>1. Turn(s) = 0
    BY DEF Turn
  <2>2. QED
    BY <2>1, InvDrawn
<1>2. IsRound(s) /\ Cards(s) /\ Fits(s) /\ s.gangs \in Seq(Seat \X Card)
  BY <1>1 DEF Drawn, Shape
<1>3. PICK q : q = LayDown(s, i, <<k, c>>)
  OBVIOUS
<1>4. LaidKeeps(s, q, 0, IF k = "PENG" THEN i ELSE 0)
  BY <1>2, <1>3, ClaimLaid
<1>5. Drawn(q, e, IF k = "PENG" THEN i ELSE 0)
  BY <1>1, <1>4 DEF Drawn, LaidKeeps, SameRest, Shape, Shown
<1>6. q = onDealGangTurnMoney(q, i, <<k, c>>)
  BY DEF onDealGangTurnMoney
<1>7. PICK opt : opt = TakeOpts(q, i, <<k, c>>)
  OBVIOUS
<1>8. opt \in Options /\ \A j \in Seat : ~opt[j].val
  BY <1>7, TakeOptsAre
<1>9. PICK t : t = [q EXCEPT !.opt = opt]
  OBVIOUS
<1>10. /\ IsRound(t) /\ SameTable(q, t) /\ t.status = q.status /\ t.cur = q.cur /\ t.opt = opt /\ t.timers = q.timers
       /\ t.seated = q.seated /\ t.over = q.over /\ t.err = q.err
  BY <1>5, <1>9 DEF Drawn, Shape, IsRound, Fields, SameTable
<1>11. u \in IF \E j \in Seat : t.opt[j].val
             THEN {startTimer([t EXCEPT !.status = "opBuGang"], "opBuGangCard")}
             ELSE IF k = "PENG"
             THEN {startTimer([t EXCEPT !.status = "out", !.cur = i], "outCard")}
             ELSE drawCard(Drawing(t, 0), i)
  <2>1. <<k, c>>[1] = k /\ k # "AN_GANG"
    OBVIOUS
  <2>2. t = [onDealGangTurnMoney(LayDown(s, i, <<k, c>>), i, <<k, c>>) EXCEPT !.opt =
               TakeOpts(onDealGangTurnMoney(LayDown(s, i, <<k, c>>), i, <<k, c>>), i, <<k, c>>)]
    BY <1>3, <1>6, <1>7, <1>9
  <2>3. QED
    BY <2>1, <2>2 DEF onDealClientUserTakeOp, TakeOpts
<1>12. Drawn(t, e, IF k = "PENG" THEN i ELSE 0)
  <2>1. Reset(q, t)
    BY <1>5, <1>8, <1>10 DEF Reset, Drawn, Shape
  <2>2. QED
    BY <1>5, <2>1, DrawnStays
<1>13. CASE k = "PENG"
  <2>1. u = startTimer([t EXCEPT !.status = "out", !.cur = i], "outCard")
    BY <1>8, <1>10, <1>11, <1>13
  <2>2. /\ IsRound(u) /\ SameTable(t, u) /\ u.status = "out" /\ u.cur = i /\ u.opt = opt
        /\ u.timers = t.timers \cup {"outCard"}
        /\ u.seated = t.seated /\ u.over = t.over /\ u.err = t.err
    BY <1>10, <2>1 DEF startTimer, IsRound, Fields, SameTable
  <2>3. i \in (-1) .. NPlayer
    BY SeatFacts
  <2>4. Drawn(u, e, i)
    <3>1. Reset(t, u)
      BY <1>8, <2>2, <2>3 DEF Reset, LateTimers, Kinds
    <3>2. QED
      BY <1>12, <1>13, <3>1, DrawnStays
  <2>5. Waiting(u, e)
    BY <1>8, <2>2 DEF Waiting, Quiet
  <2>6. Turn(u) = i
    BY <2>2 DEF Turn
  <2>7. QED
    BY <2>2, <2>4, <2>5, <2>6, DrawnWaits
<1>14. CASE k = "GANG"
  <2>1. u \in drawCard(Drawing(t, 0), i)
    BY <1>8, <1>10, <1>11, <1>14
  <2>2. Drawn(t, e, 0) /\ t.opt \in Options /\ \A j \in Seat : ~t.opt[j].val
    BY <1>8, <1>10, <1>12, <1>14
  <2>3. 0 \in (-1) .. NPlayer
    BY SeatFacts
  <2>4. QED
    BY <2>1, <2>2, <2>3, DrawingInv
<1>15. QED
  BY <1>13, <1>14

(* A concealed kong is laid down and the handler fails.                    *)
LEMMA HiddenInv ==
  ASSUME NEW s, NEW e \in Nat, CardInv(s, e), ~s.err, s.status = "opDraw",
         NEW i \in Seat, i = s.cur, NEW c \in Card, s.opt[i].val, s.opt[i].sel = {<<"AN_GANG", c>>},
         e = 0 => s.hand[i][c] >= 4, NEW u \in onDealClientUserTakeOp(s, i, <<"AN_GANG", c>>)
  PROVE  CardInv(u, After(u, e))
<1>1. Drawn(s, e, Turn(s)) /\ s.cur \in Seat /\ s.opt \in Options
  BY InvDrawn
<1>2. IsRound(s) /\ Cards(s) /\ Fits(s) /\ s.gangs \in Seq(Seat \X Card)
  BY <1>1 DEF Drawn, Shape
<1>3. PICK q : q = LayDown(s, i, <<"AN_GANG", c>>)
  OBVIOUS
<1>4. /\ SameRest(s, q) /\ Cards(q) /\ Fits(q) /\ Shown(s, q)
      /\ Exact(s) /\ s.hand[i][c] >= 4 => Exact(q)
  BY <1>2, <1>3, HiddenLaid
<1>5. u = Error(q)
  BY <1>3 DEF onDealClientUserTakeOp
<1>6. /\ IsRound(u) /\ SameTable(q, u) /\ u.status = q.status /\ u.cur = q.cur /\ u.opt = q.opt /\ u.timers = q.timers
      /\ u.seated = q.seated /\ u.over = q.over /\ u.err = TRUE
  BY <1>4, <1>5 DEF SameRest, Error, IsRound, Fields, SameTable
<1>7. After(u, e) = e + 1 /\ e + 1 > 0 /\ ~(e + 1 = 0) /\ (e + 1 < 2 => e = 0)
  BY <1>6 DEF After
<1>8. Core(q) /\ (e = 0 => Exact(q))
  BY <1>1, <1>2, <1>4 DEF Core, Shown, SameRest, Drawn
<1>9. Core(u) /\ (e = 0 => Exact(u))
  BY <1>6, <1>8, SameCore
<1>10. Shape(u)
  BY <1>1, <1>4, <1>6, <1>9 DEF Drawn, Shape, SameRest, Core
<1>11. Timing(u)
  BY <1>1, <1>4, <1>6 DEF Drawn, Timing, SameRest
<1>12. Waiting(u, e + 1)
  <2>1. u.status = "opDraw" /\ u.cur = s.cur /\ u.opt = s.opt
    BY <1>4, <1>6 DEF SameRest
  <2>2. OpDraw(s, e)
    BY DEF CardInv, Waiting
  <2>3. OpDraw(u, e + 1)
    BY <1>7, <2>1, <2>2 DEF OpDraw
  <2>4. QED
    BY <1>1, <2>1, <2>3 DEF Waiting
<1>13. Counted(u, e + 1)
  BY <1>7, <1>9 DEF Counted, Core
<1>14. QED
  BY <1>7, <1>10, <1>11, <1>12, <1>13 DEF CardInv

(* An added kong is counted, once, and last.                               *)
CountedLast(p, i, c) ==
  Kongs(p) /\ p.gangs \in Seq(Seat \X Card) /\ p.gangs # <<>> /\ p.gangs[Len(p.gangs)] = <<i, c>>

\* A new kong is counted once: the player had no kong of that card.
LEMMA KongCounted ==
  ASSUME NEW s, NEW q, Kongs(s), Kongs(q), q.gangs = s.gangs, s.gangs \in Seq(Seat \X Card),
         NEW i \in Seat, NEW c \in Card,
         <<"BU_GANG", c>> \in Range(q.meld[i]), <<"BU_GANG", c>> \notin Range(s.meld[i]),
         NEW p, p.gangs = Append(s.gangs, <<i, c>>), p.meld = q.meld
  PROVE  CountedLast(p, i, c)
<1>1. PICK g, h, x : g = s.gangs /\ h = Append(g, x) /\ x = <<i, c>>
  OBVIOUS
<1>2. g \in Seq(Seat \X Card) /\ x \in Seat \X Card /\ x[1] = i /\ x[2] = c
  BY <1>1
<1>3. /\ h \in Seq(Seat \X Card) /\ Len(h) = Len(g) + 1 /\ h[Len(h)] = x /\ Len(g) \in Nat
      /\ \A n \in 1 .. Len(g) : h[n] = g[n]
      /\ DOMAIN h = 1 .. (Len(g) + 1) /\ DOMAIN g = 1 .. Len(g)
  BY <1>1, <1>2
<1>4. \A n \in DOMAIN g : g[n] # x
  BY <1>1, <1>2 DEF Kongs
<1>5. \A n \in DOMAIN h : <<"BU_GANG", h[n][2]>> \in Range(q.meld[h[n][1]])
  <2>1. ASSUME NEW n \in DOMAIN h PROVE <<"BU_GANG", h[n][2]>> \in Range(q.meld[h[n][1]])
    <3>1. CASE n \in DOMAIN g
      <4>1. h[n] = g[n]
        BY <1>3, <3>1
      <4>2. <<"BU_GANG", g[n][2]>> \in Range(q.meld[g[n][1]])
        BY <1>1, <3>1 DEF Kongs
      <4>3. QED
        BY <4>1, <4>2
    <3>2. CASE n \notin DOMAIN g
      <4>1. h[n] = x
        BY <1>3, <3>2
      <4>2. QED
        BY <1>2, <4>1
    <3>3. QED
      BY <3>1, <3>2
  <2>2. QED
    BY <2>1
<1>6. \A m, n \in DOMAIN h : h[m] = h[n] => m = n
  <2>1. ASSUME NEW m \in DOMAIN h, NEW n \in DOMAIN h, h[m] = h[n] PROVE m = n
    <3>1. CASE m \in DOMAIN g /\ n \in DOMAIN g
      <4>1. g[m] = g[n]
        BY <1>3, <2>1, <3>1
      <4>2. QED
        BY <1>1, <3>1, <4>1 DEF Kongs
    <3>2. CASE m \notin DOMAIN g \/ n \notin DOMAIN g
      BY <1>3, <1>4, <2>1, <3>2
    <3>3. QED
      BY <3>1, <3>2
  <2>2. QED
    BY <2>1
<1>7. h # <<>>
  BY <1>3
<1>8. p.gangs = h /\ p.meld = q.meld
  BY <1>1
<1>9. Kongs(p)
  BY <1>5, <1>6, <1>8 DEF Kongs
<1>10. QED
  BY <1>1, <1>3, <1>7, <1>8, <1>9 DEF CountedLast

\* A kong made of a pung, which the others may rob.
LEMMA KongInv ==
  ASSUME NEW s, NEW e \in Nat, CardInv(s, e), ~s.err, s.status = "opDraw",
         NEW i \in Seat, i = s.cur, NEW c \in Card, s.hand[i][c] > 0, <<"PENG", c>> \in Range(s.meld[i]),
         NEW u \in onDealClientUserTakeOp(s, i, <<"BU_GANG", c>>)
  PROVE  CardInv(u, After(u, e))
<1>1. Drawn(s, e, i) /\ s.cur \in Seat
  <2>1. Turn(s) = i
    BY DEF Turn
  <2>2. QED
    BY <2>1, InvDrawn
<1>2. IsRound(s) /\ Cards(s) /\ Fits(s) /\ s.gangs \in Seq(Seat \X Card)
  BY <1>1 DEF Drawn, Shape
<1>3. PICK q : q = LayDown(s, i, <<"BU_GANG", c>>)
  OBVIOUS
<1>4. s.hand[i][c] >= 1
  <2>1. s.hand[i][c] \in Nat
    BY <1>2 DEF Cards, Hands
  <2>2. QED
    BY <2>1
<1>5. LaidKeeps(s, q, i, 0) /\ <<"BU_GANG", c>> \in Range(q.meld[i]) /\ <<"BU_GANG", c>> \notin Range(s.meld[i])
  BY <1>2, <1>3, <1>4, KongLaid
<1>6. Drawn(q, e, 0) /\ q.gangs = s.gangs /\ q.cur = i
  BY <1>1, <1>5 DEF Drawn, LaidKeeps, SameRest, Shape, Shown
<1>7. PICK p : p = [q EXCEPT !.gangs = Append(@, <<i, c>>)]
  OBVIOUS
<1>8. p = onDealGangTurnMoney(q, i, <<"BU_GANG", c>>)
  BY <1>7 DEF onDealGangTurnMoney
<1>9. /\ IsRound(p) /\ p.gangs = Append(s.gangs, <<i, c>>) /\ p.status = q.status /\ p.cur = q.cur /\ p.opt = q.opt
      /\ p.timers = q.timers /\ p.seated = q.seated /\ p.over = q.over /\ p.err = q.err
      /\ p.pool = q.pool /\ p.stack = q.stack /\ p.out = q.out /\ p.hand = q.hand /\ p.meld = q.meld /\ p.win = q.win
  BY <1>6, <1>7 DEF Drawn, Shape, IsRound, Fields
<1>10. Kongs(p) /\ p.gangs \in Seq(Seat \X Card) /\ p.gangs # <<>> /\ p.gangs[Len(p.gangs)] = <<i, c>>
  <2>1. Kongs(s) /\ Kongs(q)
    BY <1>1, <1>6 DEF Drawn
  <2>2. p.gangs = Append(s.gangs, <<i, c>>) /\ p.meld = q.meld
    BY <1>9
  <2>3. q.gangs = s.gangs
    BY <1>6
  <2>4. s.gangs \in Seq(Seat \X Card) /\ <<"BU_GANG", c>> \in Range(q.meld[i]) /\ <<"BU_GANG", c>> \notin Range(s.meld[i])
    BY <1>2, <1>5
  <2>5. CountedLast(p, i, c)
    BY <2>1, <2>2, <2>3, <2>4, KongCounted
  <2>6. QED
    BY <2>5 DEF CountedLast
<1>11. Drawn(p, e, 0)
  <2>1. Keeps(q, p) /\ \A j : Sized(q, j) => Sized(p, j)
    <3>1. Cards(q)
      BY <1>6 DEF Drawn, Shape
    <3>2. QED
      BY <1>9, <3>1, SameCards
  <2>2. Won(p)
    BY <1>6, <1>9 DEF Drawn, Won
  <2>3. QED
    BY <1>6, <1>9, <1>10, <2>1, <2>2 DEF Drawn, Shape, Keeps
<1>12. PICK opt : opt = TakeOpts(p, i, <<"BU_GANG", c>>)
  OBVIOUS
<1>13. opt \in Options /\ \A j \in Seat : opt[j].val => j # i /\ opt[j].tab \subseteq {<<"QIANGGANGHU", c>>}
  BY <1>12, TakeOptsAre
<1>14. PICK t : t = [p EXCEPT !.opt = opt]
  OBVIOUS
<1>15. /\ IsRound(t) /\ SameTable(p, t) /\ t.status = p.status /\ t.cur = p.cur /\ t.opt = opt /\ t.timers = p.timers
       /\ t.seated = p.seated /\ t.over = p.over /\ t.err = p.err
  BY <1>9, <1>14 DEF IsRound, Fields, SameTable
<1>16. u \in IF \E j \in Seat : t.opt[j].val
             THEN {startTimer([t EXCEPT !.status = "opBuGang"], "opBuGangCard")}
             ELSE drawCard(Drawing(t, 0), i)
  <2>1. <<"BU_GANG", c>>[1] = "BU_GANG"
    OBVIOUS
  <2>2. t = [onDealGangTurnMoney(LayDown(s, i, <<"BU_GANG", c>>), i, <<"BU_GANG", c>>) EXCEPT !.opt =
               TakeOpts(onDealGangTurnMoney(LayDown(s, i, <<"BU_GANG", c>>), i, <<"BU_GANG", c>>), i, <<"BU_GANG", c>>)]
    BY <1>3, <1>8, <1>12, <1>14
  <2>3. QED
    BY <2>1, <2>2 DEF onDealClientUserTakeOp, TakeOpts
<1>17. Drawn(t, e, 0)
  <2>1. Reset(p, t)
    BY <1>11, <1>13, <1>15 DEF Reset, Drawn, Shape
  <2>2. QED
    BY <1>11, <2>1, DrawnStays
<1>18. CASE \E j \in Seat : t.opt[j].val
  <2>1. u = startTimer([t EXCEPT !.status = "opBuGang"], "opBuGangCard")
    BY <1>16, <1>18
  <2>2. /\ IsRound(u) /\ SameTable(t, u) /\ u.status = "opBuGang" /\ u.cur = t.cur /\ u.opt = opt
        /\ u.timers = t.timers \cup {"opBuGangCard"}
        /\ u.seated = t.seated /\ u.over = t.over /\ u.err = t.err
    BY <1>15, <2>1 DEF startTimer, IsRound, Fields, SameTable
  <2>3. u.cur = i /\ i \in (-1) .. NPlayer
    BY <1>6, <1>9, <1>15, <2>2, SeatFacts
  <2>4. Drawn(u, e, 0)
    <3>1. Reset(t, u)
      BY <1>13, <2>2, <2>3 DEF Reset, LateTimers, Kinds
    <3>2. QED
      BY <1>17, <3>1, DrawnStays
  <2>5. Kong(u, c)
    <3>1. u.meld = q.meld /\ u.gangs = p.gangs
      BY <1>9, <1>15, <2>2 DEF SameTable
    <3>2. QED
      BY <1>5, <1>10, <2>3, <3>1 DEF Kong
  <2>6. OpBuGang(u, e)
    BY <1>13, <2>2, <2>3, <2>5 DEF OpBuGang
  <2>7. Waiting(u, e)
    BY <1>13, <2>2, <2>3, <2>6 DEF Waiting
  <2>8. Turn(u) = 0
    BY <2>2 DEF Turn
  <2>9. QED
    BY <2>2, <2>4, <2>7, <2>8, DrawnWaits
<1>19. CASE ~\E j \in Seat : t.opt[j].val
  <2>1. u \in drawCard(Drawing(t, 0), i)
    BY <1>16, <1>19
  <2>2. Drawn(t, e, 0) /\ t.opt \in Options /\ \A j \in Seat : ~t.opt[j].val
    BY <1>13, <1>15, <1>17, <1>19
  <2>3. 0 \in (-1) .. NPlayer
    BY SeatFacts
  <2>4. QED
    BY <2>1, <2>2, <2>3, DrawingInv
<1>20. QED
  BY <1>18, <1>19

-----------------------------------------------------------------------------
(* Everybody has answered, or the time is up.                              *)

LEMMA FirstIn ==
  ASSUME NEW S \in SUBSET Seat, S # {}
  PROVE  Min(S) \in S
<1>1. S \in SUBSET Nat
  BY SeatFacts
<1>2. QED
  BY <1>1, MinIn

(* A win ends the round.                                                   *)
LEMMA WinInv ==
  ASSUME NEW s, NEW e \in Nat, CardInv(s, e), ~s.err,
         NEW i \in Seat, NEW c \in Card, NEW k, s.opt[i].sel = {<<k, c>>},
         \/ k = "ZIMO" /\ s.status = "opDraw" /\ i = s.cur
         \/ /\ k = "QIANGGANGHU" /\ s.status = "opBuGang" /\ i # s.cur
            /\ \A j \in Seat : s.opt[j].val => j # s.cur /\ s.opt[j].tab \subseteq {<<k, c>>}
            /\ Kong(s, c) \/ (e > 0 /\ RobbedHere(s, c)),
         NEW u \in onGameStopRound(onDealClientUserHu(s, i, <<k, c>>))
  PROVE  CardInv(u, After(u, e))
<1>1. Drawn(s, e, Turn(s)) /\ s.cur \in Seat /\ s.opt \in Options
  BY InvDrawn
<1>2. IsRound(s) /\ Cards(s) /\ Fits(s) /\ Kongs(s) /\ s.gangs \in Seq(Seat \X Card)
  BY <1>1 DEF Drawn, Shape
<1>3. PICK q : q = onDealClientUserHu(s, i, <<k, c>>)
  OBVIOUS
<1>4. WinKeeps(s, q) /\ (k = "QIANGGANGHU" => RobbedHere(q, c))
  <2>1. CASE k = "ZIMO"
    BY <1>1, <1>2, <1>3, <2>1, ZimoKeeps
  <2>2. CASE k = "QIANGGANGHU"
    <3>1. q = onDealClientUserHu(s, i, <<"QIANGGANGHU", c>>) /\ i # s.cur /\ (Kong(s, c) \/ RobbedHere(s, c))
      BY <1>3, <2>2
    <3>2. QED
      BY <1>1, <1>2, <3>1, RobKeeps
  <2>3. QED
    BY <2>1, <2>2
<1>5. /\ IsRound(q) /\ q.status = s.status /\ q.cur = s.cur /\ q.timers = s.timers /\ q.opt = s.opt
      /\ q.over = s.over /\ q.err = s.err /\ q.seated = s.seated
      /\ Cards(q) /\ Fits(q) /\ Kongs(q) /\ Won(q) /\ q.gangs \in Seq(Seat \X Card)
      /\ s.win = NoWin /\ Exact(s) => Exact(q)
  BY <1>4 DEF WinKeeps, WinOnly
<1>6. Shape(q) /\ ~q.over /\ ~q.err
  BY <1>1, <1>5 DEF Drawn, Shape
<1>7. e = 0 => Exact(q)
  BY <1>1, <1>5 DEF Drawn
<1>8. Waiting(q, e + 1)
  <2>1. e + 1 > 0
    OBVIOUS
  <2>2. CASE k = "ZIMO"
    <3>1. OpDraw(s, e)
      BY <2>2 DEF CardInv, Waiting
    <3>2. OpDraw(q, e + 1)
      BY <1>5, <2>1, <2>2, <3>1 DEF OpDraw
    <3>3. QED
      BY <1>1, <1>5, <2>2, <3>2 DEF Waiting
  <2>3. CASE k = "QIANGGANGHU"
    <3>1. OpBuGang(q, e + 1)
      BY <1>4, <1>5, <2>1, <2>3 DEF OpBuGang
    <3>2. QED
      BY <1>1, <1>5, <2>3, <3>1 DEF Waiting
  <2>4. QED
    BY <2>2, <2>3
<1>9. u \in onGameStopRound(q)
  BY <1>3
<1>10. QED
  BY <1>5, <1>6, <1>7, <1>8, <1>9, StopInv, Zenon

\* Every operation carried out keeps the invariant.
LEMMA TakeOpInv ==
  ASSUME NEW s, NEW e \in Nat, CardInv(s, e), ~s.err, s.status \in {"opOut", "opDraw", "opBuGang"},
         NEW i \in Seat, s.opt[i].val, NEW op, op \in s.opt[i].tab, s.opt[i].sel = {op}, NEW u,
         u \in IF op[1] \in {"ZIMO", "QIANGGANGHU"}
               THEN onGameStopRound(onDealClientUserHu(s, i, op))
               ELSE onDealClientUserTakeOp(s, i, op)
  PROVE  CardInv(u, After(u, e))
<1>1. Chosen(s, e, i, op)
  BY ChoiceIs
<1>2. ASSUME NEW c \in Card, NEW k \in {"PENG", "GANG"}, op = <<k, c>>, s.status = "opOut",
             s.hand[i][c] >= pCardCount(k), Claims(s.meld, c) < s.out[c]
      PROVE  CardInv(u, After(u, e))
  <2>1. u \in onDealClientUserTakeOp(s, i, <<k, c>>)
    BY <1>2
  <2>2. QED
    BY <1>2, <2>1, ClaimInv
<1>3. ASSUME NEW c \in Card, op = <<"AN_GANG", c>>, s.status = "opDraw", i = s.cur, e = 0 => s.hand[i][c] >= 4
      PROVE  CardInv(u, After(u, e))
  <2>1. u \in onDealClientUserTakeOp(s, i, <<"AN_GANG", c>>) /\ s.opt[i].sel = {<<"AN_GANG", c>>}
    BY <1>3
  <2>2. QED
    BY <1>3, <2>1, HiddenInv
<1>4. ASSUME NEW c \in Card, op = <<"BU_GANG", c>>, s.status = "opDraw", i = s.cur,
             s.hand[i][c] > 0, <<"PENG", c>> \in Range(s.meld[i])
      PROVE  CardInv(u, After(u, e))
  <2>1. u \in onDealClientUserTakeOp(s, i, <<"BU_GANG", c>>)
    BY <1>4
  <2>2. QED
    BY <1>4, <2>1, KongInv
<1>5. ASSUME NEW c \in Card, op = <<"ZIMO", c>>, s.status = "opDraw", i = s.cur
      PROVE  CardInv(u, After(u, e))
  <2>1. u \in onGameStopRound(onDealClientUserHu(s, i, <<"ZIMO", c>>)) /\ s.opt[i].sel = {<<"ZIMO", c>>}
    BY <1>5
  <2>2. QED
    BY <1>5, <2>1, WinInv
<1>6. ASSUME NEW c \in Card, op = <<"QIANGGANGHU", c>>, s.status = "opBuGang", i # s.cur,
             \A j \in Seat : s.opt[j].val => j # s.cur /\ s.opt[j].tab \subseteq {op},
             Kong(s, c) \/ (e > 0 /\ RobbedHere(s, c))
      PROVE  CardInv(u, After(u, e))
  <2>1. u \in onGameStopRound(onDealClientUserHu(s, i, <<"QIANGGANGHU", c>>)) /\ s.opt[i].sel = {<<"QIANGGANGHU", c>>}
    BY <1>6
  <2>2. \A j \in Seat : s.opt[j].val => j # s.cur /\ s.opt[j].tab \subseteq {<<"QIANGGANGHU", c>>}
    BY <1>6
  <2>3. QED
    BY <1>6, <2>1, <2>2, WinInv
<1>7. QED
  BY <1>1, <1>2, <1>3, <1>4, <1>5, <1>6 DEF Chosen

NextSeat == \A i \in Seat : onGetNextSeat(i) \in Seat
LEMMA NextSeatIs == NextSeat
BY SeatFacts DEF NextSeat, onGetNextSeat

\* The end of a round of answers: the first of the best choices is carried out.
LEMMA AllOpInv ==
  ASSUME NEW s, NEW e \in Nat, CardInv(s, e), ~s.err, NEW u \in onClientUserHasAllOp(s)
  PROVE  CardInv(u, After(u, e))
<1>1. PICK t : t = stopTimer(s, {"opOutCard", "opDarwCard", "opBuGangCard"})
  OBVIOUS
<1>2. IsRound(s)
  BY DEF CardInv, Shape
<1>3. /\ IsRound(t) /\ SameTable(s, t) /\ t.status = s.status /\ t.cur = s.cur /\ t.opt = s.opt
      /\ t.seated = s.seated /\ t.over = s.over /\ t.err = s.err
      /\ t.timers = s.timers \ {"opOutCard", "opDarwCard", "opBuGangCard"}
  BY <1>1, <1>2 DEF stopTimer, IsRound, Fields, SameTable
<1>4. Fewer(s, t)
  BY <1>3 DEF Fewer, CardInv, Shape
<1>5. CardInv(t, e) /\ ~t.err
  BY <1>3, <1>4, FewerTimers
<1>6. PICK x : x = [t EXCEPT !.opt = onClearUserOp]
  OBVIOUS
<1>7. PICK chosen : chosen = {i \in Seat : t.opt[i].val /\ t.opt[i].sel # {}}
  OBVIOUS
<1>8. CASE ~s.seated
  <2>1. u = t
    BY <1>1, <1>8 DEF onClientUserHasAllOp
  <2>2. QED
    BY <1>5, <2>1 DEF After
<1>9. CASE s.seated /\ s.opt = <<>>
  <2>1. u = Error(t)
    BY <1>1, <1>9 DEF onClientUserHasAllOp
  <2>2. /\ IsRound(u) /\ SameTable(t, u) /\ u.status = t.status /\ u.cur = t.cur /\ u.opt = t.opt
        /\ u.seated = t.seated /\ u.over = t.over /\ u.err = TRUE /\ u.timers = t.timers
    BY <1>3, <2>1 DEF Error, IsRound, Fields, SameTable
  <2>3. Fewer(t, u)
    BY <2>2 DEF Fewer
  <2>4. After(u, e) = e + 1
    BY <2>2 DEF After
  <2>5. QED
    BY <1>5, <2>3, <2>4, FewerTimers
<1>10. CASE s.seated /\ s.opt # <<>> /\ chosen # {}
  <2>1. PICK i, op : i = Min(chosen) /\ op = (CHOOSE o \in t.opt[i].sel : TRUE)
    OBVIOUS
  <2>2. i \in chosen
    BY <1>7, <1>10, <2>1, FirstIn
  <2>3. i \in Seat /\ t.opt[i].val /\ t.opt[i].sel # {}
    BY <1>7, <2>2
  <2>4. t.opt \in Options /\ t.status \in {"opOut", "opDraw", "opBuGang"}
    BY <1>3, <1>5, <1>10, <2>3 DEF CardInv, Shape, Waiting, Quiet, Kinds
  <2>5. op \in t.opt[i].tab /\ t.opt[i].sel = {op}
    <3>1. t.opt[i] \in Entry
      BY <2>3, <2>4 DEF Options
    <3>2. PICK y \in t.opt[i].tab : t.opt[i].sel = {y}
      BY <2>3, <3>1 DEF Entry
    <3>3. op \in t.opt[i].sel
      BY <2>1, <3>2, Zenon
    <3>4. QED
      BY <3>2, <3>3
  <2>6. u \in IF op[1] \in {"ZIMO", "QIANGGANGHU"}
              THEN onGameStopRound(onDealClientUserHu(t, i, op))
              ELSE onDealClientUserTakeOp(t, i, op)
    BY <1>1, <1>7, <1>10, <2>1, Zenon DEF onClientUserHasAllOp
  <2>7. QED
    BY <1>5, <2>3, <2>4, <2>5, <2>6, TakeOpInv
<1>11. CASE s.seated /\ s.opt # <<>> /\ chosen = {}
  <2>1. /\ IsRound(x) /\ SameTable(t, x) /\ x.status = t.status /\ x.cur = t.cur /\ x.opt = onClearUserOp
        /\ x.seated = t.seated /\ x.over = t.over /\ x.err = t.err /\ x.timers = t.timers
    BY <1>3, <1>6 DEF IsRound, Fields, SameTable
  <2>2. x.opt \in Options /\ \A j \in Seat : ~x.opt[j].val
    BY <2>1, ClearIs
  <2>3. u \in CASE s.status = "opOut"    -> drawCard(Drawing(x, x.cur), onGetNextSeat(x.cur))
             [] s.status = "opDraw"   -> {startTimer([x EXCEPT !.status = "out"], "outCard")}
             [] s.status = "opBuGang" -> drawCard(Drawing(x, x.cur), x.cur)
             [] OTHER -> {x}
    BY <1>1, <1>6, <1>7, <1>11, Zenon DEF onClientUserHasAllOp
  <2>4. ASSUME t.status \notin {"none", "draw"}
        PROVE  Drawn(x, e, Turn(t)) /\ x.cur \in Seat /\ x.cur \in (-1) .. NPlayer
    <3>1. Drawn(t, e, Turn(t)) /\ t.cur \in Seat
      BY <1>5, <2>4, InvDrawn
    <3>2. t.cur \in (-1) .. NPlayer /\ t.status \in Kinds
      BY <1>5 DEF CardInv, Shape
    <3>3. Reset(t, x)
      BY <2>1, <2>2, <3>2 DEF Reset
    <3>4. QED
      BY <2>1, <3>1, <3>2, <3>3, DrawnStays
  <2>5. CASE s.status \in {"opOut", "opBuGang"}
    <3>1. Drawn(x, e, 0) /\ x.cur \in Seat /\ x.cur \in (-1) .. NPlayer
      <4>1. Turn(t) = 0 /\ t.status \notin {"none", "draw"}
        BY <1>3, <2>5 DEF Turn
      <4>2. QED
        BY <2>4, <4>1
    <3>2. PICK j \in Seat : u \in drawCard(Drawing(x, x.cur), j)
      <4>1. onGetNextSeat(x.cur) \in Seat
        BY <3>1, NextSeatIs DEF NextSeat
      <4>2. CASE s.status = "opOut"
        BY <2>3, <4>1, <4>2
      <4>3. CASE s.status = "opBuGang"
        BY <2>3, <3>1, <4>3
      <4>4. QED
        BY <2>5, <4>2, <4>3
    <3>3. QED
      BY <2>2, <3>1, <3>2, DrawingInv
  <2>6. CASE s.status = "opDraw"
    <3>1. u = startTimer([x EXCEPT !.status = "out"], "outCard")
      BY <2>3, <2>6
    <3>2. /\ IsRound(u) /\ SameTable(x, u) /\ u.status = "out" /\ u.cur = x.cur /\ u.opt = x.opt
          /\ u.timers = x.timers \cup {"outCard"}
          /\ u.seated = x.seated /\ u.over = x.over /\ u.err = x.err
      BY <2>1, <3>1 DEF startTimer, IsRound, Fields, SameTable
    <3>3. Drawn(x, e, Turn(u)) /\ x.cur \in Seat /\ x.cur \in (-1) .. NPlayer
      <4>1. Turn(t) = Turn(u) /\ t.status \notin {"none", "draw"}
        BY <1>3, <2>1, <2>6, <3>2 DEF Turn
      <4>2. QED
        BY <2>4, <4>1
    <3>4. Reset(x, u)
      BY <2>2, <3>2, <3>3 DEF Reset, LateTimers, Kinds
    <3>5. Drawn(u, e, Turn(u))
      BY <3>3, <3>4, DrawnStays
    <3>6. Waiting(u, e)
      BY <2>2, <3>2, <3>3 DEF Waiting, Quiet
    <3>7. QED
      BY <3>2, <3>5, <3>6, DrawnWaits
  <2>7. CASE s.status \notin {"opOut", "opDraw", "opBuGang"}
    <3>1. u = x
      BY <2>3, <2>7
    <3>2. CASE s.status = "out"
      <4>1. Drawn(x, e, Turn(x)) /\ x.cur \in Seat
        <5>1. Turn(t) = Turn(x) /\ t.status \notin {"none", "draw"}
          BY <1>3, <2>1, <3>2 DEF Turn
        <5>2. QED
          BY <2>4, <5>1
      <4>2. Waiting(x, e)
        BY <1>3, <2>1, <2>2, <3>2, <4>1 DEF Waiting, Quiet
      <4>3. QED
        BY <1>3, <2>1, <3>1, <3>2, <4>1, <4>2, DrawnWaits
    <3>3. CASE s.status = "draw"
      <4>1. Core(t)
        BY <1>5 DEF CardInv, Shape, Counted, Core
      <4>2. Core(x) /\ (Exact(t) => Exact(x)) /\ \A j : Sized(t, j) => Sized(x, j)
        BY <2>1, <4>1, SameCore
      <4>3. Shape(x)
        BY <1>5, <2>1, <2>2, <4>2 DEF CardInv, Shape, Core
      <4>4. Timing(x)
        BY <1>3, <1>5, <2>1, <3>3 DEF CardInv, Timing
      <4>5. Waiting(x, e)
        BY <1>3, <2>1, <2>2, <3>3 DEF Waiting, Quiet
      <4>6. Counted(x, e)
        <5>1. Turn(x) = Turn(t) /\ x.win = t.win /\ x.over = t.over /\ x.timers = t.timers
          BY <2>1 DEF Turn, SameTable
        <5>2. QED
          BY <1>5, <4>2, <5>1 DEF CardInv, Counted, Core
      <4>7. After(x, e) = e
        BY <1>5, <2>1 DEF After
      <4>8. QED
        BY <3>1, <4>3, <4>4, <4>5, <4>6, <4>7 DEF CardInv
    <3>4. s.status # "none"
      BY <1>11 DEF CardInv, Waiting
    <3>5. s.status \in Kinds
      BY DEF CardInv, Shape
    <3>6. QED
      BY <2>7, <3>2, <3>3, <3>4, <3>5 DEF Kinds
  <2>8. QED
    BY <2>5, <2>6, <2>7
<1>12. QED
  BY <1>8, <1>9, <1>10, <1>11

-----------------------------------------------------------------------------
(* The commands of the clients.                                            *)

Discards(s, i, c, t, tabs, v) ==
  /\ t = [stopTimer(s, {"outCard"}) EXCEPT !.hand[i] = Remove(@, c, 1), !.out[c] = @ + 1]
  /\ tabs = [j \in Seat |-> IF j = i THEN {} ELSE onGetUserOpValueWhenOutCard(t, j, c)]
  /\ v = [t EXCEPT !.opt = [j \in Seat |-> Offer(tabs[j])]]

\* A discard, and who is asked about it.
LEMMA OutCardIs ==
  ASSUME NEW s, NEW i, NEW c, CanDiscard(s, i, c), NEW u \in onClientCmdOutCard(s, i, c),
         NEW t, NEW tabs, NEW v, Discards(s, i, c, t, tabs, v)
  PROVE  u \in IF \E j \in Seat : tabs[j] # {}
               THEN {startTimer([v EXCEPT !.status = "opOut"], "opOutCard")}
               ELSE drawCard(Drawing(v, 0), onGetNextSeat(i))
BY DEF onClientCmdOutCard, Discards

\* A discard keeps the invariant; only who has the turn can discard.
LEMMA OutCardInv ==
  ASSUME NEW s, NEW e \in Nat, CardInv(s, e), ~s.err, NEW i, NEW c \in Card, NEW u \in onClientCmdOutCard(s, i, c)
  PROVE  CardInv(u, After(u, e))
<1>1. CASE ~CanDiscard(s, i, c)
  <2>1. u = s
    BY <1>1, Zenon DEF onClientCmdOutCard
  <2>2. QED
    BY <2>1 DEF After
<1>2. CASE CanDiscard(s, i, c)
  <2>1. s.hand[i][c] > 0 /\ s.status \in {"out", "opDraw"} /\ s.cur = i
    BY <1>2 DEF CanDiscard
  <2>2. Drawn(s, e, i) /\ i \in Seat
    <3>1. Turn(s) = i
      BY <2>1 DEF Turn
    <3>2. QED
      BY <2>1, <3>1, InvDrawn
  <2>3. IsRound(s) /\ Cards(s) /\ Fits(s)
    BY <2>2 DEF Drawn, Shape
  <2>4. PICK p : p = stopTimer(s, {"outCard"})
    OBVIOUS
  <2>5. /\ IsRound(p) /\ SameTable(s, p) /\ p.status = s.status /\ p.cur = s.cur /\ p.opt = s.opt
        /\ p.seated = s.seated /\ p.over = s.over /\ p.err = s.err /\ p.timers = s.timers \ {"outCard"}
    BY <2>3, <2>4 DEF stopTimer, IsRound, Fields, SameTable
  <2>6. PICK t : t = [p EXCEPT !.hand[i] = Remove(@, c, 1), !.out[c] = @ + 1]
    OBVIOUS
  <2>7. /\ IsRound(t) /\ t.hand = [p.hand EXCEPT ![i] = Remove(@, c, 1)] /\ t.out = [p.out EXCEPT ![c] = @ + 1]
        /\ t.pool = p.pool /\ t.meld = p.meld /\ t.win = p.win /\ t.stack = p.stack /\ t.gangs = p.gangs
        /\ t.status = p.status /\ t.cur = p.cur /\ t.opt = p.opt /\ t.timers = p.timers
        /\ t.seated = p.seated /\ t.over = p.over /\ t.err = p.err
    BY <2>5, <2>6 DEF IsRound, Fields
  <2>8. /\ t.hand = [s.hand EXCEPT ![i] = Remove(@, c, 1)] /\ t.out = [s.out EXCEPT ![c] = @ + 1]
        /\ t.pool = s.pool /\ t.meld = s.meld /\ t.win = s.win /\ t.stack = s.stack /\ t.gangs = s.gangs
        /\ t.status = s.status /\ t.cur = s.cur /\ t.opt = s.opt /\ t.timers = s.timers \ {"outCard"}
        /\ t.seated = s.seated /\ t.over = s.over /\ t.err = s.err
    BY <2>5, <2>7 DEF SameTable
  <2>9. Keeps(s, t) /\ (Sized(s, i) => Sized(t, 0)) /\ Claims(t.meld, c) < t.out[c]
    BY <2>1, <2>2, <2>3, <2>8, DiscardKeeps
  <2>10. Drawn(t, e, 0)
    <3>1. Kongs(t) /\ Won(t)
      BY <2>2, <2>8 DEF Drawn, Kongs, Won
    <3>2. Shape(t)
      BY <2>2, <2>7, <2>8, <2>9 DEF Drawn, Shape, Keeps
    <3>3. QED
      BY <2>2, <2>8, <2>9, <3>1, <3>2 DEF Drawn, Keeps
  <2>11. PICK tabs : tabs = [j \in Seat |-> IF j = i THEN {} ELSE onGetUserOpValueWhenOutCard(t, j, c)]
    OBVIOUS
  <2>12. \A j \in Seat : /\ tabs[j] \in SUBSET Op /\ tabs[j] \subseteq onGetUserOpValueWhenOutCard(t, j, c)
    BY <2>11, OffersAreOps
  <2>13. PICK opt : opt = [j \in Seat |-> Offer(tabs[j])]
    OBVIOUS
  <2>14. opt \in Options /\ \A j \in Seat : opt[j].val = (tabs[j] # {}) /\ opt[j].tab = tabs[j]
    BY <2>12, <2>13, OfferIs DEF Options
  <2>15. PICK v : v = [t EXCEPT !.opt = opt]
    OBVIOUS
  <2>16. /\ IsRound(v) /\ SameTable(t, v) /\ v.status = t.status /\ v.cur = t.cur /\ v.opt = opt
         /\ v.seated = t.seated /\ v.over = t.over /\ v.err = t.err /\ v.timers = t.timers
    BY <2>7, <2>15 DEF IsRound, Fields, SameTable
  <2>17. i \in (-1) .. NPlayer /\ 0 \in (-1) .. NPlayer
    BY <2>2, SeatFacts
  <2>18. Drawn(v, e, 0)
    <3>1. t.status \in Kinds
      BY <2>1, <2>8 DEF Kinds
    <3>2. Reset(t, v)
      BY <2>1, <2>8, <2>14, <2>16, <2>17, <3>1 DEF Reset
    <3>3. QED
      BY <2>10, <3>2, DrawnStays
  <2>19. u \in IF \E j \in Seat : tabs[j] # {}
               THEN {startTimer([v EXCEPT !.status = "opOut"], "opOutCard")}
               ELSE drawCard(Drawing(v, 0), onGetNextSeat(i))
    <3>1. t = [stopTimer(s, {"outCard"}) EXCEPT !.hand[i] = Remove(@, c, 1), !.out[c] = @ + 1]
      BY <2>4, <2>6
    <3>2. v = [t EXCEPT !.opt = [j \in Seat |-> Offer(tabs[j])]]
      BY <2>13, <2>15
    <3>3. Discards(s, i, c, t, tabs, v)
      BY <2>11, <3>1, <3>2 DEF Discards
    <3>4. QED
      BY <1>2, <3>3, OutCardIs, Zenon
  <2>20. CASE \E j \in Seat : tabs[j] # {}
    <3>1. u = startTimer([v EXCEPT !.status = "opOut"], "opOutCard")
      BY <2>19, <2>20
    <3>2. /\ IsRound(u) /\ SameTable(v, u) /\ u.status = "opOut" /\ u.cur = v.cur /\ u.opt = opt
          /\ u.timers = v.timers \cup {"opOutCard"}
          /\ u.seated = v.seated /\ u.over = v.over /\ u.err = v.err
      BY <2>16, <3>1 DEF startTimer, IsRound, Fields, SameTable
    <3>3. u.cur = i
      BY <2>1, <2>8, <2>16, <3>2
    <3>4. Reset(v, u)
      BY <2>14, <2>17, <3>2, <3>3 DEF Reset, LateTimers, Kinds
    <3>5. Drawn(u, e, 0) /\ Turn(u) = 0
      BY <2>18, <3>2, <3>4, DrawnStays DEF Turn
    <3>6. OpOut(u)
      <4>1. SameTable(t, u)
        BY <2>16, <3>2 DEF SameTable
      <4>2. Claims(u.meld, c) < u.out[c]
        BY <2>9, <4>1 DEF SameTable
      <4>3. \A j \in Seat : onGetUserOpValueWhenOutCard(u, j, c) = onGetUserOpValueWhenOutCard(t, j, c)
        BY <4>1, SameOffers
      <4>4. QED
        BY <2>12, <2>14, <3>2, <4>2, <4>3 DEF OpOut
    <3>7. Waiting(u, e)
      BY <2>2, <2>14, <3>2, <3>3, <3>6 DEF Waiting
    <3>8. QED
      BY <3>2, <3>5, <3>7, DrawnWaits
  <2>21. CASE ~\E j \in Seat : tabs[j] # {}
    <3>1. u \in drawCard(Drawing(v, 0), onGetNextSeat(i)) /\ onGetNextSeat(i) \in Seat
      BY <2>2, <2>19, <2>21, NextSeatIs DEF NextSeat
    <3>2. v.opt \in Options /\ \A j \in Seat : ~v.opt[j].val
      BY <2>14, <2>16, <2>21
    <3>3. QED
      BY <2>17, <2>18, <3>1, <3>2, DrawingInv
  <2>22. QED
    BY <2>20, <2>21
<1>3. QED
  BY <1>1, <1>2

(* An answer leaves less to choose from.                                   *)
Answered(opt, new) ==
  /\ new \in Options
  /\ \A j \in Seat : new[j].val => /\ opt[j].val /\ new[j].tab = opt[j].tab
                                   /\ new[j].sel = opt[j].sel \/ opt[j].sel = {}

\* What an answer does to the offers: one choice is kept, or one is refused.
LEMMA AnswerIs ==
  ASSUME NEW opt \in Options, NEW i \in Seat, NEW op, NEW new,
         new = IF opt[i].val /\ opt[i].sel = {} /\ op \in opt[i].tab
               THEN [j \in Seat |-> IF j = i THEN [opt[i] EXCEPT !.sel = {op}]
                                             ELSE [opt[j] EXCEPT !.val = FALSE]]
               ELSE [opt EXCEPT ![i].val = FALSE]
  PROVE  Answered(opt, new)
<1>1. \A j \in Seat : opt[j] \in Entry
  BY DEF Options
<1>2. ASSUME NEW j \in Seat
      PROVE  /\ [opt[j] EXCEPT !.val = FALSE] \in Entry /\ [opt[j] EXCEPT !.val = FALSE].val = FALSE
  BY <1>1 DEF Entry
<1>3. ASSUME op \in opt[i].tab
      PROVE  /\ [opt[i] EXCEPT !.sel = {op}] \in Entry /\ [opt[i] EXCEPT !.sel = {op}].tab = opt[i].tab
             /\ [opt[i] EXCEPT !.sel = {op}].val = opt[i].val
  <2>1. opt[i] \in Entry
    BY <1>1
  <2>2. QED
    BY <1>3, <2>1 DEF Entry
<1>4. CASE opt[i].val /\ opt[i].sel = {} /\ op \in opt[i].tab
  <2>1. /\ new[i] = [opt[i] EXCEPT !.sel = {op}]
        /\ \A j \in Seat : j # i => new[j] = [opt[j] EXCEPT !.val = FALSE]
    BY <1>4
  <2>2. new \in Options
    <3>1. \A j \in Seat : new[j] \in Entry
      BY <1>2, <1>3, <1>4, <2>1
    <3>2. QED
      BY <1>4, <3>1 DEF Options
  <2>3. QED
    BY <1>2, <1>3, <1>4, <2>1, <2>2 DEF Answered
<1>5. CASE ~(opt[i].val /\ opt[i].sel = {} /\ op \in opt[i].tab)
  <2>1. new = [opt EXCEPT ![i] = [opt[i] EXCEPT !.val = FALSE]]
    BY <1>5
  <2>2. new[i] = [opt[i] EXCEPT !.val = FALSE] /\ \A j \in Seat : j # i => new[j] = opt[j]
    BY <2>1 DEF Options
  <2>3. new \in Options
    BY <1>2, <2>1 DEF Options
  <2>4. QED
    BY <1>2, <2>2, <2>3 DEF Answered
<1>6. QED
  BY <1>4, <1>5

\* A player's answer keeps the invariant.
LEMMA OperateInv ==
  ASSUME NEW s, NEW e \in Nat, CardInv(s, e), ~s.err, NEW i \in Seat, NEW op,
         NEW u \in onClientCmdTakeOpreation(s, i, op)
  PROVE  CardInv(u, After(u, e))
<1>1. CASE s.status \notin {"opOut", "opDraw", "opBuGang"}
  <2>1. u = s
    BY <1>1, Zenon DEF onClientCmdTakeOpreation
  <2>2. QED
    BY <2>1 DEF After
<1>2. CASE s.status \in {"opOut", "opDraw", "opBuGang"}
  <2>1. Drawn(s, e, Turn(s)) /\ s.cur \in Seat /\ s.opt \in Options
    BY <1>2, InvDrawn
  <2>2. PICK new : new = IF s.opt[i].val /\ s.opt[i].sel = {} /\ op \in s.opt[i].tab
               THEN [j \in Seat |-> IF j = i THEN [s.opt[i] EXCEPT !.sel = {op}]
                                             ELSE [s.opt[j] EXCEPT !.val = FALSE]]
               ELSE [s.opt EXCEPT ![i].val = FALSE]
    OBVIOUS
  <2>3. Answered(s.opt, new)
    BY <2>1, <2>2, AnswerIs
  <2>4. PICK t : t = [s EXCEPT !.opt = new]
    OBVIOUS
  <2>5. /\ IsRound(t) /\ SameTable(s, t) /\ t.status = s.status /\ t.cur = s.cur /\ t.opt = new
        /\ t.seated = s.seated /\ t.over = s.over /\ t.err = s.err /\ t.timers = s.timers
    BY <2>1, <2>4 DEF Drawn, Shape, IsRound, Fields, SameTable
  <2>6. Drawn(t, e, Turn(t))
    <3>1. Reset(s, t)
      BY <2>1, <2>3, <2>5 DEF Reset, Answered, Drawn, Shape
    <3>2. Turn(t) = Turn(s)
      BY <2>5 DEF Turn
    <3>3. QED
      BY <2>1, <3>1, <3>2, DrawnStays
  <2>7. Waiting(t, e)
    <3>1. Waiting(s, e)
      BY DEF CardInv
    <3>2. CASE s.status = "opOut"
      <4>1. OpOut(s)
        BY <3>1, <3>2 DEF Waiting
      <4>2. OpOut(t)
        BY <2>3, <2>5, <4>1, SameOffers DEF OpOut, Answered, SameTable
      <4>3. QED
        BY <2>1, <2>3, <2>5, <3>2, <4>2 DEF Waiting, Answered
    <3>3. CASE s.status = "opDraw"
      <4>1. OpDraw(s, e)
        BY <3>1, <3>3 DEF Waiting
      <4>2. ASSUME NEW j \in Seat, new[j].val
            PROVE  /\ j = t.cur
                   /\ \/ \E d \in Card : new[j].tab \subseteq onGetUserOpValueWhenDrawCard(t, j, d)
                      \/ e > 0 /\ \E d \in Card : new[j].sel = {<<"AN_GANG", d>>} \/ new[j].sel = {<<"ZIMO", d>>}
        <5>1. s.opt[j].val /\ new[j].tab = s.opt[j].tab /\ (new[j].sel = s.opt[j].sel \/ s.opt[j].sel = {})
          BY <2>3, <4>2 DEF Answered
        <5>2. /\ j = s.cur
              /\ \/ \E d \in Card : s.opt[j].tab \subseteq onGetUserOpValueWhenDrawCard(s, j, d)
                 \/ e > 0 /\ \E d \in Card : s.opt[j].sel = {<<"AN_GANG", d>>} \/ s.opt[j].sel = {<<"ZIMO", d>>}
          BY <4>1, <5>1 DEF OpDraw
        <5>3. \A d : onGetUserOpValueWhenDrawCard(t, j, d) = onGetUserOpValueWhenDrawCard(s, j, d)
          BY <2>5, SameOffers
        <5>4. QED
          BY <2>5, <5>1, <5>2, <5>3
      <4>3. OpDraw(t, e)
        BY <2>5, <4>2 DEF OpDraw
      <4>4. QED
        BY <2>1, <2>3, <2>5, <3>3, <4>3 DEF Waiting, Answered
    <3>4. CASE s.status = "opBuGang"
      <4>1. OpBuGang(s, e)
        BY <3>1, <3>4 DEF Waiting
      <4>2. \A c : (Kong(s, c) => Kong(t, c)) /\ (RobbedHere(s, c) => RobbedHere(t, c))
        BY <2>5 DEF Kong, RobbedHere, SameTable
      <4>3. OpBuGang(t, e)
        BY <2>3, <2>5, <4>1, <4>2 DEF OpBuGang, Answered
      <4>4. QED
        BY <2>1, <2>3, <2>5, <3>4, <4>3 DEF Waiting, Answered
    <3>5. QED
      BY <1>2, <3>2, <3>3, <3>4
  <2>8. CardInv(t, e) /\ After(t, e) = e /\ ~t.err
    BY <1>2, <2>5, <2>6, <2>7, DrawnWaits
  <2>9. u = t \/ u \in onClientUserHasAllOp(t)
    BY <1>2, <2>2, <2>4 DEF onClientCmdTakeOpreation
  <2>10. CASE u = t
    BY <2>8, <2>10
  <2>11. CASE u \in onClientUserHasAllOp(t)
    BY <2>8, <2>11, AllOpInv
  <2>12. QED
    BY <2>9, <2>10, <2>11
<1>3. QED
  BY <1>1, <1>2

-----------------------------------------------------------------------------
(* The timers.                                                             *)

(* What process_dealCards puts where.                                      *)
Dealt(s, u) ==
  /\ IsRound(u) /\ u.timers = s.timers \cup {"dealCards"}
  /\ DealMove(s, u) /\ u.gangs = s.gangs
  /\ u.status = s.status /\ u.cur = s.cur /\ u.opt = s.opt
  /\ u.seated = s.seated /\ u.over = s.over /\ u.err = s.err

LEMMA DealIs ==
  ASSUME NEW s, IsRound(s), NEW u, u = process_dealCards(s)
  PROVE  Dealt(s, u)
<1>1. PICK hand, pool, stack :
        /\ hand = [i \in Seat |-> [c \in Card |-> s.hand[i][c] + Among(s.stack, Block(i), c)]]
        /\ pool = [c \in Card |-> s.pool[c] - Among(s.stack, 1 .. (NPlayer * DealCount), c)]
        /\ stack = SubSeq(s.stack, NPlayer * DealCount + 1, Len(s.stack))
  OBVIOUS
<1>2. PICK v : v = [s EXCEPT !.hand = hand, !.pool = pool, !.stack = stack]
  OBVIOUS
<1>3. u = startTimer(v, "dealCards")
  BY <1>1, <1>2 DEF process_dealCards, Among, Block
<1>4. /\ IsRound(v) /\ v.hand = hand /\ v.pool = pool /\ v.stack = stack
      /\ v.out = s.out /\ v.meld = s.meld /\ v.win = s.win /\ v.gangs = s.gangs
      /\ v.status = s.status /\ v.cur = s.cur /\ v.opt = s.opt /\ v.timers = s.timers
      /\ v.seated = s.seated /\ v.over = s.over /\ v.err = s.err
  BY <1>2 DEF IsRound, Fields
<1>5. /\ IsRound(u) /\ SameTable(v, u) /\ u.status = v.status /\ u.cur = v.cur /\ u.opt = v.opt
      /\ u.timers = v.timers \cup {"dealCards"}
      /\ u.seated = v.seated /\ u.over = v.over /\ u.err = v.err
  BY <1>3, <1>4 DEF startTimer, IsRound, Fields, SameTable
<1>6. QED
  BY <1>1, <1>4, <1>5 DEF Dealt, DealMove, SameTable

\* The deal keeps the invariant.
LEMMA DealInv ==
  ASSUME NEW q, NEW e \in Nat, CardInv(q, e), ~q.err, "makeBanker" \in q.timers,
         NEW s, IsRound(s), SameTable(q, s), s.status = q.status, s.cur = q.cur, s.opt = q.opt,
         s.seated = q.seated, s.over = q.over, s.err = q.err, s.timers = q.timers \ {"makeBanker"},
         NEW u, u = process_dealCards(s)
  PROVE  CardInv(u, After(u, e))
<1>1. Dealt(s, u)
  BY DealIs
<1>2. /\ q.status = "none" /\ Undealt(q) /\ ~q.over /\ q.opt = <<>>
      /\ "dealCards" \notin q.timers /\ "drawCard" \notin q.timers
  BY DEF CardInv, Timing, Waiting
<1>3. Core(q) /\ (e < 2 => Exact(q)) /\ (e = 0 => q.win = NoWin)
  BY <1>2 DEF CardInv, Shape, Counted, Core
<1>4. Core(s) /\ (e < 2 => Exact(s)) /\ (e = 0 => s.win = NoWin)
  BY <1>3, SameCore DEF SameTable
<1>5. Undealt(s)
  BY <1>2 DEF Undealt, SameTable
<1>6. Keeps(s, u) /\ Sized(u, 0)
  <2>1. Cards(s) /\ Fits(s)
    BY <1>4 DEF Core
  <2>2. DealMove(s, u)
    BY <1>1, Zenon DEF Dealt
  <2>3. QED
    BY <1>5, <2>1, <2>2, DealKeeps, Zenon
<1>7. Kongs(u) /\ Won(u)
  <2>1. u.gangs = s.gangs /\ u.meld = s.meld /\ u.win = s.win
    BY <1>1 DEF Dealt, DealMove
  <2>2. Kongs(s) /\ Won(s)
    BY <1>4 DEF Core
  <2>3. Kongs(u)
    BY <2>1, <2>2, ZenonT(60) DEF Kongs
  <2>4. Won(u)
    BY <2>1, <2>2, Zenon DEF Won
  <2>5. QED
    BY <2>3, <2>4
<1>8. Shape(u)
  <2>1. u.timers \in SUBSET Timer
    BY <1>1 DEF Dealt, CardInv, Shape, Timer
  <2>2. u.gangs \in Seq(Seat \X Card)
    BY <1>1, <1>4 DEF Dealt, Core
  <2>3. QED
    BY <1>1, <1>6, <2>1, <2>2 DEF Dealt, CardInv, Shape, Keeps
<1>9. Timing(u) /\ Waiting(u, e)
  BY <1>1, <1>2 DEF Dealt, Timing, Waiting
<1>10. Counted(u, e)
  <2>1. Turn(u) = 0 /\ u.win = s.win
    BY <1>1, <1>2 DEF Dealt, DealMove, Turn
  <2>2. QED
    BY <1>4, <1>6, <1>7, <2>1 DEF Counted, Keeps, Core
<1>11. After(u, e) = e
  BY <1>1 DEF Dealt, After
<1>12. QED
  BY <1>8, <1>9, <1>10, <1>11 DEF CardInv

LEMMA DealtInv ==
  ASSUME NEW s, NEW e \in Nat, CardInv(s, e), ~s.err, ~s.over, s.status = "none", "makeBanker" \notin s.timers,
         "dealCards" \notin s.timers, NEW u, u = onDealCardsTimerCallback(s)
  PROVE  CardInv(u, After(u, e))
<1>1. IsRound(s) /\ Core(s)
  BY DEF CardInv, Shape, Counted, Core
<1>2. PICK v : v = Drawing(s, 1)
  OBVIOUS
<1>3. /\ IsRound(v) /\ SameTable(s, v) /\ v.status = "draw" /\ v.cur = 1 /\ v.opt = s.opt /\ v.timers = s.timers
      /\ v.seated = s.seated /\ v.over = s.over /\ v.err = s.err
  BY <1>1, <1>2 DEF Drawing, IsRound, Fields, SameTable
<1>4. u = startTimer(v, "drawCard")
  BY <1>2 DEF onDealCardsTimerCallback
<1>5. /\ IsRound(u) /\ SameTable(s, u) /\ u.status = "draw" /\ u.cur = 1 /\ u.opt = s.opt
      /\ u.timers = s.timers \cup {"drawCard"}
      /\ u.seated = s.seated /\ u.over = s.over /\ u.err = s.err
  BY <1>3, <1>4 DEF startTimer, IsRound, Fields, SameTable
<1>6. Core(u) /\ (Exact(s) => Exact(u)) /\ \A j : Sized(s, j) => Sized(u, j)
  BY <1>1, <1>5, SameCore
<1>7. 1 \in Seat /\ 1 \in (-1) .. NPlayer
  BY SeatFacts
<1>8. Shape(u)
  <2>1. u.timers \in SUBSET Timer
    BY <1>5 DEF CardInv, Shape, Timer
  <2>2. QED
    BY <1>5, <1>6, <1>7, <2>1 DEF CardInv, Shape, Core, Kinds
<1>9. Timing(u)
  BY <1>5, <1>7 DEF Timing
<1>10. Waiting(u, e)
  BY <1>5 DEF CardInv, Waiting, Quiet
<1>11. Counted(u, e)
  <2>1. Turn(u) = Turn(s) /\ u.win = s.win
    BY <1>5 DEF Turn, SameTable
  <2>2. QED
    BY <1>5, <1>6, <2>1 DEF CardInv, Counted, Core
<1>12. After(u, e) = e
  BY <1>5 DEF After
<1>13. QED
  BY <1>8, <1>9, <1>10, <1>11, <1>12 DEF CardInv

\* Every timer's callback keeps the invariant, whenever it fires.
LEMMA FireInv ==
  ASSUME NEW q, NEW e \in Nat, CardInv(q, e), ~q.err, NEW k \in q.timers, NEW u \in callback(stopTimer(q, {k}), k)
  PROVE  CardInv(u, After(u, e)) /\ (q.over => u.over)
<1>1. IsRound(q) /\ k \in Timer
  BY DEF CardInv, Shape
<1>2. PICK s : s = stopTimer(q, {k})
  OBVIOUS
<1>3. /\ IsRound(s) /\ SameTable(q, s) /\ s.status = q.status /\ s.cur = q.cur /\ s.opt = q.opt
      /\ s.seated = q.seated /\ s.over = q.over /\ s.err = q.err /\ s.timers = q.timers \ {k}
  BY <1>1, <1>2 DEF stopTimer, IsRound, Fields, SameTable
<1>4. u \in callback(s, k)
  BY <1>2
<1>5. ASSUME k # "makeBanker" PROVE CardInv(s, e) /\ ~s.err
  <2>1. Fewer(q, s)
    BY <1>3, <1>5 DEF Fewer, CardInv, Shape
  <2>2. QED
    BY <1>3, <2>1, FewerTimers
<1>6. CardInv(u, After(u, e))
  <2>1. CASE k = "makeBanker"
    <3>1. u = process_dealCards(s)
      BY <1>4, <2>1 DEF callback
    <3>2. QED
      BY <1>3, <2>1, <3>1, DealInv
  <2>2. CASE k = "dealCards"
    <3>1. u = onDealCardsTimerCallback(s)
      BY <1>4, <2>2 DEF callback
    <3>2. s.status = "none" /\ "makeBanker" \notin s.timers /\ "dealCards" \notin s.timers /\ ~s.over
      BY <1>3, <2>2 DEF CardInv, Timing
    <3>3. CardInv(s, e) /\ ~s.err
      BY <1>5, <2>2
    <3>4. QED
      BY <3>1, <3>2, <3>3, DealtInv
  <2>3. CASE k = "drawCard"
    <3>1. u \in drawCard(s, s.cur)
      BY <1>4, <2>3 DEF callback
    <3>2. s.status = "draw" /\ s.cur \in Seat /\ ~s.over /\ "drawCard" \notin s.timers
          /\ "makeBanker" \notin s.timers /\ "dealCards" \notin s.timers
      BY <1>3, <2>3 DEF CardInv, Timing
    <3>3. CardInv(s, e) /\ ~s.err
      BY <1>5, <2>3
    <3>4. Ready(s, e)
      <4>1. Turn(s) = 0 /\ Quiet(s.opt)
        BY <3>2, <3>3 DEF Turn, CardInv, Waiting
      <4>2. QED
        BY <3>2, <3>3, <4>1 DEF CardInv, Counted, Ready
    <3>5. QED
      BY <3>1, <3>2, <3>4, DrawInv
  <2>4. CASE k = "outCard"
    <3>1. PICK c \in Card : u \in onClientCmdOutCard(s, s.cur, c)
      BY <1>4, <2>4 DEF callback, onOutCardTimerTimeOut
    <3>2. CardInv(s, e) /\ ~s.err
      BY <1>5, <2>4
    <3>3. QED
      BY <3>1, <3>2, OutCardInv
  <2>5. CASE k \in OpTimers
    <3>1. u \in onClientUserHasAllOp(s)
      BY <1>4, <2>5 DEF callback, OpTimers
    <3>2. CardInv(s, e) /\ ~s.err
      BY <1>5, <2>5 DEF OpTimers
    <3>3. QED
      BY <3>1, <3>2, AllOpInv
  <2>6. QED
    BY <1>1, <2>1, <2>2, <2>3, <2>4, <2>5 DEF Timer, OpTimers
<1>7. ASSUME q.over PROVE u.over
  <2>1. k = "opBuGangCard" /\ s.opt = <<>>
    BY <1>3, <1>7 DEF CardInv, Timing, Waiting
  <2>2. u \in onClientUserHasAllOp(s)
    BY <1>4, <2>1 DEF callback
  <2>3. PICK t : t = stopTimer(s, {"opOutCard", "opDarwCard", "opBuGangCard"})
    OBVIOUS
  <2>4. u = t \/ u = Error(t)
    BY <2>1, <2>2, <2>3 DEF onClientUserHasAllOp
  <2>5. IsRound(t) /\ t.over = s.over
    BY <1>3, <2>3 DEF stopTimer, IsRound, Fields
  <2>6. Error(t).over = t.over
    BY <2>5 DEF Error, IsRound, Fields
  <2>7. QED
    BY <1>3, <1>7, <2>4, <2>5, <2>6
<1>8. QED
  BY <1>6, <1>7

-----------------------------------------------------------------------------
(* The start and the end.                                                  *)

(* A table on which nothing was dealt.                                     *)
LEMMA EmptyTable ==
  ASSUME NEW s, s.hand = [i \in Seat |-> None], s.meld = [i \in Seat |-> <<>>], s.out = None, s.win = NoWin,
         s.gangs = <<>>, s.pool \in [Card -> 0 .. Copies], s.stack \in Seq(Card),
         \A c \in Card : Occ(s.stack, c) <= s.pool[c]
  PROVE  Core(s) /\ ((\A c \in Card : s.pool[c] = Copies) => Exact(s))
<1>1. None \in [Card -> Nat] /\ \A c \in Card : None[c] = 0
  BY DEF None
<1>2. Cards(s)
  <2>1. s.pool \in [Card -> Nat]
    BY SeatFacts
  <2>2. s.hand \in Hands
    BY <1>1 DEF Hands
  <2>3. s.meld \in Rows
    <3>1. <<>> \in Seq(Op)
      OBVIOUS
    <3>2. QED
      BY <3>1 DEF Rows
  <2>4. QED
    BY <1>1, <2>1, <2>2, <2>3 DEF Cards
<1>3. ASSUME NEW w \in Weight, NEW c \in Card PROVE Gross(w, s, c) = s.pool[c]
  <2>1. PICK f : f = Share(w, s.hand, s.meld, c)
    OBVIOUS
  <2>2. \A i \in Seat : f[i] = 0
    <3>1. ASSUME NEW i \in Seat PROVE f[i] = 0
      <4>1. s.hand[i][c] = 0 /\ s.meld[i] = <<>>
        BY <1>1
      <4>2. f[i] = s.hand[i][c] + Worth(w, s.meld[i])
        BY <2>1 DEF Share
      <4>3. QED
        BY <4>1, <4>2, WorthEmpty
    <3>2. QED
      BY <3>1
  <2>3. SumFunctionOnSet(f, Seat) = 0
    BY <2>2, SeatFacts, SumZero
  <2>4. Held(w, s.hand, s.meld, c) = 0
    BY <2>1, <2>3 DEF Held
  <2>5. s.out[c] = 0 /\ RobbedOf(s.win, c) = 0 /\ s.pool[c] \in Nat
    BY <1>1, <1>2 DEF RobbedOf, NoWin, Cards
  <2>6. QED
    BY <2>4, <2>5 DEF Gross, Stock
<1>4. ASSUME NEW c \in Card PROVE Claims(s.meld, c) = 0
  <2>1. PICK f : f = ClaimsOf(s.meld, c)
    OBVIOUS
  <2>2. \A i \in Seat : f[i] = 0
    BY <2>1, WorthEmpty DEF ClaimsOf
  <2>3. SumFunctionOnSet(f, Seat) = 0
    BY <2>2, SeatFacts, SumZero
  <2>4. QED
    BY <2>1, <2>3 DEF Claims
<1>5. Fits(s)
  <2>1. ASSUME NEW c \in Card
        PROVE  Gross(OpenWeight(c), s, c) <= Copies /\ Claims(s.meld, c) <= s.out[c] /\ Occ(s.stack, c) <= s.pool[c]
    <3>1. Gross(OpenWeight(c), s, c) = s.pool[c]
      BY <1>3, WeightsAre
    <3>2. s.pool[c] <= Copies /\ s.out[c] = 0
      BY <1>1, SeatFacts
    <3>3. QED
      BY <1>4, <3>1, <3>2
  <2>2. QED
    BY <2>1 DEF Fits
<1>6. (\A c \in Card : s.pool[c] = Copies) => Exact(s)
  BY <1>3, WeightsAre DEF Exact
<1>7. Kongs(s) /\ Won(s) /\ s.gangs \in Seq(Seat \X Card)
  BY DEF Kongs, Won
<1>8. QED
  BY <1>2, <1>5, <1>6, <1>7 DEF Core

(* The round as onReset leaves it.                                         *)
Emptied(q, v) ==
  /\ IsRound(v) /\ v.status = "none" /\ v.opt = <<>> /\ v.gangs = <<>> /\ v.cur = -1
  /\ v.timers \subseteq {"opBuGangCard"}
  /\ v.pool = q.pool /\ v.stack = q.stack /\ v.out = q.out /\ v.hand = q.hand /\ v.meld = q.meld /\ v.win = q.win
  /\ v.seated = q.seated /\ v.over = q.over /\ v.err = q.err

LEMMA ResetIs ==
  ASSUME NEW q, IsRound(q), q.timers \in SUBSET Timer, NEW v, v = onReset(q)
  PROVE  Emptied(q, v)
<1>1. PICK t : t = clearAllRoundTimer(q)
  OBVIOUS
<1>2. /\ IsRound(t) /\ SameTable(q, t) /\ t.seated = q.seated /\ t.over = q.over /\ t.err = q.err
      /\ t.timers = q.timers \ {"drawCard", "dealCards", "outCard", "opOutCard", "opDarwCard", "makeBanker"}
  BY <1>1 DEF clearAllRoundTimer, stopTimer, IsRound, Fields, SameTable
<1>3. t.timers \subseteq {"opBuGangCard"}
  BY <1>2 DEF Timer
<1>4. v = [t EXCEPT !.status = "none", !.opt = <<>>, !.gangs = <<>>, !.cur = -1]
  BY <1>1 DEF onReset
<1>5. /\ IsRound(v) /\ v.status = "none" /\ v.opt = <<>> /\ v.gangs = <<>> /\ v.cur = -1 /\ v.timers = t.timers
      /\ v.pool = t.pool /\ v.stack = t.stack /\ v.out = t.out /\ v.hand = t.hand /\ v.meld = t.meld /\ v.win = t.win
      /\ v.seated = t.seated /\ v.over = t.over /\ v.err = t.err
  BY <1>2, <1>4 DEF IsRound, Fields
<1>6. QED
  BY <1>2, <1>3, <1>5 DEF Emptied, SameTable

\* So does a dismissal,
LEMMA DismissInv ==
  ASSUME NEW q, NEW e \in Nat, CardInv(q, e), ~q.err,
         NEW u, u = [onReset(q) EXCEPT !.seated = FALSE, !.over = TRUE]
  PROVE  CardInv(u, After(u, e)) /\ u.over
<1>1. IsRound(q) /\ q.timers \in SUBSET Timer /\ Core(q)
  BY DEF CardInv, Shape, Counted, Core
<1>2. PICK v : v = onReset(q)
  OBVIOUS
<1>3. Emptied(q, v)
  BY <1>1, <1>2, ResetIs
<1>4. /\ IsRound(u) /\ u.status = "none" /\ u.opt = <<>> /\ u.gangs = <<>> /\ u.cur = -1 /\ u.timers = v.timers
      /\ u.pool = v.pool /\ u.stack = v.stack /\ u.out = v.out /\ u.hand = v.hand /\ u.meld = v.meld /\ u.win = v.win
      /\ u.seated = FALSE /\ u.over = TRUE /\ u.err = v.err
  BY <1>2, <1>3 DEF Emptied, IsRound, Fields
<1>5. /\ u.pool = q.pool /\ u.stack = q.stack /\ u.out = q.out /\ u.hand = q.hand /\ u.meld = q.meld /\ u.win = q.win
      /\ u.err = q.err /\ u.timers \subseteq {"opBuGangCard"}
  BY <1>3, <1>4 DEF Emptied
<1>6. Keeps(q, u)
  BY <1>1, <1>5, SameCards DEF Core
<1>7. Kongs(u) /\ u.gangs \in Seq(Seat \X Card)
  <2>1. PICK g : g = u.gangs
    OBVIOUS
  <2>2. g = <<>>
    BY <1>4, <2>1
  <2>3. DOMAIN g = {} /\ g \in Seq(Seat \X Card)
    BY <2>2
  <2>4. Kongs(u)
    BY <2>1, <2>3, Zenon DEF Kongs
  <2>5. QED
    BY <2>1, <2>3, <2>4
<1>8. Won(u)
  <2>1. Won(q)
    BY <1>1 DEF Core
  <2>2. QED
    BY <1>5, <2>1 DEF Won
<1>9. Shape(u)
  <2>1. -1 \in (-1) .. NPlayer
    BY SeatFacts
  <2>2. QED
    BY <1>4, <1>5, <1>6, <1>7, <2>1 DEF CardInv, Shape, Keeps, Kinds, Timer
<1>10. Timing(u) /\ Waiting(u, e)
  BY <1>4, <1>5 DEF Timing, Waiting
<1>11. Counted(u, e)
  BY <1>1, <1>4, <1>6, <1>7, <1>8 DEF Counted, Keeps, Core
<1>12. After(u, e) = e
  BY <1>5 DEF After
<1>13. QED
  BY <1>4, <1>9, <1>10, <1>11, <1>12 DEF CardInv

\* and the start of another round.
LEMMA StartInv ==
  ASSUME NEW q, NEW e \in Nat, CardInv(q, e), ~q.err, NEW u \in onGameStart(q)
  PROVE  CardInv(u, e) /\ ~u.over
<1>1. IsRound(q) /\ q.timers \in SUBSET Timer
  BY DEF CardInv, Shape
<1>2. PICK v : v = onReset(q)
  OBVIOUS
<1>3. Emptied(q, v)
  BY <1>1, <1>2, ResetIs
<1>4. PICK stack \in Stacks :
        u = startTimer([v EXCEPT !.seated = TRUE, !.over = FALSE, !.win = NoWin,
                 !.hand = [i \in Seat |-> None], !.meld = [i \in Seat |-> <<>>],
                 !.out = None, !.pool = [c \in Card |-> Copies], !.stack = stack, !.cur = 1],
              "makeBanker")
  BY <1>2, Zenon DEF onGameStart
<1>5. PICK w : w = [v EXCEPT !.seated = TRUE, !.over = FALSE, !.win = NoWin,
                 !.hand = [i \in Seat |-> None], !.meld = [i \in Seat |-> <<>>],
                 !.out = None, !.pool = [c \in Card |-> Copies], !.stack = stack, !.cur = 1]
  OBVIOUS
<1>6. /\ IsRound(w) /\ w.status = v.status /\ w.opt = v.opt /\ w.gangs = v.gangs /\ w.cur = 1 /\ w.timers = v.timers
      /\ w.seated = TRUE /\ w.over = FALSE /\ w.err = v.err /\ w.win = NoWin
      /\ w.hand = [i \in Seat |-> None] /\ w.meld = [i \in Seat |-> <<>>]
      /\ w.out = None /\ w.pool = [c \in Card |-> Copies] /\ w.stack = stack
  BY <1>3, <1>5 DEF Emptied, IsRound, Fields
<1>7. u = startTimer(w, "makeBanker")
  BY <1>4, <1>5
<1>8. /\ IsRound(u) /\ SameTable(w, u) /\ u.status = w.status /\ u.cur = w.cur /\ u.opt = w.opt
      /\ u.timers = w.timers \cup {"makeBanker"}
      /\ u.seated = w.seated /\ u.over = w.over /\ u.err = w.err
  BY <1>6, <1>7 DEF startTimer, IsRound, Fields, SameTable
<1>9. /\ stack \in Seq(Card) /\ Len(stack) >= NPlayer * DealCount
      /\ \A c \in Card : Occ(stack, c) <= Copies
  BY GameRoundAssumption DEF Occ
<1>10. Core(u) /\ Exact(u)
  <2>1. /\ u.hand = [i \in Seat |-> None] /\ u.meld = [i \in Seat |-> <<>>] /\ u.out = None /\ u.win = NoWin
        /\ u.gangs = <<>> /\ u.pool = [c \in Card |-> Copies] /\ u.stack = stack
    BY <1>3, <1>6, <1>8 DEF SameTable, Emptied
  <2>2. \A c \in Card : u.pool[c] = Copies
    BY <2>1
  <2>3. u.pool \in [Card -> 0 .. Copies]
    BY <2>1, SeatFacts
  <2>4. u.stack \in Seq(Card) /\ \A c \in Card : Occ(u.stack, c) <= u.pool[c]
    BY <1>9, <2>1, <2>2
  <2>5. QED
    BY <2>1, <2>2, <2>3, <2>4, EmptyTable
<1>11. /\ u.status = "none" /\ u.opt = <<>> /\ u.cur = 1 /\ u.timers \subseteq {"opBuGangCard", "makeBanker"}
       /\ "makeBanker" \in u.timers /\ u.seated = TRUE /\ u.over = FALSE /\ u.err = q.err /\ u.win = NoWin
  BY <1>3, <1>6, <1>8 DEF SameTable, Emptied
<1>12. Undealt(u)
  BY <1>6, <1>8, <1>9 DEF Undealt, SameTable
<1>13. Shape(u)
  <2>1. 1 \in (-1) .. NPlayer
    BY SeatFacts
  <2>2. QED
    BY <1>8, <1>10, <1>11, <2>1 DEF CardInv, Shape, Core, Kinds, Timer
<1>14. Timing(u) /\ Waiting(u, e)
  BY <1>11, <1>12 DEF Timing, Waiting
<1>15. Counted(u, e)
  BY <1>10, <1>11 DEF Counted, Core
<1>16. QED
  BY <1>11, <1>13, <1>14, <1>15 DEF CardInv

-----------------------------------------------------------------------------
(* The steps.                                                              *)

LEMMA FreshInv ==
  ASSUME NEW s, NEW e \in Nat, CardInv(s, e), NEW q, q = [s EXCEPT !.err = FALSE]
  PROVE  CardInv(q, e) /\ ~q.err /\ q.over = s.over /\ q.timers = s.timers
<1>1. IsRound(s)
  BY DEF CardInv, Shape
<1>2. /\ IsRound(q) /\ SameTable(s, q) /\ q.status = s.status /\ q.cur = s.cur /\ q.opt = s.opt
      /\ q.seated = s.seated /\ q.over = s.over /\ q.err = FALSE /\ q.timers = s.timers
  BY <1>1 DEF IsRound, Fields, SameTable
<1>3. Fewer(s, q)
  BY <1>2 DEF Fewer
<1>4. QED
  BY <1>2, <1>3, FewerTimers

(* How many handlers failed and how many rounds were started.              *)
Tallies == rounds \in 0 .. MaxRound /\ errs \in 0 .. MaxErr /\ ticking \in BOOLEAN /\ playing \in BOOLEAN

\* What a handler leaves is a state of the invariant.
LEMMA HandledInv ==
  ASSUME CardsInv, Tallies, NEW s, Handled(s), CardInv(s, After(s, errs)), playing \/ s.over,
         ticking' = ticking \/ ticking' = (~s.err)
  PROVE  CardsInv' /\ Tallies'
<1>1. r' = s /\ errs' = After(s, errs) /\ errs' \in Nat
  BY DEF Handled, After, CardsInv
<1>2. CardInv(r', errs')
  BY <1>1
<1>3. playing' = ~r'.over
  <2>1. s.over \in BOOLEAN /\ playing \in BOOLEAN
    BY DEF CardInv, Shape, Tallies
  <2>2. playing' = (playing /\ ~s.over)
    BY DEF Handled
  <2>3. QED
    BY <1>1, <2>1, <2>2
<1>4. CardsInv'
  BY <1>1, <1>2, <1>3 DEF CardsInv
<1>5. Tallies'
  <2>1. errs' \in 0 .. MaxErr /\ rounds' = rounds
    BY GameRoundAssumption DEF Handled, Tallies
  <2>2. playing' \in BOOLEAN /\ ticking' \in BOOLEAN
    BY DEF Handled, Tallies
  <2>3. QED
    BY <2>1, <2>2 DEF Tallies
<1>6. QED
  BY <1>4, <1>5

\* Every step keeps the invariant.
LEMMA CardsStep ==
  ASSUME CardsInv, Tallies, [Next]_vars
  PROVE  CardsInv' /\ Tallies'
<1>1. PICK q : q = Fresh
  OBVIOUS
<1>2. CardInv(r, errs) /\ errs \in Nat /\ playing = ~r.over
  BY DEF CardsInv
<1>3. CardInv(q, errs) /\ ~q.err /\ q.over = r.over /\ q.timers = r.timers
  BY <1>1, <1>2, FreshInv DEF Fresh
<1>4. CASE Start
  <2>1. PICK s \in onGameStart(q) : r' = s
    BY <1>1, <1>4 DEF Start
  <2>2. playing' = TRUE /\ errs' = errs /\ ticking' = ticking /\ rounds' = rounds + 1 /\ rounds < MaxRound
    BY <1>4 DEF Start
  <2>3. CardInv(s, errs) /\ ~s.over
    BY <1>2, <1>3, <2>1, StartInv
  <2>4. CardInv(r', errs') /\ playing' = ~r'.over
    BY <2>1, <2>2, <2>3
  <2>5. CardsInv'
    BY <1>2, <2>2, <2>4 DEF CardsInv
  <2>6. Tallies'
    BY <2>2, GameRoundAssumption DEF Tallies
  <2>7. QED
    BY <2>5, <2>6
<1>5. ASSUME NEW k \in Timer, Fire(k) PROVE CardsInv' /\ Tallies'
  <2>1. PICK s \in callback(stopTimer(q, {k}), k) : Handled(s) /\ ticking' = (~s.err)
    BY <1>1, <1>5 DEF Fire
  <2>2. k \in q.timers
    BY <1>3, <1>5 DEF Fire
  <2>3. CardInv(s, After(s, errs)) /\ (q.over => s.over)
    BY <1>2, <1>3, <2>1, <2>2, FireInv
  <2>4. playing \/ s.over
    BY <1>2, <1>3, <2>3
  <2>5. QED
    BY <2>1, <2>3, <2>4, HandledInv
<1>6. ASSUME NEW i \in Seat, NEW c \in Card, Discard(i, c) PROVE CardsInv' /\ Tallies'
  <2>1. PICK s \in onClientCmdOutCard(q, i, c) : Handled(s) /\ ticking' = ticking /\ playing
    BY <1>1, <1>6 DEF Discard
  <2>2. CardInv(s, After(s, errs))
    BY <1>2, <1>3, <2>1, OutCardInv
  <2>3. QED
    BY <2>1, <2>2, HandledInv
<1>7. ASSUME NEW i \in Seat, NEW op \in Answers(i), Operate(i, op) PROVE CardsInv' /\ Tallies'
  <2>1. PICK s \in onClientCmdTakeOpreation(q, i, op) : Handled(s) /\ ticking' = ticking /\ playing
    BY <1>1, <1>7 DEF Operate
  <2>2. CardInv(s, After(s, errs))
    BY <1>2, <1>3, <2>1, OperateInv
  <2>3. QED
    BY <2>1, <2>2, HandledInv
<1>8. CASE Dismiss
  <2>1. PICK s : s = [onReset(q) EXCEPT !.seated = FALSE, !.over = TRUE]
    OBVIOUS
  <2>2. Handled(s) /\ ticking' = ticking
    BY <1>1, <1>8, <2>1 DEF Dismiss
  <2>3. CardInv(s, After(s, errs)) /\ s.over
    BY <1>2, <1>3, <2>1, DismissInv
  <2>4. QED
    BY <2>2, <2>3, HandledInv
<1>9. CASE UNCHANGED vars
  <2>1. r' = r /\ errs' = errs /\ playing' = playing /\ ticking' = ticking /\ rounds' = rounds
    BY <1>9 DEF vars
  <2>2. CardInv(r', errs')
    BY <1>2, <2>1
  <2>3. QED
    BY <1>2, <2>1, <2>2 DEF CardsInv, Tallies
<1>10. QED
  BY <1>4, <1>5, <1>6, <1>7, <1>8, <1>9 DEF Next

LEMMA CardsStart ==
  ASSUME Init
  PROVE  CardsInv /\ Tallies
<1>1. PICK s : s = r
  OBVIOUS
<1>2. /\ s.status = "none" /\ s.cur = -1 /\ s.timers = {} /\ s.opt = <<>> /\ s.seated = FALSE
      /\ s.pool = None /\ s.stack = <<>> /\ s.out = None
      /\ s.hand = [i \in Seat |-> None] /\ s.meld = [i \in Seat |-> <<>>]
      /\ s.gangs = <<>> /\ s.win = NoWin /\ s.over = TRUE /\ s.err = FALSE
  BY <1>1 DEF Init
<1>3. IsRound(s)
  BY <1>1 DEF Init, IsRound, Fields
<1>4. \A c \in Card : Occ(s.stack, c) <= s.pool[c]
  <2>1. ASSUME NEW c \in Card PROVE Occ(s.stack, c) = 0 /\ s.pool[c] = 0
    <3>1. {k \in DOMAIN s.stack : s.stack[k] = c} = {}
      BY <1>2
    <3>2. Cardinality({}) = 0
      BY FS_EmptySet
    <3>3. s.pool[c] = 0
      BY <1>2 DEF None
    <3>4. QED
      BY <3>1, <3>2, <3>3 DEF Occ
  <2>2. QED
    BY <2>1
<1>5. Core(s)
  <2>1. s.pool \in [Card -> 0 .. Copies]
    BY <1>2, SeatFacts DEF None
  <2>2. s.stack \in Seq(Card)
    BY <1>2
  <2>3. QED
    BY <1>2, <1>4, <2>1, <2>2, EmptyTable
<1>6. Shape(s)
  <2>1. -1 \in (-1) .. NPlayer
    BY SeatFacts
  <2>2. QED
    BY <1>2, <1>3, <1>5, <2>1 DEF Shape, Core, Kinds
<1>7. Timing(s) /\ Waiting(s, 0)
  BY <1>2 DEF Timing, Waiting
<1>8. Counted(s, 0)
  BY <1>2, <1>5 DEF Counted, Core
<1>9. CardInv(r, 0)
  BY <1>1, <1>6, <1>7, <1>8 DEF CardInv
<1>10. errs = 0 /\ playing = FALSE /\ ticking = TRUE /\ rounds = 0 /\ r.over = TRUE
  BY <1>1, <1>2 DEF Init
<1>11. CardsInv
  BY <1>9, <1>10 DEF CardsInv
<1>12. Tallies
  <2>1. MaxRound \in Nat /\ MaxErr \in Nat
    BY GameRoundAssumption
  <2>2. rounds \in 0 .. MaxRound /\ errs \in 0 .. MaxErr
    BY <1>10, <2>1
  <2>3. ticking \in BOOLEAN /\ playing \in BOOLEAN
    BY <1>10
  <2>4. QED
    BY <2>2, <2>3 DEF Tallies
<1>13. QED
  BY <1>11, <1>12

LEMMA CardsAlways == Spec => [](CardsInv /\ Tallies)
BY CardsStart, CardsStep, PTL DEF Spec

(* Until a handler fails, whoever has to discard holds exactly one card    *)
(* more than everybody else, for every number of players, every set of     *)
(* cards and every wall, however commands and timeouts overlap.            *)
THEOREM HandsKeepSize == Spec => []HandSizes
<1>1. CardsInv /\ Tallies => HandSizes
  <2>1. SUFFICES ASSUME CardsInv, Tallies, playing, ~failed, "makeBanker" \notin r.timers, NEW i \in Seat
                 PROVE  Size(r.hand[i]) + 3 * Len(r.meld[i]) =
                          DealCount + (IF i = r.cur /\ r.status \in {"out", "opDraw"} THEN 1 ELSE 0)
    BY DEF HandSizes
  <2>2. errs = 0 /\ ~r.over
    <3>1. errs \in Nat /\ ~(errs > 0)
      BY <2>1 DEF CardsInv, failed
    <3>2. ~r.over
      BY <2>1, Zenon DEF CardsInv
    <3>3. QED
      BY <3>1, <3>2
  <2>3. Sized(r, Turn(r))
    BY <2>1, <2>2 DEF CardsInv, CardInv, Counted
  <2>4. Size(r.hand[i]) + 3 * Len(r.meld[i]) = DealCount + (IF i = Turn(r) THEN 1 ELSE 0)
    BY <2>3 DEF Sized
  <2>5. (i = Turn(r)) = (i = r.cur /\ r.status \in {"out", "opDraw"})
    BY SeatFacts DEF Turn
  <2>6. QED
    BY <2>4, <2>5
<1>2. QED
  BY <1>1, CardsAlways, PTL

-----------------------------------------------------------------------------
(* The sums of the properties are those of the invariant.                  *)
LEMMA SumsAre ==
  ASSUME NEW s, Cards(s), NEW c \in Card
  PROVE  /\ SumFunction([i \in Seat |-> s.hand[i][c] + Laid(s.meld[i], c)]) = Held(LaidWeight(c), s.hand, s.meld, c)
         /\ SumFunction([i \in Seat |-> Claimed(s.meld[i], c)]) = Claims(s.meld, c)
<1>1. \A i \in Seat : s.meld[i] \in Seq(Op)
  BY DEF Cards, Rows
<1>2. \A i \in Seat : /\ Laid(s.meld[i], c) = Worth(LaidWeight(c), s.meld[i])
                      /\ Claimed(s.meld[i], c) = Worth(ClaimWeight(c), s.meld[i])
  BY <1>1, LaidIs
<1>3. PICK f, g : f = Share(LaidWeight(c), s.hand, s.meld, c) /\ g = ClaimsOf(s.meld, c)
  OBVIOUS
<1>4. f = [i \in Seat |-> s.hand[i][c] + Laid(s.meld[i], c)] /\ DOMAIN f = Seat
  BY <1>2, <1>3 DEF Share
<1>5. g = [i \in Seat |-> Claimed(s.meld[i], c)] /\ DOMAIN g = Seat
  BY <1>2, <1>3 DEF ClaimsOf
<1>6. SumFunction(f) = SumFunctionOnSet(f, Seat) /\ SumFunction(g) = SumFunctionOnSet(g, Seat)
  BY <1>4, <1>5, Zenon DEF SumFunction
<1>7. QED
  BY <1>3, <1>4, <1>5, <1>6 DEF Held, Claims

\* The invariant bounds every number, so the state is well formed.
LEMMA TypesAre ==
  ASSUME CardsInv, Tallies
  PROVE  TypeOK
<1>1. PICK s : s = r
  OBVIOUS
<1>2. Shape(s) /\ Fits(s) /\ Cards(s)
  BY <1>1 DEF CardsInv, CardInv, Counted, Shape
<1>3. s.status \in Kinds /\ s.cur \in (-1) .. NPlayer /\ s.timers \subseteq Timer
  BY <1>2 DEF Shape
<1>4. \A c \in Card : s.pool[c] \in 0 .. Copies /\ s.out[c] \in 0 .. Copies
  <2>1. ASSUME NEW c \in Card PROVE s.pool[c] \in 0 .. Copies /\ s.out[c] \in 0 .. Copies
    <3>1. /\ s.pool[c] \in Nat /\ s.out[c] \in Nat /\ RobbedOf(s.win, c) \in 0 .. 1
          /\ s.pool[c] + s.out[c] + RobbedOf(s.win, c) <= Copies
      BY <1>2, Bounds
    <3>2. QED
      BY <3>1, SeatFacts
  <2>2. QED
    BY <2>1
<1>5. s.pool \in Bag /\ s.out \in Bag
  BY <1>2, <1>4 DEF Cards, Bag
<1>6. ASSUME NEW i \in Seat PROVE s.hand[i] \in Bag /\ Range(s.meld[i]) \subseteq Op
  <2>1. s.hand[i] \in [Card -> Nat] /\ s.meld[i] \in Seq(Op)
    BY <1>2 DEF Cards, Hands, Rows
  <2>2. \A c \in Card : s.hand[i][c] \in Nat /\ s.hand[i][c] <= Copies
    BY <1>2, <2>1, Bounds
  <2>3. \A c \in Card : s.hand[i][c] \in 0 .. Copies
    BY <2>2, SeatFacts
  <2>4. s.hand[i] \in Bag
    BY <2>1, <2>3 DEF Bag
  <2>5. Range(s.meld[i]) \subseteq Op
    BY <2>1 DEF Range
  <2>6. QED
    BY <2>4, <2>5
<1>7. s.opt = <<>> \/ \A i \in Seat : s.opt[i].tab \subseteq Op /\ s.opt[i].sel \subseteq s.opt[i].tab
  <2>1. CASE s.opt \in Options
    <3>1. ASSUME NEW i \in Seat PROVE s.opt[i].tab \subseteq Op /\ s.opt[i].sel \subseteq s.opt[i].tab
      <4>1. s.opt[i] \in Entry
        BY <2>1 DEF Options
      <4>2. QED
        BY <4>1 DEF Entry
    <3>2. QED
      BY <3>1
  <2>2. QED
    BY <1>2, <2>1 DEF Shape
<1>8. s.stack \in Seq(Card) /\ s.gangs \in Seq(Seat \X Card)
  BY <1>2 DEF Shape, Cards
<1>9. s.seated \in BOOLEAN /\ s.over \in BOOLEAN /\ s.err \in BOOLEAN
  BY <1>2 DEF Shape
<1>10. {playing, ticking, s.seated, s.over, s.err} \subseteq BOOLEAN
  BY <1>9 DEF Tallies
<1>11. rounds \in 0 .. MaxRound /\ errs \in 0 .. MaxErr
  BY DEF Tallies
<1>12. /\ r.status \in {"none", "draw", "out", "opOut", "opDraw", "opBuGang"}
       /\ r.cur \in (-1)..NPlayer /\ r.timers \subseteq Timer
       /\ r.pool \in Bag /\ r.out \in Bag
       /\ \A i \in Seat : r.hand[i] \in Bag /\ Range(r.meld[i]) \subseteq Op
       /\ r.stack \in Seq(Card) /\ r.gangs \in Seq(Seat \X Card)
  BY <1>1, <1>3, <1>5, <1>6, <1>8 DEF Kinds
<1>13. QED
  BY <1>1, <1>7, <1>10, <1>11, <1>12, Zenon DEF TypeOK

(* No card is lost or doubled and every claimed meld is backed by a        *)
(* discard of its own, for every number of players, every set of cards and *)
(* every wall, through every interleaving of commands and timeouts and     *)
(* through the handlers that fail half way.                                *)
THEOREM CardsStay == Spec => []CardsConserved
<1>1. ASSUME CardsInv, Tallies PROVE CardsConserved
  <2>1. TypeOK
    BY <1>1, TypesAre
  <2>2. ASSUME playing, NEW c \in Card
        PROVE  /\ errs < 2 => r.pool[c] + r.out[c] + Robbed(c)
                      + SumFunction([i \in Seat |-> r.hand[i][c] + Laid(r.meld[i], c)]) = Copies
               /\ SumFunction([i \in Seat |-> Claimed(r.meld[i], c)]) <= r.out[c]
    <3>1. Cards(r) /\ Fits(r)
      BY <1>1 DEF CardsInv, CardInv, Counted, Shape
    <3>2. ~r.over
      BY <1>1, <2>2, Zenon DEF CardsInv
    <3>3. errs < 2 => Exact(r)
      BY <1>1, <3>2 DEF CardsInv, CardInv, Counted
    <3>4. /\ SumFunction([i \in Seat |-> r.hand[i][c] + Laid(r.meld[i], c)]) = Held(LaidWeight(c), r.hand, r.meld, c)
          /\ SumFunction([i \in Seat |-> Claimed(r.meld[i], c)]) = Claims(r.meld, c)
      BY <3>1, SumsAre
    <3>5. Robbed(c) = RobbedOf(r.win, c)
      BY DEF Robbed, RobbedOf
    <3>6. Claims(r.meld, c) <= r.out[c]
      BY <3>1 DEF Fits
    <3>7. errs < 2 => r.pool[c] + r.out[c] + RobbedOf(r.win, c) + Held(LaidWeight(c), r.hand, r.meld, c) = Copies
      BY <3>3 DEF Exact, Gross, Stock
    <3>8. errs < 2 => r.pool[c] + r.out[c] + Robbed(c)
                      + SumFunction([i \in Seat |-> r.hand[i][c] + Laid(r.meld[i], c)]) = Copies
      BY <3>4, <3>5, <3>7, Zenon
    <3>9. SumFunction([i \in Seat |-> Claimed(r.meld[i], c)]) <= r.out[c]
      BY <3>4, <3>6, Zenon
    <3>10. QED
      BY <3>8, <3>9
  <2>3. QED
    BY <2>1, <2>2, Zenon DEF CardsConserved
<1>2. QED
  BY <1>1, CardsAlways, PTL

-----------------------------------------------------------------------------
(* What is won is lost by the others.                                      *)

LEMMA SumConst ==
  ASSUME NEW S, IsFiniteSet(S), NEW a \in Int, NEW f, \A x \in S : f[x] = a
  PROVE  SumFunctionOnSet(f, S) = a * Cardinality(S) /\ Cardinality(S) \in Nat
<1>1. PICK G : G = {T \in SUBSET S : SumFunctionOnSet(f, T) = a * Cardinality(T)}
  OBVIOUS
<1>2. Cardinality({}) = 0 /\ Cardinality(S) \in Nat
  BY FS_EmptySet, FS_CardinalityType
<1>3. {} \in G
  <2>1. SumFunctionOnSet(f, {}) = 0
    BY SumEmpty
  <2>2. a * 0 = 0
    OBVIOUS
  <2>3. QED
    BY <1>1, <1>2, <2>1, <2>2
<1>4. ASSUME NEW T \in SUBSET S, T # {}, \A x \in T : T \ {x} \in G PROVE T \in G
  <2>1. IsFiniteSet(T)
    BY FS_Subset
  <2>2. PICK x \in T : x = Ch(T)
    BY <1>4, ChIn
  <2>3. SumFunctionOnSet(f, T) = f[x] + SumFunctionOnSet(f, T \ {x})
    BY <1>4, <2>1, <2>2, SumStep
  <2>4. SumFunctionOnSet(f, T \ {x}) = a * Cardinality(T \ {x})
    BY <1>1, <1>4
  <2>5. Cardinality(T) \in Nat \ {0} /\ Cardinality(T \ {x}) = Cardinality(T) - 1
    BY <2>1, LessOne
  <2>6. PICK n : n = Cardinality(T)
    OBVIOUS
  <2>7. n \in Int /\ a + a * (n - 1) = a * n
    BY <2>5, <2>6
  <2>8. SumFunctionOnSet(f, T) = a * n
    BY <2>3, <2>4, <2>5, <2>6, <2>7
  <2>9. QED
    BY <1>1, <2>6, <2>8
<1>5. \A T \in SUBSET S : T \in G
  BY <1>3, <1>4, SubsetInduction
<1>6. QED
  BY <1>1, <1>2, <1>5

\* A win is paid in full by the others.
LEMMA TurnSums ==
  ASSUME NEW i \in Seat, NEW from \in Seat, NEW op, NEW f, f = onSetHuTurnMonyInfo(i, from, op),
         op = "ZIMO" \/ (op = "QIANGGANGHU" /\ from # i)
  PROVE  SumFunction(f) = 0 /\ f[i] > 0 /\ (op = "QIANGGANGHU" => f[from] < 0)
<1>1. NPlayer \in Nat /\ NPlayer > 1 /\ IsFiniteSet(Seat) /\ Cardinality(Seat) = NPlayer
  <2>1. NPlayer \in Nat /\ NPlayer > 1 /\ IsFiniteSet(Seat) /\ Seat = 1 .. NPlayer
    BY SeatFacts, GameRoundAssumption
  <2>2. QED
    BY <2>1, FS_Interval
<1>2. SumFunction(f) = SumFunctionOnSet(f, Seat)
  <2>1. DOMAIN f = Seat
    BY DEF onSetHuTurnMonyInfo
  <2>2. QED
    BY <2>1, Zenon DEF SumFunction
<1>3. CASE op = "ZIMO"
  <2>1. f[i] = 2 * (NPlayer - 1) /\ \A k \in Seat : k # i => f[k] = -2
    BY <1>3 DEF onSetHuTurnMonyInfo
  <2>2. PICK g : g = [k \in Seat |-> -2]
    OBVIOUS
  <2>3. \A k \in Seat : g[k] = -2
    BY <2>2
  <2>4. SumFunctionOnSet(g, Seat) = (-2) * NPlayer
    <3>1. -2 \in Int
      OBVIOUS
    <3>2. SumFunctionOnSet(g, Seat) = (-2) * Cardinality(Seat)
      BY <1>1, <2>3, <3>1, SumConst
    <3>3. QED
      BY <1>1, <3>2
  <2>5. Shifted(g, f, i, Seat)
    <3>1. \A z \in Seat : g[z] \in Int /\ f[z] \in Int
      BY <1>1, <2>1, <2>3
    <3>2. \A z \in Seat \ {i} : f[z] = g[z]
      BY <2>1, <2>3
    <3>3. QED
      BY <1>1, <3>1, <3>2, SumChange
  <2>6. SumFunctionOnSet(f, Seat) = (-2) * NPlayer + (2 * (NPlayer - 1) - (-2))
    BY <2>1, <2>3, <2>4, <2>5 DEF Shifted
  <2>7. QED
    BY <1>1, <1>2, <1>3, <2>1, <2>6
<1>4. CASE op = "QIANGGANGHU" /\ from # i
  <2>1. f[from] = -6 /\ f[i] = 6 /\ \A k \in Seat : k # i /\ k # from => f[k] = 0
    BY <1>4 DEF onSetHuTurnMonyInfo
  <2>2. PICK g, h : g = [k \in Seat |-> 0] /\ h = [k \in Seat |-> IF k = from THEN -6 ELSE 0]
    OBVIOUS
  <2>3. \A k \in Seat : g[k] = 0 /\ h[k] = IF k = from THEN -6 ELSE 0
    BY <2>2
  <2>4. SumFunctionOnSet(g, Seat) = 0
    BY <1>1, <2>3, SumZero
  <2>5. Shifted(g, h, from, Seat)
    <3>1. \A z \in Seat : g[z] \in Int /\ h[z] \in Int
      BY <2>3
    <3>2. \A z \in Seat \ {from} : h[z] = g[z]
      BY <2>3
    <3>3. QED
      BY <1>1, <3>1, <3>2, SumChange
  <2>6. SumFunctionOnSet(h, Seat) = -6
    BY <2>3, <2>4, <2>5 DEF Shifted
  <2>7. Shifted(h, f, i, Seat)
    <3>1. \A z \in Seat : h[z] \in Int /\ f[z] \in Int
      BY <2>1, <2>3
    <3>2. \A z \in Seat \ {i} : f[z] = h[z]
      BY <2>1, <2>3
    <3>3. QED
      BY <1>1, <3>1, <3>2, SumChange
  <2>8. SumFunctionOnSet(f, Seat) = 0
    BY <1>4, <2>1, <2>3, <2>6, <2>7 DEF Shifted
  <2>9. QED
    BY <1>2, <2>1, <2>8
<1>5. QED
  BY <1>3, <1>4

(* Who robs a kong is paid by the player whose kong it was; that player    *)
(* holds a pung of the card again and no kong of it is counted, for every  *)
(* number of players, every set of cards and every wall.                   *)
THEOREM RobbedKongsAreUndone == Spec => []RobbedKongIsUndone
<1>1. ASSUME CardsInv, r.win # NoWin
      PROVE  /\ SumFunction(r.win.turn) = 0 /\ r.win.turn[r.win.seat] > 0
             /\ r.win.op = "QIANGGANGHU" =>
                  /\ <<"PENG", r.win.card>> \in Range(r.meld[r.win.from])
                  /\ r.win.turn[r.win.from] < 0
                  /\ \A n \in DOMAIN r.gangs : r.gangs[n] # <<r.win.from, r.win.card>>
  <2>1. PICK s : s = r
    OBVIOUS
  <2>2. Cards(s) /\ Fits(s) /\ Kongs(s) /\ Won(s) /\ s.win # NoWin
    BY <1>1, <2>1 DEF CardsInv, CardInv, Shape, Counted
  <2>3. /\ s.win.seat \in Seat /\ s.win.from \in Seat /\ s.win.op \in {"ZIMO", "QIANGGANGHU"}
        /\ s.win.turn = onSetHuTurnMonyInfo(s.win.seat, s.win.from, s.win.op)
        /\ s.win.op = "QIANGGANGHU" => /\ s.win.from # s.win.seat /\ s.win.card \in Card
                                       /\ <<"PENG", s.win.card>> \in Range(s.meld[s.win.from])
    BY <2>2 DEF Won
  <2>4. PICK i, from, op, f, c : i = s.win.seat /\ from = s.win.from /\ op = s.win.op /\ f = s.win.turn /\ c = s.win.card
    OBVIOUS
  <2>5. i \in Seat /\ from \in Seat /\ f = onSetHuTurnMonyInfo(i, from, op) /\ (op = "ZIMO" \/ (op = "QIANGGANGHU" /\ from # i))
    BY <2>3, <2>4
  <2>6. SumFunction(f) = 0 /\ f[i] > 0 /\ (op = "QIANGGANGHU" => f[from] < 0)
    BY <2>5, TurnSums
  <2>7. ASSUME op = "QIANGGANGHU", NEW n \in DOMAIN s.gangs, s.gangs[n] = <<from, c>> PROVE FALSE
    <3>1. c \in Card /\ <<"PENG", c>> \in Range(s.meld[from])
      BY <2>3, <2>4, <2>7
    <3>2. <<"BU_GANG", c>> \in Range(s.meld[from])
      BY <2>2, <2>7 DEF Kongs
    <3>3. QED
      BY <2>2, <2>5, <3>1, <3>2, Few
  <2>8. QED
    BY <2>1, <2>3, <2>4, <2>6, <2>7
<1>2. CardsInv => RobbedKongIsUndone
  BY <1>1, Zenon DEF RobbedKongIsUndone
<1>3. QED
  BY <1>2, CardsAlways, PTL

-----------------------------------------------------------------------------
(***************************************************************************)
(* Complete hands.  A hand without its pair is made of triplets, t[c] of   *)
(* card c, and of runs, f[c] that begin at c.                              *)
(***************************************************************************)
Threes == [Card -> {0, 1}]
Runs   == {f \in [Card -> Nat] : \A c \in Card : f[c] > 0 => c + 1 \in Card /\ c + 2 \in Card}
RunAt(f, x) == IF x \in Card THEN f[x] ELSE 0
MadeAt(h, t, f, c) == h[c] = 3 * t[c] + (f[c] + RunAt(f, c - 1) + RunAt(f, c - 2))
MadeOf(h, t, f) == \A c \in Card : MadeAt(h, t, f, c)
Made(h) == \E t \in Threes, f \in Runs : MadeOf(h, t, f)

Window(h, c) == \A d \in c..(c + 2) : d \in Card /\ h[d] > 0
Less(h, c)   == [d \in Card |-> IF d \in c..(c + 2) THEN h[d] - 1 ELSE h[d]]

LEMMA WindowIs ==
  ASSUME NEW h, NEW c \in Card
  PROVE  Window(h, c) <=> h[c] > 0 /\ c + 1 \in Card /\ h[c + 1] > 0 /\ c + 2 \in Card /\ h[c + 2] > 0
<1>1. c \in Nat
  BY SeatFacts
<1>2. \A d : d \in c..(c + 2) <=> d = c \/ d = c + 1 \/ d = c + 2
  BY <1>1
<1>3. QED
  BY <1>2 DEF Window

LEMMA RunAtNat ==
  ASSUME NEW f \in Runs, NEW x
  PROVE  RunAt(f, x) \in Nat
BY DEF RunAt, Runs

\* A run taken away.
LEMMA LessIs ==
  ASSUME NEW h \in Bag, NEW c \in Card, Window(h, c)
  PROVE  /\ Less(h, c) \in Bag
         /\ \A d \in Card : Less(h, c)[d] = h[d] - (IF d = c \/ d = c + 1 \/ d = c + 2 THEN 1 ELSE 0)
         /\ Size(h) \in Nat /\ Size(Less(h, c)) \in Nat /\ Size(Less(h, c)) < Size(h)
<1>1. /\ c \in Nat /\ Copies \in Nat /\ h \in [Card -> Nat]
      /\ h[c] > 0 /\ c + 1 \in Card /\ h[c + 1] > 0 /\ c + 2 \in Card /\ h[c + 2] > 0
  BY WindowIs, SeatFacts DEF Bag
<1>2. \A d : d \in c..(c + 2) <=> d = c \/ d = c + 1 \/ d = c + 2
  BY <1>1
<1>3. PICK g : g = Less(h, c)
  OBVIOUS
<1>4. \A d \in Card : g[d] = h[d] - (IF d = c \/ d = c + 1 \/ d = c + 2 THEN 1 ELSE 0)
  <2>1. ASSUME NEW d \in Card PROVE g[d] = h[d] - (IF d = c \/ d = c + 1 \/ d = c + 2 THEN 1 ELSE 0)
    <3>1. g[d] = IF d \in c..(c + 2) THEN h[d] - 1 ELSE h[d]
      BY <1>3 DEF Less
    <3>2. h[d] \in Nat
      BY <1>1
    <3>3. QED
      BY <1>2, <3>1, <3>2
  <2>2. QED
    BY <2>1
<1>5. g \in Bag
  <2>1. ASSUME NEW d \in Card PROVE g[d] \in 0 .. Copies
    <3>1. h[d] \in 0 .. Copies /\ (d = c \/ d = c + 1 \/ d = c + 2 => h[d] > 0)
      BY <1>1 DEF Bag
    <3>2. QED
      BY <1>1, <1>4, <3>1
  <2>2. QED
    BY <1>3, <2>1 DEF Bag, Less
<1>6. PICK h1 : h1 = [h EXCEPT ![c] = h[c] - 1]
  OBVIOUS
<1>7. PICK h2 : h2 = [h1 EXCEPT ![c + 1] = h[c + 1] - 1]
  OBVIOUS
<1>8. PICK h3 : h3 = [h2 EXCEPT ![c + 2] = h[c + 2] - 1]
  OBVIOUS
<1>9. h[c] - 1 \in Nat /\ h[c + 1] - 1 \in Nat /\ h[c + 2] - 1 \in Nat
  BY <1>1
<1>10. h1 \in [Card -> Nat] /\ h2 \in [Card -> Nat] /\ h3 \in [Card -> Nat]
  BY <1>1, <1>6, <1>7, <1>8, <1>9
<1>11. h1[c + 1] = h[c + 1] /\ h2[c + 2] = h[c + 2]
  BY <1>1, <1>6, <1>7, <1>10
<1>12. h3 = g
  <2>1. \A d \in Card : h3[d] = g[d]
    BY <1>1, <1>4, <1>6, <1>7, <1>8, <1>10
  <2>2. g \in [Card -> Nat]
    BY <1>5, <1>1 DEF Bag
  <2>3. QED
    BY <1>10, <2>1, <2>2
<1>13. Size(h) \in Nat /\ Size(h1) = Size(h) + ((h[c] - 1) - h[c])
  BY <1>1, <1>6, <1>9, SizeChange
<1>14. Size(h1) \in Nat /\ Size(h2) = Size(h1) + ((h[c + 1] - 1) - h[c + 1])
  <2>1. PICK x, n : x = c + 1 /\ n = h[c + 1] - 1
    OBVIOUS
  <2>2. x \in Card /\ n \in Nat /\ h2 = [h1 EXCEPT ![x] = n] /\ h1[x] = h[c + 1] /\ h1 \in [Card -> Nat]
    BY <1>1, <1>7, <1>9, <1>10, <1>11, <2>1
  <2>3. Size(h1) \in Nat /\ Size(h2) = Size(h1) + (n - h1[x])
    BY <2>2, SizeChange
  <2>4. QED
    BY <2>1, <2>2, <2>3
<1>15. Size(h2) \in Nat /\ Size(h3) = Size(h2) + ((h[c + 2] - 1) - h[c + 2])
  <2>1. PICK x, n : x = c + 2 /\ n = h[c + 2] - 1
    OBVIOUS
  <2>2. x \in Card /\ n \in Nat /\ h3 = [h2 EXCEPT ![x] = n] /\ h2[x] = h[c + 2] /\ h2 \in [Card -> Nat]
    BY <1>1, <1>8, <1>9, <1>10, <1>11, <2>1
  <2>3. Size(h2) \in Nat /\ Size(h3) = Size(h2) + (n - h2[x])
    BY <2>2, SizeChange
  <2>4. QED
    BY <2>1, <2>2, <2>3
<1>16. Size(h3) \in Nat
  BY <1>10, <1>1, SizeChange
<1>17. Size(g) \in Nat /\ Size(g) < Size(h)
  <2>1. PICK a, b, d : a = h[c] /\ b = h[c + 1] /\ d = h[c + 2]
    OBVIOUS
  <2>2. a \in Nat /\ b \in Nat /\ d \in Nat
    BY <1>1, <2>1
  <2>3. QED
    BY <1>12, <1>13, <1>14, <1>15, <1>16, <2>1, <2>2
<1>18. QED
  BY <1>3, <1>4, <1>5, <1>13, <1>17

\* A pair or a triplet taken away.
LEMMA RemoveIs ==
  ASSUME NEW h \in Bag, NEW c \in Card, NEW n \in 1 .. 3, h[c] >= n
  PROVE  /\ Remove(h, c, n) \in Bag
         /\ \A d \in Card : Remove(h, c, n)[d] = h[d] - (IF d = c THEN n ELSE 0)
         /\ Size(h) \in Nat /\ Size(Remove(h, c, n)) \in Nat /\ Size(Remove(h, c, n)) < Size(h)
<1>1. Copies \in Nat /\ h \in [Card -> Nat] /\ h[c] \in 0 .. Copies
  BY SeatFacts DEF Bag
<1>2. PICK g : g = [h EXCEPT ![c] = h[c] - n]
  OBVIOUS
<1>3. g = Remove(h, c, n)
  BY <1>2 DEF Remove
<1>4. h[c] - n \in Nat /\ h[c] - n \in 0 .. Copies
  BY <1>1
<1>5. g \in Bag
  BY <1>2, <1>4 DEF Bag
<1>6. \A d \in Card : g[d] = h[d] - (IF d = c THEN n ELSE 0)
  BY <1>1, <1>2
<1>7. Size(h) \in Nat /\ Size(g) = Size(h) + ((h[c] - n) - h[c])
  BY <1>1, <1>2, <1>4, SizeChange
<1>8. Size(g) \in Nat
  <2>1. g \in [Card -> Nat]
    BY <1>1, <1>5 DEF Bag
  <2>2. QED
    BY <2>1, SizeChange
<1>9. Size(g) < Size(h)
  <2>1. PICK a : a = h[c]
    OBVIOUS
  <2>2. a \in Nat
    BY <1>1, <2>1
  <2>3. QED
    BY <1>7, <1>8, <2>1, <2>2
<1>10. QED
  BY <1>3, <1>5, <1>6, <1>7, <1>8, <1>9

(* Nothing, a triplet more or a run more.                                  *)
LEMMA MadeNone == Made(None)
<1>1. PICK t, f : t = [c \in Card |-> 0] /\ f = [c \in Card |-> 0]
  OBVIOUS
<1>2. t \in Threes /\ f \in Runs
  BY <1>1 DEF Threes, Runs
<1>3. \A c \in Card : None[c] = 0 /\ t[c] = 0 /\ f[c] = 0 /\ RunAt(f, c - 1) = 0 /\ RunAt(f, c - 2) = 0
  BY <1>1 DEF None, RunAt
<1>4. MadeOf(None, t, f)
  BY <1>3 DEF MadeOf, MadeAt
<1>5. QED
  BY <1>2, <1>4 DEF Made

\* A triplet less, a triplet more.
LEMMA MadeThree ==
  ASSUME NEW h \in Bag, NEW c \in Card, h[c] >= 3, NEW g, g = Remove(h, c, 3), NEW t \in Threes, NEW f \in Runs
  PROVE  /\ t[c] = 1 => (MadeOf(h, t, f) => MadeOf(g, [t EXCEPT ![c] = 0], f))
         /\ MadeOf(g, t, f) => t[c] = 0 /\ MadeOf(h, [t EXCEPT ![c] = 1], f)
<1>1. \A d \in Card : g[d] = h[d] - (IF d = c THEN 3 ELSE 0)
  BY RemoveIs
<1>2. \A d \in Card : /\ h[d] \in Nat /\ h[d] <= 4 /\ t[d] \in {0, 1} /\ f[d] \in Nat
                      /\ RunAt(f, d - 1) \in Nat /\ RunAt(f, d - 2) \in Nat
  <2>1. \A d \in Card : h[d] \in Nat /\ h[d] <= 4
    BY GameRoundAssumption DEF Bag
  <2>2. QED
    BY <2>1, RunAtNat DEF Threes, Runs
<1>3. ASSUME t[c] = 1, MadeOf(h, t, f) PROVE MadeOf(g, [t EXCEPT ![c] = 0], f)
  <2>1. PICK s : s = [t EXCEPT ![c] = 0]
    OBVIOUS
  <2>2. \A d \in Card : s[d] = IF d = c THEN 0 ELSE t[d]
    BY <2>1 DEF Threes
  <2>3. ASSUME NEW d \in Card PROVE MadeAt(g, s, f, d)
    <3>1. PICK R : R = f[d] + RunAt(f, d - 1) + RunAt(f, d - 2)
      OBVIOUS
    <3>2. R \in Nat
      BY <1>2, <3>1
    <3>3. h[d] = 3 * t[d] + R
      BY <1>3, <3>1 DEF MadeOf, MadeAt
    <3>4. g[d] = 3 * s[d] + R
      BY <1>1, <1>2, <1>3, <2>2, <3>2, <3>3
    <3>5. QED
      BY <3>1, <3>4 DEF MadeAt
  <2>4. QED
    BY <2>1, <2>3 DEF MadeOf
<1>4. ASSUME MadeOf(g, t, f) PROVE t[c] = 0 /\ MadeOf(h, [t EXCEPT ![c] = 1], f)
  <2>1. t[c] = 0
    <3>1. PICK R : R = f[c] + RunAt(f, c - 1) + RunAt(f, c - 2)
      OBVIOUS
    <3>2. R \in Nat
      BY <1>2, <3>1
    <3>3. g[c] = 3 * t[c] + R /\ g[c] = h[c] - 3
      BY <1>1, <1>4, <3>1 DEF MadeOf, MadeAt
    <3>4. QED
      BY <1>2, <3>2, <3>3
  <2>2. PICK s : s = [t EXCEPT ![c] = 1]
    OBVIOUS
  <2>3. \A d \in Card : s[d] = IF d = c THEN 1 ELSE t[d]
    BY <2>2 DEF Threes
  <2>4. ASSUME NEW d \in Card PROVE MadeAt(h, s, f, d)
    <3>1. PICK R : R = f[d] + RunAt(f, d - 1) + RunAt(f, d - 2)
      OBVIOUS
    <3>2. R \in Nat
      BY <1>2, <3>1
    <3>3. g[d] = 3 * t[d] + R
      BY <1>4, <3>1 DEF MadeOf, MadeAt
    <3>4. h[d] = 3 * s[d] + R
      BY <1>1, <1>2, <2>1, <2>3, <3>2, <3>3
    <3>5. QED
      BY <3>1, <3>4 DEF MadeAt
  <2>5. QED
    BY <2>1, <2>2, <2>4 DEF MadeOf
<1>5. QED
  BY <1>3, <1>4

(* One run that begins at c more.                                          *)
RunsMove(f, g, c, n) ==
  \A d \in Card :
    g[d] + RunAt(g, d - 1) + RunAt(g, d - 2) =
      (f[d] + RunAt(f, d - 1) + RunAt(f, d - 2)) + (IF d = c \/ d = c + 1 \/ d = c + 2 THEN n ELSE 0)

LEMMA RunMore ==
  ASSUME NEW f \in Runs, NEW c \in Card, c + 1 \in Card, c + 2 \in Card, NEW e \in Nat,
         NEW g, g = [f EXCEPT ![c] = e]
  PROVE  /\ g \in Runs /\ g[c] = e
         /\ RunsMove(f, g, c, e - f[c])
<1>1. f \in [Card -> Nat] /\ c \in Nat /\ Card \subseteq Nat /\ g \in [Card -> Nat] /\ f[c] \in Nat
  BY SeatFacts DEF Runs
<1>2. \A d \in Card : g[d] = IF d = c THEN e ELSE f[d]
  BY <1>1
<1>3. g \in Runs
  BY <1>1, <1>2 DEF Runs
<1>4. \A x \in Int : RunAt(g, x) = IF x = c THEN e ELSE RunAt(f, x)
  BY <1>1, <1>2 DEF RunAt
<1>5. ASSUME NEW d \in Card
      PROVE  g[d] + RunAt(g, d - 1) + RunAt(g, d - 2) =
               (f[d] + RunAt(f, d - 1) + RunAt(f, d - 2)) + (IF d = c \/ d = c + 1 \/ d = c + 2 THEN e - f[c] ELSE 0)
  <2>1. d \in Nat /\ d - 1 \in Int /\ d - 2 \in Int
    BY <1>1
  <2>2. f[d] \in Nat /\ RunAt(f, d - 1) \in Nat /\ RunAt(f, d - 2) \in Nat
    BY <1>1, RunAtNat
  <2>3. /\ g[d] = (IF d = c THEN e ELSE f[d])
        /\ RunAt(g, d - 1) = (IF d - 1 = c THEN e ELSE RunAt(f, d - 1))
        /\ RunAt(g, d - 2) = (IF d - 2 = c THEN e ELSE RunAt(f, d - 2))
    BY <1>2, <1>4, <2>1
  <2>4. RunAt(f, c) = f[c]
    BY DEF RunAt
  <2>5. CASE d = c
    <3>1. d - 1 # c /\ d - 2 # c
      BY <1>1, <2>5
    <3>2. QED
      BY <1>1, <2>2, <2>3, <2>5, <3>1
  <2>6. CASE d = c + 1
    <3>1. d - 1 = c /\ d - 2 # c /\ d # c
      BY <1>1, <2>6
    <3>2. RunAt(f, d - 1) = f[c]
      BY <2>4, <3>1
    <3>3. QED
      BY <1>1, <2>2, <2>3, <2>6, <3>1, <3>2
  <2>7. CASE d = c + 2
    <3>1. d - 1 # c /\ d - 2 = c /\ d # c
      BY <1>1, <2>7
    <3>2. RunAt(f, d - 2) = f[c]
      BY <2>4, <3>1
    <3>3. QED
      BY <1>1, <2>2, <2>3, <2>7, <3>1, <3>2
  <2>8. CASE ~(d = c \/ d = c + 1 \/ d = c + 2)
    <3>1. d - 1 # c /\ d - 2 # c /\ d # c
      BY <1>1, <2>1, <2>8
    <3>2. QED
      BY <2>2, <2>3, <2>8, <3>1
  <2>9. QED
    BY <2>5, <2>6, <2>7, <2>8
<1>6. QED
  BY <1>2, <1>3, <1>5 DEF RunsMove

\* The cards of a run that is counted are in the hand.
LEMMA RunFits ==
  ASSUME NEW h \in Bag, NEW t \in Threes, NEW f \in Runs, MadeOf(h, t, f), NEW c \in Card, f[c] > 0
  PROVE  Window(h, c)
<1>1. c \in Nat /\ c + 1 \in Card /\ c + 2 \in Card /\ f[c] \in Nat
  BY SeatFacts DEF Runs
<1>2. \A d \in Card : t[d] \in {0, 1} /\ f[d] \in Nat /\ RunAt(f, d - 1) \in Nat /\ RunAt(f, d - 2) \in Nat
  BY RunAtNat DEF Threes, Runs
<1>3. \A d \in Card : h[d] = 3 * t[d] + (f[d] + RunAt(f, d - 1) + RunAt(f, d - 2))
  BY DEF MadeOf, MadeAt
<1>4. RunAt(f, (c + 1) - 1) = f[c] /\ RunAt(f, (c + 2) - 2) = f[c]
  <2>1. (c + 1) - 1 = c /\ (c + 2) - 2 = c
    BY <1>1
  <2>2. QED
    BY <2>1 DEF RunAt
<1>5. h[c] > 0
  <2>1. PICK a, b, d : a = t[c] /\ b = RunAt(f, c - 1) /\ d = RunAt(f, c - 2)
    OBVIOUS
  <2>2. a \in Nat /\ b \in Nat /\ d \in Nat /\ h[c] = 3 * a + (f[c] + b + d)
    BY <1>2, <1>3, <2>1
  <2>3. QED
    BY <1>1, <2>2
<1>6. h[c + 1] > 0
  <2>1. PICK a, b, d : a = t[c + 1] /\ b = f[c + 1] /\ d = RunAt(f, (c + 1) - 2)
    OBVIOUS
  <2>2. a \in Nat /\ b \in Nat /\ d \in Nat /\ h[c + 1] = 3 * a + (b + f[c] + d)
    BY <1>1, <1>2, <1>3, <1>4, <2>1
  <2>3. QED
    BY <1>1, <2>2
<1>7. h[c + 2] > 0
  <2>1. PICK a, b, d : a = t[c + 2] /\ b = f[c + 2] /\ d = RunAt(f, (c + 2) - 1)
    OBVIOUS
  <2>2. a \in Nat /\ b \in Nat /\ d \in Nat /\ h[c + 2] = 3 * a + (b + d + f[c])
    BY <1>1, <1>2, <1>3, <1>4, <2>1
  <2>3. QED
    BY <1>1, <2>2
<1>8. QED
  BY <1>1, <1>5, <1>6, <1>7, WindowIs

\* A run less, a run more.
LEMMA MadeRun ==
  ASSUME NEW h \in Bag, NEW c \in Card, Window(h, c), NEW k, k = Less(h, c),
         NEW t \in Threes, NEW f \in Runs
  PROVE  /\ f[c] > 0 => (MadeOf(h, t, f) => \E g \in Runs : MadeOf(k, t, g))
         /\ MadeOf(k, t, f) => \E g \in Runs : MadeOf(h, t, g)
<1>1. \A d \in Card : k[d] = h[d] - (IF d = c \/ d = c + 1 \/ d = c + 2 THEN 1 ELSE 0)
  BY LessIs
<1>2. c + 1 \in Card /\ c + 2 \in Card /\ f[c] \in Nat
  BY WindowIs DEF Runs
<1>3. \A d \in Card : /\ h[d] \in Nat /\ t[d] \in {0, 1} /\ f[d] \in Nat
                      /\ RunAt(f, d - 1) \in Nat /\ RunAt(f, d - 2) \in Nat
  <2>1. \A d \in Card : h[d] \in Nat
    BY GameRoundAssumption DEF Bag
  <2>2. QED
    BY <2>1, RunAtNat DEF Threes, Runs
<1>4. ASSUME f[c] > 0, MadeOf(h, t, f) PROVE \E g \in Runs : MadeOf(k, t, g)
  <2>1. PICK e : e = f[c] - 1
    OBVIOUS
  <2>2. e \in Nat /\ e - f[c] = -1
    BY <1>2, <1>4, <2>1
  <2>3. PICK g : g = [f EXCEPT ![c] = e]
    OBVIOUS
  <2>4. g \in Runs /\ RunsMove(f, g, c, e - f[c])
    BY <1>2, <2>2, <2>3, RunMore
  <2>5. ASSUME NEW d \in Card PROVE MadeAt(k, t, g, d)
    <3>1. PICK R, Q : R = f[d] + RunAt(f, d - 1) + RunAt(f, d - 2) /\ Q = g[d] + RunAt(g, d - 1) + RunAt(g, d - 2)
      OBVIOUS
    <3>2. R \in Nat
      BY <1>3, <3>1
    <3>3. h[d] = 3 * t[d] + R
      BY <1>4, <3>1 DEF MadeOf, MadeAt
    <3>4. Q = R + (IF d = c \/ d = c + 1 \/ d = c + 2 THEN -1 ELSE 0)
      BY <2>2, <2>4, <3>1 DEF RunsMove
    <3>5. k[d] = 3 * t[d] + Q
      BY <1>1, <1>3, <3>2, <3>3, <3>4
    <3>6. QED
      BY <3>1, <3>5 DEF MadeAt
  <2>6. QED
    BY <2>4, <2>5 DEF MadeOf
<1>5. ASSUME MadeOf(k, t, f) PROVE \E g \in Runs : MadeOf(h, t, g)
  <2>1. PICK e : e = f[c] + 1
    OBVIOUS
  <2>2. e \in Nat /\ e - f[c] = 1
    BY <1>2, <2>1
  <2>3. PICK g : g = [f EXCEPT ![c] = e]
    OBVIOUS
  <2>4. g \in Runs /\ RunsMove(f, g, c, e - f[c])
    BY <1>2, <2>2, <2>3, RunMore
  <2>5. ASSUME NEW d \in Card PROVE MadeAt(h, t, g, d)
    <3>1. PICK R, Q : R = f[d] + RunAt(f, d - 1) + RunAt(f, d - 2) /\ Q = g[d] + RunAt(g, d - 1) + RunAt(g, d - 2)
      OBVIOUS
    <3>2. R \in Nat
      BY <1>3, <3>1
    <3>3. k[d] = 3 * t[d] + R
      BY <1>5, <3>1 DEF MadeOf, MadeAt
    <3>4. Q = R + (IF d = c \/ d = c + 1 \/ d = c + 2 THEN 1 ELSE 0)
      BY <2>2, <2>4, <3>1 DEF RunsMove
    <3>5. h[d] = 3 * t[d] + Q
      BY <1>1, <1>3, <3>2, <3>3, <3>4
    <3>6. QED
      BY <3>1, <3>5 DEF MadeAt
  <2>6. QED
    BY <2>4, <2>5 DEF MadeOf
<1>6. QED
  BY <1>4, <1>5

(* What is made of melds is nothing, or loses a triplet or a run.          *)
MadeRest(h) == \/ h = None
               \/ \E c \in Card : h[c] >= 3 /\ Made(Remove(h, c, 3))
               \/ \E c \in Card : Window(h, c) /\ Made(Less(h, c))

LEMMA MadeStep ==
  ASSUME NEW h \in Bag
  PROVE  Made(h) <=> MadeRest(h)
<1>1. ASSUME NEW t \in Threes, NEW f \in Runs, MadeOf(h, t, f) PROVE MadeRest(h)
  <2>1. CASE \E c \in Card : t[c] = 1
    <3>1. PICK c \in Card : t[c] = 1
      BY <2>1
    <3>2. h[c] >= 3
      <4>1. PICK R : R = f[c] + RunAt(f, c - 1) + RunAt(f, c - 2)
        OBVIOUS
      <4>2. R \in Nat
        <5>1. f[c] \in Nat /\ RunAt(f, c - 1) \in Nat /\ RunAt(f, c - 2) \in Nat
          BY RunAtNat DEF Runs
        <5>2. QED
          BY <4>1, <5>1
      <4>3. h[c] = 3 * t[c] + R
        BY <1>1, <4>1 DEF MadeOf, MadeAt
      <4>4. QED
        BY <3>1, <4>2, <4>3
    <3>3. PICK g : g = Remove(h, c, 3)
      OBVIOUS
    <3>4. PICK s : s = [t EXCEPT ![c] = 0]
      OBVIOUS
    <3>5. MadeOf(g, s, f)
      BY <1>1, <3>1, <3>2, <3>3, <3>4, MadeThree
    <3>6. s \in Threes
      BY <3>4 DEF Threes
    <3>7. Made(g)
      BY <3>5, <3>6 DEF Made
    <3>8. QED
      BY <3>2, <3>3, <3>7 DEF MadeRest
  <2>2. CASE \E c \in Card : f[c] > 0
    <3>1. PICK c \in Card : f[c] > 0
      BY <2>2
    <3>2. Window(h, c)
      BY <1>1, <3>1, RunFits
    <3>3. PICK k : k = Less(h, c)
      OBVIOUS
    <3>4. \E g \in Runs : MadeOf(k, t, g)
      BY <1>1, <3>1, <3>2, <3>3, MadeRun
    <3>5. Made(k)
      BY <3>4 DEF Made
    <3>6. QED
      BY <3>2, <3>3, <3>5 DEF MadeRest
  <2>3. CASE (\A c \in Card : t[c] # 1) /\ (\A c \in Card : ~(f[c] > 0))
    <3>1. \A c \in Card : t[c] = 0 /\ f[c] = 0
      BY <2>3 DEF Threes, Runs
    <3>2. \A c \in Card : RunAt(f, c - 1) = 0 /\ RunAt(f, c - 2) = 0
      BY <3>1 DEF RunAt
    <3>3. \A c \in Card : h[c] = 0
      BY <1>1, <3>1, <3>2 DEF MadeOf, MadeAt
    <3>4. h = None
      BY <3>3 DEF Bag, None
    <3>5. QED
      BY <3>4 DEF MadeRest
  <2>4. QED
    BY <2>1, <2>2, <2>3
<1>2. ASSUME NEW c \in Card, h[c] >= 3, Made(Remove(h, c, 3)) PROVE Made(h)
  <2>1. PICK g : g = Remove(h, c, 3)
    OBVIOUS
  <2>2. PICK t \in Threes, f \in Runs : MadeOf(g, t, f)
    BY <1>2, <2>1 DEF Made
  <2>3. PICK s : s = [t EXCEPT ![c] = 1]
    OBVIOUS
  <2>4. MadeOf(h, s, f) /\ s \in Threes
    <3>1. s \in Threes
      BY <2>3 DEF Threes
    <3>2. QED
      BY <1>2, <2>1, <2>2, <2>3, <3>1, MadeThree
  <2>5. QED
    BY <2>4 DEF Made
<1>3. ASSUME NEW c \in Card, Window(h, c), Made(Less(h, c)) PROVE Made(h)
  <2>1. PICK k : k = Less(h, c)
    OBVIOUS
  <2>2. PICK t \in Threes, f \in Runs : MadeOf(k, t, f)
    BY <1>3, <2>1 DEF Made
  <2>3. \E g \in Runs : MadeOf(h, t, g)
    BY <1>3, <2>1, <2>2, MadeRun
  <2>4. QED
    BY <2>3 DEF Made
<1>4. Made(h) => MadeRest(h)
  BY <1>1 DEF Made
<1>5. MadeRest(h) => Made(h)
  BY <1>2, <1>3, MadeNone DEF MadeRest
<1>6. QED
  BY <1>4, <1>5

(* Melds is the recursive function its definition says, and computes Made. *)
MeldsEqn(M) ==
  M = [h \in [Card -> 0..Copies] |->
        \/ h = None
        \/ \E c \in Card : h[c] >= 3 /\ M[Remove(h, c, 3)]
        \/ \E c \in Card : /\ \A d \in c..(c + 2) : d \in Card /\ h[d] > 0
                           /\ M[[d \in Card |-> IF d \in c..(c + 2) THEN h[d] - 1 ELSE h[d]]]]

LEMMA MeldsIs == Melds = CHOOSE M : MeldsEqn(M)
BY Zenon DEF Melds, MeldsEqn

MeldsRest(M, h) == \/ h = None
                   \/ \E c \in Card : h[c] >= 3 /\ M[Remove(h, c, 3)]
                   \/ \E c \in Card : Window(h, c) /\ M[Less(h, c)]

\* The function, at a hand.
LEMMA MeldsAt ==
  ASSUME NEW M, MeldsEqn(M), NEW h \in Bag
  PROVE  M[h] = MeldsRest(M, h)
<1>1. M[h] = (\/ h = None
              \/ \E c \in Card : h[c] >= 3 /\ M[Remove(h, c, 3)]
              \/ \E c \in Card : /\ \A d \in c..(c + 2) : d \in Card /\ h[d] > 0
                                 /\ M[[d \in Card |-> IF d \in c..(c + 2) THEN h[d] - 1 ELSE h[d]]])
  BY Zenon DEF MeldsEqn, Bag
<1>2. QED
  BY <1>1, Zenon DEF MeldsRest, Window, Less

\* Made satisfies the equation,
LEMMA MeldsExists == \E M : MeldsEqn(M)
<1>1. PICK M : M = [h \in Bag |-> Made(h)]
  OBVIOUS
<1>2. \A h \in Bag : M[h] = Made(h)
  BY <1>1, Zenon
<1>3. ASSUME NEW h \in Bag
      PROVE  Made(h) = MeldsRest(M, h)
  <2>1. \A c \in Card : h[c] >= 3 => M[Remove(h, c, 3)] = Made(Remove(h, c, 3))
    <3>1. ASSUME NEW c \in Card, h[c] >= 3 PROVE Remove(h, c, 3) \in Bag
      <4>1. 3 \in 1 .. 3
        OBVIOUS
      <4>2. QED
        BY <3>1, <4>1, RemoveIs
    <3>2. QED
      BY <1>2, <3>1, Zenon
  <2>2. \A c \in Card : Window(h, c) => M[Less(h, c)] = Made(Less(h, c))
    <3>1. ASSUME NEW c \in Card, Window(h, c) PROVE Less(h, c) \in Bag
      BY <3>1, LessIs
    <3>2. QED
      BY <1>2, <3>1, Zenon
  <2>3. Made(h) <=> MadeRest(h)
    BY MadeStep
  <2>4. MadeRest(h) <=> MeldsRest(M, h)
    BY <2>1, <2>2, Zenon DEF MadeRest, MeldsRest
  <2>5. QED
    BY <2>3, <2>4 DEF Made, MeldsRest
<1>4. M = [h \in Bag |-> MeldsRest(M, h)]
  BY <1>1, <1>3, Zenon
<1>5. MeldsEqn(M)
  BY <1>4, Zenon DEF MeldsEqn, MeldsRest, Window, Less, Bag
<1>6. QED
  BY <1>5

\* and nothing else does: a smallest hand where another one differs cannot be.
LEMMA MeldsMade == \A h \in Bag : Melds[h] <=> Made(h)
<1>1. PICK M : M = Melds
  OBVIOUS
<1>2. MeldsEqn(M)
  BY <1>1, MeldsIs, MeldsExists, Zenon
<1> DEFINE Bad == {h \in Bag : ~(M[h] <=> Made(h))}
           N   == {Size(h) : h \in Bad}
<1>3. SUFFICES ASSUME Bad # {} PROVE FALSE
  BY <1>1, Zenon
<1>4. \A h \in Bag : Size(h) \in Nat
  <2>1. ASSUME NEW h \in Bag PROVE Size(h) \in Nat
    <3>1. h \in [Card -> Nat] /\ IsFiniteSet(Card) /\ DOMAIN h = Card
      BY SeatFacts DEF Bag
    <3>2. SumFunctionOnSet(h, Card) \in Nat
      BY <3>1, SumNat
    <3>3. QED
      BY <3>1, <3>2, Zenon DEF Size, SumFunction
  <2>2. QED
    BY <2>1
<1>5. PICK n \in N : \A m \in N : n <= m
  <2>1. N \in SUBSET Nat /\ N # {}
    BY <1>3, <1>4, Zenon
  <2> HIDE DEF N
  <2> QED BY <2>1, LeastNat
<1>6. PICK h \in Bad : n = Size(h)
  BY <1>5, Zenon
<1>7. h \in Bag /\ ~(M[h] <=> Made(h))
  BY <1>6, Zenon
<1>8. ASSUME NEW g \in Bag, Size(g) < Size(h)
      PROVE  M[g] <=> Made(g)
  <2>1. SUFFICES ASSUME ~(M[g] <=> Made(g)) PROVE FALSE
    BY Zenon
  <2>2. Size(g) \in N
    BY <2>1, Zenon
  <2>3. Size(h) <= Size(g)
    BY <1>5, <1>6, <2>2, Zenon
  <2>4. QED
    BY <1>4, <1>7, <1>8, <2>3
<1>9. \A c \in Card : h[c] >= 3 => (M[Remove(h, c, 3)] <=> Made(Remove(h, c, 3)))
  <2>1. ASSUME NEW c \in Card, h[c] >= 3
        PROVE  Remove(h, c, 3) \in Bag /\ Size(Remove(h, c, 3)) < Size(h)
    <3>1. 3 \in 1 .. 3
      OBVIOUS
    <3>2. QED
      BY <1>7, <2>1, <3>1, RemoveIs
  <2>2. QED
    BY <1>8, <2>1, Zenon
<1>10. \A c \in Card : Window(h, c) => (M[Less(h, c)] <=> Made(Less(h, c)))
  <2>1. ASSUME NEW c \in Card, Window(h, c)
        PROVE  Less(h, c) \in Bag /\ Size(Less(h, c)) < Size(h)
    BY <1>7, <2>1, LessIs
  <2>2. QED
    BY <1>8, <2>1, Zenon
<1>11. MadeRest(h) <=> MeldsRest(M, h)
  BY <1>9, <1>10, Zenon DEF MadeRest, MeldsRest
<1>12. M[h] = MeldsRest(M, h)
  BY <1>2, <1>7, MeldsAt, Zenon
<1>13. Made(h) <=> MadeRest(h)
  BY <1>7, MadeStep, Zenon
<1>14. QED
  BY <1>7, <1>11, <1>12, <1>13, Zenon

-----------------------------------------------------------------------------
(* The reference definition, in the same terms.                            *)

\* The runs that hold card c, one place at a time.
PartSum(f, S, x) ==
  /\ IsFiniteSet(S \ {x})
  /\ SumFunctionOnSet(f, S) \in Nat /\ SumFunctionOnSet(f, S \ {x}) \in Nat
  /\ SumFunctionOnSet(f, S) = (IF x \in S THEN f[x] ELSE 0) + SumFunctionOnSet(f, S \ {x})

\* An element more, if it is there at all.
LEMMA SumPart ==
  ASSUME NEW S, IsFiniteSet(S), NEW f, \A z \in S : f[z] \in Nat, NEW x
  PROVE  PartSum(f, S, x)
<1>1. IsFiniteSet(S \ {x})
  BY FS_Subset
<1>2. SumFunctionOnSet(f, S) \in Nat /\ SumFunctionOnSet(f, S \ {x}) \in Nat
  BY <1>1, SumNat
<1>3. CASE x \in S
  <2>1. \A z \in S : f[z] \in Int
    OBVIOUS
  <2>2. SumFunctionOnSet(f, S) = f[x] + SumFunctionOnSet(f, S \ {x})
    BY <1>3, <2>1, SumRemove
  <2>3. QED
    BY <1>1, <1>2, <1>3, <2>2 DEF PartSum
<1>4. CASE x \notin S
  <2>1. S \ {x} = S
    BY <1>4
  <2>2. PICK n : n = SumFunctionOnSet(f, S)
    OBVIOUS
  <2>3. SumFunctionOnSet(f, S \ {x}) = n /\ n \in Nat
    BY <1>2, <2>1, <2>2
  <2>4. n = 0 + n
    BY <2>3
  <2>5. QED
    BY <1>1, <1>4, <2>2, <2>3, <2>4 DEF PartSum
<1>5. QED
  BY <1>3, <1>4

LEMMA RunsAround ==
  ASSUME NEW D \in SUBSET Card, NEW run \in [D -> 0..Copies], NEW f,
         f = [c \in Card |-> IF c \in D THEN run[c] ELSE 0], NEW c \in Card
  PROVE  SumFunctionOnSet(run, {d \in DOMAIN run : c \in d..(d + 2)}) = f[c] + RunAt(f, c - 1) + RunAt(f, c - 2)
<1>1. PICK S : S = {d \in DOMAIN run : c \in d..(d + 2)}
  OBVIOUS
<1>2. c \in Nat /\ Card \subseteq Nat /\ IsFiniteSet(Card) /\ Copies \in Nat /\ S \subseteq D /\ S \subseteq Card
  BY <1>1, SeatFacts
<1>3. \A d : d \in S <=> d \in D /\ (d = c \/ d = c - 1 \/ d = c - 2)
  <2>1. ASSUME NEW d \in D PROVE c \in d..(d + 2) <=> (d = c \/ d = c - 1 \/ d = c - 2)
    <3>1. d \in Nat
      BY <1>2
    <3>2. QED
      BY <1>2, <3>1
  <2>2. QED
    BY <1>1, <2>1
<1>4. IsFiniteSet(S) /\ \A z \in S : run[z] \in Nat
  <2>1. IsFiniteSet(S)
    BY <1>2, FS_Subset
  <2>2. \A z \in D : run[z] \in Nat
    BY <1>2
  <2>3. QED
    BY <1>2, <2>1, <2>2
<1>5. \A x \in Int : RunAt(f, x) = IF x \in D THEN run[x] ELSE 0
  BY DEF RunAt
<1>6. PICK a, b : a = c - 1 /\ b = c - 2
  OBVIOUS
<1>7. a \in Int /\ b \in Int /\ a # b /\ a # c /\ b # c
  BY <1>2, <1>6
<1>8. PICK S1 : S1 = S \ {c}
  OBVIOUS
<1>9. PICK S2 : S2 = S1 \ {a}
  OBVIOUS
<1>10. PICK S3 : S3 = S2 \ {b}
  OBVIOUS
<1>11. S3 = {}
  BY <1>3, <1>6, <1>8, <1>9, <1>10
<1>12. /\ IsFiniteSet(S1) /\ SumFunctionOnSet(run, S1) \in Nat
       /\ SumFunctionOnSet(run, S) = (IF c \in S THEN run[c] ELSE 0) + SumFunctionOnSet(run, S1)
  <2>1. PartSum(run, S, c)
    BY <1>4, SumPart
  <2>2. QED
    BY <1>8, <2>1 DEF PartSum
<1>13. /\ IsFiniteSet(S2) /\ SumFunctionOnSet(run, S2) \in Nat
       /\ SumFunctionOnSet(run, S1) = (IF a \in S1 THEN run[a] ELSE 0) + SumFunctionOnSet(run, S2)
  <2>1. \A z \in S1 : run[z] \in Nat
    BY <1>4, <1>8
  <2>2. PartSum(run, S1, a)
    BY <1>12, <2>1, SumPart, Zenon
  <2>3. QED
    BY <1>9, <2>2 DEF PartSum
<1>14. SumFunctionOnSet(run, S2) = (IF b \in S2 THEN run[b] ELSE 0) + SumFunctionOnSet(run, S3)
  <2>1. \A z \in S2 : run[z] \in Nat
    BY <1>4, <1>8, <1>9
  <2>2. PartSum(run, S2, b)
    BY <1>13, <2>1, SumPart, Zenon
  <2>3. QED
    BY <1>10, <2>2 DEF PartSum
<1>15. SumFunctionOnSet(run, S3) = 0
  BY <1>11, SumEmpty
<1>16. /\ f[c] = (IF c \in S THEN run[c] ELSE 0) /\ RunAt(f, a) = (IF a \in S1 THEN run[a] ELSE 0)
       /\ RunAt(f, b) = (IF b \in S2 THEN run[b] ELSE 0)
  <2>1. (c \in S <=> c \in D) /\ (a \in S1 <=> a \in D) /\ (b \in S2 <=> b \in D)
    BY <1>3, <1>6, <1>7, <1>8, <1>9
  <2>2. f[c] = (IF c \in D THEN run[c] ELSE 0)
    OBVIOUS
  <2>3. RunAt(f, a) = (IF a \in D THEN run[a] ELSE 0) /\ RunAt(f, b) = (IF b \in D THEN run[b] ELSE 0)
    BY <1>5, <1>7
  <2>4. QED
    BY <2>1, <2>2, <2>3
<1>17. f[c] \in Nat /\ RunAt(f, a) \in Nat /\ RunAt(f, b) \in Nat
  <2>1. /\ (c \in S => run[c] \in Nat) /\ (a \in S1 => run[a] \in Nat)
        /\ (b \in S2 => run[b] \in Nat)
    BY <1>4, <1>8, <1>9
  <2>2. QED
    BY <1>16, <2>1
<1>18. SumFunctionOnSet(run, S) = f[c] + (RunAt(f, a) + RunAt(f, b))
  BY <1>12, <1>13, <1>14, <1>15, <1>16, <1>17
<1>19. QED
  BY <1>1, <1>6, <1>17, <1>18

\* What adds up to a hand is found,
LEMMA CompleteIsHu ==
  ASSUME NEW h \in Bag, CompleteHand(h)
  PROVE  isCanHu(h)
<1> DEFINE D == {c \in Card : \A d \in c..(c + 2) : d \in Card /\ h[d] > 0}
<1>1. PICK pair \in {c \in Card : h[c] >= 2}, trip \in SUBSET {c \in Card : h[c] >= 3}, run \in [D -> 0..Copies] :
        \A c \in Card :
          h[c] = (IF c = pair THEN 2 ELSE 0) + (IF c \in trip THEN 3 ELSE 0)
                 + SumFunctionOnSet(run, {d \in DOMAIN run : c \in d..(d + 2)})
  BY Zenon DEF CompleteHand
<1>2. \A c : c \in D <=> c \in Card /\ Window(h, c)
  BY Zenon DEF Window
<1> HIDE DEF D
<1>3. D \in SUBSET Card /\ pair \in Card /\ h[pair] >= 2 /\ Copies \in Nat
  BY <1>1, <1>2, SeatFacts
<1>4. PICK t : t = [c \in Card |-> IF c \in trip THEN 1 ELSE 0]
  OBVIOUS
<1>5. PICK f : f = [c \in Card |-> IF c \in D THEN run[c] ELSE 0]
  OBVIOUS
<1>6. t \in Threes
  BY <1>4 DEF Threes
<1>7. f \in Runs
  <2>1. f \in [Card -> Nat]
    <3>1. \A c \in D : run[c] \in Nat
      BY <1>3
    <3>2. QED
      BY <1>5, <3>1
  <2>2. ASSUME NEW c \in Card, f[c] > 0 PROVE c + 1 \in Card /\ c + 2 \in Card
    <3>1. c \in D
      BY <1>5, <2>2
    <3>2. Window(h, c)
      BY <1>2, <3>1
    <3>3. QED
      BY <3>2, WindowIs
  <2>3. QED
    BY <2>1, <2>2 DEF Runs
<1>8. PICK g : g = Remove(h, pair, 2)
  OBVIOUS
<1>9. g \in Bag /\ \A d \in Card : g[d] = h[d] - (IF d = pair THEN 2 ELSE 0)
  <2>1. 2 \in 1 .. 3
    OBVIOUS
  <2>2. QED
    BY <1>3, <1>8, <2>1, RemoveIs
<1>10. ASSUME NEW c \in Card PROVE MadeAt(g, t, f, c)
  <2>1. PICK R : R = f[c] + RunAt(f, c - 1) + RunAt(f, c - 2)
    OBVIOUS
  <2>2. R \in Nat
    <3>1. f[c] \in Nat /\ RunAt(f, c - 1) \in Nat /\ RunAt(f, c - 2) \in Nat
      BY <1>7, RunAtNat DEF Runs
    <3>2. QED
      BY <2>1, <3>1
  <2>3. SumFunctionOnSet(run, {d \in DOMAIN run : c \in d..(d + 2)}) = R
    BY <1>3, <1>5, <2>1, RunsAround
  <2>4. h[c] = (IF c = pair THEN 2 ELSE 0) + (IF c \in trip THEN 3 ELSE 0) + R
    BY <1>1, <2>3, Zenon
  <2>5. t[c] = IF c \in trip THEN 1 ELSE 0
    BY <1>4
  <2>6. g[c] = 3 * t[c] + R
    <3>1. g[c] = h[c] - (IF c = pair THEN 2 ELSE 0)
      BY <1>9
    <3>2. QED
      BY <2>2, <2>4, <2>5, <3>1
  <2>7. QED
    BY <2>1, <2>6 DEF MadeAt
<1>11. Made(g)
  BY <1>6, <1>7, <1>10 DEF Made, MadeOf
<1>12. Melds[g]
  BY <1>9, <1>11, MeldsMade, Zenon
<1>13. QED
  BY <1>3, <1>8, <1>12, Zenon DEF isCanHu, compute

AddsUp(h, pair, trip, run) ==
  \A c \in Card :
    h[c] = (IF c = pair THEN 2 ELSE 0) + (IF c \in trip THEN 3 ELSE 0)
           + SumFunctionOnSet(run, {d \in DOMAIN run : c \in d..(d + 2)})

\* and what is found adds up.
LEMMA HuIsComplete ==
  ASSUME NEW h \in Bag, isCanHu(h)
  PROVE  CompleteHand(h)
<1>1. PICK pair \in Card : h[pair] >= 2 /\ Melds[Remove(h, pair, 2)]
  BY Zenon DEF isCanHu, compute
<1>2. PICK g : g = Remove(h, pair, 2)
  OBVIOUS
<1>3. g \in Bag /\ \A d \in Card : g[d] = h[d] - (IF d = pair THEN 2 ELSE 0)
  <2>1. 2 \in 1 .. 3
    OBVIOUS
  <2>2. QED
    BY <1>1, <1>2, <2>1, RemoveIs
<1>4. Made(g)
  BY <1>1, <1>2, <1>3, MeldsMade, Zenon
<1>5. PICK t \in Threes, f \in Runs : MadeOf(g, t, f)
  BY <1>4 DEF Made
<1>6. \A c \in Card : /\ g[c] \in 0 .. Copies /\ h[c] \in 0 .. Copies /\ Copies \in Nat
                      /\ t[c] \in {0, 1} /\ f[c] \in Nat
                      /\ RunAt(f, c - 1) \in Nat /\ RunAt(f, c - 2) \in Nat
  <2>1. \A c \in Card : RunAt(f, c - 1) \in Nat /\ RunAt(f, c - 2) \in Nat
    BY RunAtNat
  <2>2. QED
    BY <1>3, <2>1, SeatFacts DEF Bag, Threes, Runs
<1> DEFINE D == {c \in Card : \A d \in c..(c + 2) : d \in Card /\ h[d] > 0}
<1>7. \A c : c \in D <=> c \in Card /\ Window(h, c)
  BY Zenon DEF Window
<1>8. \A c \in Card : f[c] > 0 => c \in D
  <2>1. ASSUME NEW c \in Card, f[c] > 0 PROVE Window(h, c)
    <3>1. Window(g, c)
      BY <1>3, <1>5, <2>1, RunFits
    <3>2. \A d \in Card : g[d] > 0 => h[d] > 0
      <4>1. ASSUME NEW d \in Card, g[d] > 0 PROVE h[d] > 0
        BY <1>3, <1>6, <4>1
      <4>2. QED
        BY <4>1
    <3>3. QED
      BY <3>1, <3>2 DEF Window
  <2>2. QED
    BY <1>7, <2>1
<1>9. PICK trip : trip = {c \in Card : t[c] = 1}
  OBVIOUS
<1>10. PICK run : run = [c \in D |-> f[c]]
  OBVIOUS
<1>11. \A c \in Card : h[c] = (IF c = pair THEN 2 ELSE 0) + (IF c \in trip THEN 3 ELSE 0)
                                + (f[c] + RunAt(f, c - 1) + RunAt(f, c - 2))
  <2>1. ASSUME NEW c \in Card
        PROVE  h[c] = (IF c = pair THEN 2 ELSE 0) + (IF c \in trip THEN 3 ELSE 0)
                      + (f[c] + RunAt(f, c - 1) + RunAt(f, c - 2))
    <3>1. PICK R : R = f[c] + RunAt(f, c - 1) + RunAt(f, c - 2)
      OBVIOUS
    <3>2. R \in Nat
      BY <1>6, <3>1
    <3>3. g[c] = 3 * t[c] + R
      BY <1>5, <3>1 DEF MadeOf, MadeAt
    <3>4. g[c] = h[c] - (IF c = pair THEN 2 ELSE 0) /\ (c \in trip <=> t[c] = 1)
      BY <1>3, <1>9
    <3>5. t[c] \in {0, 1} /\ h[c] \in Nat
      BY <1>6
    <3>6. h[c] = (IF c = pair THEN 2 ELSE 0) + (IF c \in trip THEN 3 ELSE 0) + R
      <4>1. PICK a, b : a = (IF c = pair THEN 2 ELSE 0) /\ b = (IF c \in trip THEN 3 ELSE 0)
        OBVIOUS
      <4>2. a \in Nat /\ b \in Nat /\ b = 3 * t[c]
        BY <3>4, <3>5, <4>1
      <4>3. g[c] = h[c] - a
        BY <3>4, <4>1
      <4>4. h[c] = a + b + R
        BY <3>2, <3>3, <3>5, <4>2, <4>3
      <4>5. QED
        BY <4>1, <4>4
    <3>7. QED
      BY <3>1, <3>6
  <2>2. QED
    BY <2>1
<1>12. \A c \in Card : f[c] \in 0 .. Copies /\ (t[c] = 1 => h[c] >= 3)
  <2>1. ASSUME NEW c \in Card PROVE f[c] \in 0 .. Copies /\ (t[c] = 1 => h[c] >= 3)
    <3>1. PICK a, b : a = RunAt(f, c - 1) /\ b = RunAt(f, c - 2)
      OBVIOUS
    <3>2. g[c] = 3 * t[c] + (f[c] + a + b)
      BY <1>5, <3>1 DEF MadeOf, MadeAt
    <3>3. a \in Nat /\ b \in Nat /\ f[c] \in Nat /\ t[c] \in {0, 1} /\ g[c] \in 0 .. Copies /\ Copies \in Nat /\ h[c] \in Nat
      BY <1>6, <3>1
    <3>4. g[c] = h[c] - (IF c = pair THEN 2 ELSE 0)
      BY <1>3
    <3>5. f[c] <= g[c]
      BY <3>2, <3>3
    <3>6. t[c] = 1 => g[c] >= 3
      BY <3>2, <3>3
    <3>7. QED
      BY <3>3, <3>4, <3>5, <3>6
  <2>2. QED
    BY <2>1
<1>13. trip \in SUBSET {c \in Card : h[c] >= 3} /\ pair \in {c \in Card : h[c] >= 2}
  BY <1>1, <1>9, <1>12
<1>14. run \in [D -> 0 .. Copies] /\ D \in SUBSET Card
  BY <1>10, <1>12
<1>15. f = [c \in Card |-> IF c \in D THEN run[c] ELSE 0]
  <2>1. \A c \in Card : f[c] = IF c \in D THEN run[c] ELSE 0
    <3> HIDE DEF D
    <3> QED BY <1>6, <1>8, <1>10
  <2>2. f \in [Card -> Nat]
    BY DEF Runs
  <2> HIDE DEF D
  <2>3. QED
    BY <2>1, <2>2
<1>16. \A c \in Card : SumFunctionOnSet(run, {d \in DOMAIN run : c \in d..(d + 2)}) = f[c] + RunAt(f, c - 1) + RunAt(f, c - 2)
  <2> HIDE DEF D
  <2> QED BY <1>14, <1>15, RunsAround
<1>17. \A c \in Card :
         h[c] = (IF c = pair THEN 2 ELSE 0) + (IF c \in trip THEN 3 ELSE 0)
                + SumFunctionOnSet(run, {d \in DOMAIN run : c \in d..(d + 2)})
  BY <1>11, <1>16, Zenon
<1>18. AddsUp(h, pair, trip, run)
  BY <1>17, Zenon DEF AddsUp
<1>19. \E p \in {c \in Card : h[c] >= 2}, q \in SUBSET {c \in Card : h[c] >= 3}, m \in [D -> 0 .. Copies] :
         AddsUp(h, p, q, m)
  <2> HIDE DEF D
  <2> QED BY <1>13, <1>14, <1>18, Zenon
<1>20. QED
  BY <1>19, Zenon DEF CompleteHand, AddsUp

LEMMA HuExact == \A h \in Bag : isCanHu(h) <=> CompleteHand(h)
BY CompleteIsHu, HuIsComplete

(* The search for melds finds a win exactly when there is one, for every   *)
(* set of cards and every hand play leads to.                              *)
THEOREM HuTellsCompleteHands == Spec => []HuIsExact
<1>1. ASSUME TypeOK PROVE HuIsExact
  <2>1. ASSUME NEW i \in Seat PROVE isCanHu(r.hand[i]) <=> CompleteHand(r.hand[i])
    <3>1. r.hand[i] \in Bag
      BY <1>1, Zenon DEF TypeOK
    <3>2. QED
      BY <3>1, HuExact, Zenon
  <2>2. ASSUME NEW i \in Seat, r.gangs # <<>>, NEW c, c = r.gangs[Len(r.gangs)][2],
               NEW h, h = [r.hand[i] EXCEPT ![c] = IF @ < Copies THEN @ + 1 ELSE @]
        PROVE  isCanHu(h) <=> CompleteHand(h)
    <3>1. PICK k, q : k = r.hand[i] /\ q = r.gangs
      OBVIOUS
    <3>2. k \in Bag /\ q \in Seq(Seat \X Card)
      BY <1>1, <3>1 DEF TypeOK
    <3>3. q[Len(q)] \in Seat \X Card
      BY <2>2, <3>1, <3>2
    <3>4. c \in Card
      BY <2>2, <3>1, <3>3
    <3>5. k[c] \in 0 .. Copies /\ Copies \in Nat
      BY <3>2, <3>4, SeatFacts DEF Bag
    <3>6. (IF k[c] < Copies THEN k[c] + 1 ELSE k[c]) \in 0 .. Copies
      BY <3>5
    <3>7. h = [k EXCEPT ![c] = IF k[c] < Copies THEN k[c] + 1 ELSE k[c]]
      BY <2>2, <3>1
    <3>8. h \in Bag
      BY <3>2, <3>6, <3>7 DEF Bag
    <3>9. QED
      BY <3>8, HuExact, Zenon
  <2>3. QED
    BY <2>1, <2>2, Zenon DEF HuIsExact
<1>2. CardsInv /\ Tallies => HuIsExact
  BY <1>1, TypesAre
<1>3. QED
  BY <1>2, CardsAlways, PTL

=============================================================================
