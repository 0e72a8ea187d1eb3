----------------------------- MODULE GameRound -----------------------------
(***************************************************************************)
(* One round of mahjong: gameserver/logic/common/gameRound.lua with the    *)
(* rules of gamegdmj/gameRoundLogicGD.lua and the wall of mahjongPool.lua. *)
(*                                                                         *)
(* Every handler (a client's command, a timer's callback) runs without a   *)
(* skynet.call, so a handler is one step: it is an operator from the       *)
(* state of the round, a record, to the set of states it may leave.  A     *)
(* handler that ends in a Lua error leaves what it had changed, with err   *)
(* set; when it was a timer's, schedulerMgr:update is unwound and the      *)
(* table's timers stop (ticking).                                          *)
(*                                                                         *)
(* A hand is a bag of cards, a function from cards to their number.  Time  *)
(* is left out: a pending timer may fire at any moment (so the AI flag,    *)
(* which only shortens a wait, is left out too), and the card a timeout    *)
(* discards is any card of the hand.  The table stops when a round ends,   *)
(* as it does in a money room and after the last round of a battle; its    *)
(* settlement is one step here and has its calls in GameTable.tla.         *)
(* Packets and the horse cards turned up at the end are left out.          *)
(***************************************************************************)
EXTENDS Integers, Sequences, FiniteSets, FiniteSetsExt, Functions

CONSTANTS
  NPlayer,    \* onGetPlayerCount()
  Card,       \* card values; c, c + 1, c + 2 are a run
  Copies,     \* of each card in the wall
  DealCount,  \* onGetDealCardCount()
  Stacks,     \* the orders in which the wall may begin (onStackCard)
  MaxRound,   \* bound: rounds started
  MaxErr      \* bound: handlers that end in an error

Seat == 1..NPlayer

ASSUME GameRoundAssumption ==
  /\ {NPlayer, Copies, DealCount, MaxRound, MaxErr} \subseteq Nat \ {0}
  /\ NPlayer > 1 /\ Copies <= 4   \* both are 4 in the code
  /\ Card \subseteq Nat /\ IsFiniteSet(Card)
  /\ \A s \in Stacks :
       /\ s \in Seq(Card) /\ Len(s) >= NPlayer * DealCount
       /\ \A c \in Card : Cardinality({k \in DOMAIN s : s[k] = c}) <= Copies

VARIABLES
  r,        \* the GameRound, the wall and the players' cards
  playing,  \* m_tableStatus = GAME_STATUS_PLAYING
  ticking,  \* schedulerMgr has a timeout pending
  errs,     \* handlers that ended in a Lua error
  rounds    \* rounds started

vars == <<r, playing, ticking, errs, rounds>>

failed == errs > 0

Timer == {"makeBanker", "dealCards", "drawCard", "outCard",
          "opOutCard", "opDarwCard", "opBuGangCard"}

None == [c \in Card |-> 0]
Remove(h, c, n) == [h EXCEPT ![c] = @ - n]
Size(h) == SumFunction(h)

\* One entry of m_pCurOpUserTable: iOpValue > 0, iOpTable and iSelectOp.
Offer(tab) == [val |-> tab # {}, tab |-> tab, sel |-> {}]
onClearUserOp == [i \in Seat |-> Offer({})]

NoWin == [seat |-> 0, from |-> 0, op |-> "none", card |-> 0, turn |-> <<>>]

Init ==
  /\ r = [status |-> "none", cur |-> -1, timers |-> {}, opt |-> <<>>,
          seated |-> FALSE, pool |-> None, stack |-> <<>>, out |-> None,
          hand |-> [i \in Seat |-> None], meld |-> [i \in Seat |-> <<>>],
          gangs |-> <<>>, win |-> NoWin, over |-> TRUE, err |-> FALSE]
  /\ playing = FALSE /\ ticking = TRUE /\ errs = 0 /\ rounds = 0

-----------------------------------------------------------------------------
(* Timers.                                                                 *)

startTimer(s, k) == [s EXCEPT !.timers = @ \cup {k}]
stopTimer(s, ks) == [s EXCEPT !.timers = @ \ ks]

\* "opBuGangCard" is not among the timers it stops.
clearAllRoundTimer(s) ==
  stopTimer(s, {"drawCard", "dealCards", "outCard", "opOutCard", "opDarwCard", "makeBanker"})

onReset(s) ==
  [clearAllRoundTimer(s) EXCEPT !.status = "none", !.opt = <<>>, !.gangs = <<>>, !.cur = -1]

Error(s) == [s EXCEPT !.err = TRUE]

-----------------------------------------------------------------------------
(* The rules.                                                              *)

\* Take a triplet or a run away, in every way, until nothing is left.
Melds[h \in [Card -> 0..Copies]] ==
  \/ h = None
  \/ \E c \in Card : h[c] >= 3 /\ Melds[Remove(h, c, 3)]
  \/ \E c \in Card : /\ \A d \in c..(c + 2) : d \in Card /\ h[d] > 0
                     /\ Melds[[d \in Card |-> IF d \in c..(c + 2) THEN h[d] - 1 ELSE h[d]]]

\* Mutant: only triplets are taken away.
compute_no_runs(h) == \A c \in Card : h[c] \in {0, 3}

compute(h) == Melds[h]

\* isCanHu and isNormalHu: a pair, and compute on the rest.
isCanHu(h) == \E c \in Card : h[c] >= 2 /\ compute(Remove(h, c, 2))

isCanPeng(h, c)      == h[c] >= 2
isCanGang(h, c)      == h[c] >= 3
isCanAnGang(h, c)    == h[c] >= 4
isCanBuGang(row, c)  == <<"PENG", c>> \in Range(row)

onGetUserOpValueWhenDrawCard(s, i, card) ==
       {<<"AN_GANG", c>> : c \in {c \in Card : isCanAnGang(s.hand[i], c)}}
  \cup {<<"BU_GANG", c>> : c \in {c \in Card : s.hand[i][c] > 0 /\ isCanBuGang(s.meld[i], c)}}
  \cup (IF isCanHu(s.hand[i]) THEN {<<"ZIMO", card>>} ELSE {})

onGetUserOpValueWhenOutCard(s, i, card) ==
       (IF isCanGang(s.hand[i], card) THEN {<<"GANG", card>>} ELSE {})
  \cup (IF isCanPeng(s.hand[i], card) THEN {<<"PENG", card>>} ELSE {})

onGetUserOpValueWhenBuGang(s, i, card) ==
  IF isCanHu([s.hand[i] EXCEPT ![card] = @ + 1]) THEN {<<"QIANGGANGHU", card>>} ELSE {}

\* What a seat gets at the end, in units of iBasePoint.
onSetHuTurnMonyInfo(i, from, op) ==
  [k \in Seat |->
     IF op = "ZIMO" THEN IF k = i THEN 2 * (NPlayer - 1) ELSE -2
     ELSE IF k = from THEN -6 ELSE IF k = i THEN 6 ELSE 0]

-----------------------------------------------------------------------------
(* The end of a round.                                                     *)

\* onGetGameStopHuInfo takes the length of iQGHSeatIds of every kong that was
\* counted, a field no code sets.
SettlementFails(s) == s.gangs # <<>>

\* The timers are cleared first; then the table settles and resets the round.
onGameStopRound(s) ==
  LET t == clearAllRoundTimer(s)
  IN  IF SettlementFails(t) THEN {Error(t)} ELSE {[onReset(t) EXCEPT !.over = TRUE]}

-----------------------------------------------------------------------------
(* The wall and the draw.                                                  *)

Draws(s) == IF s.stack # <<>> THEN {Head(s.stack)} ELSE {c \in Card : s.pool[c] > 0}
pop(s, c) == [s EXCEPT !.pool = Remove(@, c, 1),
                       !.stack = IF @ = <<>> THEN @ ELSE Tail(@)]

\* Mutant: the wait for the operations on a drawn card has no timeout.
AfterDraw_no_timer(s, i, card) ==
  LET tab == onGetUserOpValueWhenDrawCard(s, i, card)
      t   == [s EXCEPT !.opt = [onClearUserOp EXCEPT ![i] = Offer(tab)], !.cur = i]
  IN  IF tab # {}
      THEN [t EXCEPT !.status = "opDraw"]
      ELSE startTimer([t EXCEPT !.status = "out"], "outCard")

\* The player may operate on what was drawn, or must discard.
AfterDraw(s, i, card) ==
  LET tab == onGetUserOpValueWhenDrawCard(s, i, card)
      t   == [s EXCEPT !.opt = [onClearUserOp EXCEPT ![i] = Offer(tab)], !.cur = i]
  IN  IF tab # {}
      THEN startTimer([t EXCEPT !.status = "opDraw"], "opDarwCard")
      ELSE startTimer([t EXCEPT !.status = "out"], "outCard")

\* Mutant: an empty wall does not end the round.
drawCard_no_stop(s, i) ==
  IF s.status # "draw" \/ Size(s.pool) = 0 THEN {s}
  ELSE {AfterDraw([pop(s, c) EXCEPT !.hand[i][c] = @ + 1], i, c) : c \in Draws(s)}

drawCard(s, i) ==
  IF s.status # "draw" THEN {s}
  ELSE IF Size(s.pool) = 0 THEN onGameStopRound(s)
  ELSE {AfterDraw([pop(s, c) EXCEPT !.hand[i][c] = @ + 1], i, c) : c \in Draws(s)}

Drawing(s, cur) == [s EXCEPT !.status = "draw", !.cur = cur]
onGetNextSeat(i) == IF i = NPlayer THEN 1 ELSE i + 1

-----------------------------------------------------------------------------
(* The start: onGameStart, then a timer for each step of the preparation.  *)

\* m_logic:onMakeBanker always names seat 1.
onGameStart(s) ==
  {startTimer([onReset(s) EXCEPT !.seated = TRUE, !.over = FALSE, !.win = NoWin,
                 !.hand = [i \in Seat |-> None], !.meld = [i \in Seat |-> <<>>],
                 !.out = None, !.pool = [c \in Card |-> Copies], !.stack = stack, !.cur = 1],
              "makeBanker") : stack \in Stacks}

process_dealCards(s) ==
  LET dealt(i) == {(i - 1) * DealCount + j : j \in 1..DealCount}
      n == NPlayer * DealCount
      among(ks, c) == Cardinality({k \in ks : s.stack[k] = c})
  IN  startTimer([s EXCEPT
        !.hand  = [i \in Seat |-> [c \in Card |-> @[i][c] + among(dealt(i), c)]],
        !.pool  = [c \in Card |-> @[c] - among(1..n, c)],
        !.stack = SubSeq(@, n + 1, Len(@))], "dealCards")

\* The progress is over: seat 1 is the first to draw.
onDealCardsTimerCallback(s) == startTimer(Drawing(s, 1), "drawCard")

-----------------------------------------------------------------------------
(* Operations: kongs, pungs and wins.                                      *)

\* The first meld of a row that is m becomes an op of the same card.
Regrade(row, m, op) ==
  LET at == {k \in DOMAIN row : row[k] = m}
  IN  IF at = {} THEN row ELSE [row EXCEPT ![Min(at)] = <<op, m[2]>>]

\* Mutant: a robbed kong stays a kong.
onDealClientUserHu_kong_stays(s, i, op) ==
  LET robbed == {k \in Seat : <<"BU_GANG", op[2]>> \in Range(s.meld[k])}
      from   == IF op[1] = "QIANGGANGHU" /\ robbed # {} THEN Max(robbed) ELSE s.cur
  IN  [s EXCEPT !.gangs = IF op[1] = "QIANGGANGHU" THEN SubSeq(@, 1, Len(@) - 1) ELSE @,
                !.win = [seat |-> i, from |-> from, op |-> op[1], card |-> op[2],
                         turn |-> onSetHuTurnMonyInfo(i, from, op[1])]]

\* A robbed kong becomes a pung again and the last kong counted is dropped.
onDealClientUserHu(s, i, op) ==
  LET rob    == op[1] = "QIANGGANGHU"
      robbed == {k \in Seat : <<"BU_GANG", op[2]>> \in Range(s.meld[k])}
      from   == IF rob /\ robbed # {} THEN Max(robbed) ELSE s.cur
  IN  [s EXCEPT
        !.meld  = IF rob THEN [k \in Seat |-> Regrade(@[k], <<"BU_GANG", op[2]>>, "PENG")] ELSE @,
        !.gangs = IF rob THEN SubSeq(@, 1, Len(@) - 1) ELSE @,
        !.win   = [seat |-> i, from |-> from, op |-> op[1], card |-> op[2],
                   turn |-> onSetHuTurnMonyInfo(i, from, op[1])]]

\* Mutant: an exposed kong takes two cards, like a pung.
pCardCount_gang(op) == CASE op = "PENG" -> 2 [] op = "GANG" -> 2
                         [] op = "BU_GANG" -> 1 [] op = "AN_GANG" -> 4

\* Cards a player lays down; the claimed discard stays in the discarder's row.
pCardCount(op) == CASE op = "PENG" -> 2 [] op = "GANG" -> 3
                    [] op = "BU_GANG" -> 1 [] op = "AN_GANG" -> 4

LayDown(s, i, op) ==
  [s EXCEPT !.meld[i] = IF op[1] = "BU_GANG" THEN Regrade(@, <<"PENG", op[2]>>, "BU_GANG")
                                             ELSE Append(@, op),
            !.hand[i][op[2]] = Max({@ - pCardCount(op[1]), 0})]

\* onDealGangTurnMoney: a BU_GANG is counted, an AN_GANG calls isBAnGang, which
\* does not exist, and an exposed GANG is not tested for.
onDealGangTurnMoney(s, i, op) ==
  IF op[1] = "BU_GANG" THEN [s EXCEPT !.gangs = Append(@, <<i, op[2]>>)] ELSE s

\* The others may rob an added kong; any other kong draws, a pung discards.
onDealClientUserTakeOp(s, i, op) ==
  LET laid == LayDown(s, i, op)
      paid == onDealGangTurnMoney(laid, i, op)
      t    == [paid EXCEPT !.opt = [j \in Seat |->
                 IF op[1] = "BU_GANG" /\ j # i
                 THEN Offer(onGetUserOpValueWhenBuGang(paid, j, op[2])) ELSE Offer({})]]
  IN  IF op[1] = "AN_GANG" THEN {Error(laid)}
      ELSE IF \E j \in Seat : t.opt[j].val
      THEN {startTimer([t EXCEPT !.status = "opBuGang"], "opBuGangCard")}
      ELSE IF op[1] = "PENG"
      THEN {startTimer([t EXCEPT !.status = "out", !.cur = i], "outCard")}
      ELSE drawCard(Drawing(t, 0), i)

\* Everybody has answered, or the time is up: the first seat with a choice
\* gets it, else the turn goes on.
onClientUserHasAllOp(s) ==
  LET t      == stopTimer(s, {"opOutCard", "opDarwCard", "opBuGangCard"})
      chosen == {i \in Seat : t.opt[i].val /\ t.opt[i].sel # {}}
      first  == Min(chosen)
      op     == CHOOSE o \in t.opt[first].sel : TRUE
      u      == [t EXCEPT !.opt = onClearUserOp]
  IN  IF ~s.seated THEN {t}
      ELSE IF s.opt = <<>> THEN {Error(t)}
      ELSE IF chosen # {}
      THEN IF op[1] \in {"ZIMO", "QIANGGANGHU"}
           THEN onGameStopRound(onDealClientUserHu(t, first, op))
           ELSE onDealClientUserTakeOp(t, first, op)
      ELSE CASE s.status = "opOut"    -> drawCard(Drawing(u, u.cur), onGetNextSeat(u.cur))
             [] s.status = "opDraw"   -> {startTimer([u EXCEPT !.status = "out"], "outCard")}
             [] s.status = "opBuGang" -> drawCard(Drawing(u, u.cur), u.cur)
             [] OTHER -> {u}

-----------------------------------------------------------------------------
(* Commands of the clients.                                                *)

\* Mutant: the command of any seat is accepted.
CanDiscard_any_seat(s, i, c) == s.hand[i][c] > 0 /\ s.status \in {"out", "opDraw"}

CanDiscard(s, i, c) == s.hand[i][c] > 0 /\ s.status \in {"out", "opDraw"} /\ s.cur = i

\* The "opDarwCard" timer of a player who discards instead of operating stays.
onClientCmdOutCard(s, i, c) ==
  LET t    == [stopTimer(s, {"outCard"}) EXCEPT !.hand[i] = Remove(@, c, 1), !.out[c] = @ + 1]
      tabs == [j \in Seat |-> IF j = i THEN {} ELSE onGetUserOpValueWhenOutCard(t, j, c)]
      u    == [t EXCEPT !.opt = [j \in Seat |-> Offer(tabs[j])]]
  IN  IF ~CanDiscard(s, i, c) THEN {s}
      ELSE IF \E j \in Seat : tabs[j] # {}
      THEN {startTimer([u EXCEPT !.status = "opOut"], "opOutCard")}
      ELSE drawCard(Drawing(u, 0), onGetNextSeat(i))

\* op is an operation or GUO.  What was not offered counts as a pass; a choice
\* withdraws what the others could still do (none of them holds HU, the one
\* operation that would stay).
onClientCmdTakeOpreation(s, i, op) ==
  LET match == s.opt[i].val /\ s.opt[i].sel = {} /\ op \in s.opt[i].tab
      opt   == IF match
               THEN [j \in Seat |-> IF j = i THEN [s.opt[i] EXCEPT !.sel = {op}]
                                             ELSE [s.opt[j] EXCEPT !.val = FALSE]]
               ELSE [s.opt EXCEPT ![i].val = FALSE]
      t     == [s EXCEPT !.opt = opt]
  IN  IF s.status \notin {"opOut", "opDraw", "opBuGang"} THEN {s}
      ELSE IF \E j \in Seat : opt[j].val /\ opt[j].sel = {} THEN {t}
      ELSE onClientUserHasAllOp(t)

onOutCardTimerTimeOut(s) ==
  UNION {onClientCmdOutCard(s, s.cur, c) : c \in {c \in Card : s.hand[s.cur][c] > 0}}

-----------------------------------------------------------------------------
(* Steps.                                                                  *)

Fresh == [r EXCEPT !.err = FALSE]

\* A handler leaves the round in state s.
Handled(s) ==
  /\ r' = s
  /\ errs < MaxErr /\ errs' = IF s.err THEN errs + 1 ELSE errs
  /\ playing' = (playing /\ ~s.over)
  /\ UNCHANGED rounds

callback(s, k) ==
  CASE k = "makeBanker" -> {process_dealCards(s)}
    [] k = "dealCards"  -> {onDealCardsTimerCallback(s)}
    [] k = "drawCard"   -> drawCard(s, s.cur)
    [] k = "outCard"    -> onOutCardTimerTimeOut(s)
    [] OTHER            -> onClientUserHasAllOp(s)

Fire(k) ==
  /\ ticking /\ k \in r.timers
  /\ \E s \in callback(stopTimer(Fresh, {k}), k) : Handled(s) /\ ticking' = ~s.err

Discard(i, c) ==
  /\ playing
  /\ \E s \in onClientCmdOutCard(Fresh, i, c) : Handled(s)
  /\ UNCHANGED ticking

Operate(i, op) ==
  /\ playing
  /\ \E s \in onClientCmdTakeOpreation(Fresh, i, op) : Handled(s)
  /\ UNCHANGED ticking

\* onCheckGameTableStartGame, with everybody seated and ready.
Start ==
  /\ ~playing /\ rounds < MaxRound
  /\ \E s \in onGameStart(Fresh) : r' = s
  /\ playing' = TRUE
  /\ rounds' = rounds + 1
  /\ UNCHANGED <<ticking, errs>>

\* A failed login of the owner dismisses the room under a round that is being
\* played: the seats are emptied and onResetTable resets the round.  It is one
\* step here; in the code there are calls between the seats, which GameTable has.
Dismiss ==
  /\ playing
  /\ Handled([onReset(Fresh) EXCEPT !.seated = FALSE, !.over = TRUE])
  /\ UNCHANGED ticking

Op == {"PENG", "GANG", "AN_GANG", "BU_GANG", "ZIMO", "QIANGGANGHU"} \X Card

\* What a client may answer: what it was offered, or a pass, which stands for
\* everything else.
Answers(i) == {<<"GUO", 0>>} \cup (IF r.opt = <<>> THEN {} ELSE r.opt[i].tab)

Next ==
  \/ Start
  \/ \E k \in Timer : Fire(k)
  \/ \E i \in Seat, c \in Card : Discard(i, c)
  \/ \E i \in Seat : \E op \in Answers(i) : Operate(i, op)
  \/ Dismiss

\* The scheduler of the table polls its timers every 100 ms.
Spec == Init /\ [][Next]_vars /\ \A k \in Timer : WF_vars(Fire(k))

-----------------------------------------------------------------------------
Bag == [Card -> 0..Copies]

\* The state is well formed.
TypeOK ==
  /\ r.status \in {"none", "draw", "out", "opOut", "opDraw", "opBuGang"}
  /\ r.cur \in (-1)..NPlayer /\ r.timers \subseteq Timer
  /\ r.pool \in Bag /\ r.out \in Bag
  /\ \A i \in Seat : r.hand[i] \in Bag /\ Range(r.meld[i]) \subseteq Op
  /\ r.opt = <<>> \/ \A i \in Seat : r.opt[i].tab \subseteq Op /\ r.opt[i].sel \subseteq r.opt[i].tab
  /\ r.stack \in Seq(Card) /\ r.gangs \in Seq(Seat \X Card)
  /\ {playing, ticking, r.seated, r.over, r.err} \subseteq BOOLEAN
  /\ rounds \in 0..MaxRound /\ errs \in 0..MaxErr

\* The cards of kind c the owner of a row of melds laid down himself: the
\* fourth or third card of a claimed one is still in a row of discards.
Laid(row, c) ==
  SumFunction([k \in DOMAIN row |->
    CASE row[k][2] # c -> 0 [] row[k] = <<"PENG", c>> -> 2 [] row[k] = <<"AN_GANG", c>> -> 4 [] OTHER -> 3])

\* The number of claimed melds of c in a row.
Claimed(row, c) ==
  SumFunction([k \in DOMAIN row |-> IF row[k][2] = c /\ row[k][1] # "AN_GANG" THEN 1 ELSE 0])

\* The card robbed from a kong is in nobody's row any more.
Robbed(c) == IF r.win.op = "QIANGGANGHU" /\ r.win.card = c THEN 1 ELSE 0

\* Through every discard, claim, kong and draw no card is lost or doubled: the
\* wall, the hands, the discards, the melds and the robber hold exactly the
\* copies of it that were put up, also after a handler that failed half way (a
\* second one may lay a concealed kong down again).  Every claimed meld (a
\* pung, an exposed kong, a pung made a kong) is backed by a discard of its
\* card that backs no other.
CardsConserved ==
  /\ TypeOK
  /\ playing => \A c \in Card :
       /\ errs < 2 => r.pool[c] + r.out[c] + Robbed(c)
                      + SumFunction([i \in Seat |-> r.hand[i][c] + Laid(r.meld[i], c)]) = Copies
       /\ SumFunction([i \in Seat |-> Claimed(r.meld[i], c)]) <= r.out[c]

\* As long as no handler failed, whoever has to discard holds one card more
\* than everybody else: nobody draws twice in a turn or discards out of turn,
\* however commands and timeouts overlap, a claim takes a turn over whole and
\* every kong gets its replacement.
HandSizes ==
  playing /\ ~failed /\ "makeBanker" \notin r.timers =>
    \A i \in Seat :
      Size(r.hand[i]) + 3 * Len(r.meld[i]) =
        DealCount + (IF i = r.cur /\ r.status \in {"out", "opDraw"} THEN 1 ELSE 0)

\* The timer that moves the round out of a state.
Timeout ==
  CASE r.status = "none"     -> {"makeBanker", "dealCards"}
    [] r.status = "draw"     -> {"drawCard"}
    [] r.status = "out"      -> {"outCard"}
    [] r.status = "opOut"    -> {"opOutCard"}
    [] r.status = "opDraw"   -> {"opDarwCard"}
    [] r.status = "opBuGang" -> {"opBuGangCard"}

Timed == playing => ticking /\ r.timers \cap Timeout # {}

\* As long as no handler failed, a round that is being played never waits for
\* a player only: the timeout of what it waits for is pending, although
\* clients answer early, timers of earlier turns are left behind and
\* onClientUserHasAllOp stops timers it did not come from.
WaitsAreTimed == ~failed => Timed

\* A reference definition of a complete hand: a pair, triplets and runs that
\* add up to it.
CompleteHand(h) ==
  \E pair \in {c \in Card : h[c] >= 2}, trip \in SUBSET {c \in Card : h[c] >= 3},
     run \in [{c \in Card : \A d \in c..(c + 2) : d \in Card /\ h[d] > 0} -> 0..Copies] :
    \A c \in Card :
      h[c] = (IF c = pair THEN 2 ELSE 0) + (IF c \in trip THEN 3 ELSE 0)
             + SumFunctionOnSet(run, {d \in DOMAIN run : c \in d..(d + 2)})

\* isCanHu, which tries to take pairs, triplets and runs away one at a time,
\* tells exactly the complete hands, for every hand play leads to and for a
\* hand with the card of a kong to rob.
HuIsExact ==
  \A i \in Seat :
    /\ isCanHu(r.hand[i]) <=> CompleteHand(r.hand[i])
    /\ r.gangs # <<>> =>
         LET c == r.gangs[Len(r.gangs)][2]
             h == [r.hand[i] EXCEPT ![c] = IF @ < Copies THEN @ + 1 ELSE @]
         IN  isCanHu(h) <=> CompleteHand(h)

\* Who robs a kong is paid by the player whose kong it was: that player holds
\* a pung of the card again and is not paid for the kong.  What is won is lost
\* by the others.
RobbedKongIsUndone ==
  r.win # NoWin =>
    /\ SumFunction(r.win.turn) = 0 /\ r.win.turn[r.win.seat] > 0
    /\ r.win.op = "QIANGGANGHU" =>
         /\ <<"PENG", r.win.card>> \in Range(r.meld[r.win.from])
         /\ r.win.turn[r.win.from] < 0
         /\ \A n \in DOMAIN r.gangs : r.gangs[n] # <<r.win.from, r.win.card>>

\* Every round ends, whether the players answer or not, unless a handler
\* fails: the timeouts keep the turn going until the wall is empty.
RoundEnds == playing ~> (~playing \/ failed)

-----------------------------------------------------------------------------
(* What the code says and does not do.                                     *)

\* gameRoundCfg.lua:6 and :9: an operation and a discard have a time limit.
AlwaysTimed == Timed
=============================================================================
