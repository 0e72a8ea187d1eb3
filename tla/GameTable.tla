----------------------------- MODULE GameTable -----------------------------
(***************************************************************************)
(* One mahjong table: the GameTable service of gameserver/logic/common/    *)
(* gameTable.lua together with what it shares with GameServer (the login   *)
(* queue, the user map and the offline list) and with the HallAgents of    *)
(* its users (one per connection).                                         *)
(*                                                                         *)
(* A skynet service runs one coroutine at a time and a coroutine loses     *)
(* control only at skynet.call, so a step of this module is the code       *)
(* between two calls.  Between the steps of one handler any other handler  *)
(* of the table may run, except that                                       *)
(*   - a HallAgent handles its packets and its disconnection one after     *)
(*     the other (its own queue), so a connection is one thread here;      *)
(*   - logins and room creations hold GameServer's queue ("gs");           *)
(*   - client commands of the table hold the table's queue ("cs");         *)
(*   - onDisconnect, the round's timers and the dismissal at the end of a  *)
(*     failed login hold no queue of the table.                            *)
(* What a call writes elsewhere (redis, GameServer) is written when the    *)
(* call is sent: mailboxes are FIFO and all these calls go through         *)
(* GameServer.                                                             *)
(*                                                                         *)
(* Left out: robots, chat, the contents of packets, the cards (the round   *)
(* is "live" until it stops), and the free first room of a day             *)
(* (isBattleDayFirstFree reads a field that nothing sets).                 *)
(***************************************************************************)
EXTENDS Integers, Sequences, FiniteSets, FiniteSetsExt

CONSTANTS
  WinnerPay,     \* iBattlePayMode = BATTLE_PAY_WINER
  User,          \* user ids
  Conn,          \* connections, each with its HallAgent
  BattleConn,    \* those made to a battle room,
  MoneyConn,     \* and those made to a money room
  UserOf,        \* the user that logs in on a connection
  Timer,         \* the thread of the round's timers (schedulerMgr)
  MaxUserCount,  \* iMaxUserCount, the seats of the table
  RoundNum,      \* iRoundNum, the rounds a battle is created for
  MaxObj,        \* bound: GameUser objects created
  MaxRoom        \* bound: rooms created on this table

ASSUME GameTableAssumption ==
  /\ WinnerPay \in BOOLEAN
  /\ UserOf \in [Conn -> User]
  /\ Timer \notin Conn /\ BattleConn \cup MoneyConn \subseteq Conn
  /\ {MaxUserCount, RoundNum, MaxObj} \subseteq Nat \ {0}
  /\ MaxRoom \in Nat

VARIABLES
  battle,    \* iIsBattleRoom of the configuration
  status,    \* m_tableStatus
  seat,      \* m_tableUserMap: seat -> index of a GameUser in obj, 0 is nil
  obj,       \* every GameUser created: its user and m_ready
  feePaid,   \* m_battleFeePaid
  owner,     \* m_battleConfig.iUserId, as a set of at most one user
  cur,       \* m_battleConfig.iCurRound
  round,     \* m_gameRound: "none", "live", or "over" (stopped, not yet reset)
  ticking,   \* schedulerMgr has a timeout pending
  tid,       \* redis: the users whose mt_<uid> record names this table
  offline,   \* GameServer.m_pDisconnectUserList
  gsUsers,   \* the users of GameServer.m_userIdToTableIdMap
  total,     \* GameServer.m_totalUserCount
  open,      \* the connections whose agent is alive
  bound,     \* the agents that hold m_pUserId and m_pGameTable
  th,        \* what every thread is doing
  rooms,     \* number of rooms created
  charged,   \* times the owner was charged the room fee
  refunded,  \* times the room fee was given back
  torn       \* history: the users one of whose logouts began while another
             \* handler was at work on the same GameUser, or whom a reset of
             \* the table swept off a seat

vars == <<battle, status, seat, obj, feePaid, owner, cur, round, ticking, tid,
          offline, gsUsers, total, open, bound, th, rooms, charged, refunded, torn>>

serverVars == <<tid, torn, offline, gsUsers, total>>
agentVars  == <<open, bound>>
feeVars    == <<feePaid, charged, refunded>>
roomVars   == <<owner, rooms>>
roundVars  == <<cur, round, ticking>>

\* A paid friends' room, or a money room.
BattleRoom == battle

Thread == Conn \cup {Timer}
Seat   == 1..MaxUserCount

\* What a suspended handler remembers: where it resumes, the queue it holds,
\* the GameUser it works on and a local (the seat it is at when it dismisses).
Frame(pc, q, o, k) == [pc |-> pc, q |-> q, o |-> o, k |-> k]
Idle == Frame("idle", "none", 0, 0)

\* skynet.queue: somebody is inside.
Busy(q) == \E t \in Thread : th[t].q = q

\* Mutant: GameServer:receiveData without its queue.
GsFreeAlways == TRUE

\* GameServer:receiveData: a login or a creation enters through cs.
GsFree == ~Busy("gs")

\* A thread suspends with a frame, or finishes (and leaves its queue).
Suspend(t, pc, o, k) == th' = [th EXCEPT ![t] = Frame(pc, th[t].q, o, k)]
Finish(t)            == th' = [th EXCEPT ![t] = Idle]
At(t, pc)            == th[t].pc = pc

\* onGetUserByUserId: the GameUser of u, 0 is nil.
SeatsOf(u) == {i \in Seat : seat[i] # 0 /\ obj[seat[i]].user = u}
onGetUserByUserId(u) == IF SeatsOf(u) = {} THEN 0 ELSE seat[Min(SeatsOf(u))]

Taken == {i \in Seat : seat[i] # 0}
SeatedUsers == {obj[seat[i]].user : i \in Taken}

isBattleOwner(u) == BattleRoom /\ u \in owner

Init ==
  /\ status = "stop" /\ seat = [i \in Seat |-> 0] /\ obj = <<>>
  /\ feePaid = FALSE /\ owner = {} /\ cur = 0
  /\ round = "none" /\ ticking = TRUE
  /\ tid = {} /\ offline = {} /\ gsUsers = {} /\ total = 0
  /\ battle \in BOOLEAN
  /\ open = IF battle THEN BattleConn ELSE MoneyConn
  /\ bound = {} /\ th = [t \in Thread |-> Idle]
  /\ rooms = 0 /\ charged = 0 /\ refunded = 0 /\ torn = {}

-----------------------------------------------------------------------------
(* Starting a game.                                                        *)

\* onCheckGameTableStartGame, up to its first call; objs is obj'.
CanStart(objs) ==
  /\ status # "playing"
  /\ \A i \in Seat : seat[i] # 0 /\ objs[seat[i]].ready

onCheckGameTableStartGame(objs) ==
  IF CanStart(objs)
  THEN status' = "playing" /\ round' = "live"
  ELSE UNCHANGED <<status, round>>

\* The reports and fees after the start, or any other tail of a handler that
\* only waits for answers.
Answered(t) ==
  /\ At(t, "tail")
  /\ Finish(t)
  /\ UNCHANGED <<status, seat, obj, feeVars, roomVars, roundVars, serverVars, agentVars>>

-----------------------------------------------------------------------------
(* Leaving: onDealUserLogoutTableSuccess and onDismissBattleRoom.          *)

\* A handler is suspended that entered this GameUser and has not recorded and
\* reported it yet, or that is removing it.
AtWork(o) == \E s \in Thread : th[s].o = o /\ th[s].pc \in {"redis", "update", "remove", "clear"}

\* Mutant: the redis record is left behind.
onDealUserLogoutTableSuccess_no_redis(t, u, q, k) ==
  /\ th' = [th EXCEPT ![t] = Frame("remove", q, onGetUserByUserId(u), k)]
  /\ torn' = IF AtWork(onGetUserByUserId(u)) THEN torn \cup {u} ELSE torn
  /\ tid' = tid

\* Looks the user up, broadcasts, sends the redis write; q is the queue held.
\* k = 0: a logout; k > 0: a dismissal that is at seat k.
onDealUserLogoutTableSuccess(t, u, q, k) ==
  /\ th' = [th EXCEPT ![t] = Frame("remove", q, onGetUserByUserId(u), k)]
  /\ tid' = tid \ {u}
  /\ torn' = IF AtWork(onGetUserByUserId(u)) THEN torn \cup {u} ELSE torn

\* onRemoveUser sends GameServer.onRemoveUser ...
onRemoveUser(t) ==
  /\ At(t, "remove")
  /\ gsUsers' = gsUsers \ {obj[th[t].o].user}
  /\ total' = total - 1
  /\ Suspend(t, "clear", th[t].o, th[t].k)
  /\ UNCHANGED <<status, seat, obj, feeVars, roomVars, roundVars, tid, torn, offline, agentVars>>

\* ... and empties the seat that still holds this very object.
Cleared(o) == [i \in Seat |-> IF seat[i] = o THEN 0 ELSE seat[i]]

ClearSeat(t) ==
  /\ At(t, "clear")
  /\ seat' = Cleared(th[t].o)
  /\ Suspend(t, "left", th[t].o, th[t].k)
  /\ UNCHANGED <<status, obj, feeVars, roomVars, roundVars, serverVars, agentVars>>

\* The loop of onDismissBattleRoom from seat k: the next user, or the release.
KickFrom(t, q, k) ==
  LET left == {i \in Taken : i >= k}
  IN  IF left = {}
      THEN th' = [th EXCEPT ![t] = Frame("reset", q, 0, 0)] /\ UNCHANGED <<tid, torn>>
      ELSE onDealUserLogoutTableSuccess(t, obj[seat[Min(left)]].user, q, Min(left))

\* After the reports of a logout: return, or go on with the dismissal.  The
\* test of a non-owner's logout for BATTLE_STATUS_STOP never holds: no code
\* assigns that status.
Left(t) ==
  /\ At(t, "left")
  /\ IF th[t].k = 0 THEN Finish(t) /\ UNCHANGED <<tid, torn>>
                    ELSE KickFrom(t, th[t].q, th[t].k + 1)
  /\ UNCHANGED <<status, seat, obj, feeVars, roomVars, roundVars,
                 offline, gsUsers, total, agentVars>>

\* onRefundBattlePay's condition.
RefundDue == feePaid /\ ~WinnerPay /\ status = "created"

\* onDismissBattleRoom up to its first call.  The diamond server may be
\* unreachable; the result is ignored.
onDismissBattleRoom(t, q) ==
  IF RefundDue
  THEN /\ refunded' \in {refunded, refunded + 1}
       /\ th' = [th EXCEPT ![t] = Frame("kick", q, 0, 1)]
       /\ UNCHANGED <<tid, torn>>
  ELSE KickFrom(t, q, 1) /\ UNCHANGED refunded

Kick(t) ==
  /\ At(t, "kick")
  /\ KickFrom(t, th[t].q, 1)
  /\ UNCHANGED <<status, seat, obj, feeVars, roomVars, roundVars,
                 offline, gsUsers, total, agentVars>>

\* BATTLE_RELEASE has been answered: onResetTable, onClearUserTableInfo.
\* Whoever took a seat while the others were sent away loses it here, and the
\* redis record is not cleared.
onResetTable(t) ==
  /\ At(t, "reset")
  /\ seat' = [i \in Seat |-> 0]
  /\ status' = "stop"
  /\ round' = "none"
  /\ torn' = torn \cup SeatedUsers
  /\ Suspend(t, "tail", 0, 0)
  /\ UNCHANGED <<obj, feeVars, roomVars, cur, ticking, tid, offline, gsUsers, total, agentVars>>

-----------------------------------------------------------------------------
(* Creating a room and logging in, under GameServer's queue.               *)

\* A packet of a connection whose agent is not bound goes to GameServer.
Unbound(c) == c \in open /\ c \notin bound /\ th[c] = Idle

\* The table is the one the client names: neither GameServer nor the table
\* asks whether it is in use.
onClientCmdCreateBattleRoom(c) ==
  /\ BattleRoom /\ Unbound(c) /\ GsFree
  /\ rooms < MaxRoom
  /\ owner' = {UserOf[c]}
  /\ status' = "created"
  /\ rooms' = rooms + 1
  /\ th' = [th EXCEPT ![c] = Frame("update", "gs", 0, 0)]
  /\ UNCHANGED <<seat, obj, feeVars, roundVars, serverVars, agentVars>>

\* The login reaches the table and asks for the user's diamonds.
onClientCmdLogin(c) ==
  /\ Unbound(c) /\ GsFree
  /\ BattleRoom => rooms > 0
  /\ Len(obj) < MaxObj
  /\ th' = [th EXCEPT ![c] = Frame("status", "gs", 0, 0)]
  /\ UNCHANGED <<status, seat, obj, feeVars, roomVars, roundVars, serverVars, agentVars>>

\* onCheckTableStatus.  The record mt_<uid> is read when HMGet is sent.
StatusOK == BattleRoom => status \in {"created", "playing"}
AskKey(c) == Suspend(c, "key", 0, IF UserOf[c] \in tid THEN 1 ELSE 0)

onCheckTableStatus(c) ==
  /\ At(c, "status")
  /\ IF ~StatusOK THEN Suspend(c, "error", 0, 0)
     ELSE IF isBattleOwner(UserOf[c]) /\ ~feePaid
          THEN Suspend(c, "certify", 0, 0)   \* onCheckUserCertification asks
          ELSE AskKey(c)
  /\ UNCHANGED <<status, seat, obj, feeVars, roomVars, roundVars, serverVars, agentVars>>

onCheckUserCertification(c) ==
  /\ At(c, "certify")
  /\ AskKey(c)
  /\ UNCHANGED <<status, seat, obj, feeVars, roomVars, roundVars, serverVars, agentVars>>

\* onCheckUserMTkey's answer: a wrong key or another table is an error, a
\* record of this table asks GameServer whether the user is offline.
onCheckUserMTkey(c) ==
  /\ At(c, "key")
  /\ \/ Suspend(c, "error", 0, 0)
     \/ Suspend(c, IF th[c].k = 1 /\ UserOf[c] \in offline
                   THEN "reconnect" ELSE "info", 0, 0)
  /\ UNCHANGED <<status, seat, obj, feeVars, roomVars, roundVars, serverVars, agentVars>>

\* onDealUserReconnectTableSuccess: without a GameUser nothing is answered.
onDealUserReconnectTableSuccess(c) ==
  /\ At(c, "reconnect")
  /\ IF onGetUserByUserId(UserOf[c]) = 0 THEN Finish(c)
                                         ELSE Suspend(c, "online", 0, 0)
  /\ UNCHANGED <<status, seat, obj, feeVars, roomVars, roundVars, serverVars, agentVars>>

onClearOnUserDisconnect(c) ==
  /\ At(c, "online")
  /\ offline' = offline \ {UserOf[c]}
  /\ Suspend(c, "bind", 0, 0)
  /\ UNCHANGED <<status, seat, obj, feeVars, roomVars, roundVars, tid, torn, gsUsers, total, agentVars>>

\* onAddNewUser on the first free seat (onAutoSeat), then the reports.
onAddNewUser(c, ready) ==
  LET free == Seat \ Taken
  IN  IF free = {}
      THEN Finish(c) /\ UNCHANGED <<seat, obj>>
      ELSE /\ obj' = Append(obj, [user |-> UserOf[c], ready |-> ready])
           /\ seat' = [seat EXCEPT ![Min(free)] = Len(obj) + 1]
           /\ Suspend(c, "redis", Len(obj) + 1, 0)

\* onCheckUserStatus after onGetUserInfo: already in, full.
Refused(u) == u \in SeatedUsers \/ Cardinality(Taken) >= MaxUserCount

\* ... then the money or the fee (onCheckUserBattlePay).  Money, diamonds and
\* the money server's answer are inputs.
FeeNotDue == ~BattleRoom \/ feePaid \/ WinnerPay

onGetUserInfo(c) ==
  /\ At(c, "info")
  /\ \/ \* no user info, or not enough money or diamonds
        Suspend(c, "error", 0, 0) /\ UNCHANGED <<seat, obj>>
     \/ /\ Refused(UserOf[c])
        /\ Suspend(c, "error", 0, 1) /\ UNCHANGED <<seat, obj>>
     \/ /\ ~Refused(UserOf[c])
        /\ IF FeeNotDue
           THEN \E ready \in BOOLEAN : onAddNewUser(c, ready)
           ELSE /\ Suspend(c, IF isBattleOwner(UserOf[c]) THEN "pay" ELSE "error", 0, 0)
                /\ UNCHANGED <<seat, obj>>
  /\ UNCHANGED <<status, feeVars, roomVars, roundVars, serverVars, agentVars>>

\* Mutant: the result of the charge is ignored.
FeeRefusedIgnored(c) ==
  /\ feePaid' = TRUE
  /\ onAddNewUser(c, FALSE)
  /\ UNCHANGED charged

\* The owner's charge is answered.
FeeRefused(c) ==
  /\ Suspend(c, "error", 0, 0)
  /\ UNCHANGED <<seat, obj, feePaid, charged>>

FeePaid(c) ==
  /\ feePaid' = TRUE
  /\ charged' = charged + 1
  /\ \E ready \in BOOLEAN : onAddNewUser(c, ready)

onUpdateUserDiamond(c) ==
  /\ At(c, "pay")
  /\ FeeRefused(c) \/ FeePaid(c)
  /\ UNCHANGED <<status, refunded, roomVars, roundVars, serverVars, agentVars>>

\* onDealUserLoginTableRedis.
onDealUserLoginTableRedis(c) ==
  /\ At(c, "redis")
  /\ tid' = tid \cup {UserOf[c]}
  /\ Suspend(c, "update", th[c].o, 0)
  /\ UNCHANGED <<status, seat, obj, feeVars, roomVars, roundVars,
                 torn, offline, gsUsers, total, agentVars>>

\* GameServer.onGameTableUpdateTableData counts the users it did not know.
\* It ends a creation; a login goes on to its agent.
onGameTableUpdateTableData(c) ==
  /\ At(c, "update")
  /\ gsUsers' = gsUsers \cup SeatedUsers
  /\ total' = total + Cardinality(SeatedUsers \ gsUsers)
  /\ IF th[c].o = 0 THEN Finish(c) ELSE Suspend(c, "bind", th[c].o, 0)
  /\ UNCHANGED <<status, seat, obj, feeVars, roomVars, roundVars, tid, torn, offline, agentVars>>

\* onSetUserdAndGameTable reaches the agent before the login's answer does;
\* a user who logged in ready may start the game.
onSetUserdAndGameTable(c) ==
  /\ At(c, "bind")
  /\ bound' = bound \cup {c}
  /\ IF th[c].o # 0 /\ obj[th[c].o].ready
     THEN /\ onCheckGameTableStartGame(obj)
          /\ IF CanStart(obj) THEN Suspend(c, "tail", 0, 0) ELSE Finish(c)
     ELSE Finish(c) /\ UNCHANGED <<status, round>>
  /\ UNCHANGED <<seat, obj, feeVars, roomVars, cur, ticking, serverVars, open>>

\* onDealUserLoginError.  A money room sends a refused user to another table
\* (onCreatANewGameTable), whose login may take the agent; an owner who fails
\* dismisses the room, still inside the login.
onDealUserLoginError(c) ==
  /\ At(c, "error")
  /\ IF isBattleOwner(UserOf[c])
     THEN onDismissBattleRoom(c, "gs")
     ELSE Finish(c) /\ UNCHANGED <<tid, torn, refunded>>
  /\ \/ UNCHANGED open
     \/ ~BattleRoom /\ th[c].k = 1 /\ open' = open \ {c}
  /\ UNCHANGED <<status, seat, obj, feePaid, charged, roomVars, roundVars,
                 offline, gsUsers, total, bound>>

-----------------------------------------------------------------------------
(* Commands of a bound agent, under the table's queue.  onReceiveData and  *)
(* the handlers ignore a user who has no seat.                             *)

Command(c) ==
  /\ c \in open \cap bound /\ th[c] = Idle /\ ~Busy("cs")
  /\ onGetUserByUserId(UserOf[c]) # 0

onClientCmdReady(c) ==
  /\ Command(c)
  /\ LET objs == [obj EXCEPT ![onGetUserByUserId(UserOf[c])].ready = TRUE]
     IN  /\ obj' = objs
         /\ onCheckGameTableStartGame(objs)
         /\ th' = IF CanStart(objs)
                  THEN [th EXCEPT ![c] = Frame("tail", "cs", 0, 0)] ELSE th
  /\ UNCHANGED <<seat, feeVars, roomVars, cur, ticking, serverVars, agentVars>>

\* BATTLE_STATUS_STOP, the other status that would let a user go, is never set.
onUserCanLogoutTable ==
  IF BattleRoom THEN status = "created" ELSE status # "playing"

\* leave: data.iLeave = 1, the owner leaves and keeps the room.
onClientCmdLogout(c, leave) ==
  /\ Command(c) /\ onUserCanLogoutTable
  /\ IF isBattleOwner(UserOf[c]) /\ ~leave
     THEN onDismissBattleRoom(c, "cs")
     ELSE onDealUserLogoutTableSuccess(c, UserOf[c], "cs", 0) /\ UNCHANGED refunded
  /\ UNCHANGED <<status, seat, obj, feePaid, charged, roomVars, roundVars,
                 offline, gsUsers, total, agentVars>>

-----------------------------------------------------------------------------
(* The connection closes: HallAgent:disconnect, then onDisconnect.         *)

\* Mutant: the user is put on the offline list only during a game.
disconnect_in_game(c) ==
  /\ c \in open /\ th[c] = Idle
  /\ open' = open \ {c}
  /\ IF c \in bound /\ onGetUserByUserId(UserOf[c]) # 0
     THEN /\ offline' = IF status = "playing" THEN offline \cup {UserOf[c]} ELSE offline
          /\ th' = [th EXCEPT ![c] = Frame("offline", "none", 0, 0)]
     ELSE UNCHANGED <<offline, th>>
  /\ UNCHANGED <<status, seat, obj, feeVars, roomVars, roundVars, tid, torn, gsUsers, total, bound>>

disconnect(c) ==
  /\ c \in open /\ th[c] = Idle
  /\ open' = open \ {c}
  /\ IF c \in bound /\ onGetUserByUserId(UserOf[c]) # 0
     THEN /\ offline' = offline \cup {UserOf[c]}
          /\ th' = [th EXCEPT ![c] = Frame("offline", "none", 0, 0)]
     ELSE UNCHANGED <<offline, th>>
  /\ UNCHANGED <<status, seat, obj, feeVars, roomVars, roundVars, tid, torn, gsUsers, total, bound>>

\* A money room that is not playing logs the user out.
onDisconnect(c) ==
  /\ At(c, "offline")
  /\ IF ~BattleRoom /\ status # "playing" /\ onGetUserByUserId(UserOf[c]) # 0
     THEN onDealUserLogoutTableSuccess(c, UserOf[c], "none", 0)
     ELSE Finish(c) /\ UNCHANGED <<tid, torn>>
  /\ UNCHANGED <<status, seat, obj, feeVars, roomVars, roundVars,
                 offline, gsUsers, total, agentVars>>

-----------------------------------------------------------------------------
(* A round stops: from a timer, or from a command that wins it.            *)

\* An error in a timer callback unwinds schedulerMgr:update, which then does
\* not ask for the next timeout: the table's timers stop.
Dies(t) == Finish(t) /\ ticking' = (ticking /\ t # Timer)

onGameStopRound(t) ==
  /\ round = "live" /\ ticking
  /\ IF t = Timer THEN th[t] = Idle ELSE Command(t)
  /\ IF BattleRoom
     THEN /\ round' = "none"
          /\ status' = IF cur = RoundNum THEN "stop" ELSE "playing"
          /\ cur' = IF cur = RoundNum THEN cur ELSE cur + 1
          /\ UNCHANGED <<th, ticking>>
     ELSE /\ round' = "over"
          /\ status' = "stop"
          /\ IF Taken = {}
             THEN Dies(t)
             ELSE /\ th' = [th EXCEPT ![t] = Frame("settle",
                              IF t = Timer THEN "none" ELSE "cs", 0, 0)]
                  /\ UNCHANGED ticking
          /\ UNCHANGED cur
  /\ UNCHANGED <<seat, obj, feeVars, roomVars, serverVars, agentVars>>

\* The money is settled: every seat's m_ready is cleared, an empty seat is an
\* index of nil and ends the handler, and the round is reset.  m_socketfd is
\* never <= 0 (onResetUser has no caller): nobody is logged out here.
onUpdateMoneyExpAndLogEx(t) ==
  /\ At(t, "settle")
  /\ LET reached == {i \in Seat : \A j \in 1..i : seat[j] # 0}
     IN  /\ obj' = [o \in DOMAIN obj |->
                      IF \E i \in reached : seat[i] = o
                      THEN [obj[o] EXCEPT !.ready = FALSE] ELSE obj[o]]
         /\ IF reached = Seat
            THEN round' = "none" /\ Finish(t) /\ UNCHANGED ticking
            ELSE UNCHANGED round /\ Dies(t)
  /\ UNCHANGED <<status, seat, feeVars, roomVars, cur, serverVars, agentVars>>

-----------------------------------------------------------------------------
Begin(c) ==
  \/ onClientCmdCreateBattleRoom(c)
  \/ onClientCmdLogin(c)
  \/ onClientCmdReady(c)
  \/ \E leave \in BOOLEAN : onClientCmdLogout(c, leave)
  \/ disconnect(c)

LoginStep(c) ==
  \/ onCheckTableStatus(c)
  \/ onCheckUserCertification(c)
  \/ onCheckUserMTkey(c)
  \/ onDealUserReconnectTableSuccess(c)
  \/ onClearOnUserDisconnect(c)
  \/ onGetUserInfo(c)
  \/ onUpdateUserDiamond(c)
  \/ onDealUserLoginTableRedis(c)
  \/ onGameTableUpdateTableData(c)
  \/ onSetUserdAndGameTable(c)
  \/ onDealUserLoginError(c)

\* A handler whose call was answered goes on.
Resume(t) ==
  \/ Answered(t)
  \/ onRemoveUser(t)
  \/ ClearSeat(t)
  \/ Left(t)
  \/ Kick(t)
  \/ onResetTable(t)
  \/ t # Timer /\ (LoginStep(t) \/ onDisconnect(t))
  \/ onUpdateMoneyExpAndLogEx(t)

Next ==
  /\ \/ \E c \in Conn : Begin(c)
     \/ \E t \in Thread : onGameStopRound(t) \/ Resume(t)
  /\ UNCHANGED battle

Spec == Init /\ [][Next]_vars

-----------------------------------------------------------------------------
PC == {"idle", "tail", "remove", "clear", "left", "kick", "reset", "status", "certify",
       "key", "reconnect", "online", "info", "pay", "redis", "update", "bind",
       "error", "offline", "settle"}

\* The state is well formed: every seat and every suspended handler refers to
\* a GameUser that was created, and no battle counts more rounds than preset.
TypeOK ==
  /\ battle \in BOOLEAN
  /\ status \in {"stop", "created", "playing"}
  /\ seat \in [Seat -> 0..Len(obj)]
  /\ \A o \in DOMAIN obj : obj[o] \in [user : User, ready : BOOLEAN]
  /\ feePaid \in BOOLEAN /\ owner \subseteq User /\ cur \in 0..RoundNum
  /\ round \in {"none", "live", "over"} /\ ticking \in BOOLEAN
  /\ tid \subseteq User /\ offline \subseteq User /\ gsUsers \subseteq User
  /\ total \in Int
  /\ open \subseteq Conn /\ bound \subseteq Conn
  /\ th \in [Thread -> [pc : PC, q : {"none", "gs", "cs"},
                        o : 0..Len(obj), k : 0..MaxUserCount]]
  /\ rooms \in 0..MaxRoom
  /\ charged \in Nat /\ refunded \in Nat /\ torn \subseteq User

\* No user sits on two seats, although onCheckUserStatus looks for the user
\* one or two calls before onAddNewUser fills a seat: only GameServer's queue
\* keeps a second login of the same user out in between.
OneSeatPerUser ==
  /\ TypeOK
  /\ \A i, j \in Taken : i # j => obj[seat[i]].user # obj[seat[j]].user

\* In the first room of a table nobody sits before its fee was taken, and two
\* logins of the owner never take it twice: m_battleFeePaid is read before the
\* charge is asked for and set after it is answered.  Nothing is said of the
\* fees of later rooms: no code resets m_battleFeePaid, so that a table charges
\* once in its life.
SeatsArePaidOnce ==
  BattleRoom /\ ~WinnerPay =>
    charged <= 1 /\ (rooms <= 1 /\ Taken # {} => charged = 1)

\* No handler is suspended.
Quiet == \A t \in Thread : th[t] = Idle

\* Once every handler is done, whatever logins, logouts, disconnections and
\* dismissals overlapped on however many connections of a user: whoever sits
\* has the redis record to reconnect with.  A record without a seat, which
\* locks its user out of every other table (ERROR_USERLOGINTABLE), is left
\* only of a user who was logged out while the login was still to write it or
\* another logout was at work, or who was swept off by a reset of the table;
\* and without such a user GameServer's user count is the size of its map.
RecordsMatchSeats ==
  Quiet => /\ SeatedUsers \subseteq tid
           /\ tid \ SeatedUsers \subseteq torn
           /\ torn = {} => total = Cardinality(gsUsers)

\* A user who sits and has no connection is on the offline list: otherwise the
\* next login is taken for a new one and refused because of the user's own
\* seat.  The list is written by a disconnection and cleared by a reconnection
\* that waits twice before the agent is bound, and connections of one user
\* come and go in between.
NobodyStranded ==
  Quiet => \A u \in SeatedUsers :
             u \in offline \/ \E c \in open \cap bound : UserOf[c] = u
=============================================================================
