# TLA+ models of DemoSkynetServer

The repository is a copy of the skynet actor framework (C and Lua) with a mahjong
game server written on top of it.  This directory holds TLA+ modules that follow
the code of both, TLC configurations that check them on small instances, and
proofs, checked by TLAPS, of what they establish for every instance.
`PROJECT.json` lists components, runs, mutants, the source lines of every
definition, findings, hazards and theorems; this file explains them.

## 1. The system

### skynet: one process, many services

A *service* is a C structure (`skynet_context`) with a message queue, a callback
and a handle.  Nothing is shared between services except by sending messages.

| part | state | operations | who calls it |
| --- | --- | --- | --- |
| message queue (`skynet_mq.c`) | ring buffer, `in_global`, `release`, overload threshold; the global run queue of non-empty queues | push, pop, grow, mark_release, release, globalmq push and pop | senders, workers |
| contexts (`skynet_server.c`) | reference count, `init`, callback, `G_NODE.total` | new, grab, release, send, exit, kill, dispatch | all threads |
| handle table (`skynet_handle.c`) | hashed array of contexts, next index, sorted names | register, retire, retireall, grab, name, find | all threads, under a reader-writer lock |
| lock (`rwlock.h`) | `read`, `write` | rlock, runlock, wlock, wunlock | the handle table, the module and environment tables |
| timer (`skynet_timer.c`) | wheel of five levels, 32-bit tick counter | timeout, updatetime | any service adds, the timer thread advances |
| threads (`skynet_start.c`) | `sleep`, `quit`, a mutex and a condition | worker, timer, socket and monitor loops | start-up |
| monitor (`skynet_monitor.c`) | version and destination per worker | trigger, check | workers, monitor thread |
| sockets (`socket_server.c`) | table of sockets, control pipe, write buffers | reserve, open, listen, bind, start, send, close, poll | services through the pipe, the socket thread |
| scheduler (`lualib/skynet.lua`) | sessions and the coroutines they resume, wakeups, failed calls, forks, response objects | call, sleep, wait, wakeup, fork, ret, response, exit | the Lua code of one service |
| critical section (`lualib/skynet/queue.lua`) | current thread, nesting, waiters | enter, leave, leave by an error | handlers of one service |

On top of it `lualib/skynet.lua` turns callbacks into coroutines: a Lua service
runs one coroutine at a time and switches only when it calls another service,
sleeps or waits.  `lualib/skynet/queue.lua` gives such coroutines a critical section.

### The game server

`GameServer` (one) routes logins and room creations to `GameTable` services (one
per table).  A connection is served by a `HallAgent`, which sends packets to
GameServer until a login binds it to a user and a table, and to that table from
then on.  Money, diamonds, redis and the allocation server are reached through
client services; every such access is a call, so a handler of the table gives up
control many times before it returns, and handlers of the same table overlap.
Three queues order some of them: each agent's own, GameServer's (logins and
creations) and the table's (client commands).  Disconnections, the round's timers
and the dismissal after an owner's failed login hold none of the table's.

A `GameRound` belongs to a table.  It keeps the wall, hands, melds and discards, whose
turn it is, what each player may do and has chosen, and up to seven timers, one per
kind of wait.  Its handlers (discard, operate, one callback per timer) make no
calls, so they do not overlap; what is hard is that any command may come before or after
any timeout, that timers outlive the wait they were set for, and that a Lua error
leaves a handler half done.

### What is hard here

The hazards in `PROJECT.json` name the lines.  In short: a queue must be in the
run queue exactly once although four kinds of threads decide about it; a
context and its queue are freed by whoever is last, while senders still hold
them; a launch is visible to others before it is complete; the handle counter and
the tick counter wrap; signals are sent without the mutex; slots of the socket table are
used again while commands and events of their former sockets are still on the way; an
error in one coroutine unwinds the scheduler under all others; and in the game
server state is read, a call is awaited, and the state is used.

## 2. The modules

Every module names its source in its header; names of definitions are the names
of functions where one step is one function.  A function that runs under one lock
is one action; a function that takes several locks, or a Lua handler that makes
several calls, is one action per section, chained by a program counter.

| module | models | grain of a step |
| --- | --- | --- |
| `MessageQueue` | the ring of one service | one function under the queue's spinlock |
| `MessageFIFO` | what the ring promises: a FIFO whose pop answers the oldest message | abstract |
| `Dispatch`, `MCDispatch`, `DispatchProofs` | contexts, run queue, send, kill, launch, dispatch | one lock section or one atomic operation |
| `HandleStorage`, `HandleStorageProofs` | handles and names | one lock section |
| `RWLock` | the spinning lock | one atomic operation |
| `Timer`, `TimerProofs` | the wheel | one lock section of the timer thread, or a `timer_add` |
| `WorkerPool` | sleeping, waking and ending the threads | one atomic read, or one mutex operation |
| `NodeProofs` | proofs about the ring, the lock and the threads | |
| `SocketServer`, `MCSocketServer`, `SocketServerProofs` | the socket table, the control pipe, the socket thread | one command, one event, or one compare-and-swap of a worker |
| `SkynetLua`, `MCSkynetLua`, `SkynetLuaProofs` | the coroutine scheduler with a critical section | one API call of the running coroutine, or one resume |
| `CriticalSection` | what the section promises: a lock that can be entered again | abstract |
| `GameTable`, `MCGameTable`, `GameTableProofs` | a table with its users' agents and its part of GameServer | the code between two calls |
| `GameRound`, `MCGameRound`, `GameRoundProofs` | a round of mahjong with its timers and rules | one handler |

`MessageQueue`, `RWLock` and `WorkerPool` are extended together by `NodeProofs`, so the
first two name their specifications `RingSpec` and `LockSpec`.

### MessageQueue

`queue` is a function on `0 .. cap-1`, `head` and `tail` are the indexes of the
code.  `ret` is what the last pop answered and `peak` (a history variable) the
longest the queue was since it was last empty.  The run starts at capacity 2 and
queues up to 6 messages, so the ring grows to 4 and 8 with head at every position,
and the threshold, starting at 1, doubles several times.  The loop in `skynet_mq_pop` that
doubles it is the recursive function in `Doubled`; the property's `Level` is the doubling it should
stop at.  `Content`, the messages from head to tail, is the refinement mapping to `MessageFIFO`.

### Dispatch

A thread has up to three nested activations: the dispatch loop, a launch inside
a callback, and a send or an exit inside either.  `q` and `cur` are the locals of
`skynet_context_message_dispatch`.  Messages are abstracted to their sender,
because `drop_message` reports to it.  `Outside` threads stand for the timer and
the socket thread.  `ScheduledOnce` counts the places a queue can be in (run
queue, the locals of a worker, a launch that has yet to schedule it);
`RefCounted` compares the counter with those who hold a pointer.
Instances: two workers with weights -1 and 0, three handles of which two are running,
two sends and one kill or exit, which adds the notice to the monitoring service and the
reports of dropped messages; a failing launch is a second way for a service to die.
The first part of a launch (`skynet_server.c:155-158`: registration, the stores of handle and queue, `context_inc`) is
one step here; the window between the registration and the store of the handle is in `HandleStorage`.

### HandleStorage

Names are numbers in the order of `strcmp`.  The constants are `2^24` and 4 in the
code, 4 and 2 in the passing run, so that the table grows to its limit with three
contexts and the index wraps soon (8 and 2 in `handle_rehash`).  All that is used of their being
powers of two is `PowerAssumption`: the table's size divides the handle space, and goes on doing so when
it doubles.  `pending` holds the handles that `skynet_handle_register` has returned
and `skynet_context_new` not yet stored; `Launchers` says how many threads launch
at a time.  The names are a sorted sequence; `skynet_handle_findname` and `_insert_name` share their binary
search, a recursive function over the pairs of its two ends, and a retirement compacts the
sequence as the code does, in one pass.  A registration that would grow the table beyond the handle space is not taken:
the assertion at `skynet_handle.c:55` ends the process there, and nothing is said of a node that has run out of handles
(`asserted` is the other assertion, that of the rehash).  `sweep` is the state of `skynet_handle_retireall`, which runs without the lock
between slots.

### RWLock

`read` and `write` as in the code; a spinning loop is an action that is enabled
when the loop would end.

### Timer

The near list is `near`, the four coarser levels are `t`; `Block[l]` is the number of ticks that level `l`
covers, which the code has as shifts and masks.  With 2 near lists and 2 lists per level
instead of 256 and 64 the clock wraps at 32 ticks instead of `2^32`; delays up to
15 reach every level, and 40 ticks cross the wrap.  `due` and `older` are history variables:
when a timer must fire, and which of two pending timers was set first.  The thread may find
up to two ticks elapsed at once, as after a delayed `usleep`.

### WorkerPool

The work itself is a counter of scheduled queues.  Waiting is modelled as POSIX
has it: a signal wakes one waiter or is lost, waiters may wake spuriously.  `wakeup` reads `sleep` in one step and
signals in the next, both without the mutex.  The socket thread has both roads: one that wakes a worker, and the one for
`r < 0`, when more events are at hand or nothing was reported, which only looks whether a service is left.

### SocketServer

A packet is `Size` units; `high` and `low` hold the units still to be written, so a
partial write takes a prefix and `wire` grows by it.  Workers reserve an id in two steps
(the compare-and-swap, then the id, as in `reserve_id`) and put commands into `pipe`; the socket
thread handles commands before events, `ev` being the events it has fetched and not yet
looked at.  The increment of `alloc_id` and the compare-and-swap are one step, so that ids are taken in
order.  The kernel accepts any number of units, may fail any call, and signals what it
likes.  `how`, `told`, `warned`, `pkts` and `wire` are history variables.  `told` has the ids reported closed or failed;
`warned` those of listeners for which `accept` found no descriptor (`socket_server.c:1144`): the code reports that with the same
`SOCKET_ERROR`, and the listener stays open.  Two slots and three ids
make slots be used again; the first id may be a connection, a listener or a bound
descriptor, the later ones are connections, and the third, which reuses the
slot of the first, may be a UDP socket.  The pipe holds one command at a time:
commands of a socket that is gone still arrive, because a service may send them at any
time.  One worker suffices because commands of several meet only in the pipe and at the
compare-and-swap against the socket thread.  The history variable `lost` tells that a failed open has
given a slot back that another id had reserved by then (section 4); from there on two ids may share a slot, so
the properties are stated for behaviours without it.  That goes for the streams too, although two slots and three ids do not
show it: a packet accepted for one id is then written to the descriptor of the other.  Only that
`wb_size` is the number of buffered units, a part of `NothingLost`, is stated for all.

### SkynetLua and CriticalSection

`suspend` calls itself through the coroutines it resumes.  Each level, when its callee
returns, finds both queues as the callee left them, so the nesting is not needed, except that
an error unwinds all of it; `phase` stands for the stack.  The services the
coroutines talk to are the environment: they call, answer with a response or an error, answer
again with the other kind, or go down.  A message may also be of a protocol that is not registered or has no
dispatch function, or may fail to unpack, after which its coroutine is never resumed.  `silent` (a history variable)
has the requests that met no handler, or one that returned and had not answered, which nothing in the code looks at; for
all others `RequestsAreAnswered` says that the caller does not wait in vain.  `depth` is how often each coroutine is in the section;
it is the refinement mapping to `CriticalSection`.  A coroutine that a wakeup meant for an
earlier sleep, or a wakeup of the program itself, reaches in `queue.lua` sets `stale`; then nothing is promised about who
waits (section 4).  Instance: three interchangeable coroutines, three sessions, one request, one
error, two levels of nesting.

### GameTable

A *thread* is a connection (its agent handles one packet at a time) or the
round's timers; `th` holds where its handler is suspended, which queue it
holds and which `GameUser` it works on.  `obj` keeps every `GameUser` ever made, because a
suspended handler may hold one that is no longer on a seat.  Writes to redis and to
GameServer take effect when the call is sent, which is sound as every such call
goes through GameServer and mailboxes are FIFO.  Inputs chosen by the environment:
whether a key is right, whether money or diamonds suffice, whether the charge is
accepted, whether a user logs in ready.  `charged` and `refunded` count what the diamond server was asked for.
`battle`, chosen once, says whether the table is a battle room or a money room; in both one user has two connections
and the other one has one, and either may create and own the battle room.  Neither GameServer nor the table asks whether a room is in use before it
is created again, and the model does not either.  `torn` (a history variable) has the users for whom a logout began while
another handler was at work on the same `GameUser`, before it was recorded or while it was removed, and those whom
`onResetTable` swept off a seat: theirs are the records that may be wrong afterwards.

Left out on purpose: robots, chat, packet contents; cards are in `GameRound`.  The free first room
of a day is left out because `isBattleDayFirstFree` reads a field that nothing
sets.

### GameRound

`r` is the round as one record, and a handler is an operator from it to the set of records it may
leave, so that handlers that call each other (`drawCard`, `onGameStopRound`) compose as in the
code.  Hands are bags of cards.  Time is left out: a pending timer may fire at any
moment, which covers every ratio of the configured times.  A Lua error is part of the
model (`err`): the handler stops where it stands, and if a timer called it,
`schedulerMgr` stops (`ticking`).  The five cards stand for one suit of which runs can be made,
with four copies of each; with hands of four cards and two stacked walls every
operation is offered, a kong can be robbed by two players, also after another kong was counted, and the wall runs out.
What a round leaves behind (timers, errors) meets a second one.  `Dismiss` empties the table in one step; that the code does it
seat by seat, with calls in between (`gameTable.lua:662-676`), is modelled in `GameTable`.  A robbed card is in nobody's row and nobody's
hand (`Robbed`): the robber's hand is not touched by the win.

## 3. Runs

| run | instance | result |
| --- | --- | --- |
| `ring` | capacity 2, 6 messages of 2 kinds | FIFO, well-formed, threshold exact |
| `dispatch` | 2 workers, 1 outside sender, 3 services, one of them told about exits | scheduled once, not stranded, counted, initialised first, freed last; every message is taken or dropped in the end |
| `handles` | 3 contexts, 2 names, one launch at a time, a harbor, ABORT | found by handle and name; a sweep retires everything |
| `handle_rehash` | two launches at a time | **violated**: the assertion of the growth fails |
| `rwlock` | 4 threads | exclusion, exact count, writers proceed |
| `timer` | 2 timers, 6 delays, 40 ticks | on time, none lost, in order |
| `workers` | 2 workers, 2 services, 3 pieces of work | no lost wakeup, clean end |
| `tables` | 2 seats, 2 users, one of them on two connections; a battle room or a money room | one seat per user, paid once and first; when idle whoever sits has a record and is connected or may reconnect, and records and counts are wrong only after the overlaps that `torn` names |
| `lua_service` | 3 coroutines, 3 sessions, 1 request, 1 error | nobody forgotten or resumed twice, requests answered unless their handler is silent, the section is a lock and its waiters are served |
| `sockets` | 2 slots, 3 ids, 2 packets of 2 units | streams whole, nothing lost, writes armed, closings told (and the accept error of a listener that stays), no descriptor leaked |
| `round` | 3 players, 20 cards, 2 rounds, 2 errors | cards conserved, turns kept, claims backed, waits timed, wins exact, robbed kongs undone; every round ends |
| `round_stuck` | the same | **violated**: after an error no timeout is pending |

A module's `TypeOK` is a conjunct of one of its invariants.
Every property of a passing run has a mutant in `PROJECT.json`: an alternative
body of a definition, as a plausible slip in that code would change it, under which the
property fails.

Deadlock is checked for the ring, the handle table, the lock and the threads.  It is not for
`Dispatch`, `Timer`, `SkynetLua`, `SocketServer`, `GameTable` and `GameRound`, which stop when their bounds on
sends, ticks, sessions, ids, logins and rounds are used up.  What deadlock would mean there is
stated: `EventuallyDrained`, `NobodyForgotten`, `WaitersAreServed`, `WriteArmed`, `NobodyStranded` and
`WaitsAreTimed` say that whoever waits has somebody or something that will end the wait.

### Fairness

`Dispatch`: every thread takes its next step, callbacks included (weak fairness per
thread); what callbacks *choose* to do, such as sending or killing, has none.  A callback that never
returns is what the monitor reports, and nothing can be promised then.
`RWLock`: a thread inside the lock's code or in its section goes on; nobody has to enter.
`Timer`: the timer thread keeps running and the clock advances.
`WorkerPool`: every thread runs; the timer thread's periodic wakeup is part of its loop, and
it alone makes up for signals lost between an empty pop and a wait.
`GameRound`: a pending timer fires (weak fairness per timer), since `schedulerMgr` looks at all of them every
100 ms as long as no callback failed; players need not do anything.
`SkynetLua`, `SocketServer` and `GameTable` assume nothing; their properties are about every state.

## 4. Findings

1. `handle_rehash`: `assert(new_slot[hash] == NULL)` (`skynet_handle.c:60`) fails when a
   thread grows the table while another has registered and not stored its handle
   (`skynet_server.c:154-155`).  The same window has a silent outcome: if slot 0 is
   free, the half-launched context is moved there, and its handle leads nowhere.
2. `round_stuck`: a concealed kong calls `operationType:isBAnGang`, which does not exist
   (`gameRoundLogicGD.lua:335`), and the settlement of a round with a counted kong takes the length of a
   field no code sets (`:179`).  Each error leaves the round in a state whose timeout is
   not pending, against the time limits of `gameRoundCfg.lua:5` and `:8`.

`PROJECT.json` quotes the lines that say otherwise.  The models reach more states
that comments of the code exclude; each was seen as a TLC counterexample of the state
predicate given here:

* `skynet_handle.c:251` "reserve 0 for system": with `Harbor = 0` some running context has
  handle 0 after the counter has wrapped (`:43`).
* `gameTable.lua:661` "踢掉所有人" (kick everybody): a battle room whose status is stop again has a user on a seat
  (`rooms > 0 /\ status = "stop" /\ Taken # {}`), by a login that passed `onCheckTableStatus` before the dismissal; one that
  sits down before `onResetTable` is swept off and keeps its redis record.
* `gameTable.lua:311` "如果金币场玩家已经掉线，则清除" (offline users are removed): a seated user of
  a money room without an open, bound connection when no round is played and no handler
  is suspended; `m_socketfd` is never cleared.
* `gameTable.lua:265` (number of users checked before a start): `round = "live"` with an empty seat, by a
  ready command while another user is between the two steps of `onRemoveUser`.
* `gameTable.lua:613` (remove the pair from GameServer): an idle table with a user in
  `gsUsers` who has no seat, by a report between the same two steps.
* `gameTable.lua:659` and `:551` "退回开房消耗" (give back what the room cost): `refunded > charged`; `m_battleFeePaid`
  is set at `:251` and never reset, and a failed login of the owner and a logout may both dismiss.
* `gameTable.lua:328` "gameround全部重置" (the round is reset): a user who logs out while the money is settled
  (`:308-310`) makes the loop at `:313-315` index an empty seat; the reset is skipped, and the error, raised
  from a timer, stops `schedulerMgr`.
* The same window in a money room: a ready command starts a new round, which the
  pending reset then wipes (`~battle`, status playing and no round).
* `defineType.lua:53` (a battle ends after its preset rounds): after the first round `onGameStopRound` leaves
  the status at playing (`:324`), and `onCheckGameTableStartGame` returns in that case (`:262`): no second round starts.
* `hallAgent.lua:33`: the agent's user and table are never cleared; with two connections of one user the
  disconnection of the old one removes the `GameUser` that the new login has just made, which then writes its record: a
  record without a seat, which keeps the user out of every other table.  `RecordsMatchSeats` says that this takes such an overlap
  (`torn`), and that the reverse, a seat without a record, does not happen.
* The same overlap makes two handlers remove one user: `m_totalUserCount` is decremented twice (`gameServer.lua:309-315`).
* `skynet.lua:232-238`: a handler that returns and has not answered leaves its caller waiting (`silent`); so do `:505-507` (no
  dispatch function) and an error of `p.unpack` at `:504`.
* `socket_server.c:1144`: `SOCKET_ERROR` for a listener that is still open; `socket.lua:109-121` and `gateserver.lua:120-122`
  take it for a failure and close the listener.

Seen while modelling the round: an exposed kong is never paid (`gameRound.lua:445` tests `isBuGang` twice); the
`opDarwCard` timer of a player who discards stays and may cut the next decision short;
after the error of a concealed kong the same kong may be laid down again, which is why `CardsConserved` allows one
error only; runs are made of honours too (`compute` looks at values only).

Seen while modelling the scheduler: a wakeup that was meant for an earlier sleep and reaches a coroutine
waiting in `queue.lua` makes its assertion (`:29`) fail while the section is held, or lets
it in ahead of its turn once the section is free; after an error woken coroutines stay undrained until the next message;
a handler that fails after `skynet.ret` sends its caller a response and an error, and so does `skynet.exit` for requests
already answered; a second `skynet.ret` leaves its coroutine suspended for good.

Seen while modelling the sockets: `reserve_id` marks the slot before it writes the id, so that a close of the slot's former
id in between trips the assertion of `force_close` (`socket_server.c:340`, phase "abort" of the model); what is sent to a
bound descriptor is buffered for ever; a UDP socket that cannot be registered is not reported; packets for a socket
that was accepted and not started are dropped without a word.  A descriptor that cannot be registered makes `new_fd` free the
slot (`:383`), and `open_socket` (`:471`) and `add_udp_socket` (`:914`) free it once more: a worker that has reserved the slot in
between loses it, a third id may take it, and then two ids share a slot and one of them vanishes without a report.  TLC
shows it with one slot, two workers and four ids, when the properties are stated without `~lost`; for the two about
streams one slot, three ids, two packets and a pipe of two commands are enough.

## 5. Proofs

`NodeProofs`, for every initial capacity, threshold and bound of a queue:

* `RingTypeCorrect`: `RingTypeOK` is invariant.  It is inductive as it stands.
* `RingImplementsFIFO`: `RingSpec => ImplementsFIFO`.  Lemmas state what a push, a growing
  push and a pop do to `Content`, using only the remainder of `head + i` by `cap`; the
  argument is that a growth, which copies from `head`, makes `Content` the
  first `cap` slots of the new array.  The invariant is needed to know
  that indexes are in range, so that remainders collapse to one subtraction.
* `ThresholdFollowsPeak`: the threshold is the smallest doubling of `MQ_OVERLOAD` that covers the longest backlog since the
  queue was last found empty.  `OverloadInv` says that the threshold is a doubling that covers the peak and, beyond the first, that half of it
  would not.  That the loop of `Doubled` ends, and at the smallest one, is an induction
  over the distance to go, made as a smallest counterexample (`LeastNat`): the induction theorems of the library cannot be
  used, a set of natural numbers that has a least member can.

for every finite set of threads of a lock:

* `LockInvInductive`: `LockInv` is preserved by every step.  `Exclusion` alone is not inductive: one needs that
  `read` is the number of threads between their add and their undo or unlock, and
  that `write` is 1 exactly while one thread is past its test-and-set.
* `LockExcludes`: `LockSpec => []Exclusion`, from it.

and for every finite set of workers and any bound on the work:

* `SleepIsAlwaysExact` and `QuitWakesAll`, from the invariant `PoolInv`.  It adds that the mutex is owned exactly by the
  worker between its lock and its unlock or wait, without which two workers could count at once, and that
  what is in the run queue was scheduled within the bound.  Two lemmas carry most steps: one for steps that move no
  worker (`PoolIdle`), one for those that move a worker without counting it (`PoolMoves`).

`TimerProofs`, for every number of near lists, of lists per level and of timers, every set of delays below half the clock:

* `WheelInOrder`: `TimerInv` is invariant.  A timer that is due at tick `d` waits, at tick `n`, in the level of the
  smallest block that holds both and in the list its part of `d` selects (`Slot`), exactly once, and each list is in the order its timers
  were set (`Placed`).  The lemmas are about quotients and remainders by `Block[l]`: when the clock goes on by one, the
  slot of a timer changes only if its block is the one that is entered, and then it is in the list that `timer_shift` takes
  down (`SlotStep`); `move_list`, a loop over that list, puts every timer into its new slot and behind nobody who was set
  after it (`ShiftMoves`).  The wrap is one more level: a tick and one `WRAP` later share their list, but delays below
  half the clock keep them from being pending together (`Soon`).
* `TimersFireOnTime` and `SameTickKeepsOrder`, from it.  It also follows that the first `timer_execute` of a tick finds nothing, as every
  delay is at least one tick and what is due was delivered after the last shift: the lists are dispatched from one place only.

`SkynetLuaProofs`, for every number of coroutines, sessions, requests and errors:

* `QueueImplementsLock`: `Spec => ImplementsLock`.  The invariant is `SectionIsCounted`: whoever is inside is the owner, and
  `ref` is how deep it is.  So an entry that finds the section free or its own, and a waiter that finds `ref = 0`
  (the assertion at `queue.lua:29`), find nobody else inside; a coroutine that a stray wakeup sends in fails that
  assertion and does not enter.  The exit of the service is an error of the one coroutine inside.

* `CoroutinesAreResumedOnce`, `NoCoroutineIsForgotten`, `DispatchDrainsItsQueues`, `SectionServesItsWaiters` and
  `EveryRequestIsAnswered`, from the invariant `SkynetLuaInv`.  Its parts say, for each state of a coroutine, which
  session may resume it (`CoroutineOK`), and for each session, whose it is and what is on its way (`SessionOK`):
  `ResumedOnce` alone is not preserved, since an answer looks at one table and a wakeup at another.  `QuietInv` follows
  the two queues through the phases of a dispatch without errors, `WaitInv` the waiters of the section from their entry to
  their turn, `RequestInv` the answer of a request through `ret`, `response`, errors, silent returns and exit.  What
  `EveryRequestIsAnswered` leaves open is the handler's own choice: a request in `silent` gets no response, and the theorem says so.

`DispatchProofs`, for every finite set of threads and handles, every weight and bound:

* `ReferencesAreCounted`, `QueuesAreScheduledOnce`, `InitialisedBeforeDispatch` and `FreedQueuesAreDead`, from `DispatchInv`.
  `ControlInv` ties the locals of a thread to its control point; `CountInv` writes the reference count as a sum of five
  cardinalities, so that every step adds or takes one member of one set; `PlaceInv` says that a queue is in one place at
  most, and in one exactly when its flags say so; `MemoryInv` is the life of a context and its queue; `LaunchInv` says
  that a service that can be grabbed and is not initialised is in its launcher's hands.  The four need each
  other: that a queue is not freed early needs the count, and the count needs that a context is released by
  holders only.

`GameTableProofs`, for every set of connections, users and seats and any number of rooms and logins:

* `UsersSitOnce` and `FeeIsTakenOnce`, from `GameTableInv`.  Both properties are about what is read before a call and used
  after it.  The invariant adds that whoever is between the two is inside GameServer's queue, which lets one handler
  in (`QueueInv`), that the user whose charge is awaited still has no seat (`SeatInv`), and that the fee is not paid
  meanwhile (`FeeInv`).  `charged <= 1` holds for any number of rooms on one table, and that nobody sits before the fee
  was taken is claimed for the first room only: as `m_battleFeePaid` is never reset, a later room is not charged at all (section 4).
* `RecordsFollowSeats`, with any number of connections per user, from `RecordInv`.  It follows a `GameUser` and not a
  connection: whoever sits has a record, unless a handler is suspended that has yet to write it or to clear the seat
  (`SeatedInv`); a record is that of a user who sits, unless the user was torn (`StaleInv`).  For both a login that is to write, and a
  logout that has cleared the record, must work on a `GameUser` that sits, unless its user was torn (`WriteInv`, `LeaveInv`), which is where two
  handlers on one `GameUser` would break it (`ClashInv`).  `KnownInv` and `RemoveInv` say whom GameServer's map has, so that
  a removal takes one user off it and a report counts only new ones (`CountInv`), as long as nobody was torn.
* `SeatedAreServed`, from `LoginInv` and `ServedInv`: whoever sits is on the offline list, or has a connection that is bound, or one
  whose login or reconnection will bind it without looking again.  A connection that logs in is open and not bound, so the reconnection
  that clears the list is itself the one that serves the user.

`SocketServerProofs`, for every number of slots, ids, workers, packets, commands and events:

* `WritesAreArmed`, `ClosingsAreTold` and `DescriptorsAreOwned`, from `SocketInv`.  The argument follows an id from its
  reservation by a worker (`ReqInv`) through its command in the pipe (`PipeInv`: the one that opens an id comes first) to its
  slot (`OpenInv`) or its failure (`FailInv`), and says that until then the slot is reserved for it alone (`ClaimInv`).
  It holds until the doubled give-back of a slot, or a failed assertion, and both are part of the invariant.  `WarnInv` follows
  the listeners whose `accept` failed: they keep their slot until they are reported closed.
* `StreamsAreWhole` and `NothingIsLost`, from `TypedAlways` and `StreamsFlow`.  `StreamInv` says that what was written to a
  socket followed by what its two lists hold has every packet taken for the socket as one block and nothing else, packets of one
  priority in the order they were sent, and in the low list only low packets of which nothing is written yet (a packet
  that has begun is in the high list); packets still in the pipe were sent later than all of them, in their order.  The lemmas are about concatenation: which block a position lies in, and what a prefix
  written, a list appended or a packet moved to the other list does to the blocks.

`HandleStorageProofs`, for every handle space and table size that are powers of two:

* `ServicesAreFound` and `OneLaunchNeverCollides`, for `Launchers <= 1`, from `HandleInv`: every context is in the slot its handle
  selects, the table's size divides the handle space, and a handle that is not stored yet leads to its context already.
  The lemmas are about remainders: adding the harbor's bits or wrapping at the handle space changes no slot (`HarborBits`, `ModMod`),
  the search meets every slot (`ModReaches`), and doubling sends slot `i` to `i` or `i + n` (`ModHalf`), so nothing collides.
  Two launches at a time do break it, as `handle_rehash` shows; the theorem says that nothing else does.
* `SweepsMissNobody`, for `Launchers <= 1` and `Harbor = 1`, from `SweepInv`: what the sweep has yet to retire is ahead of it, or in
  the slot it has just read; a growth only moves contexts forward.  The harbor's bits are needed because the code takes
  handle 0 for an empty slot, and without them a service can have it (section 4).
* `NamesAreFound`, with any number of launches, from `NameInv`: the table of names is strictly sorted.
  The binary search is a recursive function over pairs of bounds; over a sorted table it has a closed form, the place of the name
  or the place to insert it, so it exists, and by a smallest counterexample in the width of the interval it is nothing else.

`GameRoundProofs`, for every number of players above one, every finite set of cards, every deal and every wall with at most four copies
of a card, any number of rounds and of errors:

* `WaitsStayTimed`, from `RoundInv`: until a handler fails a round that is played is seated, its scheduler runs, and the timer
  of its state is pending.  One lemma for every handler says that it leaves an error, the end of the round, or a
  wait that is timed, whatever other timers were left behind.
* `HandsKeepSize`, `CardsStay` and `RobbedKongsAreUndone`, from `CardsInv`, for the behaviours with errors too.  The properties count what commands
  and timeouts move; why a move can be made at all is the invariant's part: `Timing` says in which states a timer that
  deals, draws or goes on to a draw may be pending, so that a late one cannot deal or draw twice; `Waiting` says that what
  a player was offered can still be done when he, or the timeout, answers: the cards are in the hand, the discard is claimed by nobody,
  the kong is the last that was counted, unless it was tried and failed; `Counted` has the sums, the sizes of the hands and the kongs.
  A concealed kong whose handler fails may be laid down again; what is then in the melds is more than was put up, so
  the invariant weighs the melds twice, with and without concealed kongs: the second sum never exceeds the copies,
  whatever fails, and that keeps hands and discards within them.  `Copies <= 4` is needed: it excludes two kongs, or a pung and
  a kong, of one card, and with that a kong that is counted twice or uncounted with another one.
  Sums are recursive functions that take the elements in the order of `CHOOSE`; that they exist, do not depend on that order and
  change by what one member changes are proved first, by induction over the subsets of a finite set (`SubsetInduction`).
  An attempt to prove an earlier `CardsConserved` failed for a good reason: it forgot the fourth card of a robbed kong.  The walls of
  that time did not show it, since a robbery ended the round; when another kong is counted the settlement fails
  (section 4) and the round is still being played.  `Robbed` and the second wall came from it.
* `HuTellsCompleteHands`: the search of `compute`, which takes melds away one at a time and tries everything, finds a win exactly when a pair,
  a set of triplets and a number of runs from each card add up to the hand.  `Made` is the sum without the pair; it satisfies the
  recursive equation of `Melds` (`MadeStep`), and by a smallest counterexample in the number of cards nothing else does.

Assumptions are the `ASSUME`s of the modules: a positive capacity, a positive threshold, a
bound, a value that is no message; finite sets of threads, workers and handles; a mutex value that is no worker; `nil` and the
mark of a broken sleep that are no coroutine and no service; sizes and bounds that are positive; powers of two; delays
between one tick and half the clock; two players or more, walls of a finite set of cards that suffice for the deal, and at most four copies of a
card, as the code has.  The hypotheses `Launchers <= 1` and `Harbor = 1` are stated in the theorems that need them, and each is
needed: `handle_rehash` and section 4 have the counterexamples.

Not proved, only checked by TLC: everything under fairness (`EventuallyDrained`, `EveryTimerFires`, `WriterProceeds`,
`WorkIsTaken`, `ShutdownCompletes`, `RoundEnds`), which is outside the prover's reach.  That the calls of a login are answered
is assumed in `GameTable`: GameServer's handlers of them enter no queue.  Every other invariant of the
passing runs is the subject of a theorem.  Definitions that recur are proved about where they are recursive functions: the
function is shown to exist and to be unique by a smallest counterexample, which takes no induction theorem with an operator as parameter.

## 6. What is missing, and the plan

In this order:

1. Proofs of liveness, once the prover has them: `EventuallyDrained` first, whose safety part is `QueuesAreScheduledOnce`.
2. Harbor: `cmaster.lua`, `cslave.lua` and `service_harbor.c` (registration of slaves, global names, messages queued for a
   name or a slave that is not there yet).
3. `netpack` and the gates on top of `SocketServer`; the clients of the back-end servers with their single waiter;
   `HallWatchdog` and `ServiceManager`; `GameServer` with several tables.
4. Launcher, service manager, datacenter, multicast, shared data; the endless-loop monitor, whose unsynchronised counters
   only decide which service a report names.

Not planned: byte formats and drivers (serialisation, bson, sproto, crypt, redis,
mongo, mysql, http), operator consoles, the module loader and the
allocator hook, and everything under `3rd/`.
