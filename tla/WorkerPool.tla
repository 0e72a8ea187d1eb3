----------------------------- MODULE WorkerPool -----------------------------
(***************************************************************************)
(* skynet-src/skynet_start.c: the threads of a node and how they sleep,    *)
(* wake each other and stop.  A worker that finds the run queue empty      *)
(* sleeps on a condition variable; the socket thread wakes one only when   *)
(* it sees all of them asleep, the timer thread at every tick.  When no    *)
(* service is left the timer thread makes everyone quit.  What a worker    *)
(* does with a queue (Dispatch) is one step here: it may put new queues    *)
(* into the run queue, and services may end.                               *)
(***************************************************************************)
EXTENDS Integers, FiniteSets

CONSTANTS
  Worker,       \* the worker threads
  Free,         \* nobody holds the mutex
  Services,     \* services at the start
  MaxWork       \* bound on the queues scheduled in a behaviour

ASSUME WorkerAssumption == IsFiniteSet(Worker) /\ Free \notin Worker
ASSUME BoundAssumption == Services \in Nat /\ MaxWork \in Nat

VARIABLES
  run,          \* queues in the global run queue
  total,        \* services alive, skynet_context_total
  pc,           \* where every worker is
  mutex,        \* owner of m->mutex
  sleep, quit,  \* m->sleep, m->quit
  waiting,      \* the workers blocked in pthread_cond_wait
  timer,        \* where the timer thread is
  socket,       \* where the socket thread is
  socket_exit,  \* the exit command sent down the socket thread's pipe
  monitor,      \* where the monitor thread is
  made          \* queues scheduled so far, for MaxWork

pool == <<pc, mutex, sleep, quit, waiting>>
vars == <<run, total, pool, timer, socket, socket_exit, monitor, made>>

Init ==
  /\ run = 0
  /\ total = Services
  /\ pc = [w \in Worker |-> "check"]
  /\ mutex = Free
  /\ sleep = 0
  /\ quit = FALSE
  /\ waiting = {}
  /\ timer = "update"
  /\ socket = "poll"
  /\ socket_exit = FALSE
  /\ monitor = "check"
  /\ made = 0

-----------------------------------------------------------------------------
(* A service's queue is scheduled. *)
Schedule ==
  /\ total > 0
  /\ made < MaxWork
  /\ made' = made + 1
  /\ run' = run + 1

(* pthread_cond_signal: one of the waiting workers, if there is one. *)
Signal ==
  IF waiting = {} THEN UNCHANGED waiting
  ELSE \E w \in waiting : waiting' = waiting \ {w}

(* wakeup: at least count - busy workers say they sleep.  m->sleep is read *)
(* without the mutex, and the signal is a step of its own. *)
wakeup(busy) == sleep >= Cardinality(Worker) - busy

-----------------------------------------------------------------------------
(* thread_worker: while (!m->quit) *)
WorkerCheck(w) ==
  /\ pc[w] = "check"
  /\ pc' = [pc EXCEPT ![w] = IF quit THEN "exited" ELSE "dispatch"]
  /\ UNCHANGED <<run, total, mutex, sleep, quit, waiting, timer, socket,
                 socket_exit, monitor, made>>

(* skynet_context_message_dispatch *)
WorkerDispatch(w) ==
  /\ pc[w] = "dispatch"
  /\ \/ /\ run > 0
        /\ run' = run - 1
        /\ pc' = [pc EXCEPT ![w] = "busy"]
     \/ /\ run = 0
        /\ pc' = [pc EXCEPT ![w] = "lock"]
        /\ UNCHANGED run
  /\ UNCHANGED <<total, mutex, sleep, quit, waiting, timer, socket,
                 socket_exit, monitor, made>>

(* ... during which a service may schedule another one, or end. *)
CallbackSchedules(w) ==
  /\ pc[w] = "busy"
  /\ Schedule
  /\ UNCHANGED <<total, pool, timer, socket, socket_exit, monitor>>

CallbackEndsService(w) ==
  /\ pc[w] = "busy"
  /\ total > 0
  /\ total' = total - 1
  /\ UNCHANGED <<run, pool, timer, socket, socket_exit, monitor, made>>

DispatchReturns(w) ==
  /\ pc[w] = "busy"
  /\ pc' = [pc EXCEPT ![w] = "check"]
  /\ UNCHANGED <<run, total, mutex, sleep, quit, waiting, timer, socket,
                 socket_exit, monitor, made>>

(* Nothing to do: lock, ++sleep. *)
WorkerLock(w) ==
  /\ pc[w] = "lock"
  /\ mutex = Free
  /\ mutex' = w
  /\ sleep' = sleep + 1
  /\ pc' = [pc EXCEPT ![w] = "locked"]
  /\ UNCHANGED <<run, total, quit, waiting, timer, socket, socket_exit,
                 monitor, made>>

(* Mutant: waits without looking at quit. *)
WorkerWaitBlind(w) ==
  /\ pc[w] = "locked"
  /\ mutex' = Free
  /\ waiting' = waiting \cup {w}
  /\ pc' = [pc EXCEPT ![w] = "wait"]
  /\ UNCHANGED <<run, total, sleep, quit, timer, socket, socket_exit, monitor,
                 made>>

(* if (!m->quit) pthread_cond_wait, which gives the mutex away. *)
WorkerWait(w) ==
  /\ pc[w] = "locked"
  /\ \/ /\ ~quit
        /\ mutex' = Free
        /\ waiting' = waiting \cup {w}
        /\ pc' = [pc EXCEPT ![w] = "wait"]
     \/ /\ quit
        /\ pc' = [pc EXCEPT ![w] = "wake"]
        /\ UNCHANGED <<mutex, waiting>>
  /\ UNCHANGED <<run, total, sleep, quit, timer, socket, socket_exit, monitor,
                 made>>

(* "spurious wakeup" is harmless: the system may wake a worker any time. *)
SpuriousWakeup(w) ==
  /\ w \in waiting
  /\ waiting' = waiting \ {w}
  /\ UNCHANGED <<run, total, pc, mutex, sleep, quit, timer, socket,
                 socket_exit, monitor, made>>

WorkerWoken(w) ==
  /\ pc[w] = "wait"
  /\ w \notin waiting
  /\ mutex = Free
  /\ mutex' = w
  /\ pc' = [pc EXCEPT ![w] = "wake"]
  /\ UNCHANGED <<run, total, sleep, quit, waiting, timer, socket, socket_exit,
                 monitor, made>>

(* Mutant: --sleep is forgotten. *)
WorkerUnlockForgets(w) ==
  /\ pc[w] = "wake"
  /\ mutex' = Free
  /\ pc' = [pc EXCEPT ![w] = "check"]
  /\ UNCHANGED <<run, total, sleep, quit, waiting, timer, socket, socket_exit,
                 monitor, made>>

(* --sleep, unlock. *)
WorkerUnlock(w) ==
  /\ pc[w] = "wake"
  /\ mutex' = Free
  /\ sleep' = sleep - 1
  /\ pc' = [pc EXCEPT ![w] = "check"]
  /\ UNCHANGED <<run, total, quit, waiting, timer, socket, socket_exit,
                 monitor, made>>

WorkerStep(w) ==
  \/ WorkerCheck(w)
  \/ WorkerDispatch(w)
  \/ DispatchReturns(w)
  \/ WorkerLock(w)
  \/ WorkerWait(w)
  \/ WorkerWoken(w)
  \/ WorkerUnlock(w)

-----------------------------------------------------------------------------
(* thread_timer: skynet_updatetime may deliver timers, *)
TimerUpdate ==
  /\ timer = "update"
  /\ timer' = "check"
  /\ Schedule \/ UNCHANGED <<run, made>>
  /\ UNCHANGED <<total, pool, socket, socket_exit, monitor>>

(* CHECK_ABORT, *)
TimerCheck ==
  /\ timer = "check"
  /\ timer' = IF total = 0 THEN "stop" ELSE "wakeup"
  /\ UNCHANGED <<run, total, pool, socket, socket_exit, monitor, made>>

(* Mutant: the tick wakes nobody. *)
TimerNoWakeup ==
  /\ timer = "wakeup"
  /\ timer' = "update"
  /\ UNCHANGED <<run, total, pool, socket, socket_exit, monitor, made>>

(* wakeup(m, m->count - 1): at least one worker sleeps, *)
TimerWakeup ==
  /\ timer = "wakeup"
  /\ timer' = IF wakeup(Cardinality(Worker) - 1) THEN "signal" ELSE "update"
  /\ UNCHANGED <<run, total, pool, socket, socket_exit, monitor, made>>

(* and one is signalled. *)
TimerSignal ==
  /\ timer = "signal"
  /\ timer' = "update"
  /\ Signal
  /\ UNCHANGED <<run, total, pc, mutex, sleep, quit, socket, socket_exit,
                 monitor, made>>

(* After the loop: the socket thread is told, *)
skynet_socket_exit ==
  /\ timer = "stop"
  /\ timer' = "quit"
  /\ socket_exit' = TRUE
  /\ UNCHANGED <<run, total, pool, socket, monitor, made>>

(* then, under the mutex, quit is set and everyone is woken. *)
TimerQuit ==
  /\ timer = "quit"
  /\ mutex = Free
  /\ quit' = TRUE
  /\ waiting' = {}
  /\ timer' = "exited"
  /\ UNCHANGED <<run, total, pc, mutex, sleep, socket, socket_exit, monitor, made>>

TimerStep ==
  \/ TimerUpdate \/ TimerCheck \/ TimerWakeup \/ TimerSignal
  \/ skynet_socket_exit \/ TimerQuit

(* thread_socket: an event reaches a service; if more events are at hand   *)
(* (r < 0) nobody is woken, *)
SocketEvent ==
  /\ socket = "poll"
  /\ Schedule
  /\ socket' \in {"wakeup", "check"}
  /\ UNCHANGED <<total, pool, timer, socket_exit, monitor>>

(* nor if the poll came back without one; *)
SocketIdle ==
  /\ socket = "poll"
  /\ socket' = "check"
  /\ UNCHANGED <<run, total, pool, timer, socket_exit, monitor, made>>

(* CHECK_ABORT; *)
SocketCheck ==
  /\ socket = "check"
  /\ socket' = IF total = 0 THEN "exited" ELSE "poll"
  /\ UNCHANGED <<run, total, pool, timer, socket_exit, monitor, made>>

(* otherwise a worker is signalled if all of them sleep; *)
SocketWakeup ==
  /\ socket = "wakeup"
  /\ socket' = IF wakeup(0) THEN "signal" ELSE "poll"
  /\ UNCHANGED <<run, total, pool, timer, socket_exit, monitor, made>>

SocketSignal ==
  /\ socket = "signal"
  /\ Signal
  /\ socket' = "poll"
  /\ UNCHANGED <<run, total, pc, mutex, sleep, quit, timer, socket_exit,
                 monitor, made>>

(* the exit command ends the thread. *)
SocketExit ==
  /\ socket = "poll"
  /\ socket_exit
  /\ socket' = "exited"
  /\ UNCHANGED <<run, total, pool, timer, socket_exit, monitor, made>>

(* thread_monitor: CHECK_ABORT every second. *)
MonitorStep ==
  /\ monitor = "check"
  /\ total = 0
  /\ monitor' = "exited"
  /\ UNCHANGED <<run, total, pool, timer, socket, socket_exit, made>>

(* start: after all threads have been joined the process ends. *)
Joined ==
  /\ \A w \in Worker : pc[w] = "exited"
  /\ {timer, socket, monitor} = {"exited"}

Next ==
  \/ \E w \in Worker : \/ WorkerStep(w)
                       \/ CallbackSchedules(w)
                       \/ CallbackEndsService(w)
                       \/ SpuriousWakeup(w)
  \/ TimerStep
  \/ SocketEvent
  \/ SocketIdle
  \/ SocketCheck \/ SocketWakeup \/ SocketSignal
  \/ SocketExit
  \/ MonitorStep
  \/ Joined /\ UNCHANGED vars

(* Every thread runs, and one that keeps finding m->mutex free gets it:    *)
(* the fairness of the operating system's mutex.  Nothing is assumed of    *)
(* spurious wakeups, socket events and callbacks beyond their return.      *)
Spec ==
  /\ Init /\ [][Next]_vars
  /\ \A w \in Worker : /\ WF_vars(WorkerStep(w))
                       /\ SF_vars(WorkerLock(w) \/ WorkerWoken(w))
  /\ WF_vars(TimerStep)
  /\ SF_vars(TimerQuit)
  /\ WF_vars(SocketCheck \/ SocketWakeup \/ SocketSignal)
  /\ WF_vars(SocketExit)
  /\ WF_vars(MonitorStep)

-----------------------------------------------------------------------------
Points == {"check", "dispatch", "busy", "lock", "locked", "wait", "wake", "exited"}

(* The pool is well formed.                                                *)
TypeOK ==
  /\ run \in 0 .. MaxWork
  /\ total \in 0 .. Services
  /\ pc \in [Worker -> Points]
  /\ mutex \in Worker \cup {Free}
  /\ quit \in BOOLEAN
  /\ waiting \subseteq Worker
  /\ sleep \in 0 .. Cardinality(Worker)

(* m->sleep, which wakeup reads without the mutex, counts the workers      *)
(* between ++sleep and --sleep, and a worker waits only while it is in it. *)
SleepIsExact ==
  /\ TypeOK
  /\ sleep = Cardinality({w \in Worker : pc[w] \in {"locked", "wait", "wake"}})
  /\ waiting \subseteq {w \in Worker : pc[w] = "wait"}

(* Nobody waits on the condition once quit is set: the broadcast is the    *)
(* last wakeup there is.                                                   *)
NobodyWaitsAfterQuit == quit => waiting = {}

(* A scheduled queue is taken by a worker although wakeup's signal can be  *)
(* lost (it looks at m->sleep without the mutex, and the worker that found *)
(* the run queue empty has not begun to wait yet), unless the node ends.   *)
WorkIsTaken == run > 0 ~> (run = 0 \/ total = 0)

(* When the last service has ended, every thread leaves its loop and the   *)
(* process ends.                                                           *)
ShutdownCompletes == total = 0 ~> Joined
=============================================================================
