------------------------------ MODULE Dispatch ------------------------------
(***************************************************************************)
(* The heart of skynet: skynet-src/skynet_server.c with the scheduling     *)
(* half of skynet-src/skynet_mq.c and the grab and retire of               *)
(* skynet-src/skynet_handle.c.  Worker threads take message queues from    *)
(* the global run queue and call their services; callbacks send messages,  *)
(* kill services and launch new ones; the timer and socket threads only    *)
(* send.                                                                   *)
(*                                                                         *)
(* A step is what one thread does under one lock (the handle rwlock, a     *)
(* queue's spinlock with the global queue's nested in it, the global       *)
(* queue's spinlock) or with one atomic operation.  The decrement of a     *)
(* reference count that reaches zero and the delete_context it triggers    *)
(* are one step: nobody else can reach the context by then.                *)
(*                                                                         *)
(* A thread has up to three activations, the inner one runs first:         *)
(*   pc, q, cur, ...  skynet_context_message_dispatch, and its callback    *)
(*   new              skynet_context_new, called by a callback             *)
(*   call             skynet_send or handle_exit, called by either         *)
(***************************************************************************)
EXTENDS Integers, Sequences, FiniteSets

CONSTANTS
  Worker,        \* the worker threads of skynet_start.c
  Outside,       \* the timer and socket threads, which only send
  Handle,        \* the handles of all services that are ever launched
  Started,       \* the services launched before the threads start
  None,          \* handle 0
  Weight,        \* the dispatch weight of every worker, -1 .. 3
  MonitorExit,   \* the service told about exits (MONITOR command), or None
  MaxSend,       \* bound on the messages callbacks and outsiders send
  MaxKill        \* bound on the kills

ASSUME ThreadAssumption == /\ Worker \cap Outside = {}
                           /\ IsFiniteSet(Worker \cup Outside)
ASSUME HandleAssumption == /\ IsFiniteSet(Handle)
                           /\ Started \subseteq Handle
                           /\ None \notin Handle
ASSUME WeightAssumption == Weight \in [Worker -> -1 .. 3]
ASSUME MonitorAssumption == MonitorExit \in Handle \cup {None}
ASSUME BoundAssumption == MaxSend \in Nat /\ MaxKill \in Nat

Thread == Worker \cup Outside

VARIABLES
  slot,        \* the registered handles (skynet_handle.c)
  ctx,         \* whether a service's context is allocated
  ref,         \* its reference count
  init,        \* its init flag
  queue,       \* its messages
  qmem,        \* whether its message queue is allocated
  in_global,   \* its queue's in_global flag
  release,     \* its queue's release flag
  globalmq,    \* the global run queue
  total,       \* G_NODE.total
  pc,          \* control point of a thread's dispatch
  q, nq,       \* the queue it works on, and the next one it has popped
  cur,         \* the context it has grabbed to dispatch
  batch,       \* messages it may still take from q before it requeues it
  new,         \* its skynet_context_new activation
  call,        \* its skynet_send / handle_exit activation
  sends,       \* messages sent so far, for the bound MaxSend
  kills        \* kills so far, for the bound MaxKill

service == <<slot, ctx, ref, init, queue, qmem, in_global, release, globalmq,
             total>>
dispatch == <<pc, q, nq, cur, batch>>
bounds == <<sends, kills>>
vars == <<service, dispatch, new, call, bounds>>

(* A message is known by its sender; a sender of None is the timer. *)
Message == Handle \cup {None}

NoCall == [at |-> "idle", dst |-> None, src |-> None, victim |-> None]
NoNew == [at |-> "idle", h |-> None]

Idle(t) == call[t] = NoCall /\ new[t] = NoNew

(* The thread may act inside a callback, or inside the init function of a  *)
(* service it launches; Self is the service on whose behalf it then acts.  *)
InCallback(t) == pc[t] = "callback" /\ Idle(t)
InInit(t) == new[t].at = "init" /\ call[t] = NoCall
Self(t) == IF new[t].at = "init" THEN new[t].h ELSE cur[t]

-----------------------------------------------------------------------------
(* The launch of logger and bootstrap by skynet_start, before any thread   *)
(* runs: registered, initialised, their queues waiting in the run queue.   *)
Init ==
  /\ slot = Started
  /\ ctx = [h \in Handle |-> IF h \in Started THEN "live" ELSE "none"]
  /\ ref = [h \in Handle |-> IF h \in Started THEN 1 ELSE 0]
  /\ init = [h \in Handle |-> h \in Started]
  /\ queue = [h \in Handle |-> <<>>]
  /\ qmem = [h \in Handle |-> IF h \in Started THEN "live" ELSE "none"]
  /\ in_global = [h \in Handle |-> h \in Started]
  /\ release = [h \in Handle |-> FALSE]
  /\ globalmq \in {s \in [1 .. Cardinality(Started) -> Started] :
                     \A i, j \in DOMAIN s : s[i] = s[j] => i = j}
  /\ total = Cardinality(Started)
  /\ pc = [t \in Thread |-> IF t \in Worker THEN "pop" ELSE "outside"]
  /\ q = [t \in Thread |-> None]
  /\ nq = [t \in Thread |-> None]
  /\ cur = [t \in Thread |-> None]
  /\ batch = [t \in Thread |-> 0]
  /\ new = [t \in Thread |-> NoNew]
  /\ call = [t \in Thread |-> NoCall]
  /\ sends = 0
  /\ kills = 0

-----------------------------------------------------------------------------
(* Mutant: a queue that is already scheduled is pushed again. *)
ScheduleAlways(h) == Append(globalmq, h)

(* Mutant: nobody schedules the queue. *)
ScheduleNever(h) == globalmq

(* skynet_mq_push and skynet_mq_mark_release: the run queue after the      *)
(* queue of h has been scheduled unless it was already.                    *)
Scheduled(h) == IF in_global[h] THEN globalmq ELSE Append(globalmq, h)

(* Mutant: a reference is handed out without being counted. *)
skynet_context_grab_uncounted(h) == ref

(* skynet_context_grab: one more reference to the context of h. *)
skynet_context_grab(h) == [ref EXCEPT ![h] = @ + 1]

(* skynet_context_release: drop one reference to h.  The last one runs     *)
(* delete_context: the queue is marked for release, and scheduled if it    *)
(* was not, so that some worker finds the handle dead and drops it.        *)
skynet_context_release(h) ==
  /\ ref' = [ref EXCEPT ![h] = @ - 1]
  /\ IF ref[h] = 1
     THEN /\ ctx' = [ctx EXCEPT ![h] = "freed"]
          /\ release' = [release EXCEPT ![h] = TRUE]
          /\ globalmq' = Scheduled(h)
          /\ total' = total - 1
     ELSE UNCHANGED <<ctx, release, globalmq, total>>
  /\ UNCHANGED <<slot, init, queue, qmem, in_global>>

(* skynet_mq_release of the queue of a dead service: it goes back to the   *)
(* run queue until the last reference to the context is gone.              *)
skynet_mq_release_wait(h) ==
  /\ ~release[h]
  /\ globalmq' = Append(globalmq, h)
  /\ UNCHANGED <<slot, ctx, ref, init, queue, qmem, in_global, release, total>>

(* _drop_queue: one more message popped and dropped; drop_message reports  *)
(* it to its sender, unless that is the timer.                             *)
DropOne(t, h) ==
  /\ queue[h] # <<>>
  /\ queue' = [queue EXCEPT ![h] = Tail(@)]
  /\ call' = [call EXCEPT ![t] =
                IF Head(queue[h]) = None THEN NoCall
                ELSE [at |-> "grab", dst |-> Head(queue[h]), src |-> h,
                      victim |-> None]]
  /\ UNCHANGED <<slot, ctx, ref, init, qmem, in_global, release, globalmq, total>>

(* _drop_queue: the pop that finds the queue empty, then _release. *)
FreeQueue(h) ==
  /\ queue[h] = <<>>
  /\ in_global' = [in_global EXCEPT ![h] = FALSE]
  /\ qmem' = [qmem EXCEPT ![h] = "freed"]
  /\ UNCHANGED <<slot, ctx, ref, init, queue, release, globalmq, total>>

-----------------------------------------------------------------------------
(* skynet_send: grab the destination, push, release.  A destination that   *)
(* is not registered loses the message.                                    *)
AfterSend(t) ==
  IF call[t].victim = None THEN NoCall ELSE [call[t] EXCEPT !.at = "retire"]

skynet_handle_grab(t) ==
  /\ call[t].at = "grab"
  /\ IF call[t].dst \in slot
     THEN /\ ref' = skynet_context_grab(call[t].dst)
          /\ call' = [call EXCEPT ![t].at = "push"]
     ELSE /\ call' = [call EXCEPT ![t] = AfterSend(t)]
          /\ UNCHANGED ref
  /\ UNCHANGED <<slot, ctx, init, queue, qmem, in_global, release, globalmq,
                 total, dispatch, new, bounds>>

skynet_mq_push(t) ==
  LET h == call[t].dst
  IN  /\ call[t].at = "push"
      /\ queue' = [queue EXCEPT ![h] = Append(@, call[t].src)]
      /\ in_global' = [in_global EXCEPT ![h] = TRUE]
      /\ globalmq' = Scheduled(h)
      /\ call' = [call EXCEPT ![t].at = "release"]
      /\ UNCHANGED <<slot, ctx, ref, init, qmem, release, total, dispatch, new,
                     bounds>>

SendRelease(t) ==
  /\ call[t].at = "release"
  /\ skynet_context_release(call[t].dst)
  /\ call' = [call EXCEPT ![t] = AfterSend(t)]
  /\ UNCHANGED <<dispatch, new, bounds>>

(* skynet_handle_retire: unregister under the write lock, then release.    *)
skynet_handle_retire(t) ==
  /\ call[t].at = "retire"
  /\ slot' = slot \ {call[t].victim}
  /\ call' = [call EXCEPT ![t] =
                IF @.victim \in slot THEN [@ EXCEPT !.at = "retired"] ELSE NoCall]
  /\ UNCHANGED <<ctx, ref, init, queue, qmem, in_global, release, globalmq,
                 total, dispatch, new, bounds>>

RetireRelease(t) ==
  /\ call[t].at = "retired"
  /\ skynet_context_release(call[t].victim)
  /\ call' = [call EXCEPT ![t] = NoCall]
  /\ UNCHANGED <<dispatch, new, bounds>>

CallStep(t) ==
  \/ skynet_handle_grab(t)
  \/ skynet_mq_push(t)
  \/ SendRelease(t)
  \/ skynet_handle_retire(t)
  \/ RetireRelease(t)

-----------------------------------------------------------------------------
(* What a callback or an init function does: send a message to any         *)
(* service, exit (EXIT) or kill another service (KILL), which first tells  *)
(* the monitor service.                                                    *)
skynet_send(t, dst) ==
  /\ InCallback(t) \/ InInit(t) \/ (t \in Outside /\ Idle(t))
  /\ sends < MaxSend
  /\ sends' = sends + 1
  /\ call' = [call EXCEPT ![t] = [at |-> "grab", dst |-> dst, src |-> Self(t),
                                  victim |-> None]]
  /\ UNCHANGED <<service, dispatch, new, kills>>

handle_exit(t, victim) ==
  /\ InCallback(t) \/ (InInit(t) /\ victim = Self(t))
  /\ ctx[victim] # "none"
  /\ kills < MaxKill
  /\ kills' = kills + 1
  /\ call' = [call EXCEPT ![t] =
                [at |-> IF MonitorExit = None THEN "retire" ELSE "grab",
                 dst |-> MonitorExit, src |-> victim, victim |-> victim]]
  /\ UNCHANGED <<service, dispatch, new, sends>>

-----------------------------------------------------------------------------
(* ctx->ref of a context that is being created: the slot's reference, and  *)
(* the launcher's.                                                         *)
CreatedRef == 2

(* Mutant: the new queue may be scheduled at once. *)
CreatedOutOfGlobal == FALSE

(* skynet_mq_create: in_global is set although nobody has scheduled it.    *)
CreatedInGlobal == TRUE

(* context_inc *)
context_inc == total + 1

(* skynet_context_new, called from a callback: two references, one for the *)
(* slot and one for the launcher; in_global is set from the start so that  *)
(* nobody schedules the queue before the service is initialised.  The      *)
(* registration, the stores of handle and queue and context_inc are one    *)
(* step: what other threads see between the registration and the store of  *)
(* the handle is the subject of HandleStorage.                             *)
skynet_context_new(t, h) ==
  /\ InCallback(t)
  /\ ctx[h] = "none"
  /\ slot' = slot \cup {h}
  /\ ctx' = [ctx EXCEPT ![h] = "live"]
  /\ ref' = [ref EXCEPT ![h] = CreatedRef]
  /\ qmem' = [qmem EXCEPT ![h] = "live"]
  /\ in_global' = [in_global EXCEPT ![h] = CreatedInGlobal]
  /\ total' = context_inc
  /\ new' = [new EXCEPT ![t] = [at |-> "init", h |-> h]]
  /\ UNCHANGED <<init, queue, release, globalmq, dispatch, call, bounds>>

(* The module's init function returns 0, or an error. *)
InitReturns(t) ==
  /\ InInit(t)
  /\ \E at \in {"ok", "failed"} : new' = [new EXCEPT ![t].at = at]
  /\ UNCHANGED <<service, dispatch, call, bounds>>

(* Success: the launcher's reference is released ... *)
NewRelease(t) ==
  /\ new[t].at = "ok"
  /\ skynet_context_release(new[t].h)
  /\ new' = [new EXCEPT ![t].at = IF ref[new[t].h] = 1 THEN "schedule" ELSE "flag"]
  /\ UNCHANGED <<dispatch, call, bounds>>

(* ... then the flag is written through a pointer that no longer holds a   *)
(* reference, ...                                                          *)
NewSetInit(t) ==
  /\ new[t].at = "flag"
  /\ init' = [init EXCEPT ![new[t].h] = TRUE]
  /\ new' = [new EXCEPT ![t].at = "schedule"]
  /\ UNCHANGED <<slot, ctx, ref, queue, qmem, in_global, release, globalmq,
                 total, dispatch, call, bounds>>

(* ... and the queue enters the run queue for the first time. *)
NewSchedule(t) ==
  /\ new[t].at = "schedule"
  /\ globalmq' = Append(globalmq, new[t].h)
  /\ new' = [new EXCEPT ![t] = NoNew]
  /\ UNCHANGED <<slot, ctx, ref, init, queue, qmem, in_global, release, total,
                 dispatch, call, bounds>>

(* Failure: release, retire the handle, give up the queue. *)
NewFailRelease(t) ==
  /\ new[t].at = "failed"
  /\ skynet_context_release(new[t].h)
  /\ new' = [new EXCEPT ![t].at = "give_up"]
  /\ call' = [call EXCEPT ![t] = [at |-> "retire", dst |-> None, src |-> None,
                                  victim |-> new[t].h]]
  /\ UNCHANGED <<dispatch, bounds>>

NewFailQueue(t) ==
  /\ new[t].at = "give_up"
  /\ call[t] = NoCall
  /\ \/ /\ skynet_mq_release_wait(new[t].h)
        /\ new' = [new EXCEPT ![t] = NoNew]
     \/ /\ release[new[t].h]
        /\ new' = [new EXCEPT ![t].at = "drop"]
        /\ UNCHANGED service
  /\ UNCHANGED <<dispatch, call, bounds>>

NewFailDrop(t) ==
  /\ new[t].at = "drop"
  /\ call[t] = NoCall
  /\ \/ DropOne(t, new[t].h) /\ UNCHANGED new
     \/ /\ FreeQueue(new[t].h)
        /\ new' = [new EXCEPT ![t] = NoNew]
        /\ UNCHANGED call
  /\ UNCHANGED <<dispatch, bounds>>

NewStep(t) ==
  \/ InitReturns(t)
  \/ NewRelease(t)
  \/ NewSetInit(t)
  \/ NewSchedule(t)
  \/ NewFailRelease(t)
  \/ NewFailQueue(t)
  \/ NewFailDrop(t)

-----------------------------------------------------------------------------
(* skynet_context_message_dispatch, entered without a queue. *)
skynet_globalmq_pop(t) ==
  /\ pc[t] = "pop"
  /\ globalmq # <<>>
  /\ q' = [q EXCEPT ![t] = Head(globalmq)]
  /\ globalmq' = Tail(globalmq)
  /\ pc' = [pc EXCEPT ![t] = "grab"]
  /\ UNCHANGED <<slot, ctx, ref, init, queue, qmem, in_global, release, total,
                 nq, cur, batch, new, call, bounds>>

(* skynet_handle_grab of the service the queue belongs to. *)
DispatchGrab(t) ==
  /\ pc[t] = "grab"
  /\ IF q[t] \in slot
     THEN /\ ref' = skynet_context_grab(q[t])
          /\ cur' = [cur EXCEPT ![t] = q[t]]
          /\ pc' = [pc EXCEPT ![t] = "first"]
     ELSE /\ pc' = [pc EXCEPT ![t] = "dead"]
          /\ UNCHANGED <<ref, cur>>
  /\ UNCHANGED <<slot, ctx, init, queue, qmem, in_global, release, globalmq,
                 total, q, nq, batch, new, call, bounds>>

(* Mutant: the queue is dropped while somebody may still push to it. *)
DispatchDeadAtOnce(t) ==
  /\ pc[t] = "dead"
  /\ pc' = [pc EXCEPT ![t] = "drop"]
  /\ UNCHANGED <<service, q, nq, cur, batch, new, call, bounds>>

(* The service is gone: skynet_mq_release its queue. *)
DispatchDead(t) ==
  /\ pc[t] = "dead"
  /\ \/ /\ skynet_mq_release_wait(q[t])
        /\ pc' = [pc EXCEPT ![t] = "pop"]
        /\ q' = [q EXCEPT ![t] = None]
     \/ /\ release[q[t]]
        /\ pc' = [pc EXCEPT ![t] = "drop"]
        /\ UNCHANGED <<service, q>>
  /\ UNCHANGED <<nq, cur, batch, new, call, bounds>>

DispatchDrop(t) ==
  /\ pc[t] = "drop"
  /\ call[t] = NoCall
  /\ \/ /\ DropOne(t, q[t])
        /\ UNCHANGED <<pc, q>>
     \/ /\ FreeQueue(q[t])
        /\ pc' = [pc EXCEPT ![t] = "pop"]
        /\ q' = [q EXCEPT ![t] = None]
        /\ UNCHANGED call
  /\ UNCHANGED <<nq, cur, batch, new, bounds>>

(* skynet_mq_pop of a message.  After the first one the length of the      *)
(* queue, shifted by the worker's weight, decides how many to take.        *)
skynet_mq_pop(t) ==
  /\ pc[t] \in {"first", "more"}
  /\ queue[q[t]] # <<>>
  /\ queue' = [queue EXCEPT ![q[t]] = Tail(@)]
  /\ batch' = [batch EXCEPT ![t] = IF pc[t] = "first" THEN 1 ELSE @]
  /\ pc' = [pc EXCEPT ![t] = IF pc[t] = "first" /\ Weight[t] >= 0
                             THEN "length" ELSE "callback"]
  /\ UNCHANGED <<slot, ctx, ref, init, qmem, in_global, release, globalmq,
                 total, q, nq, cur, new, call, bounds>>

skynet_mq_length(t) ==
  /\ pc[t] = "length"
  /\ batch' = [batch EXCEPT ![t] = Len(queue[q[t]]) \div 2^Weight[t]]
  /\ pc' = [pc EXCEPT ![t] = "callback"]
  /\ UNCHANGED <<service, q, nq, cur, new, call, bounds>>

(* skynet_mq_pop that finds nothing: the queue leaves the schedule, and    *)
(* the context is released without it.                                     *)
skynet_mq_pop_empty(t) ==
  /\ pc[t] \in {"first", "more"}
  /\ queue[q[t]] = <<>>
  /\ in_global' = [in_global EXCEPT ![q[t]] = FALSE]
  /\ q' = [q EXCEPT ![t] = None]
  /\ pc' = [pc EXCEPT ![t] = "leave"]
  /\ UNCHANGED <<slot, ctx, ref, init, queue, qmem, release, globalmq, total,
                 nq, cur, batch, new, call, bounds>>

(* The callback returns. *)
CallbackReturns(t) ==
  /\ InCallback(t)
  /\ batch' = [batch EXCEPT ![t] = @ - 1]
  /\ pc' = [pc EXCEPT ![t] = IF batch[t] > 1 THEN "more" ELSE "next"]
  /\ UNCHANGED <<service, q, nq, cur, new, call, bounds>>

(* The batch is done: if another queue is waiting, take it and push this   *)
(* one back; else keep this one.                                           *)
DispatchNext(t) ==
  /\ pc[t] = "next"
  /\ \/ /\ globalmq # <<>>
        /\ nq' = [nq EXCEPT ![t] = Head(globalmq)]
        /\ globalmq' = Tail(globalmq)
        /\ pc' = [pc EXCEPT ![t] = "requeue"]
     \/ /\ globalmq = <<>>
        /\ pc' = [pc EXCEPT ![t] = "leave"]
        /\ UNCHANGED <<globalmq, nq>>
  /\ UNCHANGED <<slot, ctx, ref, init, queue, qmem, in_global, release, total,
                 q, cur, batch, new, call, bounds>>

skynet_globalmq_push(t) ==
  /\ pc[t] = "requeue"
  /\ globalmq' = Append(globalmq, q[t])
  /\ q' = [q EXCEPT ![t] = nq[t]]
  /\ nq' = [nq EXCEPT ![t] = None]
  /\ pc' = [pc EXCEPT ![t] = "leave"]
  /\ UNCHANGED <<slot, ctx, ref, init, queue, qmem, in_global, release, total,
                 cur, batch, new, call, bounds>>

(* skynet_context_release of the dispatched context, then the next         *)
(* dispatch, with the queue that was kept if there is one.                 *)
DispatchLeave(t) ==
  /\ pc[t] = "leave"
  /\ skynet_context_release(cur[t])
  /\ cur' = [cur EXCEPT ![t] = None]
  /\ batch' = [batch EXCEPT ![t] = 0]
  /\ pc' = [pc EXCEPT ![t] = IF q[t] = None THEN "pop" ELSE "grab"]
  /\ UNCHANGED <<q, nq, new, call, bounds>>

DispatchStep(t) ==
  \/ skynet_globalmq_pop(t)
  \/ DispatchGrab(t)
  \/ DispatchDead(t)
  \/ DispatchDrop(t)
  \/ skynet_mq_pop(t)
  \/ skynet_mq_length(t)
  \/ skynet_mq_pop_empty(t)
  \/ CallbackReturns(t)
  \/ DispatchNext(t)
  \/ skynet_globalmq_push(t)
  \/ DispatchLeave(t)

(* What a thread must do next, and what a callback chooses to do. *)
Step(t) == CallStep(t) \/ NewStep(t) \/ DispatchStep(t)

Act(t) ==
  \/ \E dst \in Handle : skynet_send(t, dst)
  \/ \E victim \in Handle : handle_exit(t, victim)
  \/ \E h \in Handle : skynet_context_new(t, h)

Next == \E t \in Thread : Step(t) \/ Act(t)

Spec == Init /\ [][Next]_vars

(* Every thread keeps running, and callbacks return: a callback that does  *)
(* not is the endless loop that skynet_monitor.c reports.                  *)
FairSpec == Spec /\ \A t \in Thread : WF_vars(Step(t))

-----------------------------------------------------------------------------
(* The state of the contexts, their queues and the threads is well formed. *)
TypeOK ==
  /\ slot \subseteq Handle
  /\ ctx \in [Handle -> {"none", "live", "freed"}]
  /\ ref \in [Handle -> Nat]
  /\ init \in [Handle -> BOOLEAN]
  /\ queue \in [Handle -> Seq(Message)]
  /\ qmem \in [Handle -> {"none", "live", "freed"}]
  /\ in_global \in [Handle -> BOOLEAN]
  /\ release \in [Handle -> BOOLEAN]
  /\ globalmq \in Seq(Handle)
  /\ total \in Nat
  /\ pc \in [Thread -> {"pop", "grab", "dead", "drop", "first", "length",
                        "callback", "more", "next", "requeue", "leave",
                        "outside"}]
  /\ q \in [Thread -> Handle \cup {None}]
  /\ nq \in [Thread -> Handle \cup {None}]
  /\ cur \in [Thread -> Handle \cup {None}]
  /\ batch \in [Thread -> Int]
  /\ new \in [Thread ->
       [at : {"idle", "init", "ok", "flag", "schedule", "failed", "give_up",
              "drop"}, h : Handle \cup {None}]]
  /\ call \in [Thread ->
       [at : {"idle", "grab", "push", "release", "retire", "retired"},
        dst : Handle \cup {None}, src : Handle \cup {None},
        victim : Handle \cup {None}]]
  /\ sends \in 0 .. MaxSend
  /\ kills \in 0 .. MaxKill

(* The places from which the queue of h can reach a worker: the run queue, *)
(* a dispatching thread's hands, or the launcher's.                        *)
Places(h) ==
  {<<"run", i>> : i \in {j \in DOMAIN globalmq : globalmq[j] = h}}
    \cup {<<"q", t>> : t \in {u \in Thread : q[u] = h}}
    \cup {<<"nq", t>> : t \in {u \in Thread : nq[u] = h}}
    \cup {<<"new", t>> : t \in {u \in Thread : new[u].h = h}}

(* The comment at the head of skynet_mq.c: in_global says that the queue   *)
(* is in the run queue or being dispatched.  So a queue is never scheduled *)
(* twice (the assertion queue->next == NULL) and a service never runs in   *)
(* two threads (CALLING_CHECK); and the queue of a deleted service is      *)
(* never left out of the schedule.  Nor is one that holds messages: the    *)
(* push that finds in_global clear and the pop that clears it leave no     *)
(* message behind.                                                         *)
ScheduledOnce ==
  \A h \in Handle :
    /\ Cardinality(Places(h)) =
         IF qmem[h] = "live" /\ (in_global[h] \/ release[h]) THEN 1 ELSE 0
    /\ qmem[h] = "live" /\ queue[h] # <<>> => in_global[h]

(* Who holds a counted reference to the context of h: its slot, a retire   *)
(* in progress, a dispatch, a send, a launch.                              *)
Holders(h) ==
  {<<"slot", h>> : x \in {h} \cap slot}
    \cup {<<"retired", t>> :
            t \in {u \in Thread : call[u].at = "retired" /\ call[u].victim = h}}
    \cup {<<"cur", t>> : t \in {u \in Thread : cur[u] = h}}
    \cup {<<"send", t>> :
            t \in {u \in Thread : call[u].at \in {"push", "release"}
                                    /\ call[u].dst = h}}
    \cup {<<"new", t>> :
            t \in {u \in Thread : new[u].at \in {"init", "ok", "failed"}
                                    /\ new[u].h = h}}

(* The reference count is the number of its holders, and the context is    *)
(* deleted exactly when the last one leaves: no thread ever uses a freed   *)
(* context through a counted reference, and none leaks.  G_NODE.total,     *)
(* which the threads poll to decide that the process is over, counts the   *)
(* live contexts.                                                          *)
RefCounted ==
  /\ TypeOK
  /\ \A h \in Handle :
       /\ ref[h] = Cardinality(Holders(h))
       /\ ctx[h] = "live" <=> ref[h] > 0
  /\ total = Cardinality({h \in Handle : ctx[h] = "live"})

(* assert(ctx->init) in dispatch_message: a callback only runs once the    *)
(* launcher has finished, although messages may arrive during init.        *)
InitBeforeDispatch ==
  \A t \in Worker : pc[t] = "callback" => init[cur[t]]

(* A message queue is freed only after its context, with nothing in it,    *)
(* and while no thread can push to it any more.                            *)
FreedQueueIsDead ==
  \A h \in Handle : qmem[h] = "freed" =>
    /\ ctx[h] = "freed"
    /\ queue[h] = <<>>
    /\ Places(h) = {}

(* Everything that was accepted is eventually consumed: every message is   *)
(* dispatched or dropped, and the queue of a deleted service is freed,     *)
(* whatever order sends, kills, launches and dispatches come in.           *)
EventuallyDrained ==
  <>[](\A h \in Handle : /\ queue[h] = <<>>
                         /\ ctx[h] = "freed" => qmem[h] = "freed")
=============================================================================
