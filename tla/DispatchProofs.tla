--------------------------- MODULE DispatchProofs ---------------------------
(***************************************************************************)
(* Proofs about skynet-src/skynet_server.c and skynet_mq.c.                *)
(***************************************************************************)
EXTENDS Dispatch, FiniteSetTheorems, FunctionTheorems, TLAPS

PCs == {"pop", "grab", "dead", "drop", "first", "length", "callback", "more",
        "next", "requeue", "leave", "outside"}

(* What the control point of a thread says about its other variables.      *)
ThreadOK(t) ==
  /\ pc[t] = "outside" <=> t \in Outside
  /\ new[t] # NoNew => pc[t] = "callback"
  /\ call[t] # NoCall => pc[t] \in {"callback", "drop", "outside"}
  /\ new[t].at = "idle" => new[t] = NoNew
  /\ new[t].at # "idle" => new[t].h \in Handle
  /\ new[t].at \in {"ok", "flag", "schedule", "failed"} => call[t] = NoCall
  /\ call[t].at = "idle" => call[t] = NoCall
  /\ call[t].at \in {"grab", "push", "release"} => call[t].dst \in Handle
  /\ call[t].at \in {"retire", "retired"} => call[t].victim \in Handle
  /\ cur[t] # None <=> pc[t] \in {"first", "length", "callback", "more", "next",
                                  "requeue", "leave"}
  /\ nq[t] # None <=> pc[t] = "requeue"
  /\ pc[t] \in {"pop", "outside"} => q[t] = None
  /\ pc[t] \in {"grab", "dead", "drop"} => q[t] \in Handle
  /\ pc[t] \in {"first", "length", "callback", "more", "next", "requeue"} =>
       q[t] = cur[t]

NewType ==
  [at : {"idle", "init", "ok", "flag", "schedule", "failed", "give_up", "drop"},
   h : Handle \cup {None}]

CallType ==
  [at : {"idle", "grab", "push", "release", "retire", "retired"},
   dst : Handle \cup {None}, src : Handle \cup {None},
   victim : Handle \cup {None}]

(* The types of the variables the threads own, and of the run queue.       *)
ThreadTypes ==
  /\ slot \subseteq Handle
  /\ queue \in [Handle -> Seq(Message)]
  /\ globalmq \in Seq(Handle)
  /\ pc \in [Thread -> PCs]
  /\ q \in [Thread -> Handle \cup {None}]
  /\ nq \in [Thread -> Handle \cup {None}]
  /\ cur \in [Thread -> Handle \cup {None}]
  /\ new \in [Thread -> NewType]
  /\ call \in [Thread -> CallType]

ControlInv == ThreadTypes /\ \A t \in Thread : ThreadOK(t)

(* The references to the context of h: the slot's, and those of a thread.  *)
One(P) == IF P THEN 1 ELSE 0

Retiring(t, h)  == call[t].at = "retired" /\ call[t].victim = h
Sending(t, h)   == call[t].at \in {"push", "release"} /\ call[t].dst = h
Launching(t, h) == new[t].at \in {"init", "ok", "failed"} /\ new[t].h = h

Own(t, h) ==
  One(Retiring(t, h)) + One(cur[t] = h) + One(Sending(t, h)) + One(Launching(t, h))

Refs(h) ==
  One(h \in slot) + Cardinality({t \in Thread : Retiring(t, h)})
    + Cardinality({t \in Thread : cur[t] = h})
    + Cardinality({t \in Thread : Sending(t, h)})
    + Cardinality({t \in Thread : Launching(t, h)})

CountInv ==
  /\ ref \in [Handle -> Nat]
  /\ ctx \in [Handle -> {"none", "live", "freed"}]
  /\ \A h \in Handle : ref[h] = Refs(h) /\ (ctx[h] = "live" <=> ref[h] > 0)
  /\ total = Cardinality({h \in Handle : ctx[h] = "live"})

(* The queue of h is in the hands of thread t, or in the run queue.        *)
InHand(t, h) == q[t] = h \/ nq[t] = h \/ new[t].h = h
RunSet == {globalmq[i] : i \in DOMAIN globalmq}
Placed(h) == h \in RunSet \/ \E t \in Thread : InHand(t, h)

Once(s) == \A i, j \in DOMAIN s : s[i] = s[j] => i = j

Apart(t) ==
  \A h \in Handle : /\ q[t] = h => nq[t] # h /\ new[t].h # h
                    /\ nq[t] = h => new[t].h # h

(* A queue is in one place at most ...                                     *)
Exclusive ==
  /\ Once(globalmq)
  /\ \A t \in Thread, h \in Handle : InHand(t, h) => h \notin RunSet
  /\ \A t, u \in Thread, h \in Handle : InHand(t, h) /\ InHand(u, h) => t = u
  /\ \A t \in Thread : Apart(t)

(* ... and in one exactly when its flags say so.                           *)
Flagged(h) == qmem[h] = "live" /\ (in_global[h] \/ release[h])

PlaceInv == Exclusive /\ \A h \in Handle : Placed(h) <=> Flagged(h)

(* The life of a context and of its queue.                                 *)
Life(h) ==
  /\ release[h] <=> ctx[h] = "freed"
  /\ ctx[h] = "none" <=> qmem[h] = "none"
  /\ qmem[h] = "freed" => ctx[h] = "freed" /\ queue[h] = <<>>
  /\ ctx[h] = "none" => queue[h] = <<>>
  /\ qmem[h] = "live" /\ queue[h] # <<>> => in_global[h]

(* A queue is only dropped once its context is deleted.                    *)
DropOK(t) ==
  /\ pc[t] = "drop" => release[q[t]]
  /\ new[t].at = "drop" => release[new[t].h]

MemoryInv ==
  /\ qmem \in [Handle -> {"none", "live", "freed"}]
  /\ in_global \in [Handle -> BOOLEAN]
  /\ release \in [Handle -> BOOLEAN]
  /\ \A h \in Handle : Life(h)
  /\ \A t \in Thread : DropOK(t)

(* A launcher is done with a service once it is initialised, or out of     *)
(* everybody's reach.                                                      *)
LaunchOK(t) ==
  /\ new[t].at = "schedule" => init[new[t].h] \/ new[t].h \notin slot
  /\ new[t].at \in {"give_up", "drop"} =>
       \/ new[t].h \notin slot
       \/ call[t].at = "retire" /\ call[t].victim = new[t].h

(* A service that can be grabbed and is not initialised is in the hands of *)
(* its launcher.                                                           *)
LaunchInv ==
  /\ init \in [Handle -> BOOLEAN]
  /\ \A t \in Thread : cur[t] # None => init[cur[t]]
  /\ \A h \in slot : init[h] \/ \E t \in Thread : new[t].h = h
  /\ \A t \in Thread : LaunchOK(t)

(* Before the threads start, they have nothing in hand.                    *)
LEMMA ControlInit == Init => ControlInv
<1> SUFFICES ASSUME Init PROVE ControlInv
  OBVIOUS
<1>1. globalmq \in Seq(Handle)
  <2>1. Cardinality(Started) \in Nat
    BY HandleAssumption, FS_Subset, FS_CardinalityType
  <2>2. globalmq \in [1 .. Cardinality(Started) -> Handle]
    BY HandleAssumption DEF Init
  <2> QED BY <2>1, <2>2
<1>2. ThreadTypes
  BY <1>1, HandleAssumption DEF Init, ThreadTypes, PCs, NoNew, NoCall, NewType, CallType
<1>3. \A t \in Thread : ThreadOK(t)
  BY HandleAssumption, ThreadAssumption DEF Init, ThreadOK, Thread, NoNew, NoCall
<1> QED BY <1>2, <1>3 DEF ControlInv

(* An activation moves on.                                                 *)
LEMMA ActivationTypes ==
  /\ NoCall \in CallType
  /\ NoNew \in NewType
  /\ \A r \in CallType, at \in {"push", "release", "retire", "retired"} :
       [r EXCEPT !.at = at] \in CallType
  /\ \A r \in NewType, at \in {"ok", "flag", "schedule", "failed", "give_up", "drop"} :
       [r EXCEPT !.at = at] \in NewType
BY DEF NoCall, NoNew, CallType, NewType

(* What follows a send is nothing, or the retirement it announced.         *)
LEMMA AfterSendTypes ==
  ASSUME ThreadTypes, NEW t \in Thread
  PROVE  /\ AfterSend(t) \in CallType
         /\ AfterSend(t) = NoCall \/ (AfterSend(t).at = "retire" /\ AfterSend(t).victim \in Handle)
         /\ AfterSend(t).at \in {"idle", "retire"}
<1>1. call[t] \in CallType
  BY DEF ThreadTypes
<1>2. CASE call[t].victim = None
  BY <1>2, ActivationTypes DEF AfterSend, NoCall
<1>3. CASE call[t].victim # None
  BY <1>1, <1>3 DEF AfterSend, CallType
<1> QED BY <1>2, <1>3

(* The run queue holds handles.                                            *)
LEMMA ScheduledType ==
  ASSUME ThreadTypes, NEW h \in Handle
  PROVE  Scheduled(h) \in Seq(Handle) /\ Append(globalmq, h) \in Seq(Handle)
BY DEF ThreadTypes, Scheduled

(* The last reference may schedule the queue; the rest stays.              *)
LEMMA ReleaseTypes ==
  ASSUME ThreadTypes, NEW h \in Handle, skynet_context_release(h)
  PROVE  /\ globalmq' \in Seq(Handle)
         /\ UNCHANGED <<slot, queue>>
BY ScheduledType DEF skynet_context_release, ThreadTypes

(* drop_message reports a dropped message to its sender.                   *)
LEMMA DropCall ==
  ASSUME ThreadTypes, NEW t \in Thread, NEW h \in Handle, DropOne(t, h)
  PROVE  /\ queue' \in [Handle -> Seq(Message)]
         /\ \E k \in CallType : /\ call' = [call EXCEPT ![t] = k]
                                /\ k = NoCall \/ (k.at = "grab" /\ k.dst \in Handle)
<1>1. queue[h] \in Seq(Message) /\ queue[h] # <<>>
  BY DEF DropOne, ThreadTypes
<1>2. Head(queue[h]) \in Message /\ Tail(queue[h]) \in Seq(Message)
  BY <1>1
<1>3. queue' \in [Handle -> Seq(Message)]
  BY <1>2 DEF DropOne, ThreadTypes
<1>4. CASE Head(queue[h]) = None
  BY <1>3, <1>4, ActivationTypes DEF DropOne
<1>5. CASE Head(queue[h]) # None
  <2> DEFINE k == [at |-> "grab", dst |-> Head(queue[h]), src |-> h, victim |-> None]
  <2>1. k \in CallType /\ k.at = "grab" /\ k.dst \in Handle
    BY <1>2, <1>5 DEF CallType, Message
  <2>2. call' = [call EXCEPT ![t] = k]
    BY <1>5 DEF DropOne
  <2> QED BY <1>3, <2>1, <2>2
<1> QED BY <1>4, <1>5

(* The steps of skynet_send and skynet_handle_retire.                      *)
LEMMA ControlCall ==
  ASSUME ControlInv, NEW t \in Thread, CallStep(t)
  PROVE  ControlInv'
<1>0. ThreadTypes /\ \A u \in Thread : ThreadOK(u)
  BY DEF ControlInv
<1>a. PICK after \in CallType :
        /\ after = AfterSend(t)
        /\ after = NoCall \/ (after.at = "retire" /\ after.victim \in Handle)
        /\ after.at \in {"idle", "retire"}
  BY <1>0, AfterSendTypes
<1>1. CASE skynet_handle_grab(t)
  <2>0. UNCHANGED <<slot, queue, globalmq, pc, q, nq, cur, new>>
    BY <1>1 DEF skynet_handle_grab, dispatch
  <2>1. CASE call[t].dst \in slot
    <3>1. call' = [call EXCEPT ![t].at = "push"]
      BY <1>1, <2>1 DEF skynet_handle_grab
    <3>2. ThreadTypes'
      BY <1>0, <2>0, <3>1, ActivationTypes DEF ThreadTypes
    <3>3. \A u \in Thread : ThreadOK(u)'
      BY <1>0, <1>1, <2>0, <3>1 DEF skynet_handle_grab, ThreadTypes, ThreadOK, NoCall
    <3> QED BY <3>2, <3>3 DEF ControlInv
  <2>2. CASE call[t].dst \notin slot
    <3>1. call' = [call EXCEPT ![t] = after]
      BY <1>1, <1>a, <2>2 DEF skynet_handle_grab
    <3>2. ThreadTypes'
      BY <1>0, <1>a, <2>0, <3>1 DEF ThreadTypes
    <3>3. \A u \in Thread : ThreadOK(u)'
      BY <1>0, <1>1, <1>a, <2>0, <3>1 DEF skynet_handle_grab, ThreadTypes, ThreadOK, NoCall
    <3> QED BY <3>2, <3>3 DEF ControlInv
  <2> QED BY <2>1, <2>2
<1>2. CASE skynet_mq_push(t)
  <2>0. call[t].dst \in Handle /\ call[t].src \in Message
    BY <1>0, <1>2 DEF skynet_mq_push, ThreadTypes, ThreadOK, CallType, Message
  <2>1. globalmq' \in Seq(Handle) /\ queue' \in [Handle -> Seq(Message)]
    BY <1>0, <1>2, <2>0, ScheduledType DEF skynet_mq_push, ThreadTypes
  <2>2. ThreadTypes'
    BY <1>0, <1>2, <2>1, ActivationTypes DEF skynet_mq_push, ThreadTypes, dispatch
  <2>3. \A u \in Thread : ThreadOK(u)'
    BY <1>0, <1>2, HandleAssumption DEF skynet_mq_push, ThreadTypes, ThreadOK, NoCall, dispatch
  <2> QED BY <2>2, <2>3 DEF ControlInv
<1>3. CASE SendRelease(t)
  <2>0. globalmq' \in Seq(Handle) /\ UNCHANGED <<slot, queue>>
    BY <1>0, <1>3, ReleaseTypes DEF SendRelease, ThreadOK
  <2>1. ThreadTypes'
    BY <1>0, <1>3, <1>a, <2>0 DEF SendRelease, ThreadTypes, dispatch
  <2>2. \A u \in Thread : ThreadOK(u)'
    BY <1>0, <1>3, <1>a, HandleAssumption DEF SendRelease, ThreadTypes, ThreadOK, NoCall, dispatch
  <2> QED BY <2>1, <2>2 DEF ControlInv
<1>4. CASE skynet_handle_retire(t)
  <2>1. ThreadTypes'
    BY <1>0, <1>4, ActivationTypes DEF skynet_handle_retire, ThreadTypes, ThreadOK, dispatch
  <2>2. \A u \in Thread : ThreadOK(u)'
    BY <1>0, <1>4, HandleAssumption DEF skynet_handle_retire, ThreadTypes, ThreadOK, NoCall, dispatch
  <2> QED BY <2>1, <2>2 DEF ControlInv
<1>5. CASE RetireRelease(t)
  <2>0. globalmq' \in Seq(Handle) /\ UNCHANGED <<slot, queue>>
    BY <1>0, <1>5, ReleaseTypes DEF RetireRelease, ThreadOK
  <2>1. ThreadTypes'
    BY <1>0, <1>5, <2>0, ActivationTypes DEF RetireRelease, ThreadTypes, dispatch
  <2>2. \A u \in Thread : ThreadOK(u)'
    BY <1>0, <1>5, HandleAssumption DEF RetireRelease, ThreadTypes, ThreadOK, NoCall, dispatch
  <2> QED BY <2>1, <2>2 DEF ControlInv
<1> QED BY <1>1, <1>2, <1>3, <1>4, <1>5 DEF CallStep

(* Callbacks begin to send, to exit and to launch.                         *)
LEMMA ControlAct ==
  ASSUME ControlInv, NEW t \in Thread, Act(t)
  PROVE  ControlInv'
<1>0. ThreadTypes /\ \A u \in Thread : ThreadOK(u)
  BY DEF ControlInv
<1>1. ASSUME NEW dst \in Handle, skynet_send(t, dst) PROVE ControlInv'
  <2>0. UNCHANGED <<slot, queue, globalmq, pc, q, nq, cur, new>>
    BY <1>1 DEF skynet_send, service, dispatch
  <2>1. Self(t) \in Handle \cup {None}
    BY <1>0 DEF Self, ThreadTypes, NewType
  <2> DEFINE k == [at |-> "grab", dst |-> dst, src |-> Self(t), victim |-> None]
  <2>2. k \in CallType /\ k.at = "grab" /\ k.dst = dst /\ call' = [call EXCEPT ![t] = k]
    BY <1>1, <2>1 DEF skynet_send, CallType
  <2> HIDE DEF k
  <2>3. ThreadTypes'
    BY <1>0, <2>0, <2>2 DEF ThreadTypes
  <2>4. \A u \in Thread : ThreadOK(u)'
    BY <1>0, <1>1, <2>0, <2>2
    DEF skynet_send, InCallback, InInit, Idle, ThreadTypes, ThreadOK, NoCall, NoNew
  <2> QED BY <2>3, <2>4 DEF ControlInv
<1>2. ASSUME NEW victim \in Handle, handle_exit(t, victim) PROVE ControlInv'
  <2>0. UNCHANGED <<slot, queue, globalmq, pc, q, nq, cur, new>>
    BY <1>2 DEF handle_exit, service, dispatch
  <2> DEFINE k == [at |-> IF MonitorExit = None THEN "retire" ELSE "grab",
                   dst |-> MonitorExit, src |-> victim, victim |-> victim]
  <2>1. /\ k \in CallType
        /\ call' = [call EXCEPT ![t] = k]
        /\ k.victim = victim
        /\ k.at = "retire" \/ (k.at = "grab" /\ k.dst \in Handle)
    BY <1>2, MonitorAssumption DEF handle_exit, CallType
  <2> HIDE DEF k
  <2>2. ThreadTypes'
    BY <1>0, <2>0, <2>1 DEF ThreadTypes
  <2>3. \A u \in Thread : ThreadOK(u)'
    BY <1>0, <1>2, <2>0, <2>1
    DEF handle_exit, InCallback, InInit, Idle, ThreadTypes, ThreadOK, NoCall, NoNew
  <2> QED BY <2>2, <2>3 DEF ControlInv
<1>3. ASSUME NEW h \in Handle, skynet_context_new(t, h) PROVE ControlInv'
  <2>0. UNCHANGED <<queue, globalmq, pc, q, nq, cur, call>> /\ slot' = slot \cup {h}
    BY <1>3 DEF skynet_context_new, dispatch
  <2> DEFINE n == [at |-> "init", h |-> h]
  <2>1. n \in NewType /\ new' = [new EXCEPT ![t] = n] /\ n.at = "init" /\ n.h = h
    BY <1>3 DEF skynet_context_new, NewType
  <2> HIDE DEF n
  <2>2. ThreadTypes'
    BY <1>0, <2>0, <2>1 DEF ThreadTypes
  <2>3. \A u \in Thread : ThreadOK(u)'
    BY <1>0, <1>3, <2>0, <2>1
    DEF skynet_context_new, InCallback, Idle, ThreadTypes, ThreadOK, NoNew
  <2> QED BY <2>2, <2>3 DEF ControlInv
<1> QED BY <1>1, <1>2, <1>3 DEF Act

(* The steps of skynet_context_new.                                        *)
LEMMA ControlNew ==
  ASSUME ControlInv, NEW t \in Thread, NewStep(t)
  PROVE  ControlInv'
<1>0. ThreadTypes /\ \A u \in Thread : ThreadOK(u)
  BY DEF ControlInv
<1>a. new[t] \in NewType /\ (new[t].at # "idle" => new[t].h \in Handle)
  BY <1>0 DEF ThreadTypes, ThreadOK
<1>1. ASSUME NEW n \in NewType, NEW k \in CallType,
             n = NoNew \/ (n.h \in Handle /\ n.at # "idle"),
             n.at \in {"ok", "flag", "schedule", "failed"} => k = NoCall,
             k = NoCall \/ (k.at = "grab" /\ k.dst \in Handle)
               \/ (k.at = "retire" /\ k.victim \in Handle),
             pc[t] = "callback",
             new' = [new EXCEPT ![t] = n], call' = [call EXCEPT ![t] = k],
             UNCHANGED <<slot, pc, q, nq, cur>>,
             globalmq' \in Seq(Handle), queue' \in [Handle -> Seq(Message)]
      PROVE  ControlInv'
  <2>1. ThreadTypes'
    BY <1>0, <1>1 DEF ThreadTypes
  <2>2. \A u \in Thread : ThreadOK(u)'
    BY <1>0, <1>1 DEF ThreadTypes, ThreadOK, NoCall, NoNew
  <2> QED BY <2>1, <2>2 DEF ControlInv
<1>2. ASSUME NEW at \in {"ok", "flag", "schedule", "failed", "give_up", "drop"},
             NEW k \in CallType,
             new[t].at # "idle",
             at \in {"ok", "flag", "schedule", "failed"} => k = NoCall,
             k = NoCall \/ (k.at = "retire" /\ k.victim \in Handle),
             new' = [new EXCEPT ![t].at = at], call' = [call EXCEPT ![t] = k],
             UNCHANGED <<slot, queue, pc, q, nq, cur>>,
             globalmq' \in Seq(Handle)
      PROVE  ControlInv'
  <2>1. PICK n \in NewType : n = [new[t] EXCEPT !.at = at]
    BY <1>a, ActivationTypes
  <2>2. new' = [new EXCEPT ![t] = n] /\ n.h \in Handle /\ n.at = at
    BY <1>0, <1>2, <1>a, <2>1 DEF ThreadTypes, NewType
  <2>3. pc[t] = "callback" /\ queue' \in [Handle -> Seq(Message)]
    BY <1>0, <1>2 DEF ThreadTypes, ThreadOK, NoNew
  <2> QED BY <1>1, <1>2, <2>2, <2>3
<1>b. call[t] = NoCall => call = [call EXCEPT ![t] = NoCall]
  BY <1>0 DEF ThreadTypes
<1>3. CASE InitReturns(t)
  <2>1. PICK at \in {"ok", "failed"} : new' = [new EXCEPT ![t].at = at]
    BY <1>3 DEF InitReturns
  <2>2. call[t] = NoCall /\ new[t].at = "init" /\ UNCHANGED <<slot, queue, pc, q, nq, cur, globalmq, call>>
    BY <1>3 DEF InitReturns, InInit, service, dispatch
  <2> QED BY <1>0, <1>2, <1>b, <2>1, <2>2, ActivationTypes DEF ThreadTypes
<1>4. CASE NewRelease(t)
  <2>1. PICK at \in {"flag", "schedule"} : new' = [new EXCEPT ![t].at = at]
    BY <1>4 DEF NewRelease
  <2>2. new[t].at = "ok" /\ skynet_context_release(new[t].h) /\ UNCHANGED <<pc, q, nq, cur, call>>
    BY <1>4 DEF NewRelease, dispatch
  <2>3. call[t] = NoCall
    BY <1>0, <2>2 DEF ThreadOK
  <2> QED BY <1>0, <1>2, <1>a, <1>b, <2>1, <2>2, <2>3, ActivationTypes, ReleaseTypes
<1>5. CASE NewSetInit(t)
  <2>1. /\ new[t].at = "flag" /\ new' = [new EXCEPT ![t].at = "schedule"]
        /\ UNCHANGED <<slot, queue, globalmq, pc, q, nq, cur, call>>
    BY <1>5 DEF NewSetInit, dispatch
  <2>2. call[t] = NoCall
    BY <1>0, <2>1 DEF ThreadOK
  <2> QED BY <1>0, <1>2, <1>b, <2>1, <2>2, ActivationTypes DEF ThreadTypes
<1>6. CASE NewSchedule(t)
  <2>1. /\ new[t].at = "schedule" /\ new' = [new EXCEPT ![t] = NoNew]
        /\ globalmq' = Append(globalmq, new[t].h)
        /\ UNCHANGED <<slot, queue, pc, q, nq, cur, call>>
    BY <1>6 DEF NewSchedule, dispatch
  <2>2. call[t] = NoCall /\ pc[t] = "callback"
    BY <1>0, <2>1 DEF ThreadOK, NoNew
  <2>3. globalmq' \in Seq(Handle)
    BY <1>0, <1>a, <2>1, ScheduledType
  <2> QED BY <1>0, <1>1, <1>b, <2>1, <2>2, <2>3, ActivationTypes DEF ThreadTypes, NoNew
<1>7. CASE NewFailRelease(t)
  <2>1. /\ new[t].at = "failed" /\ new' = [new EXCEPT ![t].at = "give_up"]
        /\ skynet_context_release(new[t].h)
        /\ UNCHANGED <<pc, q, nq, cur>>
    BY <1>7 DEF NewFailRelease, dispatch
  <2> DEFINE k == [at |-> "retire", dst |-> None, src |-> None, victim |-> new[t].h]
  <2>2. k \in CallType /\ call' = [call EXCEPT ![t] = k] /\ k.at = "retire" /\ k.victim \in Handle
    BY <1>7, <1>a DEF NewFailRelease, CallType
  <2> HIDE DEF k
  <2> QED BY <1>0, <1>2, <1>a, <2>1, <2>2, ReleaseTypes
<1>8. CASE NewFailQueue(t)
  <2>1. /\ new[t].at = "give_up" /\ call[t] = NoCall
        /\ UNCHANGED <<slot, queue, pc, q, nq, cur, call>>
    BY <1>8 DEF NewFailQueue, skynet_mq_release_wait, service, dispatch
  <2>2. CASE new' = [new EXCEPT ![t] = NoNew] /\ globalmq' = Append(globalmq, new[t].h)
    <3>1. globalmq' \in Seq(Handle) /\ pc[t] = "callback"
      BY <1>0, <1>a, <2>1, <2>2, ScheduledType DEF ThreadOK, NoNew
    <3> QED BY <1>0, <1>1, <1>b, <2>1, <2>2, <3>1, ActivationTypes DEF ThreadTypes, NoNew
  <2>3. CASE new' = [new EXCEPT ![t].at = "drop"] /\ UNCHANGED globalmq
    BY <1>0, <1>2, <1>b, <2>1, <2>3, ActivationTypes DEF ThreadTypes
  <2> QED BY <1>8, <2>2, <2>3 DEF NewFailQueue, skynet_mq_release_wait, service
<1>9. CASE NewFailDrop(t)
  <2>1. /\ new[t].at = "drop" /\ call[t] = NoCall
        /\ UNCHANGED <<slot, globalmq, pc, q, nq, cur>>
    BY <1>9 DEF NewFailDrop, DropOne, FreeQueue, dispatch
  <2>2. pc[t] = "callback" /\ globalmq' \in Seq(Handle)
    BY <1>0, <2>1 DEF ThreadTypes, ThreadOK, NoNew
  <2>3. CASE DropOne(t, new[t].h) /\ UNCHANGED new
    <3>1. Head(queue[new[t].h]) \in Message /\ queue' \in [Handle -> Seq(Message)]
      BY <1>0, <1>a, <2>1, <2>3 DEF DropOne, ThreadTypes
    <3>2. PICK k \in CallType : /\ call' = [call EXCEPT ![t] = k]
                                /\ k = NoCall \/ (k.at = "grab" /\ k.dst \in Handle)
      BY <1>0, <1>a, <2>1, <2>3, DropCall
    <3>3. new' = [new EXCEPT ![t] = new[t]]
      BY <1>0, <2>3 DEF ThreadTypes
    <3> QED BY <1>1, <1>a, <2>1, <2>2, <3>1, <3>2, <3>3
  <2>4. CASE new' = [new EXCEPT ![t] = NoNew] /\ UNCHANGED <<call, queue>>
    BY <1>0, <1>1, <1>b, <2>1, <2>2, <2>4, ActivationTypes DEF ThreadTypes, NoNew
  <2> QED BY <1>9, <2>3, <2>4 DEF NewFailDrop, FreeQueue
<1> QED BY <1>3, <1>4, <1>5, <1>6, <1>7, <1>8, <1>9 DEF NewStep

(* The steps of skynet_context_message_dispatch.                           *)
LEMMA ControlDispatch ==
  ASSUME ControlInv, NEW t \in Thread, DispatchStep(t)
  PROVE  ControlInv'
<1>0. ThreadTypes /\ \A u \in Thread : ThreadOK(u)
  BY DEF ControlInv
<1>1. CASE skynet_globalmq_pop(t)
  <2>1. Head(globalmq) \in Handle /\ globalmq' \in Seq(Handle)
    BY <1>0, <1>1 DEF skynet_globalmq_pop, ThreadTypes
  <2>2. ThreadTypes'
    BY <1>0, <1>1, <2>1 DEF skynet_globalmq_pop, ThreadTypes, PCs
  <2>3. \A u \in Thread : ThreadOK(u)'
    BY <1>0, <1>1, <2>1, HandleAssumption DEF skynet_globalmq_pop, ThreadTypes, ThreadOK
  <2> QED BY <2>2, <2>3 DEF ControlInv
<1>2. CASE DispatchGrab(t)
  <2>0. UNCHANGED <<slot, queue, globalmq, q, nq, new, call>> /\ q[t] \in Handle
    BY <1>0, <1>2 DEF DispatchGrab, ThreadOK
  <2>1. CASE q[t] \in slot
    <3>1. cur' = [cur EXCEPT ![t] = q[t]] /\ pc' = [pc EXCEPT ![t] = "first"]
      BY <1>2, <2>1 DEF DispatchGrab
    <3>2. ThreadTypes'
      BY <1>0, <2>0, <3>1 DEF ThreadTypes, PCs
    <3>3. \A u \in Thread : ThreadOK(u)'
      BY <1>0, <1>2, <2>0, <3>1, HandleAssumption DEF DispatchGrab, ThreadTypes, ThreadOK
    <3> QED BY <3>2, <3>3 DEF ControlInv
  <2>2. CASE q[t] \notin slot
    <3>1. UNCHANGED cur /\ pc' = [pc EXCEPT ![t] = "dead"]
      BY <1>2, <2>2 DEF DispatchGrab
    <3>2. ThreadTypes'
      BY <1>0, <2>0, <3>1 DEF ThreadTypes, PCs
    <3>3. \A u \in Thread : ThreadOK(u)'
      BY <1>0, <1>2, <2>0, <3>1 DEF DispatchGrab, ThreadTypes, ThreadOK
    <3> QED BY <3>2, <3>3 DEF ControlInv
  <2> QED BY <2>1, <2>2
<1>3. CASE DispatchDead(t)
  <2>0. UNCHANGED <<slot, queue, nq, cur, new, call>> /\ pc[t] = "dead" /\ q[t] \in Handle
    BY <1>0, <1>3 DEF DispatchDead, skynet_mq_release_wait, service, ThreadOK
  <2>1. CASE skynet_mq_release_wait(q[t]) /\ pc' = [pc EXCEPT ![t] = "pop"] /\ q' = [q EXCEPT ![t] = None]
    <3>1. globalmq' \in Seq(Handle)
      BY <1>0, <2>0, <2>1, ScheduledType DEF skynet_mq_release_wait
    <3>2. ThreadTypes'
      BY <1>0, <2>0, <2>1, <3>1 DEF ThreadTypes, PCs
    <3>3. \A u \in Thread : ThreadOK(u)'
      BY <1>0, <2>0, <2>1 DEF ThreadTypes, ThreadOK
    <3> QED BY <3>2, <3>3 DEF ControlInv
  <2>2. CASE pc' = [pc EXCEPT ![t] = "drop"] /\ UNCHANGED <<globalmq, q>>
    <3>1. ThreadTypes'
      BY <1>0, <2>0, <2>2 DEF ThreadTypes, PCs
    <3>2. \A u \in Thread : ThreadOK(u)'
      BY <1>0, <2>0, <2>2 DEF ThreadTypes, ThreadOK
    <3> QED BY <3>1, <3>2 DEF ControlInv
  <2> QED BY <1>3, <2>1, <2>2 DEF DispatchDead, service
<1>4. CASE DispatchDrop(t)
  <2>0. /\ UNCHANGED <<slot, globalmq, nq, cur, new>> /\ pc[t] = "drop" /\ q[t] \in Handle
        /\ call[t] = NoCall
    BY <1>0, <1>4 DEF DispatchDrop, DropOne, FreeQueue, ThreadOK
  <2>1. CASE DropOne(t, q[t]) /\ UNCHANGED <<pc, q>>
    <3>1. PICK k \in CallType : /\ call' = [call EXCEPT ![t] = k]
                                /\ k = NoCall \/ (k.at = "grab" /\ k.dst \in Handle)
      BY <1>0, <2>0, <2>1, DropCall
    <3>2. ThreadTypes'
      BY <1>0, <2>0, <2>1, <3>1, DropCall DEF ThreadTypes
    <3>3. \A u \in Thread : ThreadOK(u)'
      BY <1>0, <2>0, <2>1, <3>1 DEF ThreadTypes, ThreadOK, NoCall, NoNew
    <3> QED BY <3>2, <3>3 DEF ControlInv
  <2>2. CASE pc' = [pc EXCEPT ![t] = "pop"] /\ q' = [q EXCEPT ![t] = None] /\ UNCHANGED <<queue, call>>
    <3>1. ThreadTypes'
      BY <1>0, <2>0, <2>2 DEF ThreadTypes, PCs
    <3>2. \A u \in Thread : ThreadOK(u)'
      BY <1>0, <2>0, <2>2 DEF ThreadTypes, ThreadOK
    <3> QED BY <3>1, <3>2 DEF ControlInv
  <2> QED BY <1>4, <2>1, <2>2 DEF DispatchDrop, FreeQueue
<1>5. CASE skynet_mq_pop(t) \/ skynet_mq_length(t) \/ CallbackReturns(t)
  <2>0. PICK p \in {"length", "callback", "more", "next"} : pc' = [pc EXCEPT ![t] = p]
    BY <1>5 DEF skynet_mq_pop, skynet_mq_length, CallbackReturns
  <2>1. UNCHANGED <<slot, globalmq, q, nq, cur, new, call>>
    BY <1>5 DEF skynet_mq_pop, skynet_mq_length, CallbackReturns, service
  <2>2. pc[t] \in {"first", "more", "length", "callback"} /\ new[t] = NoNew /\ call[t] = NoCall
    BY <1>0, <1>5 DEF skynet_mq_pop, skynet_mq_length, CallbackReturns, InCallback, Idle, ThreadOK
  <2>3. queue' \in [Handle -> Seq(Message)]
    <3>1. CASE skynet_mq_pop(t)
      <4>1. q[t] \in Handle
        BY <1>0, <2>2 DEF ThreadOK, ThreadTypes
      <4>2. queue[q[t]] \in Seq(Message) /\ queue[q[t]] # <<>>
        BY <1>0, <3>1, <4>1 DEF skynet_mq_pop, ThreadTypes
      <4>3. Tail(queue[q[t]]) \in Seq(Message)
        BY <4>2
      <4> QED BY <1>0, <3>1, <4>3 DEF skynet_mq_pop, ThreadTypes
    <3>2. CASE UNCHANGED queue
      BY <1>0, <3>2 DEF ThreadTypes
    <3> QED BY <1>5, <3>1, <3>2 DEF skynet_mq_length, CallbackReturns, service
  <2>4. ThreadTypes'
    BY <1>0, <2>0, <2>1, <2>3 DEF ThreadTypes, PCs
  <2>5. \A u \in Thread : ThreadOK(u)'
    BY <1>0, <2>0, <2>1, <2>2 DEF ThreadTypes, ThreadOK
  <2> QED BY <2>4, <2>5 DEF ControlInv
<1>6. CASE skynet_mq_pop_empty(t)
  <2>1. ThreadTypes'
    BY <1>0, <1>6 DEF skynet_mq_pop_empty, ThreadTypes, PCs
  <2>2. \A u \in Thread : ThreadOK(u)'
    BY <1>0, <1>6 DEF skynet_mq_pop_empty, ThreadTypes, ThreadOK
  <2> QED BY <2>1, <2>2 DEF ControlInv
<1>7. CASE DispatchNext(t)
  <2>0. UNCHANGED <<slot, queue, q, cur, new, call>> /\ pc[t] = "next"
    BY <1>7 DEF DispatchNext
  <2>1. CASE /\ globalmq # <<>> /\ nq' = [nq EXCEPT ![t] = Head(globalmq)]
             /\ globalmq' = Tail(globalmq) /\ pc' = [pc EXCEPT ![t] = "requeue"]
    <3>1. Head(globalmq) \in Handle /\ globalmq' \in Seq(Handle)
      BY <1>0, <2>1 DEF ThreadTypes
    <3>2. ThreadTypes'
      BY <1>0, <2>0, <2>1, <3>1 DEF ThreadTypes, PCs
    <3>3. \A u \in Thread : ThreadOK(u)'
      BY <1>0, <2>0, <2>1, <3>1, HandleAssumption DEF ThreadTypes, ThreadOK
    <3> QED BY <3>2, <3>3 DEF ControlInv
  <2>2. CASE pc' = [pc EXCEPT ![t] = "leave"] /\ UNCHANGED <<globalmq, nq>>
    <3>1. ThreadTypes'
      BY <1>0, <2>0, <2>2 DEF ThreadTypes, PCs
    <3>2. \A u \in Thread : ThreadOK(u)'
      BY <1>0, <2>0, <2>2 DEF ThreadTypes, ThreadOK
    <3> QED BY <3>1, <3>2 DEF ControlInv
  <2> QED BY <1>7, <2>1, <2>2 DEF DispatchNext
<1>8. CASE skynet_globalmq_push(t)
  <2>0. q[t] \in Handle
    BY <1>0, <1>8 DEF skynet_globalmq_push, ThreadTypes, ThreadOK
  <2>1. globalmq' \in Seq(Handle)
    BY <1>0, <1>8, <2>0, ScheduledType DEF skynet_globalmq_push
  <2>2. ThreadTypes'
    BY <1>0, <1>8, <2>1 DEF skynet_globalmq_push, ThreadTypes, PCs
  <2>3. \A u \in Thread : ThreadOK(u)'
    BY <1>0, <1>8 DEF skynet_globalmq_push, ThreadTypes, ThreadOK
  <2> QED BY <2>2, <2>3 DEF ControlInv
<1>9. CASE DispatchLeave(t)
  <2>0. cur[t] \in Handle
    BY <1>0, <1>9 DEF DispatchLeave, ThreadTypes, ThreadOK
  <2>1. globalmq' \in Seq(Handle) /\ UNCHANGED <<slot, queue>>
    BY <1>0, <1>9, <2>0, ReleaseTypes DEF DispatchLeave
  <2>2. PICK p \in {"pop", "grab"} : pc' = [pc EXCEPT ![t] = p] /\ (p = "pop" <=> q[t] = None)
    BY <1>9 DEF DispatchLeave
  <2>3. ThreadTypes'
    BY <1>0, <1>9, <2>1, <2>2 DEF DispatchLeave, ThreadTypes, PCs
  <2>4. \A u \in Thread : ThreadOK(u)'
    BY <1>0, <1>9, <2>2 DEF DispatchLeave, ThreadTypes, ThreadOK
  <2> QED BY <2>3, <2>4 DEF ControlInv
<1> QED BY <1>1, <1>2, <1>3, <1>4, <1>5, <1>6, <1>7, <1>8, <1>9 DEF DispatchStep

(* Every step of every thread keeps the threads' variables consistent.     *)
LEMMA ControlStep == ControlInv /\ [Next]_vars => ControlInv'
<1>1. ControlInv /\ UNCHANGED vars => ControlInv'
  BY DEF ControlInv, ThreadTypes, ThreadOK, vars, service, dispatch
<1> QED BY <1>1, ControlCall, ControlAct, ControlNew, ControlDispatch DEF Next, Step

-----------------------------------------------------------------------------
(* Reference counts.                                                       *)

(* A set of threads that changes only at t.                                *)
LEMMA OneThread ==
  ASSUME NEW S \in SUBSET Thread, NEW T \in SUBSET Thread, NEW t \in Thread,
         S \ {t} = T \ {t}
  PROVE  /\ Cardinality(S) \in Nat /\ Cardinality(T) \in Nat
         /\ Cardinality(S) >= One(t \in S)
         /\ Cardinality(T) - One(t \in T) = Cardinality(S) - One(t \in S)
<1>1. IsFiniteSet(S) /\ IsFiniteSet(T)
  BY ThreadAssumption, FS_Subset DEF Thread
<1>2. /\ Cardinality(S) \in Nat /\ Cardinality(T) \in Nat
      /\ Cardinality(S \ {t}) \in Nat /\ Cardinality(T \ {t}) \in Nat
  BY <1>1, FS_CardinalityType, FS_RemoveElement
<1>3. /\ Cardinality(S \ {t}) = Cardinality(S) - One(t \in S)
      /\ Cardinality(T \ {t}) = Cardinality(T) - One(t \in T)
  <2>1. /\ Cardinality(S \ {t}) = IF t \in S THEN Cardinality(S) - 1 ELSE Cardinality(S)
        /\ Cardinality(T \ {t}) = IF t \in T THEN Cardinality(T) - 1 ELSE Cardinality(T)
    BY <1>1, FS_RemoveElement
  <2> QED BY <1>2, <2>1 DEF One
<1>4. Cardinality(S \ {t}) = Cardinality(T \ {t})
  OBVIOUS
<1>5. One(t \in S) \in {0, 1} /\ One(t \in T) \in {0, 1}
  BY DEF One
<1> QED BY <1>2, <1>3, <1>4, <1>5

(* When only thread t moves, the references to h change by what t gains or *)
(* loses, and by what the slot does.                                       *)
LEMMA RefsChange ==
  ASSUME NEW h \in Handle, NEW t \in Thread,
         \A u \in Thread \ {t} : call'[u] = call[u] /\ cur'[u] = cur[u] /\ new'[u] = new[u]
  PROVE  /\ Refs(h) \in Nat /\ Refs(h)' \in Nat
         /\ Refs(h) >= Own(t, h) + One(h \in slot)
         /\ Refs(h)' = Refs(h) + (Own(t, h)' - Own(t, h)) + (One(h \in slot)' - One(h \in slot))
         /\ Own(t, h) \in Nat /\ Own(t, h)' \in Nat
<1> DEFINE R == {u \in Thread : Retiring(u, h)}
           C == {u \in Thread : cur[u] = h}
           S == {u \in Thread : Sending(u, h)}
           L == {u \in Thread : Launching(u, h)}
<1>1. /\ R \in SUBSET Thread /\ R' \in SUBSET Thread
      /\ C \in SUBSET Thread /\ C' \in SUBSET Thread
      /\ S \in SUBSET Thread /\ S' \in SUBSET Thread
      /\ L \in SUBSET Thread /\ L' \in SUBSET Thread
  OBVIOUS
<1>2. R \ {t} = R' \ {t} /\ C \ {t} = C' \ {t} /\ S \ {t} = S' \ {t} /\ L \ {t} = L' \ {t}
  BY DEF Retiring, Sending, Launching
<1>3. /\ One(t \in R) = One(Retiring(t, h)) /\ One(t \in R') = One(Retiring(t, h)')
      /\ One(t \in C) = One(cur[t] = h) /\ One(t \in C') = One(cur'[t] = h)
      /\ One(t \in S) = One(Sending(t, h)) /\ One(t \in S') = One(Sending(t, h)')
      /\ One(t \in L) = One(Launching(t, h)) /\ One(t \in L') = One(Launching(t, h)')
  BY DEF One
<1>4. /\ Refs(h) = One(h \in slot) + Cardinality(R) + Cardinality(C) + Cardinality(S) + Cardinality(L)
      /\ Refs(h)' = One(h \in slot') + Cardinality(R') + Cardinality(C') + Cardinality(S') + Cardinality(L')
  BY DEF Refs
<1>5. /\ Own(t, h) = One(t \in R) + One(t \in C) + One(t \in S) + One(t \in L)
      /\ Own(t, h)' = One(t \in R') + One(t \in C') + One(t \in S') + One(t \in L')
  BY <1>3 DEF Own
<1>6. /\ One(h \in slot)' = One(h \in slot')
      /\ One(h \in slot) \in {0, 1} /\ One(h \in slot') \in {0, 1}
      /\ One(t \in R) \in {0, 1} /\ One(t \in R') \in {0, 1}
      /\ One(t \in C) \in {0, 1} /\ One(t \in C') \in {0, 1}
      /\ One(t \in S) \in {0, 1} /\ One(t \in S') \in {0, 1}
      /\ One(t \in L) \in {0, 1} /\ One(t \in L') \in {0, 1}
  BY DEF One
<1> HIDE DEF R, C, S, L
<1>r. /\ Cardinality(R) \in Nat /\ Cardinality(R') \in Nat /\ Cardinality(R) >= One(t \in R)
      /\ Cardinality(R') - One(t \in R') = Cardinality(R) - One(t \in R)
  BY <1>1, <1>2, OneThread
<1>c. /\ Cardinality(C) \in Nat /\ Cardinality(C') \in Nat /\ Cardinality(C) >= One(t \in C)
      /\ Cardinality(C') - One(t \in C') = Cardinality(C) - One(t \in C)
  BY <1>1, <1>2, OneThread
<1>s. /\ Cardinality(S) \in Nat /\ Cardinality(S') \in Nat /\ Cardinality(S) >= One(t \in S)
      /\ Cardinality(S') - One(t \in S') = Cardinality(S) - One(t \in S)
  BY <1>1, <1>2, OneThread
<1>l. /\ Cardinality(L) \in Nat /\ Cardinality(L') \in Nat /\ Cardinality(L) >= One(t \in L)
      /\ Cardinality(L') - One(t \in L') = Cardinality(L) - One(t \in L)
  BY <1>1, <1>2, OneThread
<1>7. Own(t, h) \in Nat /\ Own(t, h)' \in Nat
  BY <1>5, <1>6
<1>8. Refs(h) \in Nat /\ Refs(h)' \in Nat
  BY <1>4, <1>6, <1>r, <1>c, <1>s, <1>l
<1>9. Refs(h) >= Own(t, h) + One(h \in slot)
  BY <1>4, <1>5, <1>6, <1>r, <1>c, <1>s, <1>l
<1>10. Refs(h)' = Refs(h) + (Own(t, h)' - Own(t, h)) + (One(h \in slot)' - One(h \in slot))
  BY <1>4, <1>5, <1>6, <1>r, <1>c, <1>s, <1>l
<1> QED BY <1>7, <1>8, <1>9, <1>10

(* Only thread t moves.                                                    *)
Alone(t) ==
  \A u \in Thread \ {t} : call'[u] = call[u] /\ cur'[u] = cur[u] /\ new'[u] = new[u]

(* The references of t to h, as numbers.                                   *)
LEMMA OwnType ==
  ASSUME NEW t \in Thread, NEW h \in Handle
  PROVE  Own(t, h) \in Nat /\ Own(t, h)' \in Nat
BY DEF Own, One

(* Steps that move no reference.                                           *)
LEMMA CountIdle ==
  ASSUME CountInv, NEW t \in Thread, Alone(t), UNCHANGED <<slot, ref, ctx, total>>,
         \A h \in Handle : Own(t, h)' = Own(t, h)
  PROVE  CountInv'
<1>1. \A h \in Handle : Refs(h)' = Refs(h)
  <2> TAKE h \in Handle
  <2>1. /\ Refs(h) \in Nat /\ Refs(h)' \in Nat /\ Own(t, h) \in Nat
        /\ Refs(h)' = Refs(h) + (Own(t, h)' - Own(t, h)) + (One(h \in slot)' - One(h \in slot))
    BY RefsChange DEF Alone
  <2>2. One(h \in slot)' = One(h \in slot) /\ One(h \in slot) \in {0, 1}
    BY DEF One
  <2> QED BY <2>1, <2>2
<1> QED BY <1>1 DEF CountInv

(* skynet_context_grab of a registered service.                            *)
LEMMA CountGrab ==
  ASSUME CountInv, NEW t \in Thread, Alone(t), NEW h \in Handle, h \in slot,
         ref' = [ref EXCEPT ![h] = @ + 1], UNCHANGED <<slot, ctx, total>>,
         \A g \in Handle : Own(t, g)' = Own(t, g) + One(g = h)
  PROVE  CountInv'
<1>1. \A g \in Handle : Refs(g)' = Refs(g) + One(g = h)
  <2> TAKE g \in Handle
  <2>1. /\ Refs(g) \in Nat /\ Refs(g)' \in Nat /\ Own(t, g) \in Nat
        /\ Refs(g)' = Refs(g) + (Own(t, g)' - Own(t, g)) + (One(g \in slot)' - One(g \in slot))
    BY RefsChange DEF Alone
  <2>2. One(g \in slot)' = One(g \in slot) /\ One(g \in slot) \in {0, 1} /\ One(g = h) \in {0, 1}
    BY DEF One
  <2> QED BY <2>1, <2>2
<1>2. ref[h] > 0
  <2>1. Refs(h) \in Nat /\ Refs(h) >= Own(t, h) + One(h \in slot) /\ Own(t, h) \in Nat
    BY RefsChange DEF Alone
  <2> QED BY <2>1 DEF CountInv, One
<1>3. \A g \in Handle : ref'[g] = ref[g] + One(g = h) /\ ref[g] \in Nat
  BY DEF CountInv, One
<1>4. ref' \in [Handle -> Nat]
  BY DEF CountInv
<1>5. \A g \in Handle : ref'[g] = Refs(g)' /\ (ctx'[g] = "live" <=> ref'[g] > 0)
  BY <1>1, <1>2, <1>3 DEF CountInv, One
<1> QED BY <1>4, <1>5 DEF CountInv

(* skynet_context_release of a reference that thread t holds.              *)
LEMMA CountRelease ==
  ASSUME CountInv, NEW t \in Thread, Alone(t), NEW h \in Handle,
         skynet_context_release(h),
         \A g \in Handle : Own(t, g)' = Own(t, g) - One(g = h)
  PROVE  CountInv' /\ ref[h] > 0 /\ ctx[h] = "live" /\ (h \in slot => ref[h] > 1)
<1>0. ref' = [ref EXCEPT ![h] = @ - 1] /\ UNCHANGED slot
  BY DEF skynet_context_release
<1>1. \A g \in Handle : Refs(g)' = Refs(g) - One(g = h)
  <2> TAKE g \in Handle
  <2>1. /\ Refs(g) \in Nat /\ Refs(g)' \in Nat /\ Own(t, g) \in Nat
        /\ Refs(g)' = Refs(g) + (Own(t, g)' - Own(t, g)) + (One(g \in slot)' - One(g \in slot))
    BY RefsChange DEF Alone
  <2>2. One(g \in slot)' = One(g \in slot) /\ One(g \in slot) \in {0, 1} /\ One(g = h) \in {0, 1}
    BY <1>0 DEF One
  <2> QED BY <2>1, <2>2
<1>2. ref[h] > 0 /\ (h \in slot => ref[h] > 1)
  <2>1. Refs(h) \in Nat /\ Refs(h) >= Own(t, h) + One(h \in slot) /\ Own(t, h) \in Nat /\ Own(t, h)' \in Nat
    BY RefsChange DEF Alone
  <2>2. Own(t, h)' = Own(t, h) - 1
    BY DEF One
  <2> QED BY <2>1, <2>2 DEF CountInv, One
<1>3. \A g \in Handle : ref'[g] = ref[g] - One(g = h) /\ ref[g] \in Nat
  BY <1>0 DEF CountInv, One
<1>4. ref' \in [Handle -> Nat] /\ ctx[h] = "live"
  BY <1>0, <1>2 DEF CountInv
<1>5. \A g \in Handle : ref'[g] = Refs(g)'
  BY <1>1, <1>3 DEF CountInv, One
<1>6. CASE ref[h] = 1
  <2>1. ctx' = [ctx EXCEPT ![h] = "freed"] /\ total' = total - 1
    BY <1>6 DEF skynet_context_release
  <2>2. ctx' \in [Handle -> {"none", "live", "freed"}]
    BY <2>1 DEF CountInv
  <2>3. \A g \in Handle : ctx'[g] = "live" <=> ref'[g] > 0
    BY <1>3, <1>6, <2>1 DEF CountInv, One
  <2>4. {g \in Handle : ctx'[g] = "live"} = {g \in Handle : ctx[g] = "live"} \ {h}
    BY <2>1 DEF CountInv
  <2>5. IsFiniteSet({g \in Handle : ctx[g] = "live"})
    BY HandleAssumption, FS_Subset
  <2>6. Cardinality({g \in Handle : ctx'[g] = "live"}) = Cardinality({g \in Handle : ctx[g] = "live"}) - 1
    <3> DEFINE live == {g \in Handle : ctx[g] = "live"}
    <3>1. h \in live /\ IsFiniteSet(live)
      BY <1>4, <2>5
    <3> HIDE DEF live
    <3>2. Cardinality(live \ {h}) = Cardinality(live) - 1
      BY <3>1, FS_RemoveElement
    <3> QED BY <2>4, <3>2 DEF live
  <2> QED BY <1>2, <1>4, <1>5, <2>1, <2>2, <2>3, <2>6 DEF CountInv
<1>7. CASE ref[h] # 1
  <2>1. UNCHANGED <<ctx, total>>
    BY <1>7 DEF skynet_context_release
  <2>3. \A g \in Handle : ctx'[g] = "live" <=> ref'[g] > 0
    BY <1>2, <1>3, <1>7, <2>1 DEF CountInv, One
  <2> QED BY <1>2, <1>4, <1>5, <2>1, <2>3 DEF CountInv
<1> QED BY <1>6, <1>7

(* A registered service has a live context.                                *)
LEMMA SlotIsLive ==
  ASSUME CountInv, NEW h \in Handle, h \in slot
  PROVE  ctx[h] = "live"
<1>1. /\ Cardinality({t \in Thread : Retiring(t, h)}) \in Nat
      /\ Cardinality({t \in Thread : cur[t] = h}) \in Nat
      /\ Cardinality({t \in Thread : Sending(t, h)}) \in Nat
      /\ Cardinality({t \in Thread : Launching(t, h)}) \in Nat
  BY ThreadAssumption, FS_Subset, FS_CardinalityType DEF Thread
<1>2. Refs(h) > 0
  BY <1>1 DEF Refs, One
<1> QED BY <1>2 DEF CountInv

(* No reference exists before the launch of the services of skynet_start,  *)
(* but those of their slots.                                               *)
LEMMA CountInit == Init => CountInv
<1> SUFFICES ASSUME Init PROVE CountInv
  OBVIOUS
<1>1. \A h \in Handle : Refs(h) = One(h \in slot)
  <2> TAKE h \in Handle
  <2>1. /\ {t \in Thread : Retiring(t, h)} = {} /\ {t \in Thread : cur[t] = h} = {}
        /\ {t \in Thread : Sending(t, h)} = {} /\ {t \in Thread : Launching(t, h)} = {}
    BY HandleAssumption DEF Init, Retiring, Sending, Launching, NoCall, NoNew
  <2>2. Cardinality({}) = 0
    BY FS_EmptySet
  <2> QED BY <2>1, <2>2, SMTT(30) DEF Refs, One
<1>2. \A h \in Handle : ref[h] = One(h \in slot) /\ (ctx[h] = "live" <=> ref[h] > 0)
  BY HandleAssumption DEF Init, One
<1>3. {h \in Handle : ctx[h] = "live"} = Started
  BY HandleAssumption DEF Init
<1>4. ref \in [Handle -> Nat] /\ ctx \in [Handle -> {"none", "live", "freed"}]
  BY DEF Init
<1>5. total = Cardinality(Started)
  BY DEF Init
<1> QED BY <1>1, <1>2, <1>3, <1>4, <1>5 DEF CountInv

(* The steps of skynet_send and skynet_handle_retire.                      *)
LEMMA CountCall ==
  ASSUME ControlInv, CountInv, NEW t \in Thread, CallStep(t)
  PROVE  CountInv'
<1>0. ThreadTypes /\ ThreadOK(t)
  BY DEF ControlInv
<1>a. PICK after \in CallType :
        after = AfterSend(t) /\ after.at \in {"idle", "retire"}
  BY <1>0, AfterSendTypes
<1>1. CASE skynet_handle_grab(t)
  <2>0. UNCHANGED <<slot, ctx, total, cur, new>>
    BY <1>1 DEF skynet_handle_grab, dispatch
  <2>1. CASE call[t].dst \in slot
    <3>1. call' = [call EXCEPT ![t].at = "push"] /\ ref' = [ref EXCEPT ![call[t].dst] = @ + 1]
      BY <1>1, <2>1 DEF skynet_handle_grab, skynet_context_grab
    <3>2. Alone(t)
      BY <1>0, <2>0, <3>1 DEF Alone, ThreadTypes
    <3>3. \A g \in Handle : Own(t, g)' = Own(t, g) + One(g = call[t].dst)
      BY <1>0, <1>1, <2>0, <3>1 DEF skynet_handle_grab, ThreadTypes, CallType, Own, One, Retiring, Sending, Launching
    <3> QED BY <1>0, <2>0, <2>1, <3>1, <3>2, <3>3, CountGrab DEF ThreadTypes
  <2>2. CASE call[t].dst \notin slot
    <3>1. call' = [call EXCEPT ![t] = after] /\ UNCHANGED ref
      BY <1>1, <1>a, <2>2 DEF skynet_handle_grab
    <3>2. Alone(t)
      BY <1>0, <2>0, <3>1 DEF Alone, ThreadTypes
    <3>3. \A g \in Handle : Own(t, g)' = Own(t, g)
      BY <1>0, <1>1, <1>a, <2>0, <3>1 DEF skynet_handle_grab, ThreadTypes, Own, One, Retiring, Sending, Launching
    <3> QED BY <2>0, <3>1, <3>2, <3>3, CountIdle
  <2> QED BY <2>1, <2>2
<1>2. CASE skynet_mq_push(t)
  <2>0. UNCHANGED <<slot, ctx, ref, total, cur, new>> /\ call' = [call EXCEPT ![t].at = "release"]
    BY <1>2 DEF skynet_mq_push, dispatch
  <2>1. Alone(t)
    BY <1>0, <2>0 DEF Alone, ThreadTypes
  <2>2. \A g \in Handle : Own(t, g)' = Own(t, g)
    BY <1>0, <1>2, <2>0 DEF skynet_mq_push, ThreadTypes, CallType, Own, One, Retiring, Sending, Launching
  <2> QED BY <2>0, <2>1, <2>2, CountIdle
<1>3. CASE SendRelease(t)
  <2>0. /\ UNCHANGED <<cur, new>> /\ call' = [call EXCEPT ![t] = after]
        /\ call[t].dst \in Handle /\ skynet_context_release(call[t].dst)
    BY <1>0, <1>3, <1>a DEF SendRelease, dispatch, ThreadOK
  <2>1. Alone(t)
    BY <1>0, <2>0 DEF Alone, ThreadTypes
  <2>2. \A g \in Handle : Own(t, g)' = Own(t, g) - One(g = call[t].dst)
    BY <1>0, <1>3, <1>a, <2>0 DEF SendRelease, ThreadTypes, Own, One, Retiring, Sending, Launching
  <2> QED BY <2>0, <2>1, <2>2, CountRelease
<1>4. CASE skynet_handle_retire(t)
  <2> DEFINE v == call[t].victim
  <2>0. /\ UNCHANGED <<ctx, ref, total, cur, new>> /\ slot' = slot \ {v} /\ v \in Handle
        /\ call[t].at = "retire"
    BY <1>0, <1>4 DEF skynet_handle_retire, dispatch, ThreadOK
  <2>1. CASE v \in slot
    <3>1. call' = [call EXCEPT ![t].at = "retired"]
      BY <1>0, <1>4, <2>1 DEF skynet_handle_retire, ThreadTypes
    <3>2. Alone(t)
      BY <1>0, <2>0, <3>1 DEF Alone, ThreadTypes
    <3>3. \A g \in Handle : Own(t, g)' = Own(t, g) + One(g = v)
      BY <1>0, <2>0, <3>1 DEF ThreadTypes, CallType, Own, One, Retiring, Sending, Launching
    <3>4. \A g \in Handle : Refs(g)' = Refs(g)
      <4> TAKE g \in Handle
      <4>1. /\ Refs(g) \in Nat /\ Refs(g)' \in Nat /\ Own(t, g) \in Nat
            /\ Refs(g)' = Refs(g) + (Own(t, g)' - Own(t, g)) + (One(g \in slot)' - One(g \in slot))
        BY <3>2, RefsChange DEF Alone
      <4>2. One(g \in slot)' = One(g \in slot) - One(g = v) /\ One(g \in slot) \in {0, 1} /\ One(g = v) \in {0, 1}
        BY <2>0, <2>1 DEF One
      <4> QED BY <3>3, <4>1, <4>2
    <3> QED BY <2>0, <3>4 DEF CountInv
  <2>2. CASE v \notin slot
    <3>1. call' = [call EXCEPT ![t] = NoCall] /\ slot' = slot
      BY <1>4, <2>0, <2>2 DEF skynet_handle_retire
    <3>2. Alone(t)
      BY <1>0, <2>0, <3>1 DEF Alone, ThreadTypes
    <3>3. \A g \in Handle : Own(t, g)' = Own(t, g)
      BY <1>0, <2>0, <3>1 DEF ThreadTypes, Own, One, Retiring, Sending, Launching, NoCall
    <3> QED BY <2>0, <3>1, <3>2, <3>3, CountIdle
  <2> QED BY <2>1, <2>2
<1>5. CASE RetireRelease(t)
  <2>0. /\ UNCHANGED <<cur, new>> /\ call' = [call EXCEPT ![t] = NoCall]
        /\ call[t].victim \in Handle /\ skynet_context_release(call[t].victim)
    BY <1>0, <1>5 DEF RetireRelease, dispatch, ThreadOK
  <2>1. Alone(t)
    BY <1>0, <2>0 DEF Alone, ThreadTypes
  <2>2. \A g \in Handle : Own(t, g)' = Own(t, g) - One(g = call[t].victim)
    BY <1>0, <1>5, <2>0 DEF RetireRelease, ThreadTypes, Own, One, Retiring, Sending, Launching, NoCall
  <2> QED BY <2>0, <2>1, <2>2, CountRelease
<1> QED BY <1>1, <1>2, <1>3, <1>4, <1>5 DEF CallStep

(* Callbacks begin to send, to exit and to launch; a launch makes the two  *)
(* references of a context that nobody refers to yet.                      *)
LEMMA CountAct ==
  ASSUME ControlInv, CountInv, NEW t \in Thread, Act(t)
  PROVE  CountInv'
<1>0. ThreadTypes /\ ThreadOK(t)
  BY DEF ControlInv
<1>1. ASSUME Alone(t), call[t] = NoCall, call'[t].at \in {"grab", "retire"},
             UNCHANGED <<slot, ctx, ref, total, cur, new>>
      PROVE  CountInv'
  <2>1. \A g \in Handle : Own(t, g)' = Own(t, g)
    BY <1>0, <1>1 DEF ThreadTypes, Own, One, Retiring, Sending, Launching, NoCall
  <2> QED BY <1>1, <2>1, CountIdle
<1>2. ASSUME NEW dst \in Handle, skynet_send(t, dst) PROVE CountInv'
  <2> DEFINE k == [at |-> "grab", dst |-> dst, src |-> Self(t), victim |-> None]
  <2>1. k.at \in {"grab", "retire"}
    OBVIOUS
  <2>2. call' = [call EXCEPT ![t] = k]
    BY <1>2 DEF skynet_send
  <2>3. call[t] = NoCall /\ UNCHANGED <<slot, ctx, ref, total, cur, new>>
    BY <1>2 DEF skynet_send, InCallback, InInit, Idle, service, dispatch
  <2> HIDE DEF k
  <2>4. Alone(t) /\ call'[t] = k
    BY <1>0, <2>2, <2>3 DEF Alone, ThreadTypes
  <2> QED BY <1>1, <2>1, <2>3, <2>4
<1>3. ASSUME NEW victim \in Handle, handle_exit(t, victim) PROVE CountInv'
  <2> DEFINE k == [at |-> IF MonitorExit = None THEN "retire" ELSE "grab",
                   dst |-> MonitorExit, src |-> victim, victim |-> victim]
  <2>1. k.at \in {"grab", "retire"}
    OBVIOUS
  <2>2. call' = [call EXCEPT ![t] = k]
    BY <1>3 DEF handle_exit
  <2>3. call[t] = NoCall /\ UNCHANGED <<slot, ctx, ref, total, cur, new>>
    BY <1>3 DEF handle_exit, InCallback, InInit, Idle, service, dispatch
  <2> HIDE DEF k
  <2>4. Alone(t) /\ call'[t] = k
    BY <1>0, <2>2, <2>3 DEF Alone, ThreadTypes
  <2> QED BY <1>1, <2>1, <2>3, <2>4
<1>4. ASSUME NEW h \in Handle, skynet_context_new(t, h) PROVE CountInv'
  <2>0. /\ slot' = slot \cup {h} /\ ctx' = [ctx EXCEPT ![h] = "live"]
        /\ ref' = [ref EXCEPT ![h] = 2] /\ total' = total + 1
        /\ new' = [new EXCEPT ![t] = [at |-> "init", h |-> h]]
        /\ UNCHANGED <<cur, call>> /\ new[t] = NoNew /\ ctx[h] = "none"
    BY <1>4 DEF skynet_context_new, InCallback, Idle, CreatedRef, context_inc, dispatch
  <2>1. Alone(t)
    BY <1>0, <2>0 DEF Alone, ThreadTypes
  <2>2. \A g \in Handle : Own(t, g)' = Own(t, g) + One(g = h)
    BY <1>0, <2>0 DEF ThreadTypes, Own, One, Retiring, Sending, Launching, NoNew
  <2>3. ref[h] = 0 /\ h \notin slot
    BY <2>0, SlotIsLive DEF CountInv
  <2>4. \A g \in Handle : Refs(g)' = Refs(g) + One(g = h) + One(g = h) /\ Refs(g) \in Nat
    <3> TAKE g \in Handle
    <3>1. /\ Refs(g) \in Nat /\ Refs(g)' \in Nat /\ Own(t, g) \in Nat
          /\ Refs(g)' = Refs(g) + (Own(t, g)' - Own(t, g)) + (One(g \in slot)' - One(g \in slot))
      BY <2>1, RefsChange DEF Alone
    <3>2. One(g \in slot)' = One(g \in slot) + One(g = h) /\ One(g \in slot) \in {0, 1} /\ One(g = h) \in {0, 1}
      BY <2>0, <2>3 DEF One
    <3> QED BY <2>2, <3>1, <3>2
  <2>5. \A g \in Handle : ref'[g] = Refs(g)' /\ (ctx'[g] = "live" <=> ref'[g] > 0)
    BY <2>0, <2>3, <2>4 DEF CountInv, One
  <2>6. ref' \in [Handle -> Nat] /\ ctx' \in [Handle -> {"none", "live", "freed"}]
    BY <2>0 DEF CountInv
  <2>7. total' = Cardinality({g \in Handle : ctx'[g] = "live"})
    <3> DEFINE live == {g \in Handle : ctx[g] = "live"}
    <3>1. IsFiniteSet(live)
      BY HandleAssumption, FS_Subset
    <3>2. h \notin live /\ {g \in Handle : ctx'[g] = "live"} = live \cup {h}
      BY <2>0 DEF CountInv
    <3>3. total = Cardinality(live)
      BY DEF CountInv
    <3> HIDE DEF live
    <3>4. Cardinality(live \cup {h}) = Cardinality(live) + 1
      BY <3>1, <3>2, FS_AddElement
    <3> QED BY <2>0, <3>2, <3>3, <3>4
  <2> QED BY <2>5, <2>6, <2>7 DEF CountInv
<1> QED BY <1>2, <1>3, <1>4 DEF Act

(* The steps of skynet_context_new.                                        *)
LEMMA CountNew ==
  ASSUME ControlInv, CountInv, NEW t \in Thread, NewStep(t)
  PROVE  CountInv'
<1>0. ThreadTypes /\ ThreadOK(t)
  BY DEF ControlInv
<1>1. ASSUME Alone(t), UNCHANGED <<slot, ctx, ref, total, cur>>,
             new'[t].h = new[t].h \/ new'[t].at = "idle",
             new[t].at \in {"init", "ok", "failed"} <=> new'[t].at \in {"init", "ok", "failed"},
             call'[t] = call[t] \/ (call[t] = NoCall /\ call'[t].at = "grab")
      PROVE  CountInv'
  <2>1. \A g \in Handle : Own(t, g)' = Own(t, g)
    BY <1>0, <1>1 DEF Own, One, Retiring, Sending, Launching, NoCall
  <2> QED BY <1>1, <2>1, CountIdle
<1>2. ASSUME Alone(t), UNCHANGED cur, new[t].at \in {"ok", "failed"},
             new'[t].at \in {"flag", "schedule", "give_up"},
             skynet_context_release(new[t].h),
             call[t] = NoCall, call'[t] = NoCall \/ call'[t].at = "retire"
      PROVE  CountInv'
  <2>1. \A g \in Handle : Own(t, g)' = Own(t, g) - One(g = new[t].h)
    BY <1>0, <1>2 DEF Own, One, Retiring, Sending, Launching, NoCall
  <2>2. new[t].h \in Handle
    BY <1>0, <1>2 DEF ThreadOK
  <2> QED BY <1>2, <2>1, <2>2, CountRelease
<1>3. CASE InitReturns(t)
  <2>1. PICK at \in {"ok", "failed"} : new' = [new EXCEPT ![t].at = at]
    BY <1>3 DEF InitReturns
  <2> QED BY <1>0, <1>1, <1>3, <2>1 DEF InitReturns, InInit, service, dispatch, ThreadTypes, NewType, Alone
<1>4. CASE NewRelease(t)
  <2>1. PICK at \in {"flag", "schedule"} : new' = [new EXCEPT ![t].at = at]
    BY <1>4 DEF NewRelease
  <2> QED BY <1>0, <1>2, <1>4, <2>1 DEF NewRelease, dispatch, ThreadTypes, ThreadOK, NewType, Alone
<1>5. CASE NewSetInit(t)
  BY <1>0, <1>1, <1>5 DEF NewSetInit, dispatch, ThreadTypes, NewType, Alone
<1>6. CASE NewSchedule(t)
  BY <1>0, <1>1, <1>6 DEF NewSchedule, dispatch, ThreadTypes, NoNew, Alone
<1>7. CASE NewFailRelease(t)
  BY <1>0, <1>2, <1>7 DEF NewFailRelease, dispatch, ThreadTypes, ThreadOK, NewType, Alone
<1>8. CASE NewFailQueue(t)
  BY <1>0, <1>1, <1>8
  DEF NewFailQueue, skynet_mq_release_wait, service, dispatch, ThreadTypes, NewType, NoNew, Alone
<1>9. CASE NewFailDrop(t)
  <2>1. CASE DropOne(t, new[t].h) /\ UNCHANGED new
    <3>1. UNCHANGED <<slot, ctx, ref, total, cur>> /\ call[t] = NoCall
      BY <1>9, <2>1 DEF NewFailDrop, DropOne, dispatch
    <3>2. PICK k \in CallType : call' = [call EXCEPT ![t] = k] /\ (k = NoCall \/ k.at = "grab")
      BY <1>0, <1>9, <2>1, DropCall DEF NewFailDrop, ThreadOK
    <3> QED BY <1>0, <1>1, <2>1, <3>1, <3>2 DEF ThreadTypes, Alone
  <2>2. CASE FreeQueue(new[t].h) /\ new' = [new EXCEPT ![t] = NoNew] /\ UNCHANGED call
    BY <1>0, <1>1, <1>9, <2>2 DEF NewFailDrop, FreeQueue, dispatch, ThreadTypes, NoNew, Alone
  <2> QED BY <1>9, <2>1, <2>2 DEF NewFailDrop
<1> QED BY <1>3, <1>4, <1>5, <1>6, <1>7, <1>8, <1>9 DEF NewStep

(* The steps of skynet_context_message_dispatch.                           *)
LEMMA CountDispatch ==
  ASSUME ControlInv, CountInv, NEW t \in Thread, DispatchStep(t)
  PROVE  CountInv'
<1>0. ThreadTypes /\ ThreadOK(t)
  BY DEF ControlInv
<1>1. ASSUME UNCHANGED <<slot, ctx, ref, total, cur, new, call>> PROVE CountInv'
  <2>1. Alone(t) /\ \A g \in Handle : Own(t, g)' = Own(t, g)
    BY <1>1 DEF Alone, Own, One, Retiring, Sending, Launching
  <2> QED BY <1>1, <2>1, CountIdle
<1>2. CASE DispatchGrab(t)
  <2>0. UNCHANGED <<slot, ctx, total, new, call>> /\ q[t] \in Handle /\ cur[t] = None
    BY <1>0, <1>2 DEF DispatchGrab, ThreadOK
  <2>1. CASE q[t] \in slot
    <3>1. cur' = [cur EXCEPT ![t] = q[t]] /\ ref' = [ref EXCEPT ![q[t]] = @ + 1]
      BY <1>2, <2>1 DEF DispatchGrab, skynet_context_grab
    <3>2. Alone(t)
      BY <1>0, <2>0, <3>1 DEF Alone, ThreadTypes
    <3>3. \A g \in Handle : Own(t, g)' = Own(t, g) + One(g = q[t])
      BY <1>0, <2>0, <3>1, HandleAssumption DEF ThreadTypes, Own, One, Retiring, Sending, Launching
    <3> QED BY <2>0, <2>1, <3>1, <3>2, <3>3, CountGrab
  <2>2. CASE q[t] \notin slot
    BY <1>1, <1>2, <2>0, <2>2 DEF DispatchGrab
  <2> QED BY <2>1, <2>2
<1>3. CASE DispatchDrop(t)
  <2>1. CASE DropOne(t, q[t])
    <3>1. UNCHANGED <<slot, ctx, ref, total, cur, new>> /\ call[t] = NoCall
      BY <1>3, <2>1 DEF DispatchDrop, DropOne
    <3>2. PICK k \in CallType : call' = [call EXCEPT ![t] = k] /\ (k = NoCall \/ k.at = "grab")
      BY <1>0, <1>3, <2>1, DropCall DEF DispatchDrop, ThreadOK
    <3>3. Alone(t)
      BY <1>0, <3>1, <3>2 DEF Alone, ThreadTypes
    <3>4. \A g \in Handle : Own(t, g)' = Own(t, g)
      BY <1>0, <3>1, <3>2 DEF ThreadTypes, Own, One, Retiring, Sending, Launching, NoCall
    <3> QED BY <3>1, <3>3, <3>4, CountIdle
  <2>2. CASE FreeQueue(q[t]) /\ UNCHANGED call
    BY <1>1, <1>3, <2>2 DEF DispatchDrop, FreeQueue
  <2> QED BY <1>3, <2>1, <2>2 DEF DispatchDrop
<1>4. CASE DispatchLeave(t)
  <2>0. /\ UNCHANGED <<new, call>> /\ cur' = [cur EXCEPT ![t] = None]
        /\ cur[t] \in Handle /\ skynet_context_release(cur[t])
    BY <1>0, <1>4 DEF DispatchLeave, ThreadTypes, ThreadOK
  <2>1. Alone(t)
    BY <1>0, <2>0 DEF Alone, ThreadTypes
  <2>2. \A g \in Handle : Own(t, g)' = Own(t, g) - One(g = cur[t])
    BY <1>0, <2>0, HandleAssumption DEF ThreadTypes, Own, One, Retiring, Sending, Launching
  <2> QED BY <2>0, <2>1, <2>2, CountRelease
<1>5. CASE \/ skynet_globalmq_pop(t) \/ DispatchDead(t) \/ skynet_mq_pop(t)
           \/ skynet_mq_length(t) \/ skynet_mq_pop_empty(t) \/ CallbackReturns(t)
           \/ DispatchNext(t) \/ skynet_globalmq_push(t)
  BY <1>1, <1>5 DEF skynet_globalmq_pop, DispatchDead, skynet_mq_release_wait, skynet_mq_pop,
    skynet_mq_length, skynet_mq_pop_empty, CallbackReturns, DispatchNext, skynet_globalmq_push, service
<1> QED BY <1>2, <1>3, <1>4, <1>5 DEF DispatchStep

(* Every step keeps the reference counts exact.                            *)
LEMMA CountStep == ControlInv /\ CountInv /\ [Next]_vars => CountInv'
<1>1. CountInv /\ UNCHANGED vars => CountInv'
  <2> SUFFICES ASSUME CountInv, UNCHANGED vars PROVE CountInv'
    OBVIOUS
  <2>1. UNCHANGED <<slot, ctx, ref, total, cur, new, call>>
    BY DEF vars, service, dispatch
  <2>2. \A h \in Handle : Refs(h)' = Refs(h)
    BY <2>1 DEF Refs, One, Retiring, Sending, Launching
  <2> QED BY <2>1, <2>2 DEF CountInv
<1> QED BY <1>1, CountCall, CountAct, CountNew, CountDispatch DEF Next, Step


-----------------------------------------------------------------------------
(* Where the queues are.                                                   *)

(* skynet_globalmq_push of a queue that is not in the run queue.           *)
LEMMA PushRun ==
  ASSUME ThreadTypes, Once(globalmq), NEW h \in Handle, h \notin RunSet,
         globalmq' = Append(globalmq, h)
  PROVE  Once(globalmq)' /\ RunSet' = RunSet \cup {h}
<1> DEFINE n == Len(globalmq)
<1>1. /\ n \in Nat /\ DOMAIN globalmq = 1 .. n /\ DOMAIN globalmq' = 1 .. (n + 1)
      /\ \A i \in 1 .. n : globalmq'[i] = globalmq[i]
      /\ globalmq'[n + 1] = h
  BY DEF ThreadTypes
<1>2. \A i \in 1 .. n : globalmq[i] # h
  BY <1>1 DEF RunSet
<1>3. RunSet = {globalmq[i] : i \in 1 .. n} /\ RunSet' = {globalmq'[i] : i \in 1 .. (n + 1)}
  BY <1>1 DEF RunSet
<1> HIDE DEF n
<1>4. Once(globalmq)'
  BY <1>1, <1>2 DEF Once
<1>5. RunSet' = RunSet \cup {h}
  <2>1. 1 .. (n + 1) = (1 .. n) \cup {n + 1}
    BY <1>1
  <2> QED BY <1>1, <1>3, <2>1
<1> QED BY <1>4, <1>5

(* skynet_globalmq_pop.                                                    *)
LEMMA PopRun ==
  ASSUME ThreadTypes, Once(globalmq), globalmq # <<>>, globalmq' = Tail(globalmq)
  PROVE  /\ Once(globalmq)' /\ RunSet' = RunSet \ {Head(globalmq)}
         /\ Head(globalmq) \in RunSet /\ Head(globalmq) \in Handle
<1> DEFINE n == Len(globalmq)
<1>1. /\ n \in Nat \ {0} /\ DOMAIN globalmq = 1 .. n /\ DOMAIN globalmq' = 1 .. (n - 1)
      /\ \A i \in 1 .. (n - 1) : globalmq'[i] = globalmq[i + 1]
      /\ Head(globalmq) = globalmq[1] /\ Head(globalmq) \in Handle
  BY DEF ThreadTypes
<1>3. RunSet = {globalmq[i] : i \in 1 .. n} /\ RunSet' = {globalmq'[i] : i \in 1 .. (n - 1)}
  BY <1>1 DEF RunSet
<1> HIDE DEF n
<1>4. Once(globalmq)'
  <2> SUFFICES ASSUME NEW i \in 1 .. (n - 1), NEW j \in 1 .. (n - 1), globalmq'[i] = globalmq'[j]
               PROVE  i = j
    BY <1>1 DEF Once
  <2>1. i + 1 \in 1 .. n /\ j + 1 \in 1 .. n /\ globalmq[i + 1] = globalmq[j + 1]
    BY <1>1
  <2>2. i + 1 = j + 1
    BY <1>1, <2>1 DEF Once
  <2> QED BY <2>2
<1>5. RunSet' = RunSet \ {Head(globalmq)}
  <2>1. ASSUME NEW x \in RunSet' PROVE x \in RunSet \ {Head(globalmq)}
    <3>1. PICK i \in 1 .. (n - 1) : x = globalmq'[i]
      BY <1>3, <2>1
    <3>2. i + 1 \in 1 .. n /\ 1 \in 1 .. n /\ i + 1 # 1 /\ x = globalmq[i + 1]
      BY <1>1, <3>1
    <3> QED BY <1>1, <1>3, <3>2 DEF Once
  <2>2. ASSUME NEW x \in RunSet, x # Head(globalmq) PROVE x \in RunSet'
    <3>1. PICK i \in 1 .. n : x = globalmq[i]
      BY <1>3, <2>2
    <3>2. i - 1 \in 1 .. (n - 1) /\ (i - 1) + 1 = i
      BY <1>1, <2>2, <3>1
    <3>3. globalmq'[i - 1] = x
      BY <1>1, <3>1, <3>2
    <3> QED BY <1>3, <3>2, <3>3
  <2> QED BY <2>1, <2>2
<1>6. Head(globalmq) \in RunSet
  BY <1>1, <1>3
<1> QED BY <1>1, <1>4, <1>5, <1>6

(* The hands of the other threads stay as they are.                        *)
OthersKeep(t) ==
  \A u \in Thread \ {t} : q'[u] = q[u] /\ nq'[u] = nq[u] /\ new'[u] = new[u]

(* Thread t moves the queue of h, and nothing else moves.                  *)
LEMMA MoveOne ==
  ASSUME Exclusive, NEW t \in Thread, NEW h \in Handle, OthersKeep(t),
         Once(globalmq)', Apart(t)',
         \A g \in Handle \ {h} : /\ g \in RunSet' <=> g \in RunSet
                                 /\ InHand(t, g)' <=> InHand(t, g),
         \A u \in Thread \ {t} : ~InHand(u, h),
         ~(h \in RunSet' /\ InHand(t, h)')
  PROVE  /\ Exclusive'
         /\ \A g \in Handle \ {h} : Placed(g)' <=> Placed(g)
         /\ Placed(h)' <=> (h \in RunSet' \/ InHand(t, h)')
<1>1. \A u \in Thread \ {t}, g \in Handle : InHand(u, g)' <=> InHand(u, g)
  BY DEF OthersKeep, InHand
<1>2. \A u \in Thread \ {t} : Apart(u)'
  BY DEF OthersKeep, Apart, Exclusive
<1>3. \A u \in Thread : Apart(u)'
  BY <1>2
<1>4. \A u \in Thread, g \in Handle : InHand(u, g)' => g \notin RunSet'
  BY <1>1 DEF Exclusive
<1>5. \A u, v \in Thread, g \in Handle : InHand(u, g)' /\ InHand(v, g)' => u = v
  BY <1>1 DEF Exclusive
<1>6. Exclusive'
  BY <1>3, <1>4, <1>5 DEF Exclusive
<1>7. \A g \in Handle \ {h} : Placed(g)' <=> Placed(g)
  BY <1>1 DEF Placed
<1>8. Placed(h)' <=> (h \in RunSet' \/ InHand(t, h)')
  BY <1>1 DEF Placed
<1> QED BY <1>6, <1>7, <1>8

(* No queue moves.                                                         *)
LEMMA MoveNone ==
  ASSUME Exclusive, UNCHANGED <<globalmq, q, nq>>,
         \A u \in Thread : new'[u].h = new[u].h
  PROVE  Exclusive' /\ \A g \in Handle : Placed(g)' <=> Placed(g)
<1>1. /\ \A u \in Thread, g \in Handle : InHand(u, g)' <=> InHand(u, g)
      /\ RunSet' = RunSet /\ (Once(globalmq)' <=> Once(globalmq))
      /\ \A u \in Thread : Apart(u)' <=> Apart(u)
  BY DEF InHand, RunSet, Once, Apart
<1> QED BY <1>1 DEF Exclusive, Placed


(* A context to which the slot or a thread refers is alive.                *)
LEMMA HolderIsLive ==
  ASSUME CountInv, NEW t \in Thread, NEW h \in Handle,
         cur[t] = h \/ Sending(t, h) \/ Launching(t, h) \/ Retiring(t, h)
  PROVE  ctx[h] = "live"
<1> DEFINE R == {u \in Thread : Retiring(u, h)}
           C == {u \in Thread : cur[u] = h}
           S == {u \in Thread : Sending(u, h)}
           L == {u \in Thread : Launching(u, h)}
<1>1. t \in R \/ t \in C \/ t \in S \/ t \in L
  OBVIOUS
<1>2. /\ IsFiniteSet(R) /\ IsFiniteSet(C) /\ IsFiniteSet(S) /\ IsFiniteSet(L)
  BY ThreadAssumption, FS_Subset DEF Thread
<1>3. Refs(h) = One(h \in slot) + Cardinality(R) + Cardinality(C) + Cardinality(S) + Cardinality(L)
  BY DEF Refs
<1>4. One(h \in slot) \in {0, 1}
  BY DEF One
<1> HIDE DEF R, C, S, L
<1>5. /\ Cardinality(R) \in Nat /\ Cardinality(C) \in Nat
      /\ Cardinality(S) \in Nat /\ Cardinality(L) \in Nat
  BY <1>2, FS_CardinalityType
<1>6. Cardinality(R) # 0 \/ Cardinality(C) # 0 \/ Cardinality(S) # 0 \/ Cardinality(L) # 0
  BY <1>1, <1>2, FS_EmptySet
<1>7. Refs(h) > 0
  BY <1>3, <1>4, <1>5, <1>6
<1> QED BY <1>7 DEF CountInv

(* Steps that move no queue; messages may be taken from a live one.        *)
LEMMA LifeSame ==
  ASSUME PlaceInv, MemoryInv, UNCHANGED <<globalmq, q, nq, ctx, qmem, in_global, release>>,
         \A u \in Thread : new'[u].h = new[u].h /\ DropOK(u)',
         \A g \in Handle : queue'[g] = queue[g] \/ (qmem[g] = "live" /\ queue[g] # <<>>)
  PROVE  PlaceInv' /\ MemoryInv'
<1>1. Exclusive' /\ \A g \in Handle : Placed(g)' <=> Placed(g)
  BY MoveNone DEF PlaceInv
<1>2. \A g \in Handle : Flagged(g)' <=> Flagged(g)
  BY DEF Flagged
<1>3. \A g \in Handle : Life(g)'
  BY DEF MemoryInv, Life
<1> QED BY <1>1, <1>2, <1>3 DEF PlaceInv, MemoryInv

(* Steps that move the queue of h only, and keep every message.            *)
LEMMA LifeMove ==
  ASSUME PlaceInv, MemoryInv, NEW t \in Thread, NEW h \in Handle, OthersKeep(t),
         Once(globalmq)', Apart(t)',
         \A g \in Handle \ {h} : /\ g \in RunSet' <=> g \in RunSet
                                 /\ InHand(t, g)' <=> InHand(t, g),
         \A u \in Thread \ {t} : ~InHand(u, h),
         ~(h \in RunSet' /\ InHand(t, h)'),
         qmem' \in [Handle -> {"none", "live", "freed"}],
         in_global' \in [Handle -> BOOLEAN],
         release' \in [Handle -> BOOLEAN],
         \A g \in Handle \ {h} : /\ ctx'[g] = ctx[g] /\ qmem'[g] = qmem[g]
                                 /\ in_global'[g] = in_global[g] /\ release'[g] = release[g]
                                 /\ queue'[g] = queue[g],
         (h \in RunSet' \/ InHand(t, h)') <=> Flagged(h)',
         Life(h)',
         \A u \in Thread : DropOK(u)'
  PROVE  PlaceInv' /\ MemoryInv'
<1>1. /\ Exclusive'
      /\ \A g \in Handle \ {h} : Placed(g)' <=> Placed(g)
      /\ Placed(h)' <=> (h \in RunSet' \/ InHand(t, h)')
  <2>1. Exclusive
    BY DEF PlaceInv
  <2> QED BY <2>1, MoveOne
<1>2. \A g \in Handle \ {h} : Flagged(g)' <=> Flagged(g)
  BY DEF Flagged
<1>3. \A g \in Handle \ {h} : Life(g)'
  BY DEF MemoryInv, Life
<1> QED BY <1>1, <1>2, <1>3 DEF PlaceInv, MemoryInv


(* A queue goes from the hands of t to the run queue.                      *)
LEMMA LifeToRun ==
  ASSUME ThreadTypes, PlaceInv, MemoryInv, NEW t \in Thread, NEW h \in Handle,
         InHand(t, h), OthersKeep(t), Apart(t)', globalmq' = Append(globalmq, h),
         \A g \in Handle : InHand(t, g)' <=> InHand(t, g) /\ g # h,
         UNCHANGED <<ctx, qmem, in_global, release, queue>>,
         \A u \in Thread : DropOK(u)'
  PROVE  PlaceInv' /\ MemoryInv'
<1>1. Once(globalmq) /\ h \notin RunSet /\ \A u \in Thread \ {t} : ~InHand(u, h)
  BY DEF PlaceInv, Exclusive
<1>2. Once(globalmq)' /\ RunSet' = RunSet \cup {h}
  BY <1>1, PushRun
<1>3. Flagged(h)' /\ Life(h)'
  BY DEF PlaceInv, MemoryInv, Placed, Flagged, Life
<1>4. h \in RunSet' /\ ~InHand(t, h)' /\ \A g \in Handle \ {h} :
        (g \in RunSet' <=> g \in RunSet) /\ (InHand(t, g)' <=> InHand(t, g))
  BY <1>2
<1>5. /\ qmem' \in [Handle -> {"none", "live", "freed"}]
      /\ in_global' \in [Handle -> BOOLEAN] /\ release' \in [Handle -> BOOLEAN]
  BY DEF MemoryInv
<1> QED BY <1>1, <1>2, <1>3, <1>4, <1>5, LifeMove

(* The first queue of the run queue goes to the hands of t.                *)
LEMMA LifeToHand ==
  ASSUME ThreadTypes, PlaceInv, MemoryInv, NEW t \in Thread,
         OthersKeep(t), Apart(t)', globalmq # <<>>, globalmq' = Tail(globalmq),
         \A g \in Handle : InHand(t, g)' <=> InHand(t, g) \/ g = Head(globalmq),
         UNCHANGED <<ctx, qmem, in_global, release, queue>>,
         \A u \in Thread : DropOK(u)'
  PROVE  PlaceInv' /\ MemoryInv'
<1>0. Once(globalmq)
  BY DEF PlaceInv, Exclusive
<1>1. PICK h \in Handle : /\ h = Head(globalmq) /\ h \in RunSet
                         /\ Once(globalmq)' /\ RunSet' = RunSet \ {h}
  BY <1>0, PopRun
<1>2. \A u \in Thread \ {t} : ~InHand(u, h)
  BY <1>1 DEF PlaceInv, Exclusive
<1>3. Flagged(h)' /\ Life(h)'
  BY <1>1 DEF PlaceInv, MemoryInv, Placed, Flagged, Life
<1>4. h \notin RunSet' /\ InHand(t, h)' /\ \A g \in Handle \ {h} :
        (g \in RunSet' <=> g \in RunSet) /\ (InHand(t, g)' <=> InHand(t, g))
  BY <1>1
<1>5. /\ qmem' \in [Handle -> {"none", "live", "freed"}]
      /\ in_global' \in [Handle -> BOOLEAN] /\ release' \in [Handle -> BOOLEAN]
  BY DEF MemoryInv
<1> QED BY <1>1, <1>2, <1>3, <1>4, <1>5, LifeMove

(* The queue of a live context is scheduled unless it is already.          *)
LEMMA LifeSchedule ==
  ASSUME ThreadTypes, PlaceInv, MemoryInv, NEW t \in Thread, NEW h \in Handle,
         OthersKeep(t), ctx[h] = "live", globalmq' = Scheduled(h),
         UNCHANGED <<q, nq, qmem>>, new'[t].h = new[t].h,
         in_global' \in [Handle -> BOOLEAN], release' \in [Handle -> BOOLEAN],
         \A g \in Handle \ {h} : /\ ctx'[g] = ctx[g] /\ queue'[g] = queue[g]
                                 /\ in_global'[g] = in_global[g] /\ release'[g] = release[g],
         in_global'[h] \/ release'[h], Life(h)',
         \A u \in Thread : DropOK(u)'
  PROVE  PlaceInv' /\ MemoryInv'
<1>0. qmem[h] = "live" /\ ~release[h] /\ Flagged(h)'
  BY DEF MemoryInv, Life, Flagged
<1>1. qmem' \in [Handle -> {"none", "live", "freed"}]
  BY DEF MemoryInv
<1>2. \A u \in Thread : new'[u].h = new[u].h
  BY DEF OthersKeep
<1>3. Apart(t)' /\ \A g \in Handle : InHand(t, g)' <=> InHand(t, g)
  BY <1>2 DEF Apart, InHand, PlaceInv, Exclusive
<1>4. CASE in_global[h]
  <2>1. UNCHANGED globalmq
    BY <1>4 DEF Scheduled
  <2>2. Exclusive' /\ \A g \in Handle : Placed(g)' <=> Placed(g)
    BY <1>2, <2>1, MoveNone DEF PlaceInv
  <2>3. Placed(h)
    BY <1>0, <1>4 DEF PlaceInv, Flagged
  <2>4. \A g \in Handle \ {h} : (Flagged(g)' <=> Flagged(g)) /\ Life(g)'
    BY DEF MemoryInv, Flagged, Life
  <2> QED BY <1>0, <1>1, <2>2, <2>3, <2>4 DEF PlaceInv, MemoryInv
<1>5. CASE ~in_global[h]
  <2>1. globalmq' = Append(globalmq, h)
    BY <1>5 DEF Scheduled
  <2>2. ~Placed(h) /\ Once(globalmq)
    BY <1>0, <1>5 DEF PlaceInv, Exclusive, Flagged
  <2>3. h \notin RunSet /\ \A u \in Thread : ~InHand(u, h)
    BY <2>2 DEF Placed
  <2>4. Once(globalmq)' /\ RunSet' = RunSet \cup {h}
    BY <2>1, <2>2, <2>3, PushRun
  <2>5. h \in RunSet' /\ ~InHand(t, h)' /\ \A g \in Handle \ {h} :
          (g \in RunSet' <=> g \in RunSet) /\ (InHand(t, g)' <=> InHand(t, g))
    BY <1>3, <2>3, <2>4
  <2> QED BY <1>0, <1>1, <1>3, <2>3, <2>4, <2>5, LifeMove
<1> QED BY <1>4, <1>5

(* skynet_context_release of a live context.                               *)
LEMMA LifeRelease ==
  ASSUME ThreadTypes, CountInv, PlaceInv, MemoryInv, NEW t \in Thread, NEW h \in Handle,
         OthersKeep(t), skynet_context_release(h), ctx[h] = "live",
         UNCHANGED <<q, nq>>, new'[t].h = new[t].h,
         \A u \in Thread : /\ pc'[u] = "drop" => pc[u] = "drop" /\ q[u] \in Handle
                           /\ new'[u].at = "drop" => new[u].at = "drop" /\ new[u].h \in Handle
  PROVE  PlaceInv' /\ MemoryInv'
<1>0. UNCHANGED <<queue, qmem, in_global>> /\ \A u \in Thread : new'[u].h = new[u].h
  BY DEF skynet_context_release, OthersKeep
<1>1. CASE ref[h] = 1
  <2>1. /\ ctx' = [ctx EXCEPT ![h] = "freed"] /\ release' = [release EXCEPT ![h] = TRUE]
        /\ globalmq' = Scheduled(h)
    BY <1>1 DEF skynet_context_release
  <2>2. release' \in [Handle -> BOOLEAN] /\ release'[h] /\ in_global' \in [Handle -> BOOLEAN]
    BY <1>0, <2>1 DEF MemoryInv
  <2>3. \A g \in Handle : release[g] => release'[g]
    BY <2>1 DEF MemoryInv
  <2>4. \A u \in Thread : DropOK(u)'
    BY <1>0, <2>3 DEF MemoryInv, DropOK
  <2>5. Life(h)' /\ \A g \in Handle \ {h} : ctx'[g] = ctx[g] /\ release'[g] = release[g]
    BY <1>0, <2>1 DEF MemoryInv, CountInv, Life
  <2> QED BY <1>0, <2>1, <2>2, <2>4, <2>5, LifeSchedule
<1>2. CASE ref[h] # 1
  <2>1. UNCHANGED <<ctx, release, globalmq>>
    BY <1>2 DEF skynet_context_release
  <2>2. \A u \in Thread : DropOK(u)'
    BY <1>0, <2>1 DEF MemoryInv, DropOK
  <2> QED BY <1>0, <2>1, <2>2, LifeSame
<1> QED BY <1>1, <1>2

(* A queue that its flags no longer schedule leaves the hands of t.        *)
LEMMA LifeGone ==
  ASSUME PlaceInv, MemoryInv, NEW t \in Thread, NEW h \in Handle,
         InHand(t, h), OthersKeep(t), Apart(t)',
         \A g \in Handle : InHand(t, g)' <=> InHand(t, g) /\ g # h,
         in_global' = [in_global EXCEPT ![h] = FALSE],
         qmem' \in [Handle -> {"none", "live", "freed"}],
         \A g \in Handle \ {h} : qmem'[g] = qmem[g],
         UNCHANGED <<globalmq, ctx, release, queue>>,
         queue[h] = <<>>, \/ qmem'[h] = "freed" /\ release[h]
                          \/ qmem'[h] = qmem[h] /\ ~release[h],
         \A u \in Thread : DropOK(u)'
  PROVE  PlaceInv' /\ MemoryInv'
<1>1. Once(globalmq)' /\ RunSet' = RunSet
  BY DEF PlaceInv, Exclusive, Once, RunSet
<1>2. h \notin RunSet /\ \A u \in Thread \ {t} : ~InHand(u, h)
  BY DEF PlaceInv, Exclusive
<1>3. in_global' \in [Handle -> BOOLEAN] /\ release' \in [Handle -> BOOLEAN]
  BY DEF MemoryInv
<1>4. ~in_global'[h] /\ \A g \in Handle \ {h} : in_global'[g] = in_global[g]
  BY DEF MemoryInv
<1>5. ~Flagged(h)'
  BY <1>4 DEF Flagged
<1>6. Life(h)'
  <2>1. Life(h) /\ Flagged(h)
    BY DEF MemoryInv, PlaceInv, Placed
  <2> QED BY <1>4, <2>1 DEF Life, Flagged
<1> QED BY <1>1, <1>2, <1>3, <1>4, <1>5, <1>6, LifeMove


(* The steps of skynet_send and skynet_handle_retire.                      *)
LEMMA LifeCall ==
  ASSUME ControlInv, CountInv, PlaceInv, MemoryInv, NEW t \in Thread, CallStep(t)
  PROVE  PlaceInv' /\ MemoryInv'
<1>0. ThreadTypes /\ \A u \in Thread : ThreadOK(u)
  BY DEF ControlInv
<1>1. UNCHANGED <<pc, q, nq, new>> /\ OthersKeep(t)
  BY DEF CallStep, skynet_handle_grab, skynet_mq_push, SendRelease, skynet_handle_retire,
         RetireRelease, dispatch, OthersKeep
<1>2. \A u \in Thread : /\ pc'[u] = "drop" => pc[u] = "drop" /\ q[u] \in Handle
                        /\ new'[u].at = "drop" => new[u].at = "drop" /\ new[u].h \in Handle
  BY <1>0, <1>1 DEF ThreadOK
<1>3. ASSUME UNCHANGED <<ctx, qmem, in_global, release, queue, globalmq>>
      PROVE  PlaceInv' /\ MemoryInv'
  <2>1. \A u \in Thread : DropOK(u)'
    BY <1>1, <1>3 DEF MemoryInv, DropOK
  <2> QED BY <1>1, <1>3, <2>1, LifeSame
<1>4. CASE skynet_handle_grab(t)
  BY <1>3, <1>4 DEF skynet_handle_grab
<1>5. CASE skynet_mq_push(t)
  <2>1. PICK h \in Handle : h = call[t].dst
    BY <1>0, <1>5 DEF skynet_mq_push, ThreadOK
  <2>2. /\ queue' = [queue EXCEPT ![h] = Append(@, call[t].src)]
        /\ in_global' = [in_global EXCEPT ![h] = TRUE]
        /\ globalmq' = Scheduled(h) /\ Sending(t, h)
        /\ UNCHANGED <<ctx, qmem, release>>
    BY <1>5, <2>1 DEF skynet_mq_push, Sending
  <2>3. ctx[h] = "live"
    BY <2>2, HolderIsLive
  <2>4. \A u \in Thread : DropOK(u)'
    BY <1>1, <2>2 DEF MemoryInv, DropOK
  <2>5. /\ in_global' \in [Handle -> BOOLEAN] /\ release' \in [Handle -> BOOLEAN]
        /\ in_global'[h]
        /\ \A g \in Handle \ {h} : /\ ctx'[g] = ctx[g] /\ queue'[g] = queue[g]
                                   /\ in_global'[g] = in_global[g] /\ release'[g] = release[g]
    BY <1>0, <2>2 DEF MemoryInv, ThreadTypes
  <2>6. Life(h)'
    BY <2>2, <2>3, <2>5 DEF MemoryInv, Life
  <2> QED BY <1>0, <1>1, <2>2, <2>3, <2>4, <2>5, <2>6, LifeSchedule
<1>6. CASE SendRelease(t)
  <2>1. PICK h \in Handle : h = call[t].dst
    BY <1>0, <1>6 DEF SendRelease, ThreadOK
  <2>2. skynet_context_release(h) /\ Sending(t, h)
    BY <1>6, <2>1 DEF SendRelease, Sending
  <2> QED BY <1>0, <1>1, <1>2, <2>2, HolderIsLive, LifeRelease
<1>7. CASE skynet_handle_retire(t)
  BY <1>3, <1>7 DEF skynet_handle_retire
<1>8. CASE RetireRelease(t)
  <2>1. PICK h \in Handle : h = call[t].victim
    BY <1>0, <1>8 DEF RetireRelease, ThreadOK
  <2>2. skynet_context_release(h) /\ Retiring(t, h)
    BY <1>8, <2>1 DEF RetireRelease, Retiring
  <2> QED BY <1>0, <1>1, <1>2, <2>2, HolderIsLive, LifeRelease
<1> QED BY <1>4, <1>5, <1>6, <1>7, <1>8 DEF CallStep

(* Callbacks begin to send, to exit and to launch: the queue of a new      *)
(* service is in the hands of its launcher.                                *)
LEMMA LifeAct ==
  ASSUME ControlInv, CountInv, PlaceInv, MemoryInv, NEW t \in Thread, Act(t)
  PROVE  PlaceInv' /\ MemoryInv'
<1>0. ThreadTypes /\ \A u \in Thread : ThreadOK(u)
  BY DEF ControlInv
<1>1. ASSUME UNCHANGED <<service, dispatch, new>>
      PROVE  PlaceInv' /\ MemoryInv'
  <2>1. \A u \in Thread : DropOK(u)'
    BY <1>1 DEF MemoryInv, DropOK, service, dispatch
  <2> QED BY <1>1, <2>1, LifeSame DEF service, dispatch
<1>2. ASSUME NEW dst \in Handle, skynet_send(t, dst) PROVE PlaceInv' /\ MemoryInv'
  BY <1>1, <1>2 DEF skynet_send
<1>3. ASSUME NEW victim \in Handle, handle_exit(t, victim) PROVE PlaceInv' /\ MemoryInv'
  BY <1>1, <1>3 DEF handle_exit
<1>4. ASSUME NEW h \in Handle, skynet_context_new(t, h) PROVE PlaceInv' /\ MemoryInv'
  <2>1. /\ ctx' = [ctx EXCEPT ![h] = "live"]
        /\ qmem' = [qmem EXCEPT ![h] = "live"]
        /\ in_global' = [in_global EXCEPT ![h] = TRUE]
        /\ new' = [new EXCEPT ![t] = [at |-> "init", h |-> h]]
        /\ UNCHANGED <<queue, release, globalmq, pc, q, nq>>
        /\ new[t] = NoNew /\ ctx[h] = "none"
    BY <1>4 DEF skynet_context_new, InCallback, Idle, CreatedInGlobal, dispatch
  <2>2. OthersKeep(t) /\ new'[t].h = h /\ new'[t].at = "init"
    BY <1>0, <2>1 DEF OthersKeep, ThreadTypes
  <2>3. Life(h) /\ ~Placed(h) /\ h \notin RunSet /\ \A u \in Thread : ~InHand(u, h)
    BY <2>1 DEF MemoryInv, Life, PlaceInv, Flagged, Placed
  <2>4. Once(globalmq)' /\ RunSet' = RunSet
    BY <2>1 DEF PlaceInv, Exclusive, Once, RunSet
  <2>5. /\ InHand(t, h)' /\ \A g \in Handle \ {h} : InHand(t, g)' <=> InHand(t, g)
        /\ Apart(t)'
    BY <2>1, <2>2, <2>3, HandleAssumption DEF InHand, Apart, PlaceInv, Exclusive, NoNew
  <2>6. /\ qmem' \in [Handle -> {"none", "live", "freed"}]
        /\ in_global' \in [Handle -> BOOLEAN] /\ release' \in [Handle -> BOOLEAN]
        /\ \A g \in Handle \ {h} : /\ ctx'[g] = ctx[g] /\ qmem'[g] = qmem[g]
                                   /\ in_global'[g] = in_global[g] /\ release'[g] = release[g]
                                   /\ queue'[g] = queue[g]
    BY <2>1 DEF MemoryInv, CountInv
  <2>7. Flagged(h)' /\ Life(h)'
    BY <2>1, <2>3 DEF MemoryInv, CountInv, Flagged, Life
  <2>8. \A u \in Thread : DropOK(u)'
    BY <2>1, <2>2 DEF MemoryInv, DropOK, OthersKeep
  <2> QED BY <2>2, <2>3, <2>4, <2>5, <2>6, <2>7, <2>8, LifeMove
<1> QED BY <1>2, <1>3, <1>4 DEF Act


(* The steps of skynet_context_new.                                        *)
LEMMA LifeNew ==
  ASSUME ControlInv, CountInv, PlaceInv, MemoryInv, NEW t \in Thread, NewStep(t)
  PROVE  PlaceInv' /\ MemoryInv'
<1>0. ThreadTypes /\ \A u \in Thread : ThreadOK(u)
  BY DEF ControlInv
<1>1. PICK h \in Handle : h = new[t].h
  BY <1>0 DEF NewStep, InitReturns, NewRelease, NewSetInit, NewSchedule, NewFailRelease,
              NewFailQueue, NewFailDrop, InInit, ThreadOK
<1>2. UNCHANGED <<pc, q, nq>>
  BY DEF NewStep, InitReturns, NewRelease, NewSetInit, NewSchedule, NewFailRelease,
         NewFailQueue, NewFailDrop, dispatch
<1>3. InHand(t, h)
  BY <1>1 DEF InHand
<1>4. ASSUME OthersKeep(t), new'[t].h = h, new'[t].at # "drop" \/ release[h],
             UNCHANGED <<globalmq, ctx, qmem, in_global, release>>,
             UNCHANGED queue \/ (queue[h] # <<>> /\ \A g \in Handle \ {h} : queue'[g] = queue[g])
      PROVE  PlaceInv' /\ MemoryInv'
  <2>1. \A u \in Thread : new'[u].h = new[u].h
    BY <1>1, <1>4 DEF OthersKeep
  <2>2. \A u \in Thread : DropOK(u)'
    BY <1>2, <1>4 DEF MemoryInv, DropOK, OthersKeep
  <2>3. qmem[h] = "live"
    BY <1>3 DEF PlaceInv, Placed, Flagged
  <2>4. \A g \in Handle : queue'[g] = queue[g] \/ (qmem[g] = "live" /\ queue[g] # <<>>)
    BY <1>4, <2>3
  <2> QED BY <1>2, <1>4, <2>1, <2>2, <2>4, LifeSame
<1>5. ASSUME OthersKeep(t), new'[t].h = h, new'[t].at # "drop",
             skynet_context_release(h), Launching(t, h)
      PROVE  PlaceInv' /\ MemoryInv'
  <2>1. \A u \in Thread : /\ pc'[u] = "drop" => pc[u] = "drop" /\ q[u] \in Handle
                          /\ new'[u].at = "drop" => new[u].at = "drop" /\ new[u].h \in Handle
    BY <1>0, <1>2, <1>5 DEF ThreadOK, OthersKeep
  <2> QED BY <1>0, <1>1, <1>2, <1>5, <2>1, HolderIsLive, LifeRelease
<1>6. ASSUME new' = [new EXCEPT ![t] = NoNew]
      PROVE  /\ OthersKeep(t) /\ Apart(t)' /\ new'[t].at = "idle"
             /\ \A g \in Handle : InHand(t, g)' <=> InHand(t, g) /\ g # h
  <2>1. OthersKeep(t) /\ new'[t] = NoNew
    BY <1>0, <1>2, <1>6 DEF OthersKeep, ThreadTypes
  <2> QED BY <1>1, <1>2, <2>1, HandleAssumption DEF Apart, InHand, NoNew, PlaceInv, Exclusive
<1>7. ASSUME new' = [new EXCEPT ![t] = NoNew], globalmq' = Append(globalmq, h),
             UNCHANGED <<ctx, qmem, in_global, release, queue>>
      PROVE  PlaceInv' /\ MemoryInv'
  <2>1. \A u \in Thread : DropOK(u)'
    BY <1>2, <1>6, <1>7 DEF MemoryInv, DropOK, OthersKeep
  <2> QED BY <1>0, <1>3, <1>6, <1>7, <2>1, LifeToRun
<1>8. CASE InitReturns(t)
  <2>1. PICK at \in {"ok", "failed"} : new' = [new EXCEPT ![t].at = at]
    BY <1>8 DEF InitReturns
  <2>2. OthersKeep(t) /\ new'[t].h = h /\ new'[t].at # "drop"
    BY <1>0, <1>1, <1>2, <2>1 DEF OthersKeep, ThreadTypes, NewType
  <2> QED BY <1>4, <1>8, <2>2 DEF InitReturns, service
<1>9. CASE NewRelease(t)
  <2>1. PICK at \in {"flag", "schedule"} : new' = [new EXCEPT ![t].at = at]
    BY <1>9 DEF NewRelease
  <2>2. OthersKeep(t) /\ new'[t].h = h /\ new'[t].at # "drop"
    BY <1>0, <1>1, <1>2, <2>1 DEF OthersKeep, ThreadTypes, NewType
  <2> QED BY <1>1, <1>5, <1>9, <2>2 DEF NewRelease, Launching
<1>10. CASE NewSetInit(t)
  <2>1. OthersKeep(t) /\ new'[t].h = h /\ new'[t].at # "drop"
    BY <1>0, <1>1, <1>2, <1>10 DEF NewSetInit, OthersKeep, ThreadTypes, NewType
  <2> QED BY <1>4, <1>10, <2>1 DEF NewSetInit
<1>11. CASE NewSchedule(t)
  BY <1>1, <1>7, <1>11 DEF NewSchedule
<1>12. CASE NewFailRelease(t)
  <2>1. OthersKeep(t) /\ new'[t].h = h /\ new'[t].at # "drop"
    BY <1>0, <1>1, <1>2, <1>12 DEF NewFailRelease, OthersKeep, ThreadTypes, NewType
  <2> QED BY <1>1, <1>5, <1>12, <2>1 DEF NewFailRelease, Launching
<1>13. CASE NewFailQueue(t)
  <2>1. CASE skynet_mq_release_wait(new[t].h) /\ new' = [new EXCEPT ![t] = NoNew]
    BY <1>1, <1>7, <2>1 DEF skynet_mq_release_wait
  <2>2. CASE release[new[t].h] /\ new' = [new EXCEPT ![t].at = "drop"] /\ UNCHANGED service
    <3>1. OthersKeep(t) /\ new'[t].h = h
      BY <1>0, <1>1, <1>2, <2>2 DEF OthersKeep, ThreadTypes, NewType
    <3> QED BY <1>1, <1>4, <2>2, <3>1 DEF service
  <2> QED BY <1>13, <2>1, <2>2 DEF NewFailQueue
<1>14. CASE NewFailDrop(t)
  <2>0. release[h]
    BY <1>1, <1>14 DEF NewFailDrop, MemoryInv, DropOK
  <2>1. CASE DropOne(t, new[t].h) /\ UNCHANGED new
    <3>1. OthersKeep(t) /\ new'[t].h = h
      BY <1>1, <1>2, <2>1 DEF OthersKeep
    <3>2. queue[h] # <<>> /\ \A g \in Handle \ {h} : queue'[g] = queue[g]
      BY <1>0, <1>1, <2>1 DEF DropOne, ThreadTypes
    <3> QED BY <1>4, <2>0, <2>1, <3>1, <3>2 DEF DropOne
  <2>2. CASE FreeQueue(new[t].h) /\ new' = [new EXCEPT ![t] = NoNew]
    <3>1. /\ queue[h] = <<>> /\ in_global' = [in_global EXCEPT ![h] = FALSE]
          /\ qmem' = [qmem EXCEPT ![h] = "freed"]
          /\ UNCHANGED <<ctx, queue, release, globalmq>>
      BY <1>1, <2>2 DEF FreeQueue
    <3>2. /\ qmem' \in [Handle -> {"none", "live", "freed"}]
          /\ \A g \in Handle \ {h} : qmem'[g] = qmem[g]
          /\ qmem'[h] = "freed"
      BY <3>1 DEF MemoryInv
    <3>3. \A u \in Thread : DropOK(u)'
      BY <1>2, <1>6, <2>2, <3>1 DEF MemoryInv, DropOK, OthersKeep
    <3> QED BY <1>3, <1>6, <2>0, <2>2, <3>1, <3>2, <3>3, LifeGone
  <2> QED BY <1>14, <2>1, <2>2 DEF NewFailDrop
<1> QED BY <1>8, <1>9, <1>10, <1>11, <1>12, <1>13, <1>14 DEF NewStep

(* The steps of skynet_context_message_dispatch.                           *)
LEMMA LifeDispatch ==
  ASSUME ControlInv, CountInv, PlaceInv, MemoryInv, NEW t \in Thread, DispatchStep(t)
  PROVE  PlaceInv' /\ MemoryInv'
<1>0. ThreadTypes /\ \A u \in Thread : ThreadOK(u)
  BY DEF ControlInv
<1>1. /\ UNCHANGED new /\ \A u \in Thread \ {t} : pc'[u] = pc[u] /\ q'[u] = q[u] /\ nq'[u] = nq[u]
      /\ OthersKeep(t)
  <2>1. /\ UNCHANGED new
        /\ UNCHANGED q \/ \E x \in Handle \cup {None} : q' = [q EXCEPT ![t] = x]
        /\ UNCHANGED nq \/ \E x \in Handle \cup {None} : nq' = [nq EXCEPT ![t] = x]
        /\ UNCHANGED pc \/ \E x \in PCs : pc' = [pc EXCEPT ![t] = x]
    BY <1>0 DEF DispatchStep, skynet_globalmq_pop, DispatchGrab, DispatchDead, DispatchDrop,
         skynet_mq_pop, skynet_mq_length, skynet_mq_pop_empty, CallbackReturns, DispatchNext,
         skynet_globalmq_push, DispatchLeave, PCs, ThreadTypes, skynet_mq_release_wait
  <2> QED BY <1>0, <2>1 DEF ThreadTypes, OthersKeep
<1>2. ASSUME NEW h \in Handle, h = q[t], UNCHANGED <<q, nq>>, pc'[t] # "drop" \/ release[h],
             UNCHANGED <<globalmq, ctx, qmem, in_global, release>>,
             UNCHANGED queue \/ (queue[h] # <<>> /\ \A g \in Handle \ {h} : queue'[g] = queue[g])
      PROVE  PlaceInv' /\ MemoryInv'
  <2>1. \A u \in Thread : DropOK(u)'
    BY <1>1, <1>2 DEF MemoryInv, DropOK
  <2>2. qmem[h] = "live"
    BY <1>2 DEF PlaceInv, Placed, Flagged, InHand
  <2>3. \A g \in Handle : queue'[g] = queue[g] \/ (qmem[g] = "live" /\ queue[g] # <<>>)
    BY <1>2, <2>2
  <2> QED BY <1>1, <1>2, <2>1, <2>3, LifeSame
<1>3. ASSUME NEW h \in Handle, h = q[t], q'[t] = nq[t], nq'[t] = None, pc'[t] # "drop"
      PROVE  /\ Apart(t)' /\ InHand(t, h)
             /\ \A g \in Handle : InHand(t, g)' <=> InHand(t, g) /\ g # h
  BY <1>1, <1>3, HandleAssumption DEF Apart, InHand, PlaceInv, Exclusive
<1>4. ASSUME NEW h \in Handle, h = q[t], q'[t] = nq[t], nq'[t] = None, pc'[t] # "drop",
             globalmq' = Append(globalmq, h), UNCHANGED <<ctx, qmem, in_global, release, queue>>
      PROVE  PlaceInv' /\ MemoryInv'
  <2>1. \A u \in Thread : DropOK(u)'
    BY <1>1, <1>4 DEF MemoryInv, DropOK
  <2> QED BY <1>0, <1>1, <1>3, <1>4, <2>1, LifeToRun
<1>5. ASSUME NEW h \in Handle, h = q[t], q'[t] = nq[t], nq'[t] = None, pc'[t] # "drop",
             queue[h] = <<>>, in_global' = [in_global EXCEPT ![h] = FALSE],
             \/ qmem' = [qmem EXCEPT ![h] = "freed"] /\ release[h]
             \/ qmem' = qmem /\ ~release[h],
             UNCHANGED <<globalmq, ctx, release, queue>>
      PROVE  PlaceInv' /\ MemoryInv'
  <2>1. \A u \in Thread : DropOK(u)'
    BY <1>1, <1>5 DEF MemoryInv, DropOK
  <2>2. /\ qmem' \in [Handle -> {"none", "live", "freed"}]
        /\ \A g \in Handle \ {h} : qmem'[g] = qmem[g]
        /\ (qmem'[h] = "freed" /\ release[h]) \/ (qmem'[h] = qmem[h] /\ ~release[h])
    BY <1>5 DEF MemoryInv
  <2> QED BY <1>1, <1>3, <1>5, <2>1, <2>2, LifeGone
<1>6. ASSUME globalmq # <<>>, globalmq' = Tail(globalmq), pc'[t] # "drop",
             \/ q[t] = None /\ q'[t] = Head(globalmq) /\ nq'[t] = nq[t]
             \/ nq[t] = None /\ nq'[t] = Head(globalmq) /\ q'[t] = q[t],
             UNCHANGED <<ctx, qmem, in_global, release, queue>>
      PROVE  PlaceInv' /\ MemoryInv'
  <2>0. Once(globalmq)
    BY DEF PlaceInv, Exclusive
  <2>1. Head(globalmq) \in Handle /\ Head(globalmq) \in RunSet
    BY <1>0, <1>6, <2>0, PopRun
  <2>2. ~InHand(t, Head(globalmq))
    BY <2>1 DEF PlaceInv, Exclusive
  <2>3. Apart(t)' /\ \A g \in Handle : InHand(t, g)' <=> InHand(t, g) \/ g = Head(globalmq)
    BY <1>1, <1>6, <2>2, HandleAssumption DEF Apart, InHand, PlaceInv, Exclusive
  <2>4. \A u \in Thread : DropOK(u)'
    BY <1>1, <1>6 DEF MemoryInv, DropOK
  <2> QED BY <1>0, <1>1, <1>6, <2>3, <2>4, LifeToHand
<1>7. CASE skynet_globalmq_pop(t)
  <2>1. /\ q[t] = None /\ q'[t] = Head(globalmq) /\ nq'[t] = nq[t] /\ pc'[t] # "drop"
        /\ globalmq # <<>> /\ globalmq' = Tail(globalmq)
        /\ UNCHANGED <<ctx, qmem, in_global, release, queue>>
    BY <1>0, <1>7 DEF skynet_globalmq_pop, ThreadTypes, ThreadOK
  <2> QED BY <1>6, <2>1
<1>8. CASE DispatchGrab(t)
  <2>1. q[t] \in Handle /\ pc'[t] # "drop" /\ UNCHANGED <<q, nq>>
        /\ UNCHANGED <<globalmq, ctx, qmem, in_global, release, queue>>
    BY <1>0, <1>8 DEF DispatchGrab, ThreadTypes, ThreadOK
  <2> QED BY <1>2, <2>1
<1>9. CASE DispatchDead(t)
  <2>0. q[t] \in Handle /\ nq[t] = None /\ UNCHANGED nq
    BY <1>0, <1>9 DEF DispatchDead, ThreadOK
  <2>1. CASE skynet_mq_release_wait(q[t]) /\ pc' = [pc EXCEPT ![t] = "pop"] /\ q' = [q EXCEPT ![t] = None]
    <3>1. /\ globalmq' = Append(globalmq, q[t]) /\ q'[t] = nq[t] /\ nq'[t] = None /\ pc'[t] # "drop"
          /\ UNCHANGED <<ctx, qmem, in_global, release, queue>>
      BY <1>0, <2>0, <2>1 DEF skynet_mq_release_wait, ThreadTypes
    <3> QED BY <1>4, <2>0, <3>1
  <2>2. CASE release[q[t]] /\ UNCHANGED <<service, q>>
    BY <1>2, <2>0, <2>2 DEF service
  <2> QED BY <1>9, <2>1, <2>2 DEF DispatchDead
<1>10. CASE DispatchDrop(t)
  <2>0. q[t] \in Handle /\ nq[t] = None /\ UNCHANGED nq /\ release[q[t]]
    BY <1>0, <1>10 DEF DispatchDrop, ThreadOK, MemoryInv, DropOK
  <2>1. CASE DropOne(t, q[t]) /\ UNCHANGED <<pc, q>>
    <3>1. queue[q[t]] # <<>> /\ \A g \in Handle \ {q[t]} : queue'[g] = queue[g]
      BY <1>0, <2>0, <2>1 DEF DropOne, ThreadTypes
    <3>2. UNCHANGED <<globalmq, ctx, qmem, in_global, release>>
      BY <2>1 DEF DropOne
    <3> QED BY <1>2, <2>0, <2>1, <3>1, <3>2
  <2>2. CASE FreeQueue(q[t]) /\ pc' = [pc EXCEPT ![t] = "pop"] /\ q' = [q EXCEPT ![t] = None]
    <3>1. q'[t] = nq[t] /\ nq'[t] = None /\ pc'[t] # "drop"
      BY <1>0, <2>0, <2>2 DEF ThreadTypes
    <3>2. /\ queue[q[t]] = <<>> /\ in_global' = [in_global EXCEPT ![q[t]] = FALSE]
          /\ qmem' = [qmem EXCEPT ![q[t]] = "freed"] /\ UNCHANGED <<globalmq, ctx, release, queue>>
      BY <2>2 DEF FreeQueue
    <3> QED BY <1>5, <2>0, <3>1, <3>2
  <2> QED BY <1>10, <2>1, <2>2 DEF DispatchDrop
<1>11. CASE skynet_mq_pop(t)
  <2>1. q[t] \in Handle /\ pc'[t] # "drop" /\ UNCHANGED <<q, nq>>
        /\ UNCHANGED <<globalmq, ctx, qmem, in_global, release>>
    BY <1>0, <1>11 DEF skynet_mq_pop, ThreadTypes, ThreadOK
  <2>2. queue[q[t]] # <<>> /\ \A g \in Handle \ {q[t]} : queue'[g] = queue[g]
    BY <1>0, <1>11, <2>1 DEF skynet_mq_pop, ThreadTypes
  <2> QED BY <1>2, <2>1, <2>2
<1>12. CASE skynet_mq_length(t) \/ CallbackReturns(t)
  <2>1. q[t] \in Handle /\ pc'[t] # "drop" /\ UNCHANGED <<q, nq>>
        /\ UNCHANGED <<globalmq, ctx, qmem, in_global, release, queue>>
    BY <1>0, <1>12 DEF skynet_mq_length, CallbackReturns, InCallback, ThreadTypes, ThreadOK, service
  <2> QED BY <1>2, <2>1
<1>13. CASE skynet_mq_pop_empty(t)
  <2>0. /\ q[t] \in Handle /\ cur[t] = q[t] /\ nq[t] = None /\ UNCHANGED nq
        /\ q'[t] = None /\ pc'[t] # "drop"
    BY <1>0, <1>13 DEF skynet_mq_pop_empty, ThreadTypes, ThreadOK
  <2>1. ~release[q[t]]
    BY <2>0, HolderIsLive DEF MemoryInv, Life
  <2>2. /\ queue[q[t]] = <<>> /\ in_global' = [in_global EXCEPT ![q[t]] = FALSE]
        /\ qmem' = qmem /\ UNCHANGED <<globalmq, ctx, release, queue>>
    BY <1>13 DEF skynet_mq_pop_empty
  <2> QED BY <1>5, <2>0, <2>1, <2>2
<1>14. CASE DispatchNext(t)
  <2>0. q[t] \in Handle /\ nq[t] = None /\ UNCHANGED q /\ pc'[t] # "drop"
        /\ UNCHANGED <<ctx, qmem, in_global, release, queue>>
    BY <1>0, <1>14 DEF DispatchNext, ThreadTypes, ThreadOK
  <2>1. CASE globalmq # <<>> /\ nq' = [nq EXCEPT ![t] = Head(globalmq)] /\ globalmq' = Tail(globalmq)
    <3>1. nq'[t] = Head(globalmq)
      BY <1>0, <2>1 DEF ThreadTypes
    <3> QED BY <1>6, <2>0, <2>1, <3>1
  <2>2. CASE UNCHANGED <<globalmq, nq>>
    BY <1>2, <2>0, <2>2
  <2> QED BY <1>14, <2>1, <2>2 DEF DispatchNext
<1>15. CASE skynet_globalmq_push(t)
  <2>1. /\ q[t] \in Handle /\ q'[t] = nq[t] /\ nq'[t] = None /\ pc'[t] # "drop"
        /\ globalmq' = Append(globalmq, q[t]) /\ UNCHANGED <<ctx, qmem, in_global, release, queue>>
    BY <1>0, <1>15 DEF skynet_globalmq_push, ThreadTypes, ThreadOK
  <2> QED BY <1>4, <2>1
<1>16. CASE DispatchLeave(t)
  <2>1. PICK h \in Handle : h = cur[t]
    BY <1>0, <1>16 DEF DispatchLeave, ThreadTypes, ThreadOK
  <2>2. skynet_context_release(h) /\ UNCHANGED <<q, nq>> /\ pc'[t] # "drop"
    BY <1>0, <1>16, <2>1 DEF DispatchLeave, ThreadTypes
  <2>3. ctx[h] = "live"
    BY <2>1, HolderIsLive
  <2>4. \A u \in Thread : /\ pc'[u] = "drop" => pc[u] = "drop" /\ q[u] \in Handle
                          /\ new'[u].at = "drop" => new[u].at = "drop" /\ new[u].h \in Handle
    BY <1>0, <1>1, <2>2 DEF ThreadOK
  <2> QED BY <1>0, <1>1, <2>2, <2>3, <2>4, LifeRelease
<1> QED BY <1>7, <1>8, <1>9, <1>10, <1>11, <1>12, <1>13, <1>14, <1>15, <1>16 DEF DispatchStep

(* Every step keeps every queue in the place its flags say.                *)
LEMMA LifeStep ==
  ControlInv /\ CountInv /\ PlaceInv /\ MemoryInv /\ [Next]_vars => PlaceInv' /\ MemoryInv'
<1>1. PlaceInv /\ MemoryInv /\ UNCHANGED vars => PlaceInv' /\ MemoryInv'
  <2> SUFFICES ASSUME PlaceInv, MemoryInv, UNCHANGED vars PROVE PlaceInv' /\ MemoryInv'
    OBVIOUS
  <2>1. UNCHANGED <<globalmq, q, nq, ctx, qmem, in_global, release, queue, new, pc>>
    BY DEF vars, service, dispatch
  <2>2. \A u \in Thread : new'[u].h = new[u].h /\ DropOK(u)'
    BY <2>1 DEF MemoryInv, DropOK
  <2> QED BY <2>1, <2>2, LifeSame
<1> QED BY <1>1, LifeCall, LifeAct, LifeNew, LifeDispatch DEF Next, Step


(* The queues of the services of skynet_start wait in the run queue, each  *)
(* once.                                                                   *)
LEMMA LifeInit == Init => PlaceInv /\ MemoryInv
<1> SUFFICES ASSUME Init PROVE PlaceInv /\ MemoryInv
  OBVIOUS
<1> DEFINE n == Cardinality(Started)
<1>1. IsFiniteSet(Started) /\ n \in Nat
  BY HandleAssumption, FS_Subset, FS_CardinalityType
<1>2. globalmq \in [1 .. n -> Started] /\ Once(globalmq)
  BY DEF Init, Once
<1>3. RunSet = Started
  <2>1. globalmq \in Injection(1 .. n, Started)
    BY <1>2, Fun_IsInj DEF Once
  <2>2. Cardinality(1 .. n) = n
    BY <1>1, FS_Interval
  <2>3. globalmq \in Surjection(1 .. n, Started)
    BY <1>1, <2>1, <2>2, FS_Injection
  <2>4. \A h \in Started : \E i \in 1 .. n : globalmq[i] = h
    BY <2>3, Zenon DEF Surjection
  <2> QED BY <1>2, <2>4 DEF RunSet
<1>4. \A t \in Thread, h \in Handle : ~InHand(t, h)
  BY HandleAssumption DEF Init, InHand, NoNew
<1>5. \A t \in Thread : Apart(t) /\ DropOK(t)
  BY HandleAssumption DEF Init, Apart, NoNew, DropOK
<1>6. Exclusive
  BY <1>2, <1>4, <1>5 DEF Exclusive
<1>7. \A h \in Handle : (Placed(h) <=> Flagged(h)) /\ Life(h)
  BY <1>3, <1>4, HandleAssumption DEF Init, Placed, Flagged, Life
<1>8. /\ qmem \in [Handle -> {"none", "live", "freed"}]
      /\ in_global \in [Handle -> BOOLEAN] /\ release \in [Handle -> BOOLEAN]
  BY DEF Init
<1> QED BY <1>5, <1>6, <1>7, <1>8 DEF PlaceInv, MemoryInv

-----------------------------------------------------------------------------
(* Launching.                                                              *)

(* The reference of a launcher is not the last one while the service is    *)
(* registered.                                                             *)
LEMMA LaunchedTwice ==
  ASSUME CountInv, NEW t \in Thread, NEW h \in Handle, Launching(t, h), h \in slot
  PROVE  ref[h] > 1
<1> DEFINE R == {u \in Thread : Retiring(u, h)}
           C == {u \in Thread : cur[u] = h}
           S == {u \in Thread : Sending(u, h)}
           L == {u \in Thread : Launching(u, h)}
<1>1. t \in L
  OBVIOUS
<1>2. /\ IsFiniteSet(R) /\ IsFiniteSet(C) /\ IsFiniteSet(S) /\ IsFiniteSet(L)
  BY ThreadAssumption, FS_Subset DEF Thread
<1>3. Refs(h) = One(h \in slot) + Cardinality(R) + Cardinality(C) + Cardinality(S) + Cardinality(L)
  BY DEF Refs
<1>4. One(h \in slot) = 1
  BY DEF One
<1> HIDE DEF R, C, S, L
<1>5. /\ Cardinality(R) \in Nat /\ Cardinality(C) \in Nat
      /\ Cardinality(S) \in Nat /\ Cardinality(L) \in Nat
  BY <1>2, FS_CardinalityType
<1>6. Cardinality(L) # 0
  BY <1>1, <1>2, FS_EmptySet
<1>7. Refs(h) > 1
  BY <1>3, <1>4, <1>5, <1>6
<1> QED BY <1>7 DEF CountInv

(* The services of skynet_start are initialised.                           *)
LEMMA LaunchInit == Init => LaunchInv
<1> SUFFICES ASSUME Init PROVE LaunchInv
  OBVIOUS
<1>0. init = [h \in Handle |-> h \in Started] /\ slot = Started /\ Started \subseteq Handle
  BY HandleAssumption DEF Init
<1>1. init \in [Handle -> BOOLEAN]
  BY <1>0
<1>3. \A h \in slot : init[h]
  BY <1>0, Zenon
<1>2. \A t \in Thread : cur[t] = None /\ LaunchOK(t)
  BY DEF Init, LaunchOK, NoNew
<1> QED BY <1>1, <1>2, <1>3 DEF LaunchInv

(* The steps of skynet_send and skynet_handle_retire.                      *)
LEMMA LaunchCall ==
  ASSUME ControlInv, LaunchInv, NEW t \in Thread, CallStep(t)
  PROVE  LaunchInv'
<1>0. ThreadTypes /\ \A u \in Thread : ThreadOK(u)
  BY DEF ControlInv
<1>1. UNCHANGED <<init, cur, new>> /\ slot' \subseteq slot
  BY DEF CallStep, skynet_handle_grab, skynet_mq_push, SendRelease, skynet_handle_retire,
         RetireRelease, skynet_context_release, dispatch
<1>2. \A u \in Thread \ {t} : call'[u] = call[u]
  BY <1>0 DEF CallStep, skynet_handle_grab, skynet_mq_push, SendRelease, skynet_handle_retire,
         RetireRelease, ThreadTypes
<1>3. call[t].at # "retire" \/ slot' = slot \ {call[t].victim}
  BY DEF CallStep, skynet_handle_grab, skynet_mq_push, SendRelease, skynet_handle_retire,
         RetireRelease
<1>4. \A u \in Thread \ {t} : LaunchOK(u)'
  BY <1>1, <1>2 DEF LaunchInv, LaunchOK
<1>5. LaunchOK(t)'
  BY <1>1, <1>3 DEF LaunchInv, LaunchOK
<1> QED BY <1>1, <1>4, <1>5 DEF LaunchInv

(* Callbacks begin to send, to exit and to launch.                         *)
LEMMA LaunchAct ==
  ASSUME ControlInv, CountInv, PlaceInv, MemoryInv, LaunchInv, NEW t \in Thread, Act(t)
  PROVE  LaunchInv'
<1>0. ThreadTypes /\ \A u \in Thread : ThreadOK(u)
  BY DEF ControlInv
<1>1. ASSUME UNCHANGED <<init, cur, new, slot>>, new[t].at \in {"idle", "init"},
             \A u \in Thread \ {t} : call'[u] = call[u]
      PROVE  LaunchInv'
  <2>1. \A u \in Thread : LaunchOK(u)'
    BY <1>1 DEF LaunchInv, LaunchOK
  <2> QED BY <1>1, <2>1 DEF LaunchInv
<1>2. ASSUME NEW dst \in Handle, skynet_send(t, dst) PROVE LaunchInv'
  <2>1. UNCHANGED <<init, cur, new, slot>> /\ new[t].at \in {"idle", "init"}
    BY <1>2 DEF skynet_send, InCallback, InInit, Idle, NoNew, service, dispatch
  <2>2. \A u \in Thread \ {t} : call'[u] = call[u]
    BY <1>0, <1>2 DEF skynet_send, ThreadTypes
  <2> QED BY <1>1, <2>1, <2>2
<1>3. ASSUME NEW victim \in Handle, handle_exit(t, victim) PROVE LaunchInv'
  <2>1. UNCHANGED <<init, cur, new, slot>> /\ new[t].at \in {"idle", "init"}
    BY <1>3 DEF handle_exit, InCallback, InInit, Idle, NoNew, service, dispatch
  <2>2. \A u \in Thread \ {t} : call'[u] = call[u]
    BY <1>0, <1>3 DEF handle_exit, ThreadTypes
  <2> QED BY <1>1, <2>1, <2>2
<1>4. ASSUME NEW h \in Handle, skynet_context_new(t, h) PROVE LaunchInv'
  <2>1. /\ slot' = slot \cup {h} /\ new' = [new EXCEPT ![t] = [at |-> "init", h |-> h]]
        /\ UNCHANGED <<init, cur, call>> /\ new[t] = NoNew /\ ctx[h] = "none"
    BY <1>4 DEF skynet_context_new, InCallback, Idle, dispatch
  <2>2. /\ new'[t].at = "init" /\ new'[t].h = h
        /\ \A u \in Thread \ {t} : new'[u] = new[u]
    BY <1>0, <2>1 DEF ThreadTypes
  <2>3. \A u \in Thread : new[u].h # h
    BY <2>1 DEF MemoryInv, Life, PlaceInv, Flagged, Placed, InHand
  <2>4. \A g \in slot : g \in Handle /\ new[t].h # g
    BY <1>0, <2>1, HandleAssumption DEF ThreadTypes, NoNew
  <2>5. \A u \in Thread : LaunchOK(u)'
    BY <2>1, <2>2, <2>3 DEF LaunchInv, LaunchOK
  <2>6. \A g \in slot' : init'[g] \/ \E u \in Thread : new'[u].h = g
    BY <2>1, <2>2, <2>4 DEF LaunchInv
  <2> QED BY <2>1, <2>5, <2>6 DEF LaunchInv
<1> QED BY <1>2, <1>3, <1>4 DEF Act

(* The steps of skynet_context_new.                                        *)
LEMMA LaunchNew ==
  ASSUME ControlInv, CountInv, LaunchInv, NEW t \in Thread, NewStep(t)
  PROVE  LaunchInv'
<1>0. ThreadTypes /\ \A u \in Thread : ThreadOK(u)
  BY DEF ControlInv
<1>1. PICK h \in Handle : h = new[t].h
  BY <1>0 DEF NewStep, InitReturns, NewRelease, NewSetInit, NewSchedule, NewFailRelease,
              NewFailQueue, NewFailDrop, InInit, ThreadOK
<1>2. UNCHANGED <<cur, slot>>
  BY DEF NewStep, InitReturns, NewRelease, NewSetInit, NewSchedule, NewFailRelease, NewFailQueue,
         NewFailDrop, skynet_context_release, skynet_mq_release_wait, DropOne, FreeQueue, service, dispatch
<1>3. ASSUME \A u \in Thread \ {t} : new'[u] = new[u] /\ call'[u] = call[u],
             init' \in [Handle -> BOOLEAN], \A g \in Handle : init[g] => init'[g],
             new'[t].h = h \/ init'[h] \/ h \notin slot,
             LaunchOK(t)'
      PROVE  LaunchInv'
  <2>1. \A u \in Thread : new[u].h \in Handle \cup {None} /\ cur[u] \in Handle \cup {None}
    BY <1>0 DEF ThreadTypes, NewType
  <2>2. \A u \in Thread \ {t} : LaunchOK(u)'
    BY <1>0, <1>2, <1>3 DEF LaunchInv, LaunchOK, ThreadOK
  <2>3. \A g \in slot' : init'[g] \/ \E u \in Thread : new'[u].h = g
    <3> SUFFICES ASSUME NEW g \in slot, ~init'[g]
                 PROVE  \E u \in Thread : new'[u].h = g
      BY <1>2
    <3>1. g \in Handle /\ ~init[g]
      BY <1>0, <1>3 DEF ThreadTypes
    <3>2. PICK u \in Thread : new[u].h = g
      BY <3>1 DEF LaunchInv
    <3>3. CASE u = t
      BY <1>1, <1>3, <3>2, <3>3
    <3>4. CASE u # t
      BY <1>3, <3>2, <3>4
    <3> QED BY <3>3, <3>4
  <2>4. \A u \in Thread : cur'[u] # None => init'[cur'[u]]
    BY <1>2, <1>3, <2>1 DEF LaunchInv
  <2> QED BY <1>3, <2>2, <2>3, <2>4 DEF LaunchInv
<1>4. init \in [Handle -> BOOLEAN] /\ LaunchOK(t)
  BY DEF LaunchInv
<1>5. CASE InitReturns(t)
  <2>1. PICK at \in {"ok", "failed"} : new' = [new EXCEPT ![t].at = at]
    BY <1>5 DEF InitReturns
  <2>2. /\ \A u \in Thread \ {t} : new'[u] = new[u] /\ call'[u] = call[u]
        /\ new'[t].h = h /\ new'[t].at = at /\ UNCHANGED init
    BY <1>0, <1>1, <1>5, <2>1 DEF InitReturns, ThreadTypes, NewType, service
  <2> QED BY <1>3, <1>4, <2>2 DEF LaunchOK
<1>6. CASE NewRelease(t)
  <2>1. PICK at \in {"flag", "schedule"} : new' = [new EXCEPT ![t].at = at] /\ (at = "schedule" => ref[h] = 1)
    BY <1>1, <1>6 DEF NewRelease
  <2>2. /\ \A u \in Thread \ {t} : new'[u] = new[u] /\ call'[u] = call[u]
        /\ new'[t].h = h /\ new'[t].at = at /\ UNCHANGED init
    BY <1>0, <1>1, <1>6, <2>1 DEF NewRelease, skynet_context_release, ThreadTypes, NewType
  <2>3. at = "schedule" => h \notin slot
    <3>1. Launching(t, h)
      BY <1>1, <1>6 DEF NewRelease, Launching
    <3>2. h \in slot => ref[h] > 1
      BY <3>1, LaunchedTwice
    <3> QED BY <2>1, <3>2 DEF CountInv
  <2>4. LaunchOK(t)'
    BY <1>2, <2>2, <2>3 DEF LaunchOK
  <2> QED BY <1>3, <1>4, <2>2, <2>4
<1>7. CASE NewSetInit(t)
  <2>1. /\ \A u \in Thread \ {t} : new'[u] = new[u] /\ call'[u] = call[u]
        /\ new'[t].h = h /\ new'[t].at = "schedule" /\ init' = [init EXCEPT ![h] = TRUE]
    BY <1>0, <1>1, <1>7 DEF NewSetInit, ThreadTypes, NewType
  <2>2. init' \in [Handle -> BOOLEAN] /\ init'[h] /\ \A g \in Handle : init[g] => init'[g]
    BY <1>4, <2>1
  <2>3. LaunchOK(t)'
    BY <2>1, <2>2 DEF LaunchOK
  <2> QED BY <1>3, <2>1, <2>2, <2>3
<1>8. ASSUME new' = [new EXCEPT ![t] = NoNew], UNCHANGED init, init[h] \/ h \notin slot,
             \A u \in Thread \ {t} : call'[u] = call[u]
      PROVE  LaunchInv'
  <2>1. new'[t] = NoNew /\ \A u \in Thread \ {t} : new'[u] = new[u]
    BY <1>0, <1>8 DEF ThreadTypes
  <2>2. LaunchOK(t)'
    BY <2>1 DEF LaunchOK, NoNew
  <2> QED BY <1>3, <1>4, <1>8, <2>1, <2>2
<1>9. CASE NewSchedule(t)
  BY <1>1, <1>4, <1>8, <1>9 DEF NewSchedule, LaunchOK
<1>10. CASE NewFailRelease(t)
  <2>1. /\ \A u \in Thread \ {t} : new'[u] = new[u] /\ call'[u] = call[u]
        /\ new'[t].h = h /\ new'[t].at = "give_up" /\ UNCHANGED init
        /\ call'[t].at = "retire" /\ call'[t].victim = h
    BY <1>0, <1>1, <1>10 DEF NewFailRelease, skynet_context_release, ThreadTypes, NewType
  <2>2. LaunchOK(t)'
    BY <2>1 DEF LaunchOK
  <2> QED BY <1>3, <1>4, <2>1, <2>2
<1>11. CASE NewFailQueue(t)
  <2>0. h \notin slot /\ UNCHANGED call
    BY <1>1, <1>4, <1>11 DEF NewFailQueue, LaunchOK, NoCall
  <2>1. CASE skynet_mq_release_wait(new[t].h) /\ new' = [new EXCEPT ![t] = NoNew]
    BY <1>8, <2>0, <2>1 DEF skynet_mq_release_wait
  <2>2. CASE new' = [new EXCEPT ![t].at = "drop"] /\ UNCHANGED service
    <3>1. /\ \A u \in Thread \ {t} : new'[u] = new[u] /\ call'[u] = call[u]
          /\ new'[t].h = h /\ new'[t].at = "drop" /\ UNCHANGED init
      BY <1>0, <1>1, <2>0, <2>2 DEF ThreadTypes, NewType, service
    <3>2. LaunchOK(t)'
      BY <1>2, <2>0, <3>1 DEF LaunchOK
    <3> QED BY <1>3, <1>4, <3>1, <3>2
  <2> QED BY <1>11, <2>1, <2>2 DEF NewFailQueue
<1>12. CASE NewFailDrop(t)
  <2>0. h \notin slot /\ new[t].at = "drop"
    BY <1>1, <1>4, <1>12 DEF NewFailDrop, LaunchOK, NoCall
  <2>1. CASE DropOne(t, new[t].h) /\ UNCHANGED new
    <3>1. PICK k \in CallType : call' = [call EXCEPT ![t] = k]
      BY <1>0, <1>1, <2>1, DropCall
    <3>2. UNCHANGED init /\ \A u \in Thread \ {t} : call'[u] = call[u]
      BY <1>0, <2>1, <3>1 DEF DropOne, ThreadTypes
    <3>3. LaunchOK(t)'
      BY <1>1, <1>2, <2>0, <2>1 DEF LaunchOK
    <3> QED BY <1>1, <1>3, <1>4, <2>1, <3>2, <3>3
  <2>2. CASE FreeQueue(new[t].h) /\ new' = [new EXCEPT ![t] = NoNew] /\ UNCHANGED call
    BY <1>8, <2>0, <2>2 DEF FreeQueue
  <2> QED BY <1>12, <2>1, <2>2 DEF NewFailDrop
<1> QED BY <1>5, <1>6, <1>7, <1>9, <1>10, <1>11, <1>12 DEF NewStep

(* The steps of skynet_context_message_dispatch: a worker that grabs a     *)
(* service has its queue, so no launcher has.                              *)
LEMMA LaunchDispatch ==
  ASSUME ControlInv, PlaceInv, LaunchInv, NEW t \in Thread, DispatchStep(t)
  PROVE  LaunchInv'
<1>0. ThreadTypes /\ \A u \in Thread : ThreadOK(u)
  BY DEF ControlInv
<1>1. UNCHANGED <<init, new, slot>>
  BY DEF DispatchStep, skynet_globalmq_pop, DispatchGrab, DispatchDead, DispatchDrop,
         skynet_mq_pop, skynet_mq_length, skynet_mq_pop_empty, CallbackReturns, DispatchNext,
         skynet_globalmq_push, DispatchLeave, skynet_mq_release_wait, DropOne, FreeQueue,
         skynet_context_release, service
<1>2. \A u \in Thread : call'[u] = call[u] \/ new[u] = NoNew
  <2>1. CASE DispatchDrop(t)
    <3>1. UNCHANGED call \/ \E k \in CallType : call' = [call EXCEPT ![t] = k]
      BY <1>0, <2>1, DropCall DEF DispatchDrop, ThreadOK
    <3>2. new[t] = NoNew
      BY <1>0, <2>1 DEF DispatchDrop, ThreadOK
    <3> QED BY <1>0, <3>1, <3>2 DEF ThreadTypes
  <2>2. CASE ~DispatchDrop(t)
    BY <2>2 DEF DispatchStep, skynet_globalmq_pop, DispatchGrab, DispatchDead,
         skynet_mq_pop, skynet_mq_length, skynet_mq_pop_empty, CallbackReturns, DispatchNext,
         skynet_globalmq_push, DispatchLeave
  <2> QED BY <2>1, <2>2
<1>3. \A u \in Thread : LaunchOK(u)'
  BY <1>1, <1>2 DEF LaunchInv, LaunchOK, NoNew
<1>4. \A u \in Thread : cur'[u] # None => init[cur'[u]]
  <2>1. CASE DispatchGrab(t)
    <3>1. CASE q[t] \in slot
      <4>1. q[t] \in Handle /\ InHand(t, q[t]) /\ new[t].h # q[t]
        BY <1>0, <2>1 DEF DispatchGrab, ThreadOK, InHand, PlaceInv, Exclusive, Apart
      <4>2. \A u \in Thread : new[u].h # q[t]
        BY <4>1 DEF InHand, PlaceInv, Exclusive
      <4>3. init[q[t]]
        BY <3>1, <4>2 DEF LaunchInv
      <4>4. cur' = [cur EXCEPT ![t] = q[t]]
        BY <2>1, <3>1 DEF DispatchGrab
      <4> QED BY <1>0, <4>3, <4>4 DEF LaunchInv, ThreadTypes
    <3>2. CASE q[t] \notin slot
      BY <2>1, <3>2 DEF DispatchGrab, LaunchInv
    <3> QED BY <3>1, <3>2
  <2>2. CASE DispatchLeave(t)
    BY <1>0, <2>2 DEF DispatchLeave, LaunchInv, ThreadTypes
  <2>3. CASE ~DispatchGrab(t) /\ ~DispatchLeave(t)
    <3>1. UNCHANGED cur
      BY <2>3 DEF DispatchStep, skynet_globalmq_pop, DispatchDead, DispatchDrop,
         skynet_mq_pop, skynet_mq_length, skynet_mq_pop_empty, CallbackReturns, DispatchNext,
         skynet_globalmq_push
    <3> QED BY <3>1 DEF LaunchInv
  <2> QED BY <2>1, <2>2, <2>3
<1> QED BY <1>1, <1>3, <1>4 DEF LaunchInv

(* Every step keeps the services that are not initialised from the         *)
(* workers.                                                                *)
LEMMA LaunchStep ==
  ControlInv /\ CountInv /\ PlaceInv /\ MemoryInv /\ LaunchInv /\ [Next]_vars => LaunchInv'
<1>1. LaunchInv /\ UNCHANGED vars => LaunchInv'
  BY DEF LaunchInv, LaunchOK, vars, service, dispatch
<1> QED BY <1>1, LaunchCall, LaunchAct, LaunchNew, LaunchDispatch DEF Next, Step


-----------------------------------------------------------------------------
(* Batches, and the bounds of the model.                                   *)
Counters ==
  /\ batch \in [Thread -> Int]
  /\ sends \in 0 .. MaxSend
  /\ kills \in 0 .. MaxKill
  /\ \A t \in Thread : pc[t] = "length" => Weight[t] \in 0 .. 3

(* The share of the queue that a worker of weight w takes.                 *)
LEMMA ShareType ==
  ASSUME NEW n \in Nat, NEW w \in 0 .. 3
  PROVE  n \div 2^w \in Int
<1>1. 2^0 = 1 /\ 2^1 = 2 /\ 2^2 = 4 /\ 2^3 = 8
  OBVIOUS
<1>2. w = 0 \/ w = 1 \/ w = 2 \/ w = 3
  OBVIOUS
<1>3. 2^w = 1 \/ 2^w = 2 \/ 2^w = 4 \/ 2^w = 8
  BY <1>1, <1>2, Zenon
<1>4. \A d \in Nat \ {0} : n \div d \in Int
  OBVIOUS
<1> QED BY <1>3, <1>4

LEMMA CountersInit == Init => Counters
BY BoundAssumption DEF Init, Counters

LEMMA CountersStep == ControlInv /\ Counters /\ [Next]_vars => Counters'
<1> SUFFICES ASSUME ControlInv, Counters, [Next]_vars PROVE Counters'
  OBVIOUS
<1>0. ThreadTypes /\ \A u \in Thread : ThreadOK(u)
  BY DEF ControlInv
<1>1. CASE UNCHANGED vars
  BY <1>1 DEF Counters, vars, dispatch, bounds
<1>2. ASSUME NEW t \in Thread, CallStep(t) \/ NewStep(t) PROVE Counters'
  <2>1. UNCHANGED <<pc, batch, sends, kills>>
    BY <1>2 DEF CallStep, skynet_handle_grab, skynet_mq_push, SendRelease, skynet_handle_retire,
         RetireRelease, NewStep, InitReturns, NewRelease, NewSetInit, NewSchedule, NewFailRelease,
         NewFailQueue, NewFailDrop, dispatch, bounds
  <2> QED BY <2>1 DEF Counters
<1>3. ASSUME NEW t \in Thread, Act(t) PROVE Counters'
  <2>1. UNCHANGED <<pc, batch>>
    BY <1>3 DEF Act, skynet_send, handle_exit, skynet_context_new, dispatch
  <2>2. sends' \in 0 .. MaxSend /\ kills' \in 0 .. MaxKill
    BY <1>3, BoundAssumption DEF Act, skynet_send, handle_exit, skynet_context_new, bounds, Counters
  <2> QED BY <2>1, <2>2 DEF Counters
<1>4. ASSUME NEW t \in Thread, DispatchStep(t) PROVE Counters'
  <2>0. UNCHANGED <<sends, kills>>
    BY <1>4 DEF DispatchStep, skynet_globalmq_pop, DispatchGrab, DispatchDead, DispatchDrop,
         skynet_mq_pop, skynet_mq_length, skynet_mq_pop_empty, CallbackReturns, DispatchNext,
         skynet_globalmq_push, DispatchLeave, bounds
  <2>1. ASSUME batch' \in [Thread -> Int],
               NEW p \in PCs, pc' = [pc EXCEPT ![t] = p], p = "length" => Weight[t] \in 0 .. 3
        PROVE  Counters'
    BY <1>0, <2>0, <2>1 DEF Counters, ThreadTypes
  <2>2. CASE skynet_mq_pop(t)
    <3>1. t \in Worker /\ batch[t] \in Int
      BY <1>0, <2>2 DEF skynet_mq_pop, ThreadOK, Counters, Thread
    <3>2. Weight[t] \in -1 .. 3
      BY <3>1, WeightAssumption
    <3>3. Weight[t] >= 0 => Weight[t] \in 0 .. 3
      BY <3>2
    <3>4. batch' \in [Thread -> Int]
      BY <2>2, <3>1 DEF skynet_mq_pop, Counters
    <3>5. PICK p \in PCs : pc' = [pc EXCEPT ![t] = p] /\ (p = "length" => Weight[t] >= 0)
      BY <2>2 DEF skynet_mq_pop, PCs
    <3> QED BY <2>1, <3>3, <3>4, <3>5
  <2>3. CASE skynet_mq_length(t)
    <3>1. q[t] \in Handle /\ Weight[t] \in 0 .. 3
      BY <1>0, <2>3 DEF skynet_mq_length, ThreadTypes, ThreadOK, Counters
    <3>2. Len(queue[q[t]]) \in Nat
      BY <1>0, <3>1 DEF ThreadTypes
    <3>3. Len(queue[q[t]]) \div 2^Weight[t] \in Int
      BY <3>1, <3>2, ShareType
    <3>4. batch' \in [Thread -> Int]
      BY <2>3, <3>3 DEF skynet_mq_length, Counters
    <3>5. pc' = [pc EXCEPT ![t] = "callback"] /\ "callback" \in PCs
      BY <2>3 DEF skynet_mq_length, PCs
    <3> QED BY <2>1, <3>4, <3>5
  <2>4. CASE CallbackReturns(t)
    <3>1. batch' \in [Thread -> Int]
      BY <2>4 DEF CallbackReturns, Counters
    <3>2. PICK p \in PCs : pc' = [pc EXCEPT ![t] = p] /\ p # "length"
      BY <2>4 DEF CallbackReturns, PCs
    <3> QED BY <2>1, <3>1, <3>2
  <2>5. CASE DispatchLeave(t)
    <3>1. batch' \in [Thread -> Int]
      BY <2>5 DEF DispatchLeave, Counters
    <3>2. PICK p \in PCs : pc' = [pc EXCEPT ![t] = p] /\ p # "length"
      BY <2>5 DEF DispatchLeave, PCs
    <3> QED BY <2>1, <3>1, <3>2
  <2>6. CASE DispatchDrop(t)
    <3>1. UNCHANGED batch /\ (UNCHANGED pc \/ pc' = [pc EXCEPT ![t] = "pop"])
      BY <2>6 DEF DispatchDrop
    <3> QED BY <1>0, <2>0, <3>1 DEF Counters, ThreadTypes
  <2>7. CASE \/ skynet_globalmq_pop(t) \/ DispatchGrab(t) \/ DispatchDead(t)
             \/ skynet_mq_pop_empty(t) \/ DispatchNext(t) \/ skynet_globalmq_push(t)
    <3>1. UNCHANGED batch
      BY <2>7 DEF skynet_globalmq_pop, DispatchGrab, DispatchDead, skynet_mq_pop_empty,
           DispatchNext, skynet_globalmq_push
    <3>2. PICK p \in PCs : pc' = [pc EXCEPT ![t] = p] /\ p # "length"
      BY <2>7 DEF skynet_globalmq_pop, DispatchGrab, DispatchDead, skynet_mq_pop_empty,
           DispatchNext, skynet_globalmq_push, PCs
    <3> QED BY <1>0, <2>0, <3>1, <3>2 DEF Counters, ThreadTypes
  <2> QED BY <1>4, <2>2, <2>3, <2>4, <2>5, <2>6, <2>7 DEF DispatchStep
<1> QED BY <1>1, <1>2, <1>3, <1>4 DEF Next, Step

-----------------------------------------------------------------------------
(* What the inductive invariant says about the properties of Dispatch.     *)

(* Tagging the elements of a set does not change their number.             *)
LEMMA Tagged ==
  ASSUME NEW tag, NEW S, IsFiniteSet(S)
  PROVE  /\ IsFiniteSet({<<tag, x>> : x \in S})
         /\ Cardinality({<<tag, x>> : x \in S}) = Cardinality(S)
<1> DEFINE T == {<<tag, x>> : x \in S}
           f == [x \in S |-> <<tag, x>>]
<1>1. f \in [S -> T] /\ \A x, y \in S : f[x] = f[y] => x = y
  OBVIOUS
<1>2. \A y \in T : \E x \in S : f[x] = y
  OBVIOUS
<1> HIDE DEF f, T
<1>3. f \in Bijection(S, T)
  BY <1>1, <1>2, Fun_IsBij
<1>4. ExistsBijection(S, T)
  BY <1>3 DEF ExistsBijection
<1>5. IsFiniteSet(T) /\ Cardinality(T) = Cardinality(S)
  BY <1>4, FS_Bijection
<1> QED BY <1>5 DEF T

(* Sets that have no element in common.                                    *)
LEMMA Joined ==
  ASSUME NEW S, NEW T, IsFiniteSet(S), IsFiniteSet(T), S \cap T = {}
  PROVE  IsFiniteSet(S \cup T) /\ Cardinality(S \cup T) = Cardinality(S) + Cardinality(T)
<1>1. Cardinality(S) \in Nat /\ Cardinality(T) \in Nat
  BY FS_CardinalityType
<1>2. Cardinality(S \cap T) = 0
  BY FS_EmptySet
<1>3. IsFiniteSet(S \cup T) /\ Cardinality(S \cup T) = Cardinality(S) + Cardinality(T) - Cardinality(S \cap T)
  BY FS_Union
<1> QED BY <1>1, <1>2, <1>3

(* The holders of a reference, counted one by one.                         *)
LEMMA HoldersCounted ==
  ASSUME NEW h \in Handle
  PROVE  Cardinality(Holders(h)) = Refs(h)
<1> DEFINE R == {u \in Thread : Retiring(u, h)}
           C == {u \in Thread : cur[u] = h}
           S == {u \in Thread : Sending(u, h)}
           L == {u \in Thread : Launching(u, h)}
           TA == {<<"slot", h>> : x \in {h} \cap slot}
           TR == {<<"retired", u>> : u \in R}
           TC == {<<"cur", u>> : u \in C}
           TS == {<<"send", u>> : u \in S}
           TL == {<<"new", u>> : u \in L}
<1>1. Holders(h) = (((TA \cup TR) \cup TC) \cup TS) \cup TL
  BY DEF Holders, Retiring, Sending, Launching
<1>2. Refs(h) = One(h \in slot) + Cardinality(R) + Cardinality(C) + Cardinality(S) + Cardinality(L)
  BY DEF Refs
<1>3. /\ IsFiniteSet(R) /\ IsFiniteSet(C) /\ IsFiniteSet(S) /\ IsFiniteSet(L)
  BY ThreadAssumption, FS_Subset DEF Thread
<1>4. /\ TA \cap TR = {} /\ (TA \cup TR) \cap TC = {} /\ ((TA \cup TR) \cup TC) \cap TS = {}
      /\ (((TA \cup TR) \cup TC) \cup TS) \cap TL = {}
  OBVIOUS
<1>5. IsFiniteSet(TA) /\ Cardinality(TA) = One(h \in slot)
  <2>1. CASE h \in slot
    <3>1. TA = {<<"slot", h>>}
      BY <2>1
    <3> HIDE DEF TA
    <3> QED BY <2>1, <3>1, FS_Singleton DEF One
  <2>2. CASE h \notin slot
    <3>1. TA = {}
      BY <2>2
    <3> HIDE DEF TA
    <3> QED BY <2>2, <3>1, FS_EmptySet DEF One
  <2> QED BY <2>1, <2>2
<1> HIDE DEF R, C, S, L
<1>6. /\ IsFiniteSet(TR) /\ Cardinality(TR) = Cardinality(R)
      /\ IsFiniteSet(TC) /\ Cardinality(TC) = Cardinality(C)
      /\ IsFiniteSet(TS) /\ Cardinality(TS) = Cardinality(S)
      /\ IsFiniteSet(TL) /\ Cardinality(TL) = Cardinality(L)
  BY <1>3, Tagged
<1> HIDE DEF TA, TR, TC, TS, TL
<1>7. IsFiniteSet(TA \cup TR) /\ Cardinality(TA \cup TR) = Cardinality(TA) + Cardinality(TR)
  BY <1>4, <1>5, <1>6, Joined
<1> DEFINE U == TA \cup TR
           V == U \cup TC
           W == V \cup TS
<1>8. IsFiniteSet(V) /\ Cardinality(V) = Cardinality(U) + Cardinality(TC)
  BY <1>4, <1>6, <1>7, Joined
<1>9. IsFiniteSet(W) /\ Cardinality(W) = Cardinality(V) + Cardinality(TS)
  <2> HIDE DEF U
  <2>1. IsFiniteSet(V) /\ IsFiniteSet(TS) /\ V \cap TS = {}
    BY <1>4, <1>6, <1>8 DEF U
  <2> HIDE DEF V
  <2> QED BY <2>1, Joined
<1>10. Cardinality(W \cup TL) = Cardinality(W) + Cardinality(TL)
  <2>1. IsFiniteSet(W) /\ IsFiniteSet(TL) /\ W \cap TL = {}
    BY <1>4, <1>6, <1>9
  <2> HIDE DEF W
  <2> QED BY <2>1, Joined
<1>11. Holders(h) = W \cup TL /\ Cardinality(U) = Cardinality(TA) + Cardinality(TR)
  BY <1>1, <1>7
<1> HIDE DEF U, V, W
<1>12. /\ Cardinality(R) \in Nat /\ Cardinality(C) \in Nat
       /\ Cardinality(S) \in Nat /\ Cardinality(L) \in Nat /\ One(h \in slot) \in Nat
  BY <1>3, FS_CardinalityType DEF One
<1> QED BY <1>2, <1>5, <1>6, <1>8, <1>9, <1>10, <1>11, <1>12

(* The places of a queue, counted.                                         *)
LEMMA PlacesCounted ==
  ASSUME ThreadTypes, Exclusive, NEW h \in Handle
  PROVE  /\ ~Placed(h) => Places(h) = {}
         /\ Cardinality(Places(h)) = IF Placed(h) THEN 1 ELSE 0
<1>1. ASSUME ~Placed(h) PROVE Places(h) = {}
  BY <1>1 DEF Placed, Places, RunSet, InHand
<1>2. ASSUME Placed(h) PROVE \E x : Places(h) = {x}
  <2>1. CASE h \in RunSet
    <3>1. PICK i \in DOMAIN globalmq : globalmq[i] = h
      BY <2>1 DEF RunSet
    <3>2. {j \in DOMAIN globalmq : globalmq[j] = h} = {i}
      BY <3>1 DEF Exclusive, Once
    <3>3. \A u \in Thread : q[u] # h /\ nq[u] # h /\ new[u].h # h
      BY <2>1 DEF Exclusive, InHand
    <3>4. Places(h) = {<<"run", i>>}
      BY <3>2, <3>3 DEF Places
    <3> QED BY <3>4
  <2>2. CASE h \notin RunSet
    <3>1. PICK t \in Thread : InHand(t, h)
      BY <1>2, <2>2 DEF Placed
    <3>2. {j \in DOMAIN globalmq : globalmq[j] = h} = {}
      BY <2>2 DEF RunSet
    <3>3. \A u \in Thread : u # t => q[u] # h /\ nq[u] # h /\ new[u].h # h
      BY <3>1 DEF Exclusive, InHand
    <3>4. Apart(t)
      BY DEF Exclusive
    <3>5. CASE q[t] = h
      <4>1. Places(h) = {<<"q", t>>}
        BY <3>2, <3>3, <3>4, <3>5 DEF Places, Apart
      <4> QED BY <4>1
    <3>6. CASE nq[t] = h
      <4>1. Places(h) = {<<"nq", t>>}
        BY <3>2, <3>3, <3>4, <3>6 DEF Places, Apart
      <4> QED BY <4>1
    <3>7. CASE new[t].h = h
      <4>1. Places(h) = {<<"new", t>>}
        BY <3>2, <3>3, <3>4, <3>7 DEF Places, Apart
      <4> QED BY <4>1
    <3> QED BY <3>1, <3>5, <3>6, <3>7 DEF InHand
  <2> QED BY <2>1, <2>2
<1>3. Placed(h) => Cardinality(Places(h)) = 1
  <2> SUFFICES ASSUME Placed(h) PROVE Cardinality(Places(h)) = 1
    OBVIOUS
  <2>1. PICK x : Places(h) = {x}
    BY <1>2
  <2> QED BY <2>1, FS_Singleton
<1>4. ~Placed(h) => Cardinality(Places(h)) = 0
  BY <1>1, FS_EmptySet
<1> QED BY <1>1, <1>3, <1>4


-----------------------------------------------------------------------------
(* The inductive invariant.                                                *)
DispatchInv == ControlInv /\ CountInv /\ PlaceInv /\ MemoryInv /\ LaunchInv /\ Counters

(* What the threads hold, the counts, the places of the queues and the     *)
(* state of the launches are consistent in every reachable state.          *)
THEOREM DispatchInvariant == Spec => []DispatchInv
<1>1. Init => DispatchInv
  BY ControlInit, CountInit, LifeInit, LaunchInit, CountersInit DEF DispatchInv
<1>2. DispatchInv /\ [Next]_vars => DispatchInv'
  BY ControlStep, CountStep, LifeStep, LaunchStep, CountersStep DEF DispatchInv
<1> QED BY <1>1, <1>2, PTL DEF Spec

(* skynet_context_grab and skynet_context_release: the count of every      *)
(* context is the number of those who refer to it, the last one to let go  *)
(* deletes it, and G_NODE.total counts the contexts that live.             *)
THEOREM ReferencesAreCounted == Spec => []RefCounted
<1>1. DispatchInv => RefCounted
  <2> SUFFICES ASSUME DispatchInv PROVE RefCounted
    OBVIOUS
  <2>1. TypeOK
    <3>1. total \in Nat
      <4>1. IsFiniteSet({h \in Handle : ctx[h] = "live"})
        BY HandleAssumption, FS_Subset
      <4> QED BY <4>1, FS_CardinalityType DEF DispatchInv, CountInv
    <3> QED BY <3>1 DEF DispatchInv, ControlInv, ThreadTypes, CountInv, MemoryInv, LaunchInv,
                        Counters, PCs, NewType, CallType, TypeOK
  <2>2. \A h \in Handle : ref[h] = Cardinality(Holders(h)) /\ (ctx[h] = "live" <=> ref[h] > 0)
    BY HoldersCounted DEF DispatchInv, CountInv
  <2> QED BY <2>1, <2>2 DEF RefCounted, DispatchInv, CountInv
<1> QED BY <1>1, DispatchInvariant, PTL

(* skynet_mq.c: in_global means in the run queue or being dispatched, and  *)
(* no queue is in two places, nor left out with a message in it.           *)
THEOREM QueuesAreScheduledOnce == Spec => []ScheduledOnce
<1>1. DispatchInv => ScheduledOnce
  <2> SUFFICES ASSUME DispatchInv, NEW h \in Handle
               PROVE  /\ Cardinality(Places(h)) =
                           IF qmem[h] = "live" /\ (in_global[h] \/ release[h]) THEN 1 ELSE 0
                      /\ qmem[h] = "live" /\ queue[h] # <<>> => in_global[h]
    BY DEF ScheduledOnce
  <2>1. Cardinality(Places(h)) = IF Placed(h) THEN 1 ELSE 0
    BY PlacesCounted DEF DispatchInv, ControlInv, PlaceInv
  <2>2. Placed(h) <=> Flagged(h)
    BY DEF DispatchInv, PlaceInv
  <2>3. Life(h)
    BY DEF DispatchInv, MemoryInv
  <2> QED BY <2>1, <2>2, <2>3 DEF Flagged, Life
<1> QED BY <1>1, DispatchInvariant, PTL

(* dispatch_message only calls a service that skynet_context_new has       *)
(* finished, although messages may arrive while its init function runs.    *)
THEOREM InitialisedBeforeDispatch == Spec => []InitBeforeDispatch
<1>1. DispatchInv => InitBeforeDispatch
  <2> SUFFICES ASSUME DispatchInv, NEW t \in Worker, pc[t] = "callback"
               PROVE  init[cur[t]]
    BY DEF InitBeforeDispatch
  <2>1. t \in Thread /\ cur[t] # None
    BY DEF Thread, DispatchInv, ControlInv, ThreadOK
  <2> QED BY <2>1 DEF DispatchInv, LaunchInv
<1> QED BY <1>1, DispatchInvariant, PTL

(* A queue that _release has freed belongs to a deleted context, is empty, *)
(* and no thread or run queue has it any more.                             *)
THEOREM FreedQueuesAreDead == Spec => []FreedQueueIsDead
<1>1. DispatchInv => FreedQueueIsDead
  <2> SUFFICES ASSUME DispatchInv, NEW h \in Handle, qmem[h] = "freed"
               PROVE  ctx[h] = "freed" /\ queue[h] = <<>> /\ Places(h) = {}
    BY DEF FreedQueueIsDead
  <2>1. Life(h) /\ ~Placed(h)
    BY DEF DispatchInv, MemoryInv, PlaceInv, Flagged
  <2>2. Places(h) = {}
    BY <2>1, PlacesCounted DEF DispatchInv, ControlInv, PlaceInv
  <2> QED BY <2>1, <2>2 DEF Life
<1> QED BY <1>1, DispatchInvariant, PTL
=============================================================================
