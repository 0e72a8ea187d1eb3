-------------------------- MODULE SkynetLuaProofs --------------------------
(***************************************************************************)
(* Proofs about the coroutine scheduler of lualib/skynet.lua, for any      *)
(* number of coroutines, services, sessions, requests and errors: nobody   *)
(* who waits is forgotten or resumed twice, a dispatch serves its queues,  *)
(* and requests are answered.  The critical section of                     *)
(* lualib/skynet/queue.lua is a lock that can be entered again, and those  *)
(* who wait for it are served.                                             *)
(***************************************************************************)
EXTENDS SkynetLua, FiniteSetTheorems, FunctionTheorems, TLAPS

(* The strengthening: the counter and the owner of queue.lua are those of  *)
(* the one coroutine that is inside.                                       *)
SectionInv ==
  /\ depth \in [Co -> Nat]
  /\ ref \in Nat
  /\ SectionIsCounted

(* The types of the scheduler's variables.                                 *)
ScheduleTypes ==
  /\ phase \in {"idle", "run", "wake", "error", "fork", "gone"}
  /\ cur \in Co \cup {None} /\ (phase = "run" <=> cur # None)
  /\ st \in [Co -> State]
  /\ sic \in [Session -> Co \cup {None, BREAK}]
  /\ slp \in [Co -> 0..nses] /\ wake \in [Co -> 0..nses]
  /\ wsess \in [Session -> Peer \cup {None}]
  /\ errq \in Seq(Session) /\ forkq \subseteq Co
  /\ timer \subseteq 1..nses /\ nses \in 0..MaxSession
  /\ ans \in [Session -> {"none", "due", "error"}]

(* The session waits in error_queue.                                       *)
Queued(s) == \E i \in DOMAIN errq : errq[i] = s

(* Who is resumed by what: the coroutine that runs is the one in control,  *)
(* a session belongs to a coroutine that waits for it, one that sleeps     *)
(* knows its session, and a forked one waits for nothing else.             *)
CoroutineOK(c) ==
  /\ st[c] = "run" <=> cur = c
  /\ slp[c] # 0 <=> st[c] \in {"sleep", "wait", "enter"}
  /\ slp[c] # 0 => sic[slp[c]] = c
  /\ st[c] = "sleep" => slp[c] \in timer
  /\ c \in forkq => st[c] = "ready" /\ \A s \in Session : sic[s] # c

SessionOK(s) ==
  /\ s > nses => sic[s] = None /\ ans[s] = "none" /\ ~Queued(s)
  /\ sic[s] \in Co => st[sic[s]] \in {"ready", "noop", "call", "sleep", "wait", "enter"}
  /\ sic[s] = BREAK => s \in timer
  /\ wsess[s] # None <=> sic[s] \in Co /\ st[sic[s]] = "call"
  /\ s \in timer /\ sic[s] \in Co => st[sic[s]] \in {"sleep", "ready", "noop"}
  /\ ans[s] # "none" => sic[s] = None \/ wsess[s] # None
  /\ wsess[s] # None => ans[s] = "due" \/ Queued(s)
  /\ Queued(s) => sic[s] = None \/ wsess[s] # None

ScheduleInv ==
  /\ \A c \in Co : CoroutineOK(c)
  /\ \A s \in Session : SessionOK(s)
  /\ \A c \in Co : st[c] = "call" => \E s \in Session : sic[s] = c
  /\ ResumedOnce

(* While nothing has failed, dispatch_message serves both queues to the    *)
(* end before it looks at the forked coroutines.                           *)
QuietInv ==
  nerr = 0 =>
    /\ phase \in {"error", "fork", "idle"} => \A c \in Co : wake[c] = 0
    /\ phase \in {"fork", "idle"} => errq = <<>>
    /\ \A c \in Co : wake[c] # 0 => slp[c] # 0
    /\ \A i, j \in DOMAIN errq : errq[i] = errq[j] => i = j
    /\ \A i \in DOMAIN errq : wsess[errq[i]] # None

(* Until a wakeup meets a later sleep than the one it was meant for, the   *)
(* waiters of the section are those in its queue, and the one it was       *)
(* handed to.                                                              *)
WaitBody ==
  /\ \A i \in DOMAIN tq : Waiting(tq[i]) /\ tq[i] # owner
  /\ \A i, j \in DOMAIN tq : tq[i] = tq[j] => i = j
  /\ owner # None => depth[owner] > 0 \/ (Waiting(owner) /\ wake[owner] # 0)
  /\ \A c \in Co : Waiting(c) /\ c # owner => Contains(tq, c)
  /\ \A c \in Co : Waiting(c) /\ wake[c] = slp[c] => c = owner
  /\ owner = None => tq = <<>>

WaitOutside == \A c \in Co : Waiting(c) => depth[c] = 0 /\ MaxDepth > 0

WaitInv == WaitOutside /\ (stale \/ WaitBody)

(* The handler of a request, and what has become of the answer.            *)
Responses(r) == {i \in DOMAIN sent[r] : sent[r][i] = "RESPONSE"}

Unanswered(r) == \E c \in Co : req[c] = r /\ c \notin resp

RequestOK(r) ==
  /\ r \notin Arrived => sent[r] = <<>> /\ clo[r] = "none" /\ r \notin silent
  /\ clo[r] # "none" => ~Unanswered(r) /\ r \notin silent
  /\ Unanswered(r) \/ clo[r] = "open" \/ r \in silent => Responses(r) = {}
  /\ \A i, j \in Responses(r) : i = j
  /\ r \in Arrived => \/ r \in silent
                      \/ sent[r] # <<>>
                      \/ from[r] \in down
                      \/ clo[r] = "open"
                      \/ Unanswered(r)

RequestInv ==
  /\ \A c, d \in Co : req[c] = req[d] => req[c] = 0 \/ c = d
  /\ \A c \in Co : /\ req[c] # 0 => req[c] \in Arrived
                   /\ req[c] # 0 => st[c] \notin {"free", "ready", "noop", "dead"}
                   /\ c \in resp => req[c] # 0 \/ st[c] = "dead"
                   /\ req[c] # 0 => (req[c] \in silent <=> st[c] = "stuck" /\ c \notin resp)
  /\ \A r \in Request : RequestOK(r)
  /\ phase = "gone" => \A c \in Co : req[c] = 0

-----------------------------------------------------------------------------
(* Only one coroutine is inside.                                           *)
LEMMA OneInside ==
  ASSUME SectionInv, NEW c \in Co, depth[c] > 0
  PROVE  \A d \in Co \ {c} : depth[d] = 0
BY DEF SectionInv, SectionIsCounted

(* Steps that do not touch the section; the section does not move.         *)
LEMMA SectionIdle ==
  ASSUME SectionInv, UNCHANGED csVars
  PROVE  SectionInv' /\ UNCHANGED depth
BY DEF SectionInv, SectionIsCounted, csVars

(* A coroutine that finds the section free, or owns it, enters it.         *)
LEMMA SectionEnter ==
  ASSUME SectionInv, NEW c \in Co, owner \in {None, c},
         owner' = c, ref' = ref + 1, depth' = [depth EXCEPT ![c] = @ + 1]
  PROVE  SectionInv' /\ Lock!Enter(c)
<1>1. \A d \in Co \ {c} : depth[d] = 0
  BY SkynetLuaAssumption DEF SectionInv, SectionIsCounted
<1>2. ref = depth[c]
  BY <1>1 DEF SectionInv, SectionIsCounted
<1> QED BY <1>1, <1>2 DEF SectionInv, SectionIsCounted, Lock!Enter

(* The wait of a coroutine in queue.lua returns, to an assertion that      *)
(* holds or fails.                                                         *)
LEMMA SectionWoken ==
  ASSUME SectionInv, NEW c \in Co, Enters(c)
  PROVE  SectionInv' /\ (Lock!Enter(c) \/ UNCHANGED depth)
<1>1. CASE ref = 0
  <2>1. \A d \in Co : depth[d] = 0
    BY <1>1 DEF SectionInv, SectionIsCounted
  <2> QED BY <1>1, <2>1 DEF Enters, SectionInv, SectionIsCounted, Lock!Enter
<1>2. CASE ref # 0
  BY <1>2, SectionIdle DEF Enters
<1> QED BY <1>1, <1>2

(* xpcall_ret: the section is left, and handed over at the last level.     *)
LEMMA SectionLeave ==
  ASSUME SectionInv, NEW c \in Co, Leave(c)
  PROVE  SectionInv' /\ Lock!Leave(c)
<1>1. ref = depth[c] /\ owner = c /\ \A d \in Co \ {c} : depth[d] = 0
  BY OneInside DEF Leave, SectionInv, SectionIsCounted
<1> QED BY <1>1 DEF Leave, SectionInv, SectionIsCounted, Lock!Leave

(* An error leaves every level.                                            *)
LEMMA SectionFail ==
  ASSUME SectionInv, NEW c \in Co, Fail(c)
  PROVE  SectionInv' /\ (Lock!Fail(c) \/ UNCHANGED depth)
<1>1. depth' = [depth EXCEPT ![c] = 0]
  BY DEF Fail
<1>2. CASE depth[c] > 0
  <2>1. \A d \in Co \ {c} : depth[d] = 0
    BY <1>2, OneInside
  <2> QED BY <1>1, <1>2, <2>1 DEF Fail, SectionInv, SectionIsCounted, Lock!Fail
<1>3. CASE depth[c] = 0
  BY <1>1, <1>3 DEF Fail, SectionInv, SectionIsCounted
<1> QED BY <1>2, <1>3 DEF SectionInv

(* The exit of the service leaves the section for whoever is inside.       *)
LEMMA SectionExit ==
  ASSUME SectionInv, NEW c \in Co, exit(c)
  PROVE  SectionInv' /\ (Lock!Next \/ UNCHANGED depth)
<1>1. ref' = 0 /\ depth' = [d \in Co |-> 0]
  BY DEF exit
<1>2. SectionInv'
  BY <1>1 DEF SectionInv, SectionIsCounted
<1>3. CASE \A d \in Co : depth[d] = 0
  BY <1>1, <1>2, <1>3 DEF SectionInv
<1>4. ASSUME NEW d \in Co, depth[d] > 0 PROVE Lock!Fail(d)
  <2>1. \A e \in Co \ {d} : depth[e] = 0
    BY <1>4, OneInside
  <2>2. depth' = [depth EXCEPT ![d] = 0]
    BY <1>1, <2>1 DEF SectionInv
  <2> QED BY <1>4, <2>2 DEF Lock!Fail
<1> QED BY <1>2, <1>3, <1>4 DEF SectionInv, Lock!Next

(* dispatch_wakeup resumes a coroutine, perhaps in the wait of queue.lua.  *)
LEMMA SectionDispatch ==
  ASSUME SectionInv, dispatch_wakeup
  PROVE  SectionInv' /\ (Lock!Next \/ UNCHANGED depth)
<1>1. (\E c \in Co : Enters(c)) \/ UNCHANGED csVars
  BY DEF dispatch_wakeup, csVars, slpVars
<1> QED BY <1>1, SectionWoken, SectionIdle DEF Lock!Next

(* Every step of the scheduler is a step of the lock, or leaves it alone.  *)
LEMMA SectionStep ==
  SectionInv /\ [Next]_vars => SectionInv' /\ [Lock!Next]_depth
<1> SUFFICES ASSUME SectionInv, [Next]_vars
             PROVE  SectionInv' /\ (Lock!Next \/ UNCHANGED depth)
  OBVIOUS
<1>1. ASSUME NEW c \in Co, Enter(c)
      PROVE  SectionInv' /\ (Lock!Next \/ UNCHANGED depth)
  <2>1. CASE owner \in {None, c}
    BY <1>1, <2>1, SectionEnter DEF Enter, Lock!Next
  <2>2. CASE owner \notin {None, c}
    BY <1>1, <2>2 DEF Enter, SectionInv, SectionIsCounted
  <2> QED BY <2>1, <2>2
<1>2. ASSUME NEW c \in Co, Leave(c) \/ Fail(c) \/ exit(c)
      PROVE  SectionInv' /\ (Lock!Next \/ UNCHANGED depth)
  BY <1>2, SectionLeave, SectionFail, SectionExit DEF Lock!Next
<1>3. ASSUME NEW c \in Co,
             \/ \E p \in Peer : call(c, p)
             \/ sleep(c) \/ wait(c) \/ Return(c)
             \/ \E d \in Co : wakeup(c, d) \/ fork(c, d) \/ timeout(c, d)
             \/ \E s \in Session : remove_timeout(c, s)
      PROVE  SectionInv' /\ (Lock!Next \/ UNCHANGED depth)
  <2>1. UNCHANGED csVars
    BY <1>3 DEF call, sleep, wait, Return, wakeup, fork, timeout, remove_timeout
  <2> QED BY <2>1, SectionIdle
<1>4. ASSUME NEW c \in Co,
             \/ \E r \in Request : ret(c, r) \/ response(c, r)
             \/ \E r \in Request, ok \in BOOLEAN : respond(c, r, ok)
      PROVE  SectionInv' /\ (Lock!Next \/ UNCHANGED depth)
  <2>1. UNCHANGED csVars
    BY <1>4 DEF ret, response, respond
  <2> QED BY <2>1, SectionIdle
<1>5. CASE Dispatch
  <2>1. CASE dispatch_error_queue \/ dispatch_fork
    <3>1. UNCHANGED csVars
      BY <2>1 DEF dispatch_error_queue, dispatch_fork
    <3> QED BY <3>1, SectionIdle
  <2> QED BY <1>5, <2>1, SectionDispatch DEF Dispatch
<1>6. CASE \/ \E p \in Peer, ses \in 0..MaxRequest : Arrives(p, ses)
           \/ \E s \in Session : TimerFires(s) \/ ResponseArrives(s) \/ ErrorArrives(s)
           \/ \E p \in Peer : ServiceDown(p)
           \/ UNCHANGED vars
  <2>1. UNCHANGED csVars
    BY <1>6 DEF Arrives, Deliver, Undecodable, Unregistered, Undispatched, TimerFires, ResponseArrives,
                ErrorArrives, ServiceDown, vars, csVars
  <2> QED BY <2>1, SectionIdle
<1> QED BY <1>1, <1>2, <1>3, <1>4, <1>5, <1>6 DEF Next, Program

(* For any number of coroutines the critical section of queue.lua is a     *)
(* lock that its holder may enter again and that an error leaves.          *)
THEOREM QueueImplementsLock == Spec => ImplementsLock
<1>1. Init => SectionInv /\ Lock!Init
  BY DEF Init, SectionInv, SectionIsCounted, Lock!Init
<1> QED BY <1>1, SectionStep, PTL DEF Spec, ImplementsLock, Lock!Spec

-----------------------------------------------------------------------------
(* Sessions and the coroutines that wait for them.                         *)
Scheduler == ScheduleTypes /\ ScheduleInv

(* A session that nothing refers to yet.                                   *)
Fresh(n) ==
  /\ n \in Session /\ n \in 0..MaxSession /\ n > nses /\ n # 0 /\ nses \in Nat
  /\ \A x \in 0..nses : x \in 0..n /\ x # n
  /\ \A x \in 1..nses : x \in 1..n /\ x # n
  /\ \A x \in Session : x > n => x > nses
  /\ sic[n] = None /\ wsess[n] = None /\ ans[n] = "none" /\ n \notin timer /\ ~Queued(n)
  /\ \A c \in Co : slp[c] # n

(* c.genid and the TIMEOUT command make one.                               *)
LEMMA FreshSession ==
  ASSUME Scheduler, HasSession
  PROVE  \E n \in Session : n = NewSession /\ Fresh(n)
<1>0. PICK n : n = NewSession
  OBVIOUS
<1>1. nses \in 0..MaxSession /\ nses \in Nat /\ MaxSession \in Nat
  BY SkynetLuaAssumption DEF Scheduler, ScheduleTypes
<1>2. /\ n \in Session /\ n \in 0..MaxSession /\ n > nses /\ n # 0
      /\ \A x \in Session : x > n => x > nses
  BY <1>0, <1>1 DEF HasSession, NewSession, Session
<1>3. \A x \in 0..nses : x \in 0..n /\ x # n
  BY <1>0, <1>1 DEF NewSession
<1>4. \A x \in 1..nses : x \in 1..n /\ x # n
  BY <1>0, <1>1 DEF NewSession
<1>5. SessionOK(n)
  BY <1>2 DEF Scheduler, ScheduleInv
<1>6. sic[n] = None /\ ans[n] = "none" /\ ~Queued(n)
  BY <1>2, <1>5 DEF SessionOK
<1>7. wsess[n] = None /\ n \notin timer
  BY <1>2, <1>4, <1>5, <1>6, SkynetLuaAssumption DEF SessionOK, Scheduler, ScheduleTypes
<1>8. \A c \in Co : slp[c] # n
  BY <1>3 DEF Scheduler, ScheduleTypes
<1> QED BY <1>0, <1>1, <1>2, <1>3, <1>4, <1>6, <1>7, <1>8 DEF Fresh

(* A coroutine that runs, or is free, waits for nothing.                   *)
LEMMA WaitsForNothing ==
  ASSUME Scheduler, NEW c \in Co, st[c] \in {"run", "free", "stuck", "dead"}
  PROVE  slp[c] = 0 /\ c \notin forkq /\ \A s \in Session : sic[s] # c
<1>1. CoroutineOK(c) /\ \A s \in Session : SessionOK(s)
  BY DEF Scheduler, ScheduleInv
<1> QED BY <1>1 DEF CoroutineOK, SessionOK

LEMMA RunningCo ==
  ASSUME Scheduler, NEW c \in Co, Running(c)
  PROVE  /\ cur = c /\ st[c] = "run" /\ slp[c] = 0 /\ c \notin forkq
         /\ \A s \in Session : sic[s] # c
<1>1. cur = c /\ st[c] = "run"
  BY DEF Running, Scheduler, ScheduleInv, CoroutineOK
<1> QED BY <1>1, WaitsForNothing

(* skynet.call: the coroutine waits for the answer.                        *)
LEMMA SchedCall ==
  ASSUME Scheduler, NEW c \in Co, NEW p \in Peer, call(c, p)
  PROVE  Scheduler'
<1>0. ScheduleTypes /\ ScheduleInv
  BY DEF Scheduler
<1>2. PICK n \in Session : n = NewSession /\ Fresh(n)
  BY FreshSession DEF call
<1>3. /\ nses' = n /\ sic' = [sic EXCEPT ![n] = c] /\ wsess' = [wsess EXCEPT ![n] = p]
      /\ ans' = [ans EXCEPT ![n] = "due"] /\ st' = [st EXCEPT ![c] = "call"]
      /\ phase' = "wake" /\ cur' = None
      /\ UNCHANGED <<slp, wake, errq, forkq, timer>>
  BY <1>2 DEF call, Suspend, slpVars
<1>4. /\ cur = c /\ st[c] = "run" /\ slp[c] = 0 /\ c \notin forkq
      /\ \A s \in Session : sic[s] # c
  BY RunningCo DEF call
<1>5. ScheduleTypes'
  BY <1>0, <1>2, <1>3, SkynetLuaAssumption DEF Fresh, ScheduleTypes, State
<1>6. \A d \in Co : CoroutineOK(d)'
  BY <1>0, <1>2, <1>3, <1>4, SkynetLuaAssumption DEF Fresh, ScheduleTypes, ScheduleInv, CoroutineOK
<1>7. \A s \in Session : SessionOK(s)'
  <2> SUFFICES ASSUME NEW s \in Session PROVE SessionOK(s)'
    OBVIOUS
  <2>1. SessionOK(s) /\ (Queued(s)' <=> Queued(s))
    BY <1>0, <1>3 DEF ScheduleInv, Queued
  <2>2. CASE s = n
    <3>1. sic'[s] = c /\ st'[c] = "call" /\ wsess'[s] = p /\ ans'[s] = "due" /\ s \notin timer'
      BY <1>0, <1>2, <1>3, <2>2 DEF Fresh, ScheduleTypes
    <3>2. s \in Nat /\ ~Queued(s)'
      BY <1>2, <2>1, <2>2 DEF Fresh
    <3> QED BY <1>3, <2>2, <3>1, <3>2, SkynetLuaAssumption DEF SessionOK
  <2>3. CASE s # n
    <3>1. sic'[s] = sic[s] /\ sic[s] # c /\ (s > nses' => s > nses) /\ wsess'[s] = wsess[s] /\ ans'[s] = ans[s]
      BY <1>0, <1>2, <1>3, <1>4, <2>3 DEF Fresh, ScheduleTypes
    <3>2. sic[s] \in Co => st'[sic[s]] = st[sic[s]]
      BY <1>0, <1>3, <3>1 DEF ScheduleTypes
    <3> QED BY <1>3, <2>1, <3>1, <3>2 DEF SessionOK
  <2> QED BY <2>2, <2>3
<1>8. ResumedOnce' /\ \A d \in Co : st'[d] = "call" => \E s \in Session : sic'[s] = d
  BY <1>0, <1>2, <1>3, <1>4, SkynetLuaAssumption DEF Fresh, ScheduleTypes, ScheduleInv, ResumedOnce
<1> QED BY <1>5, <1>6, <1>7, <1>8 DEF Scheduler, ScheduleInv

(* The command SLEEP: the coroutine waits for a wakeup, or for the timer.  *)
LEMMA SchedSleep ==
  ASSUME Scheduler, NEW c \in Co, Running(c), NEW what, SuspendSleep(c, what),
         \/ what = "sleep" /\ timer' = timer \cup {NewSession}
         \/ what \in {"wait", "enter"} /\ timer' = timer,
         UNCHANGED <<wake, wsess, errq, forkq, ans>>
  PROVE  Scheduler'
<1>0. ScheduleTypes /\ ScheduleInv
  BY DEF Scheduler
<1>2. PICK n \in Session : n = NewSession /\ Fresh(n)
  BY FreshSession DEF SuspendSleep
<1>3. /\ nses' = n /\ sic' = [sic EXCEPT ![n] = c] /\ slp' = [slp EXCEPT ![c] = n]
      /\ st' = [st EXCEPT ![c] = what] /\ what \in {"sleep", "wait", "enter"}
      /\ phase' = "wake" /\ cur' = None
      /\ (what = "sleep" /\ timer' = timer \cup {n}) \/ (what # "sleep" /\ timer' = timer)
      /\ UNCHANGED <<wake, wsess, errq, forkq, ans>>
  BY <1>2 DEF SuspendSleep, Suspend
<1>4. /\ cur = c /\ st[c] = "run" /\ slp[c] = 0 /\ c \notin forkq
      /\ \A s \in Session : sic[s] # c
  BY RunningCo
<1>t. timer' \subseteq 1..n /\ \A x \in Session : x \in timer' <=> x \in timer \/ (what = "sleep" /\ x = n)
  <2>1. timer \subseteq 1..n /\ n \in 1..n
    BY <1>0, <1>2 DEF Fresh, ScheduleTypes
  <2> QED BY <1>3, <2>1
<1>u. slp' \in [Co -> 0..n] /\ wake' \in [Co -> 0..n] /\ st' \in [Co -> State]
  BY <1>0, <1>2, <1>3 DEF Fresh, ScheduleTypes, State
<1>5. ScheduleTypes'
  BY <1>0, <1>2, <1>3, <1>t, <1>u, SkynetLuaAssumption DEF Fresh, ScheduleTypes
<1>6. \A d \in Co : CoroutineOK(d)'
  BY <1>0, <1>2, <1>3, <1>4, SkynetLuaAssumption DEF Fresh, ScheduleTypes, ScheduleInv, CoroutineOK
<1>7. \A s \in Session : SessionOK(s)'
  <2> SUFFICES ASSUME NEW s \in Session PROVE SessionOK(s)'
    OBVIOUS
  <2>1. SessionOK(s) /\ (Queued(s)' <=> Queued(s))
    BY <1>0, <1>3 DEF ScheduleInv, Queued
  <2>2. CASE s = n
    <3>1. sic'[s] = c /\ st'[c] = what /\ wsess'[s] = None /\ ans'[s] = "none" /\ (s \in timer' <=> what = "sleep")
      BY <1>0, <1>2, <1>3, <1>t, <2>2 DEF Fresh, ScheduleTypes
    <3>2. ~Queued(s)'
      BY <1>2, <2>1, <2>2 DEF Fresh
    <3> QED BY <1>2, <1>3, <2>1, <2>2, <3>1, <3>2, SkynetLuaAssumption DEF Fresh, SessionOK
  <2>3. CASE s # n
    <3>1. sic'[s] = sic[s] /\ sic[s] # c /\ (s \in timer' <=> s \in timer) /\ (s > nses' => s > nses)
      BY <1>0, <1>2, <1>3, <1>4, <1>t, <2>3 DEF Fresh, ScheduleTypes
    <3>2. sic[s] \in Co => st'[sic[s]] = st[sic[s]]
      BY <1>0, <1>3, <3>1 DEF ScheduleTypes
    <3> QED BY <1>3, <2>1, <3>1, <3>2 DEF SessionOK
  <2> QED BY <2>2, <2>3
<1>8. ResumedOnce' /\ \A d \in Co : st'[d] = "call" => \E s \in Session : sic'[s] = d
  BY <1>0, <1>2, <1>3, <1>4, SkynetLuaAssumption DEF Fresh, ScheduleTypes, ScheduleInv, ResumedOnce
<1> QED BY <1>5, <1>6, <1>7, <1>8 DEF Scheduler, ScheduleInv

(* Steps that move no coroutine; phase and wakeup_session may change.      *)
LEMMA SchedKeep ==
  ASSUME Scheduler, UNCHANGED <<cur, st, sic, slp, wsess, errq, forkq, timer, ans, nses>>,
         wake' \in [Co -> 0..nses],
         phase' = phase \/ (phase # "run" /\ phase' \in {"idle", "wake", "error", "fork"})
  PROVE  Scheduler'
<1>0. ScheduleTypes /\ ScheduleInv
  BY DEF Scheduler
<1>1. ScheduleTypes'
  BY <1>0 DEF ScheduleTypes
<1>2. ScheduleInv'
  BY <1>0 DEF ScheduleInv, CoroutineOK, SessionOK, Queued, ResumedOnce
<1> QED BY <1>1, <1>2 DEF Scheduler

(* The running coroutine returns, fails, or is stuck for ever.             *)
LEMMA SchedEnd ==
  ASSUME Scheduler, NEW c \in Co, Running(c), NEW what \in {"free", "stuck", "dead"},
         st' = [st EXCEPT ![c] = what], cur' = None, phase' \in {"wake", "fork"},
         UNCHANGED <<sic, slp, wsess, errq, forkq, timer, ans, nses>>,
         wake' \in [Co -> 0..nses]
  PROVE  Scheduler'
<1>0. ScheduleTypes /\ ScheduleInv
  BY DEF Scheduler
<1>4. /\ cur = c /\ st[c] = "run" /\ slp[c] = 0 /\ c \notin forkq
      /\ \A s \in Session : sic[s] # c
  BY RunningCo
<1>5. ScheduleTypes'
  BY <1>0, SkynetLuaAssumption DEF ScheduleTypes, State
<1>6. \A d \in Co : CoroutineOK(d)'
  BY <1>0, <1>4, SkynetLuaAssumption DEF ScheduleTypes, ScheduleInv, CoroutineOK
<1>7. \A s \in Session : SessionOK(s)'
  BY <1>0, <1>4, SkynetLuaAssumption DEF ScheduleTypes, ScheduleInv, SessionOK, Queued
<1>8. ScheduleInv'
  BY <1>0, <1>4, <1>6, <1>7 DEF ScheduleTypes, ScheduleInv, ResumedOnce
<1> QED BY <1>5, <1>8 DEF Scheduler


(* skynet.fork: a free coroutine is made ready.                            *)
LEMMA SchedFork ==
  ASSUME Scheduler, NEW c \in Co, NEW d \in Co, fork(c, d)
  PROVE  Scheduler'
<1>0. ScheduleTypes /\ ScheduleInv
  BY DEF Scheduler
<1>3. /\ st' = [st EXCEPT ![d] = "ready"] /\ forkq' = forkq \cup {d}
      /\ UNCHANGED <<phase, cur, sic, slp, wake, wsess, errq, timer, ans, nses>>
      /\ st[d] = "free"
  BY DEF fork, ctlVars, slpVars, sesVars, peerVars, Free
<1>4. slp[d] = 0 /\ d \notin forkq /\ \A s \in Session : sic[s] # d
  BY <1>3, WaitsForNothing
<1>5. ScheduleTypes'
  BY <1>0, <1>3 DEF ScheduleTypes, State
<1>6. \A e \in Co : CoroutineOK(e)'
  BY <1>0, <1>3, <1>4, SkynetLuaAssumption DEF ScheduleTypes, ScheduleInv, CoroutineOK
<1>7. \A s \in Session : SessionOK(s)'
  BY <1>0, <1>3, <1>4, SkynetLuaAssumption DEF ScheduleTypes, ScheduleInv, SessionOK, Queued
<1>8. ScheduleInv'
  BY <1>0, <1>3, <1>4, <1>6, <1>7 DEF ScheduleTypes, ScheduleInv, ResumedOnce
<1> QED BY <1>5, <1>8 DEF Scheduler

(* skynet.timeout: a free coroutine waits for the timer.                   *)
LEMMA SchedTimeout ==
  ASSUME Scheduler, NEW c \in Co, NEW d \in Co, timeout(c, d)
  PROVE  Scheduler'
<1>0. ScheduleTypes /\ ScheduleInv
  BY DEF Scheduler
<1>2. PICK n \in Session : n = NewSession /\ Fresh(n)
  BY FreshSession DEF timeout
<1>3. /\ nses' = n /\ sic' = [sic EXCEPT ![n] = d] /\ timer' = timer \cup {n}
      /\ st' = [st EXCEPT ![d] = "ready"] /\ st[d] = "free"
      /\ UNCHANGED <<phase, cur, slp, wake, wsess, errq, forkq, ans>>
  BY <1>2 DEF timeout, ctlVars, slpVars, peerVars, Free
<1>4. slp[d] = 0 /\ d \notin forkq /\ \A s \in Session : sic[s] # d
  BY <1>3, WaitsForNothing
<1>t. timer' \subseteq 1..n
  BY <1>0, <1>2, <1>3 DEF Fresh, ScheduleTypes
<1>u. slp' \in [Co -> 0..n] /\ wake' \in [Co -> 0..n] /\ st' \in [Co -> State]
  BY <1>0, <1>2, <1>3 DEF Fresh, ScheduleTypes, State
<1>5. ScheduleTypes'
  BY <1>0, <1>2, <1>3, <1>t, <1>u DEF Fresh, ScheduleTypes
<1>6. \A e \in Co : CoroutineOK(e)'
  BY <1>0, <1>2, <1>3, <1>4, SkynetLuaAssumption DEF Fresh, ScheduleTypes, ScheduleInv, CoroutineOK
<1>7. \A s \in Session : SessionOK(s)'
  <2> SUFFICES ASSUME NEW s \in Session PROVE SessionOK(s)'
    OBVIOUS
  <2>1. SessionOK(s) /\ (Queued(s)' <=> Queued(s))
    BY <1>0, <1>3 DEF ScheduleInv, Queued
  <2>2. CASE s = n
    <3>1. sic'[s] = d /\ st'[d] = "ready" /\ wsess'[s] = None /\ ans'[s] = "none"
      BY <1>0, <1>2, <1>3, <2>2 DEF Fresh, ScheduleTypes
    <3>2. s \in Nat /\ ~Queued(s)'
      BY <1>2, <2>1, <2>2 DEF Fresh
    <3> QED BY <1>3, <2>2, <3>1, <3>2, SkynetLuaAssumption DEF SessionOK
  <2>3. CASE s # n
    <3>1. sic'[s] = sic[s] /\ sic[s] # d /\ (s > nses' => s > nses) /\ (s \in timer' <=> s \in timer)
      BY <1>0, <1>2, <1>3, <1>4, <2>3 DEF Fresh, ScheduleTypes
    <3>2. sic[s] \in Co => st'[sic[s]] = st[sic[s]]
      BY <1>0, <1>3, <3>1 DEF ScheduleTypes
    <3> QED BY <1>3, <2>1, <3>1, <3>2 DEF SessionOK
  <2> QED BY <2>2, <2>3
<1>8. ResumedOnce' /\ \A e \in Co : st'[e] = "call" => \E s \in Session : sic'[s] = e
  BY <1>0, <1>2, <1>3, <1>4, SkynetLuaAssumption DEF Fresh, ScheduleTypes, ScheduleInv, ResumedOnce
<1> QED BY <1>5, <1>6, <1>7, <1>8 DEF Scheduler, ScheduleInv

(* remove_timeout: the timer finds a coroutine that does nothing.          *)
LEMMA SchedRemove ==
  ASSUME Scheduler, NEW c \in Co, NEW x \in Session, remove_timeout(c, x)
  PROVE  Scheduler'
<1>0. ScheduleTypes /\ ScheduleInv
  BY DEF Scheduler
<1>2. PICK d \in Co : d = sic[x]
  BY DEF remove_timeout
<1>3. /\ st' = [st EXCEPT ![d] = "noop"] /\ st[d] = "ready" /\ x \in timer
      /\ UNCHANGED <<phase, cur, sic, slp, wake, wsess, errq, forkq, timer, ans, nses>>
  BY <1>2 DEF remove_timeout, ctlVars, slpVars, sesVars, peerVars
<1>5. ScheduleTypes'
  BY <1>0, <1>3 DEF ScheduleTypes, State
<1>6. \A e \in Co : CoroutineOK(e)'
  BY <1>0, <1>2, <1>3, SkynetLuaAssumption DEF ScheduleTypes, ScheduleInv, CoroutineOK
<1>7. \A s \in Session : SessionOK(s)'
  BY <1>0, <1>2, <1>3, SkynetLuaAssumption DEF ScheduleTypes, ScheduleInv, SessionOK, Queued
<1>8. ScheduleInv'
  BY <1>0, <1>2, <1>3, <1>6, <1>7 DEF ScheduleTypes, ScheduleInv, ResumedOnce
<1> QED BY <1>5, <1>8 DEF Scheduler

(* A forked coroutine, or a free one for a request, starts to run.         *)
LEMMA SchedStart ==
  ASSUME Scheduler, NEW c \in Co, phase # "run", st[c] = "free" \/ c \in forkq,
         forkq' = forkq \ {c}, st' = [st EXCEPT ![c] = "run"], Resume(c),
         UNCHANGED <<sic, slp, wake, wsess, errq, timer, ans, nses>>
  PROVE  Scheduler'
<1>0. ScheduleTypes /\ ScheduleInv
  BY DEF Scheduler
<1>3. phase' = "run" /\ cur' = c /\ cur = None
  BY <1>0 DEF Resume, ScheduleTypes
<1>4. slp[c] = 0 /\ \A s \in Session : sic[s] # c
  <2>1. CASE st[c] = "free"
    BY <2>1, WaitsForNothing
  <2>2. CASE c \in forkq
    BY <1>0, <2>2 DEF ScheduleInv, CoroutineOK
  <2> QED BY <2>1, <2>2
<1>5. ScheduleTypes'
  BY <1>0, <1>3, SkynetLuaAssumption DEF ScheduleTypes, State
<1>6. \A e \in Co : CoroutineOK(e)'
  BY <1>0, <1>3, <1>4, SkynetLuaAssumption DEF ScheduleTypes, ScheduleInv, CoroutineOK
<1>7. \A s \in Session : SessionOK(s)'
  BY <1>0, <1>4, SkynetLuaAssumption DEF ScheduleTypes, ScheduleInv, SessionOK, Queued
<1>8. ScheduleInv'
  BY <1>0, <1>4, <1>6, <1>7 DEF ScheduleTypes, ScheduleInv, ResumedOnce
<1> QED BY <1>5, <1>8 DEF Scheduler


(* A free coroutine that was to have a message is lost.                    *)
LEMMA SchedLost ==
  ASSUME Scheduler, NEW c \in Co, phase = "idle", st[c] = "free",
         st' = [st EXCEPT ![c] = "stuck"], phase' = "fork", cur' = None,
         UNCHANGED <<sic, slp, wake, wsess, errq, forkq, timer, ans, nses>>
  PROVE  Scheduler'
<1>0. ScheduleTypes /\ ScheduleInv /\ cur = None
  BY DEF Scheduler, ScheduleTypes
<1>4. slp[c] = 0 /\ c \notin forkq /\ \A s \in Session : sic[s] # c
  BY WaitsForNothing
<1>5. ScheduleTypes'
  BY <1>0, SkynetLuaAssumption DEF ScheduleTypes, State
<1>6. \A e \in Co : CoroutineOK(e)'
  BY <1>0, <1>4, SkynetLuaAssumption DEF ScheduleTypes, ScheduleInv, CoroutineOK
<1>7. \A s \in Session : SessionOK(s)'
  BY <1>0, <1>4, SkynetLuaAssumption DEF ScheduleTypes, ScheduleInv, SessionOK, Queued
<1>8. ScheduleInv'
  BY <1>0, <1>4, <1>6, <1>7 DEF ScheduleTypes, ScheduleInv, ResumedOnce
<1> QED BY <1>5, <1>8 DEF Scheduler

(* The coroutine of a session goes on, or a removed timeout ends: by an    *)
(* answer, a wakeup, or the queue of errors.                               *)
LEMMA SchedTake ==
  ASSUME Scheduler, NEW x \in Session, NEW c \in Co, sic[x] = c, phase # "run",
         NEW mark \in {None, BREAK}, NEW what \in {"run", "free"},
         sic' = [sic EXCEPT ![x] = mark], slp' = [slp EXCEPT ![c] = 0],
         wsess' = [wsess EXCEPT ![x] = None], st' = [st EXCEPT ![c] = what],
         \/ what = "run" /\ phase' = "run" /\ cur' = c
         \/ what = "free" /\ phase' = "wake" /\ cur' = None,
         timer' \in {timer, timer \ {x}}, ans' \in {ans, [ans EXCEPT ![x] = "none"]},
         errq' \in Seq(Session), wake' \in [Co -> 0..nses], UNCHANGED <<forkq, nses>>,
         \A s \in Session \ {x} : Queued(s)' <=> Queued(s), Queued(x)' => Queued(x),
         mark = BREAK => x \in timer' /\ ans'[x] = "none" /\ ~Queued(x)'
  PROVE  Scheduler'
<1>0. ScheduleTypes /\ ScheduleInv
  BY DEF Scheduler
<1>1. cur = None /\ st[c] # "run" /\ x \in 1..nses
  BY <1>0, SkynetLuaAssumption DEF ScheduleTypes, ScheduleInv, CoroutineOK, SessionOK, Session
<1>2. \A s \in Session \ {x} : /\ sic'[s] = sic[s] /\ sic[s] # c /\ wsess'[s] = wsess[s]
                               /\ ans'[s] = ans[s] /\ (s \in timer' <=> s \in timer)
                               /\ sic[s] \in Co => st'[sic[s]] = st[sic[s]]
  <2>1. \A s \in Session \ {x} : sic'[s] = sic[s] /\ sic[s] # c
    BY <1>0, SkynetLuaAssumption DEF ScheduleTypes, ScheduleInv, ResumedOnce
  <2>2. \A s \in Session \ {x} : wsess'[s] = wsess[s] /\ ans'[s] = ans[s] /\ (s \in timer' <=> s \in timer)
    BY <1>0 DEF ScheduleTypes
  <2>3. \A d \in Co \ {c} : st'[d] = st[d]
    BY <1>0 DEF ScheduleTypes
  <2> QED BY <2>1, <2>2, <2>3
<1>3. sic'[x] = mark /\ wsess'[x] = None /\ mark \notin Co /\ x \in 1..nses' /\ st'[c] = what /\ slp'[c] = 0
  BY <1>0, <1>1, SkynetLuaAssumption DEF ScheduleTypes
<1>4. \A d \in Co \ {c} : st'[d] = st[d] /\ slp'[d] = slp[d] /\ slp[d] # x
  <2>1. \A d \in Co \ {c} : st'[d] = st[d] /\ slp'[d] = slp[d]
    BY <1>0 DEF ScheduleTypes
  <2>2. \A d \in Co \ {c} : slp[d] # x
    BY <1>0, <1>1 DEF ScheduleTypes, ScheduleInv, CoroutineOK
  <2> QED BY <2>1, <2>2
<1>5. ScheduleTypes'
  <2>1. st' \in [Co -> State] /\ sic' \in [Session -> Co \cup {None, BREAK}]
    BY <1>0 DEF ScheduleTypes, State
  <2>2. slp' \in [Co -> 0..nses] /\ wsess' \in [Session -> Peer \cup {None}]
    BY <1>0 DEF ScheduleTypes
  <2>3. timer' \subseteq 1..nses /\ ans' \in [Session -> {"none", "due", "error"}]
    BY <1>0 DEF ScheduleTypes
  <2> QED BY <1>0, <2>1, <2>2, <2>3, SkynetLuaAssumption DEF ScheduleTypes
<1>6. \A d \in Co : CoroutineOK(d)'
  <2> SUFFICES ASSUME NEW d \in Co PROVE CoroutineOK(d)'
    OBVIOUS
  <2>1. CoroutineOK(d)
    BY <1>0 DEF ScheduleInv
  <2>2. CASE d = c
    BY <1>1, <1>3, <2>1, <2>2, SkynetLuaAssumption DEF CoroutineOK
  <2>3. CASE d # c
    <3>1. slp[d] \in 0..nses /\ nses \in 0..MaxSession
      BY <1>0 DEF ScheduleTypes
    <3>2. slp[d] # 0 => slp[d] \in Session \ {x}
      BY <1>4, <2>3, <3>1, SkynetLuaAssumption DEF Session
    <3>3. st'[d] = st[d] /\ slp'[d] = slp[d] /\ (cur' = d <=> cur = d)
      BY <1>1, <1>4, <2>3, SkynetLuaAssumption
    <3>4. slp[d] # 0 => sic'[slp[d]] = sic[slp[d]] /\ (slp[d] \in timer' <=> slp[d] \in timer)
      BY <1>2, <3>2
    <3>5. (\A s \in Session : sic[s] # d) => \A s \in Session : sic'[s] # d
      BY <1>2, <1>3
    <3> QED BY <2>1, <3>3, <3>4, <3>5 DEF CoroutineOK
  <2> QED BY <2>2, <2>3
<1>7. \A s \in Session : SessionOK(s)'
  <2> SUFFICES ASSUME NEW s \in Session PROVE SessionOK(s)'
    OBVIOUS
  <2>1. SessionOK(s)
    BY <1>0 DEF ScheduleInv
  <2>2. CASE s = x
    <3>1. ~(s > nses')
      BY <1>0, <1>3, <2>2 DEF ScheduleTypes, Session
    <3> QED BY <1>3, <2>2, <3>1, SkynetLuaAssumption DEF SessionOK
  <2>3. CASE s # x
    BY <1>2, <2>1, <2>3 DEF SessionOK
  <2> QED BY <2>2, <2>3
<1>8. ResumedOnce'
  BY <1>0, <1>2, <1>3 DEF ScheduleInv, ResumedOnce
<1>9. \A d \in Co : st'[d] = "call" => \E s \in Session : sic'[s] = d
  BY <1>0, <1>2, <1>3, <1>4 DEF ScheduleInv
<1> QED BY <1>5, <1>6, <1>7, <1>8, <1>9 DEF Scheduler, ScheduleInv

(* An answer, or a queued error, for a session that nobody waits for.      *)
LEMMA SchedNote ==
  ASSUME Scheduler, NEW x \in Session, sic[x] \in {None, BREAK}, phase # "run",
         sic' = [sic EXCEPT ![x] = None], cur' = None, phase' \in {"idle", "fork"},
         timer' \in {timer, timer \ {x}}, ans' \in {ans, [ans EXCEPT ![x] = "none"]},
         errq' \in Seq(Session), UNCHANGED <<st, slp, wake, wsess, forkq, nses>>,
         \A s \in Session \ {x} : Queued(s)' <=> Queued(s), Queued(x)' => Queued(x)
  PROVE  Scheduler'
<1>0. ScheduleTypes /\ ScheduleInv
  BY DEF Scheduler
<1>1. cur = None /\ wsess[x] = None /\ sic[x] \notin Co
  BY <1>0, SkynetLuaAssumption DEF ScheduleTypes, ScheduleInv, SessionOK
<1>2. /\ sic'[x] = None
      /\ \A s \in Session \ {x} : /\ sic'[s] = sic[s] /\ ans'[s] = ans[s]
                                  /\ s \in timer' <=> s \in timer
  BY <1>0 DEF ScheduleTypes
<1>3. ans'[x] = ans[x] \/ ans'[x] = "none"
  BY <1>0 DEF ScheduleTypes
<1>5. ScheduleTypes'
  <2>1. sic' \in [Session -> Co \cup {None, BREAK}]
    BY <1>0 DEF ScheduleTypes
  <2>2. timer' \subseteq 1..nses /\ ans' \in [Session -> {"none", "due", "error"}]
    BY <1>0 DEF ScheduleTypes
  <2> QED BY <1>0, <1>1, <2>1, <2>2 DEF ScheduleTypes
<1>6. \A d \in Co : CoroutineOK(d)'
  <2> SUFFICES ASSUME NEW d \in Co PROVE CoroutineOK(d)'
    OBVIOUS
  <2>1. CoroutineOK(d)
    BY <1>0 DEF ScheduleInv
  <2>2. slp[d] \in 0..nses /\ nses \in 0..MaxSession
    BY <1>0 DEF ScheduleTypes
  <2>3. slp[d] # 0 => slp[d] \in Session \ {x}
    BY <1>1, <2>1, <2>2, SkynetLuaAssumption DEF CoroutineOK, Session
  <2>4. slp[d] # 0 => sic'[slp[d]] = sic[slp[d]] /\ (slp[d] \in timer' <=> slp[d] \in timer)
    BY <1>2, <2>3
  <2>5. (\A s \in Session : sic[s] # d) => \A s \in Session : sic'[s] # d
    BY <1>2, SkynetLuaAssumption
  <2> QED BY <1>1, <2>1, <2>4, <2>5 DEF CoroutineOK
<1>7. \A s \in Session : SessionOK(s)'
  <2> SUFFICES ASSUME NEW s \in Session PROVE SessionOK(s)'
    OBVIOUS
  <2>1. SessionOK(s)
    BY <1>0 DEF ScheduleInv
  <2>2. CASE s = x
    BY <1>1, <1>2, <1>3, <2>1, <2>2, SkynetLuaAssumption DEF SessionOK
  <2>3. CASE s # x
    BY <1>2, <2>1, <2>3 DEF SessionOK
  <2> QED BY <2>2, <2>3
<1>8. ResumedOnce'
  BY <1>0, <1>2 DEF ScheduleInv, ResumedOnce
<1>9. \A d \in Co : st'[d] = "call" => \E s \in Session : sic'[s] = d
  BY <1>0, <1>1, <1>2 DEF ScheduleInv
<1> QED BY <1>5, <1>6, <1>7, <1>8, <1>9 DEF Scheduler, ScheduleInv

(* Calls fail: their sessions are queued.                                  *)
LEMMA SchedFailed ==
  ASSUME Scheduler, phase = "idle", Suspend,
         errq' \in Seq(Session), ans' \in [Session -> {"none", "due", "error"}],
         \A s \in Session : /\ Queued(s) => Queued(s)'
                            /\ Queued(s)' => Queued(s) \/ wsess[s] # None
                            /\ wsess[s] # None => ans'[s] = "due" \/ Queued(s)'
                            /\ ans'[s] # "none" => ans[s] # "none",
         UNCHANGED <<st, sic, slp, wake, wsess, forkq, timer, nses>>
  PROVE  Scheduler'
<1>0. ScheduleTypes /\ ScheduleInv /\ phase' = "wake" /\ cur' = None /\ cur = None
  BY DEF Scheduler, ScheduleTypes, Suspend
<1>5. ScheduleTypes'
  BY <1>0 DEF ScheduleTypes
<1>6. \A d \in Co : CoroutineOK(d)'
  BY <1>0 DEF ScheduleInv, CoroutineOK
<1>7. \A s \in Session : SessionOK(s)'
  <2> SUFFICES ASSUME NEW s \in Session PROVE SessionOK(s)'
    OBVIOUS
  <2>1. SessionOK(s)
    BY <1>0 DEF ScheduleInv
  <2> QED BY <2>1, SkynetLuaAssumption DEF SessionOK
<1>8. ResumedOnce' /\ \A d \in Co : st'[d] = "call" => \E s \in Session : sic'[s] = d
  BY <1>0 DEF ScheduleInv, ResumedOnce
<1> QED BY <1>5, <1>6, <1>7, <1>8 DEF Scheduler, ScheduleInv


(* error_queue, when its first session is taken off.                       *)
LEMMA QueueTail ==
  ASSUME errq \in Seq(Session), errq # <<>>, NEW x \in Session, x = Head(errq),
         errq' = Tail(errq)
  PROVE  /\ errq' \in Seq(Session) /\ Queued(x)
         /\ \A s \in Session \ {x} : Queued(s)' <=> Queued(s)
         /\ Len(errq) \in Nat /\ Len(errq) > 0 /\ Len(errq') = Len(errq) - 1
         /\ DOMAIN errq = 1..Len(errq) /\ DOMAIN errq' = 1..Len(errq')
         /\ \A i \in DOMAIN errq' : errq'[i] = errq[i + 1] /\ i + 1 \in DOMAIN errq
<1>1. /\ errq' \in Seq(Session) /\ Len(errq) \in Nat /\ Len(errq) > 0
      /\ Len(errq') = Len(errq) - 1
      /\ DOMAIN errq = 1..Len(errq) /\ DOMAIN errq' = 1..Len(errq')
  OBVIOUS
<1>2. \A i \in DOMAIN errq' : errq'[i] = errq[i + 1] /\ i + 1 \in DOMAIN errq
  BY <1>1
<1>3. 1 \in DOMAIN errq /\ errq[1] = x
  BY <1>1
<1>4. \A s \in Session : Queued(s)' => Queued(s)
  BY <1>2 DEF Queued
<1>5. ASSUME NEW s \in Session \ {x}, Queued(s) PROVE Queued(s)'
  <2>1. PICK i \in DOMAIN errq : errq[i] = s
    BY <1>5 DEF Queued
  <2>2. i - 1 \in DOMAIN errq' /\ errq'[i - 1] = s
    BY <1>1, <1>3, <2>1
  <2> QED BY <2>2 DEF Queued
<1> QED BY <1>1, <1>2, <1>3, <1>4, <1>5 DEF Queued

(* A response, of a service or of the timer.                               *)
LEMMA SchedRespond ==
  ASSUME Scheduler, NEW x \in Session, TimerFires(x) \/ ResponseArrives(x)
  PROVE  Scheduler'
<1>0. ScheduleTypes /\ ScheduleInv
  BY DEF Scheduler
<1>1. /\ phase = "idle" /\ Respond(x)
      /\ UNCHANGED <<wake, errq, forkq, nses>>
      /\ timer' \in {timer, timer \ {x}}
      /\ ans' \in {ans, [ans EXCEPT ![x] = "none"]}
  BY DEF TimerFires, ResponseArrives, peerVars
<1>2. /\ phase # "run" /\ errq' \in Seq(Session) /\ wake' \in [Co -> 0..nses] /\ cur = None
      /\ \A s \in Session : Queued(s)' <=> Queued(s)
  BY <1>0, <1>1 DEF ScheduleTypes, Queued
<1>3. CASE sic[x] \in {None, BREAK}
  <2>1. /\ sic' = [sic EXCEPT ![x] = None]
        /\ UNCHANGED <<phase, cur, st, slp, wsess>>
    BY <1>1, <1>3 DEF Respond, ctlVars
  <2>2. phase' \in {"idle", "fork"} /\ cur' = None
    BY <1>1, <1>2, <2>1
  <2> QED BY <1>1, <1>2, <1>3, <2>1, <2>2, SchedNote
<1>4. CASE sic[x] \notin {None, BREAK}
  <2>1. PICK c \in Co : c = sic[x]
    BY <1>0, <1>4 DEF ScheduleTypes
  <2>2. /\ sic' = [sic EXCEPT ![x] = None] /\ slp' = [slp EXCEPT ![c] = 0]
        /\ wsess' = [wsess EXCEPT ![x] = None]
        /\ \/ st' = [st EXCEPT ![c] = "free"] /\ phase' = "wake" /\ cur' = None
           \/ st' = [st EXCEPT ![c] = "run"] /\ phase' = "run" /\ cur' = c
    BY <1>1, <1>4, <2>1 DEF Respond, Suspend, Resume
  <2>3. PICK what \in {"run", "free"} :
          /\ st' = [st EXCEPT ![c] = what]
          /\ \/ what = "run" /\ phase' = "run" /\ cur' = c
             \/ what = "free" /\ phase' = "wake" /\ cur' = None
    BY <2>2
  <2> QED BY <1>1, <1>2, <2>1, <2>2, <2>3, SkynetLuaAssumption, SchedTake
<1> QED BY <1>3, <1>4

(* dispatch_wakeup.                                                        *)
LEMMA SchedWakeup ==
  ASSUME Scheduler, dispatch_wakeup
  PROVE  Scheduler'
<1>0. ScheduleTypes /\ ScheduleInv
  BY DEF Scheduler
<1>1. /\ phase = "wake" /\ UNCHANGED <<wsess, errq, forkq, timer, ans, nses>>
      /\ \A s \in Session : Queued(s)' <=> Queued(s)
  BY DEF dispatch_wakeup, peerVars, Queued
<1>2. CASE \A c \in Co : wake[c] = 0
  <2>1. phase' = "error" /\ UNCHANGED <<cur, st, sic, slp, wake>>
    BY <1>2 DEF dispatch_wakeup, slpVars
  <2>2. wake' \in [Co -> 0..nses]
    BY <1>0, <2>1 DEF ScheduleTypes
  <2> QED BY <1>1, <2>1, <2>2, SchedKeep
<1>3. CASE ~ \A c \in Co : wake[c] = 0
  <2>1. PICK c \in Co :
          /\ wake[c] # 0 /\ wake' = [wake EXCEPT ![c] = 0]
          /\ IF slp[c] = 0
             THEN phase' = "error" /\ UNCHANGED <<cur, st, sic, slp>>
             ELSE /\ sic' = [sic EXCEPT ![slp[c]] = Broken(c)]
                  /\ slp' = [slp EXCEPT ![c] = 0]
                  /\ st' = [st EXCEPT ![c] = "run"]
                  /\ Resume(c)
    BY <1>3 DEF dispatch_wakeup
  <2>2. wake' \in [Co -> 0..nses]
    BY <1>0, <2>1 DEF ScheduleTypes
  <2>3. CASE slp[c] = 0
    BY <1>1, <2>1, <2>2, <2>3, SchedKeep
  <2>4. CASE slp[c] # 0
    <3>1. nses \in 0..MaxSession /\ slp[c] \in 0..nses /\ MaxSession \in Nat
      BY <1>0, SkynetLuaAssumption DEF ScheduleTypes
    <3>2. PICK x \in Session : x = slp[c]
      BY <2>4, <3>1 DEF Session
    <3>3. CoroutineOK(c) /\ SessionOK(x)
      BY <1>0 DEF ScheduleInv
    <3>4. sic[x] = c /\ st[c] \in {"sleep", "wait", "enter"} /\ (st[c] = "sleep" => x \in timer)
      BY <2>4, <3>2, <3>3 DEF CoroutineOK
    <3>5. wsess[x] = None /\ ans[x] = "none" /\ ~Queued(x)
      BY <3>3, <3>4, SkynetLuaAssumption DEF SessionOK
    <3>6. PICK mark \in {None, BREAK} : mark = Broken(c) /\ (mark = BREAK => x \in timer)
      BY <3>4, SkynetLuaAssumption DEF Broken
    <3>7. /\ sic' = [sic EXCEPT ![x] = mark] /\ slp' = [slp EXCEPT ![c] = 0]
          /\ st' = [st EXCEPT ![c] = "run"] /\ phase' = "run" /\ cur' = c
      BY <2>1, <2>4, <3>2, <3>6 DEF Resume
    <3>8. wsess' = [wsess EXCEPT ![x] = None] /\ errq' \in Seq(Session)
      BY <1>0, <1>1, <3>5 DEF ScheduleTypes
    <3> QED BY <1>1, <2>2, <3>4, <3>5, <3>6, <3>7, <3>8, SchedTake
  <2> QED BY <2>3, <2>4
<1> QED BY <1>2, <1>3

(* dispatch_error_queue.                                                   *)
LEMMA SchedErrorQueue ==
  ASSUME Scheduler, dispatch_error_queue
  PROVE  Scheduler'
<1>0. ScheduleTypes /\ ScheduleInv
  BY DEF Scheduler
<1>1. /\ phase = "error" /\ UNCHANGED <<slp, wake, forkq, timer, ans, nses>>
      /\ wake' \in [Co -> 0..nses] /\ cur = None
  BY <1>0 DEF dispatch_error_queue, slpVars, peerVars, ScheduleTypes
<1>2. CASE errq = <<>>
  <2>1. phase' = "fork" /\ UNCHANGED <<cur, st, sic, wsess, errq>>
    BY <1>2 DEF dispatch_error_queue, sesVars
  <2> QED BY <1>1, <2>1, SchedKeep
<1>3. CASE errq # <<>>
  <2>1. PICK x \in Session : x = Head(errq)
    BY <1>0, <1>3 DEF ScheduleTypes
  <2>2. /\ errq' = Tail(errq) /\ sic' = [sic EXCEPT ![x] = None]
        /\ wsess' = [wsess EXCEPT ![x] = None]
        /\ IF sic[x] = None
           THEN phase' = "fork" /\ cur' = None /\ UNCHANGED st
           ELSE phase' = "run" /\ cur' = sic[x] /\ st' = [st EXCEPT ![sic[x]] = "run"]
    BY <1>3, <2>1 DEF dispatch_error_queue, Unwind, Resume
  <2>3. /\ errq' \in Seq(Session) /\ Queued(x)
        /\ \A s \in Session \ {x} : Queued(s)' <=> Queued(s)
    BY <1>0, <1>3, <2>1, <2>2, QueueTail DEF ScheduleTypes
  <2>4. SessionOK(x)
    BY <1>0 DEF ScheduleInv
  <2>5. CASE sic[x] = None
    <3>1. UNCHANGED wsess
      BY <1>0, <2>2, <2>4, <2>5, SkynetLuaAssumption DEF ScheduleTypes, SessionOK
    <3> QED BY <1>1, <2>2, <2>3, <2>5, <3>1, SchedNote
  <2>6. CASE sic[x] # None
    <3>1. PICK c \in Co : c = sic[x] /\ st[c] = "call"
      BY <2>3, <2>4, <2>6 DEF SessionOK
    <3>2. slp[c] = 0
      BY <1>0, <3>1 DEF ScheduleInv, CoroutineOK
    <3>3. slp' = [slp EXCEPT ![c] = 0]
      BY <1>0, <1>1, <3>2 DEF ScheduleTypes
    <3>4. /\ st' = [st EXCEPT ![c] = "run"] /\ phase' = "run" /\ cur' = c
      BY <2>2, <2>6, <3>1
    <3> QED BY <1>1, <2>2, <2>3, <3>1, <3>3, <3>4, SkynetLuaAssumption, SchedTake
  <2> QED BY <2>5, <2>6
<1> QED BY <1>2, <1>3


(* error_queue, when sessions are appended.                                *)
LEMMA QueueAppend ==
  ASSUME errq \in Seq(Session), NEW ss \in Seq(Session), errq' = errq \o ss
  PROVE  /\ errq' \in Seq(Session) /\ Len(errq) \in Nat /\ Len(ss) \in Nat
         /\ Len(errq') = Len(errq) + Len(ss)
         /\ DOMAIN errq = 1..Len(errq) /\ DOMAIN ss = 1..Len(ss)
         /\ DOMAIN errq' = 1..Len(errq')
         /\ \A i \in DOMAIN errq : i \in DOMAIN errq' /\ errq'[i] = errq[i]
         /\ \A i \in DOMAIN ss : Len(errq) + i \in DOMAIN errq' /\ errq'[Len(errq) + i] = ss[i]
         /\ \A i \in DOMAIN errq' : i \in DOMAIN errq \/ i - Len(errq) \in DOMAIN ss
         /\ \A s \in Session : Queued(s)' <=> Queued(s) \/ \E i \in DOMAIN ss : ss[i] = s
<1>1. /\ errq' \in Seq(Session) /\ Len(errq) \in Nat /\ Len(ss) \in Nat
      /\ Len(errq') = Len(errq) + Len(ss)
      /\ DOMAIN errq = 1..Len(errq) /\ DOMAIN ss = 1..Len(ss)
      /\ DOMAIN errq' = 1..Len(errq')
  OBVIOUS
<1>2. \A i \in DOMAIN errq : i \in DOMAIN errq' /\ errq'[i] = errq[i]
  BY <1>1
<1>3. \A i \in DOMAIN ss : Len(errq) + i \in DOMAIN errq' /\ errq'[Len(errq) + i] = ss[i]
  BY <1>1
<1>4. \A i \in DOMAIN errq' : i \in DOMAIN errq \/ i - Len(errq) \in DOMAIN ss
  BY <1>1
<1>5. \A i \in DOMAIN errq' \ DOMAIN errq : errq'[i] = ss[i - Len(errq)]
  BY <1>1
<1>6. \A s \in Session : Queued(s)' => Queued(s) \/ \E i \in DOMAIN ss : ss[i] = s
  BY <1>2, <1>4, <1>5 DEF Queued
<1>7. \A s \in Session : Queued(s) \/ (\E i \in DOMAIN ss : ss[i] = s) => Queued(s)'
  BY <1>2, <1>3 DEF Queued
<1> QED BY <1>1, <1>2, <1>3, <1>4, <1>6, <1>7

(* _error_dispatch for one session.                                        *)
LEMMA SchedErrorArrives ==
  ASSUME Scheduler, NEW x \in Session, ErrorArrives(x)
  PROVE  Scheduler'
<1>0. ScheduleTypes /\ ScheduleInv
  BY DEF Scheduler
<1>1. /\ phase = "idle" /\ Suspend /\ ans' = [ans EXCEPT ![x] = IF @ = "due" THEN "error" ELSE @]
      /\ IF wsess[x] = None THEN UNCHANGED errq ELSE errq' = errq \o <<x>>
      /\ UNCHANGED <<st, sic, slp, wake, wsess, forkq, timer, nses>>
  BY DEF ErrorArrives, Failed, slpVars, sesVars
<1>2. ans' \in [Session -> {"none", "due", "error"}]
  BY <1>0, <1>1 DEF ScheduleTypes
<1>3. /\ \A s \in Session \ {x} : ans'[s] = ans[s]
      /\ ans'[x] # "none" => ans[x] # "none"
  BY <1>0, <1>1 DEF ScheduleTypes
<1>4. /\ errq' \in Seq(Session)
      /\ \A s \in Session : Queued(s)' <=> Queued(s) \/ (s = x /\ wsess[x] # None)
  <2>1. CASE wsess[x] = None
    BY <1>0, <1>1, <2>1 DEF ScheduleTypes, Queued
  <2>2. CASE wsess[x] # None
    <3>0. <<x>> \in Seq(Session)
      OBVIOUS
    <3>1. PICK ss \in Seq(Session) : ss = <<x>>
      BY <3>0
    <3>2. DOMAIN ss = {1} /\ ss[1] = x
      BY <3>1
    <3>3. errq' = errq \o ss /\ errq \in Seq(Session)
      BY <1>0, <1>1, <2>2, <3>1 DEF ScheduleTypes
    <3>4. /\ errq' \in Seq(Session)
          /\ \A s \in Session : Queued(s)' <=> Queued(s) \/ \E i \in DOMAIN ss : ss[i] = s
      BY <3>3, QueueAppend
    <3> QED BY <2>2, <3>2, <3>4
  <2> QED BY <2>1, <2>2
<1>5. \A s \in Session : wsess[s] # None => ans[s] = "due" \/ Queued(s)
  BY <1>0 DEF ScheduleInv, SessionOK
<1>6. \A s \in Session : /\ Queued(s) => Queued(s)'
                         /\ Queued(s)' => Queued(s) \/ wsess[s] # None
                         /\ wsess[s] # None => ans'[s] = "due" \/ Queued(s)'
                         /\ ans'[s] # "none" => ans[s] # "none"
  BY <1>3, <1>4, <1>5
<1> QED BY <1>1, <1>2, <1>4, <1>6, SchedFailed

(* Every call to a service that goes down is queued once.                  *)
LEMMA AllCallsQueued ==
  ASSUME NEW S \in SUBSET Session, NEW ss \in SetToSeqs(S)
  PROVE  /\ ss \in Seq(Session)
         /\ \A i \in DOMAIN ss : ss[i] \in S
         /\ \A i, j \in DOMAIN ss : ss[i] = ss[j] => i = j
         /\ \A s \in S : \E i \in DOMAIN ss : ss[i] = s
<1>1. IsFiniteSet(S)
  <2>1. MaxSession \in Nat
    BY SkynetLuaAssumption
  <2>2. IsFiniteSet(Session)
    BY <2>1, FS_Interval DEF Session
  <2> QED BY <2>2, FS_Subset
<1>2. PICK n \in Nat : n = Cardinality(S)
  BY <1>1, FS_CardinalityType
<1>3. ss \in [1..n -> S] /\ \A i, j \in 1..n : i # j => ss[i] # ss[j]
  BY <1>2 DEF SetToSeqs
<1>4. DOMAIN ss = 1..n /\ ss \in Seq(Session)
  BY <1>3
<1>5. ss \in Injection(1..n, S)
  BY <1>3, Fun_IsInj
<1>6. Cardinality(1..n) = n /\ IsFiniteSet(1..n)
  BY FS_Interval
<1>7. ss \in Surjection(1..n, S)
  BY <1>1, <1>2, <1>5, <1>6, FS_Injection
<1>8. \A s \in S : \E i \in 1..n : ss[i] = s
  BY <1>7, Zenon DEF Surjection
<1> QED BY <1>3, <1>4, <1>8

(* _error_dispatch for a service.                                          *)
LEMMA SchedServiceDown ==
  ASSUME Scheduler, NEW p \in Peer, ServiceDown(p)
  PROVE  Scheduler'
<1>0. ScheduleTypes /\ ScheduleInv
  BY DEF Scheduler
<1>1. PICK S \in SUBSET Session : S = {s \in Session : wsess[s] = p}
  OBVIOUS
<1>2. PICK ss \in SetToSeqs(S) : errq' = errq \o ss
  BY <1>1 DEF ServiceDown, Failed
<1>3. /\ phase = "idle" /\ Suspend
      /\ ans' = [s \in Session |-> IF s \in S THEN "none" ELSE ans[s]]
      /\ UNCHANGED <<st, sic, slp, wake, wsess, forkq, timer, nses>>
  BY <1>1 DEF ServiceDown, slpVars, sesVars
<1>4. /\ ss \in Seq(Session)
      /\ \A i \in DOMAIN ss : ss[i] \in S
      /\ \A s \in S : \E i \in DOMAIN ss : ss[i] = s
  BY AllCallsQueued
<1>5. /\ errq' \in Seq(Session)
      /\ \A s \in Session : Queued(s)' <=> Queued(s) \/ \E i \in DOMAIN ss : ss[i] = s
  BY <1>0, <1>2, <1>4, QueueAppend DEF ScheduleTypes
<1>6. \A s \in Session : Queued(s)' <=> Queued(s) \/ s \in S
  BY <1>4, <1>5
<1>7. /\ ans' \in [Session -> {"none", "due", "error"}]
      /\ \A s \in Session : ans'[s] = IF s \in S THEN "none" ELSE ans[s]
  BY <1>0, <1>3 DEF ScheduleTypes
<1>8. \A s \in Session : wsess[s] # None => ans[s] = "due" \/ Queued(s)
  BY <1>0 DEF ScheduleInv, SessionOK
<1>9. \A s \in Session : /\ Queued(s) => Queued(s)'
                         /\ Queued(s)' => Queued(s) \/ wsess[s] # None
                         /\ wsess[s] # None => ans'[s] = "due" \/ Queued(s)'
                         /\ ans'[s] # "none" => ans[s] # "none"
  BY <1>1, <1>6, <1>7, <1>8, SkynetLuaAssumption
<1> QED BY <1>3, <1>5, <1>7, <1>9, SchedFailed

(* Nothing is left: at the start, and after skynet.exit.                   *)
LEMMA SchedEmpty ==
  ASSUME phase \in {"idle", "gone"}, cur = None, st = [c \in Co |-> "free"],
         sic = [s \in Session |-> None], wsess = [s \in Session |-> None],
         slp = [c \in Co |-> 0], wake = [c \in Co |-> 0], errq = <<>>, forkq = {},
         timer = {}, ans = [s \in Session |-> "none"], nses \in 0..MaxSession
  PROVE  Scheduler
<1>1. ScheduleTypes
  BY SkynetLuaAssumption DEF ScheduleTypes, State
<1>2. ScheduleInv
  BY SkynetLuaAssumption DEF ScheduleInv, CoroutineOK, SessionOK, ResumedOnce, Queued
<1> QED BY <1>1, <1>2 DEF Scheduler

LEMMA SchedInit == Init => Scheduler
BY SchedEmpty, SkynetLuaAssumption DEF Init

LEMMA SchedExit ==
  ASSUME Scheduler, NEW c \in Co, exit(c)
  PROVE  Scheduler'
<1>1. /\ phase' \in {"idle", "gone"} /\ cur' = None /\ st' = [d \in Co |-> "free"]
      /\ sic' = [s \in Session |-> None] /\ wsess' = [s \in Session |-> None]
      /\ slp' = [d \in Co |-> 0] /\ wake' = [d \in Co |-> 0] /\ errq' = <<>> /\ forkq' = {}
      /\ timer' = {} /\ ans' = [s \in Session |-> "none"] /\ nses' \in 0..MaxSession
  BY DEF exit, Scheduler, ScheduleTypes
<1>2. ScheduleTypes'
  BY <1>1, SkynetLuaAssumption DEF ScheduleTypes, State
<1>3. ScheduleInv'
  BY <1>1, SkynetLuaAssumption DEF ScheduleInv, CoroutineOK, SessionOK, ResumedOnce, Queued
<1> QED BY <1>2, <1>3 DEF Scheduler

(* skynet.wakeup notes a sleep that was begun.                             *)
LEMMA WokenType ==
  ASSUME Scheduler, NEW c \in Co \cup {None}
  PROVE  /\ Woken(wake, c) \in [Co -> 0..nses]
         /\ \A d \in Co : Woken(wake, c)[d] =
              IF d = c /\ slp[d] # 0 /\ wake[d] = 0 THEN slp[d] ELSE wake[d]
BY SkynetLuaAssumption DEF Scheduler, ScheduleTypes, Woken

(* The section is handed to a coroutine, or to nobody.                     *)
LEMMA HandOverType ==
  ASSUME Scheduler, tq \in Seq(Co), HandOver
  PROVE  wake' \in [Co -> 0..nses] /\ owner' \in Co \cup {None}
<1>1. owner' \in Co \cup {None}
  BY DEF HandOver
<1>2. PICK o \in Co \cup {None} : o = owner'
  BY <1>1
<1>3. wake' = Woken(wake, o)
  BY <1>2 DEF HandOver
<1> QED BY <1>1, <1>3, WokenType


(* The owner and the queue of the section.                                 *)
WaiterTypes == owner \in Co \cup {None} /\ tq \in Seq(Co)

LEMMA WaiterTypesStep == WaiterTypes /\ [Next]_vars => WaiterTypes'
<1> SUFFICES ASSUME WaiterTypes, [Next]_vars PROVE WaiterTypes'
  OBVIOUS
<1>1. ASSUME NEW c \in Co, Enter(c) PROVE WaiterTypes'
  <2>1. CASE owner \notin {None, c}
    BY <1>1, <2>1 DEF WaiterTypes, Enter
  <2>2. CASE owner \in {None, c}
    BY <1>1, <2>2 DEF WaiterTypes, Enter
  <2> QED BY <2>1, <2>2
<1>2. ASSUME HandOver PROVE WaiterTypes'
  BY <1>2 DEF WaiterTypes, HandOver
<1>3. ASSUME NEW c \in Co, Leave(c) \/ Fail(c) \/ exit(c) PROVE WaiterTypes'
  <2>1. CASE exit(c)
    BY <2>1 DEF exit, WaiterTypes
  <2>2. CASE Leave(c) \/ Fail(c)
    <3>1. HandOver \/ UNCHANGED <<owner, tq>>
      BY <2>2 DEF Leave, Fail
    <3> QED BY <1>2, <3>1 DEF WaiterTypes
  <2> QED BY <1>3, <2>1, <2>2
<1>4. ASSUME NEW c \in Co, Enters(c) PROVE WaiterTypes'
  BY <1>4 DEF Enters, WaiterTypes, csVars
<1>5. ASSUME UNCHANGED csVars PROVE WaiterTypes'
  BY <1>5 DEF csVars, WaiterTypes
<1>6. CASE Dispatch
  <2>1. (\E c \in Co : Enters(c)) \/ UNCHANGED csVars
    BY <1>6 DEF Dispatch, dispatch_wakeup, dispatch_error_queue, dispatch_fork, csVars, slpVars
  <2> QED BY <1>4, <1>5, <2>1
<1>7. ASSUME NEW c \in Co,
             \/ \E p \in Peer : call(c, p)
             \/ sleep(c) \/ wait(c) \/ Return(c)
             \/ \E d \in Co : wakeup(c, d) \/ fork(c, d) \/ timeout(c, d)
             \/ \E s \in Session : remove_timeout(c, s)
      PROVE  UNCHANGED csVars
  BY <1>7 DEF call, sleep, wait, Return, wakeup, fork, timeout, remove_timeout
<1>8. ASSUME NEW c \in Co,
             \/ \E r \in Request : ret(c, r) \/ response(c, r)
             \/ \E r \in Request, ok \in BOOLEAN : respond(c, r, ok)
      PROVE  UNCHANGED csVars
  BY <1>8 DEF ret, response, respond
<1>9. CASE \/ \E p \in Peer, ses \in 0..MaxRequest : Arrives(p, ses)
           \/ \E s \in Session : TimerFires(s) \/ ResponseArrives(s) \/ ErrorArrives(s)
           \/ \E p \in Peer : ServiceDown(p)
           \/ UNCHANGED vars
  <2>1. UNCHANGED csVars
    BY <1>9 DEF Arrives, Deliver, Undecodable, Unregistered, Undispatched, TimerFires, ResponseArrives,
                ErrorArrives, ServiceDown, vars, csVars
  <2> QED BY <1>5, <2>1
<1> QED BY <1>1, <1>3, <1>5, <1>6, <1>7, <1>8, <1>9 DEF Next, Program

(* Every step keeps sessions and coroutines matched.                       *)
LEMMA SchedProgram ==
  ASSUME Scheduler, WaiterTypes, NEW c \in Co, Program(c)
  PROVE  Scheduler'
<1>0. wake \in [Co -> 0..nses] /\ ScheduleTypes /\ WaiterTypes
  BY DEF Scheduler, ScheduleTypes
<1>1. CASE \E p \in Peer : call(c, p)
  BY <1>1, SchedCall
<1>2. CASE sleep(c)
  <2>1. /\ Running(c) /\ SuspendSleep(c, "sleep") /\ timer' = timer \cup {NewSession}
        /\ UNCHANGED <<wake, wsess, errq, forkq, ans>>
    BY <1>2 DEF sleep, peerVars
  <2> QED BY <2>1, SchedSleep
<1>3. CASE wait(c)
  <2>1. /\ Running(c) /\ SuspendSleep(c, "wait") /\ timer' = timer
        /\ UNCHANGED <<wake, wsess, errq, forkq, ans>>
    BY <1>3 DEF wait, peerVars
  <2> QED BY <2>1, SchedSleep
<1>4. CASE \E d \in Co : wakeup(c, d)
  <2>1. PICK d \in Co : wakeup(c, d)
    BY <1>4
  <2>2. wake' \in [Co -> 0..nses]
    BY <2>1, WokenType DEF wakeup
  <2>3. UNCHANGED <<phase, cur, st, sic, slp, wsess, errq, forkq, timer, ans, nses>>
    BY <2>1 DEF wakeup, ctlVars, sesVars, peerVars
  <2> QED BY <2>2, <2>3, SchedKeep
<1>5. CASE \E d \in Co : fork(c, d) \/ timeout(c, d)
  BY <1>5, SchedFork, SchedTimeout
<1>6. CASE \E s \in Session : remove_timeout(c, s)
  BY <1>6, SchedRemove
<1>7. ASSUME NEW r \in Request, ret(c, r) \/ response(c, r) PROVE Scheduler'
  <2>1. UNCHANGED <<sic, slp, wake, wsess, errq, forkq, timer, ans, nses>> /\ Running(c)
    BY <1>7 DEF ret, response, slpVars, sesVars, peerVars, Handles
  <2>2. wake' \in [Co -> 0..nses]
    BY <1>0, <2>1
  <2>3. CASE c \in resp
    <3>1. st' = [st EXCEPT ![c] = "stuck"] /\ phase' = "fork" /\ cur' = None
      BY <1>7, <2>3 DEF ret, response, Stuck, Unwind
    <3> QED BY <2>1, <2>2, <3>1, SchedEnd
  <2>4. CASE c \notin resp
    <3>1. UNCHANGED <<phase, cur, st>>
      BY <1>7, <2>4 DEF ret, response, ctlVars
    <3> QED BY <2>1, <2>2, <3>1, SchedKeep
  <2> QED BY <2>3, <2>4
<1>8. CASE \E r \in Request, ok \in BOOLEAN : respond(c, r, ok)
  <2>1. UNCHANGED <<phase, cur, st, sic, slp, wake, wsess, errq, forkq, timer, ans, nses>>
    BY <1>8 DEF respond, ctlVars, slpVars, sesVars, peerVars
  <2>2. wake' \in [Co -> 0..nses]
    BY <1>0, <2>1
  <2> QED BY <2>1, <2>2, SchedKeep
<1>9. CASE Enter(c)
  <2>0. Running(c) /\ timer' = timer /\ UNCHANGED <<wake, wsess, errq, forkq, ans>>
    BY <1>9 DEF Enter, peerVars
  <2>1. CASE owner \notin {None, c}
    <3>1. SuspendSleep(c, "enter")
      BY <1>9, <2>1 DEF Enter
    <3> QED BY <2>0, <3>1, SchedSleep
  <2>2. CASE owner \in {None, c}
    <3>1. UNCHANGED <<phase, cur, st, sic, slp, nses>>
      BY <1>9, <2>2 DEF Enter, ctlVars
    <3>2. wake' \in [Co -> 0..nses]
      BY <1>0, <2>0
    <3> QED BY <2>0, <3>1, <3>2, SchedKeep
  <2> QED BY <2>1, <2>2
<1>10. CASE Leave(c)
  <2>1. UNCHANGED <<phase, cur, st, sic, slp, wsess, errq, forkq, timer, ans, nses>>
    BY <1>10 DEF Leave, ctlVars, sesVars, peerVars
  <2>2. HandOver \/ UNCHANGED wake
    BY <1>10 DEF Leave
  <2>3. wake' \in [Co -> 0..nses]
    BY <1>0, <2>2, HandOverType DEF WaiterTypes
  <2> QED BY <2>1, <2>3, SchedKeep
<1>11. CASE Return(c)
  <2>1. /\ UNCHANGED <<sic, slp, wake, wsess, errq, forkq, timer, ans, nses>> /\ Running(c)
        /\ st' = [st EXCEPT ![c] = "free"] /\ phase' = "wake" /\ cur' = None
    BY <1>11 DEF Return, slpVars, sesVars, peerVars, Suspend
  <2>2. wake' \in [Co -> 0..nses]
    BY <1>0, <2>1
  <2> QED BY <2>1, <2>2, SchedEnd
<1>12. CASE Fail(c)
  <2>1. /\ UNCHANGED <<sic, slp, wsess, errq, forkq, timer, ans, nses>> /\ Running(c)
        /\ st' = [st EXCEPT ![c] = "dead"] /\ phase' = "fork" /\ cur' = None
    BY <1>12 DEF Fail, sesVars, peerVars, Unwind
  <2>2. HandOver \/ UNCHANGED wake
    BY <1>12 DEF Fail
  <2>3. wake' \in [Co -> 0..nses]
    BY <1>0, <2>2, HandOverType DEF WaiterTypes
  <2> QED BY <2>1, <2>3, SchedEnd
<1> QED BY <1>1, <1>2, <1>3, <1>4, <1>5, <1>6, <1>7, <1>8, <1>9, <1>10, <1>11, <1>12,
           SchedExit DEF Program

LEMMA SchedStep == Scheduler /\ WaiterTypes /\ [Next]_vars => Scheduler'
<1> SUFFICES ASSUME Scheduler, WaiterTypes, [Next]_vars PROVE Scheduler'
  OBVIOUS
<1>0. wake \in [Co -> 0..nses] /\ ScheduleTypes
  BY DEF Scheduler, ScheduleTypes
<1>1. CASE dispatch_fork
  <2>1. phase = "fork" /\ UNCHANGED <<sic, slp, wake, wsess, errq, timer, ans, nses>>
    BY <1>1 DEF dispatch_fork, slpVars, sesVars, peerVars
  <2>2. CASE forkq = {}
    <3>1. phase' = "idle" /\ UNCHANGED <<cur, st, forkq>> /\ wake' \in [Co -> 0..nses]
      BY <1>0, <1>1, <2>1, <2>2 DEF dispatch_fork
    <3> QED BY <2>1, <3>1, SchedKeep
  <2>3. CASE forkq # {}
    <3>1. PICK c \in forkq : /\ forkq' = forkq \ {c} /\ st' = [st EXCEPT ![c] = "run"]
                             /\ Resume(c)
      BY <1>1, <2>3 DEF dispatch_fork
    <3>2. c \in Co
      BY <1>0 DEF ScheduleTypes
    <3> QED BY <2>1, <3>1, <3>2, SchedStart
  <2> QED BY <2>2, <2>3
<1>2. CASE Dispatch
  BY <1>1, <1>2, SchedWakeup, SchedErrorQueue DEF Dispatch
<1>3. ASSUME NEW p \in Peer, NEW n \in 0..MaxRequest, Arrives(p, n) PROVE Scheduler'
  <2>1. ASSUME NEW c \in Co, Deliver(p, c, n) PROVE Scheduler'
    <3>1. /\ phase = "idle" /\ st[c] = "free" /\ st' = [st EXCEPT ![c] = "run"] /\ Resume(c)
          /\ UNCHANGED <<sic, slp, wake, wsess, errq, forkq, timer, ans, nses>>
      BY <2>1 DEF Deliver, Message, Free, slpVars, sesVars, peerVars
    <3>2. forkq' = forkq \ {c}
      BY <3>1, WaitsForNothing
    <3> QED BY <3>1, <3>2, SchedStart
  <2>2. ASSUME NEW c \in Co, Undecodable(p, c, n) PROVE Scheduler'
    <3>1. /\ phase = "idle" /\ st[c] = "free" /\ st' = [st EXCEPT ![c] = "stuck"]
          /\ phase' = "fork" /\ cur' = None
          /\ UNCHANGED <<sic, slp, wake, wsess, errq, forkq, timer, ans, nses>>
      BY <2>2 DEF Undecodable, Message, Free, Unwind, slpVars, sesVars, peerVars
    <3> QED BY <3>1, SchedLost
  <2>3. CASE Unregistered(p, n) \/ Undispatched(p, n)
    <3>1. /\ phase = "idle" /\ phase' = "fork" /\ cur' = None
          /\ UNCHANGED <<st, sic, slp, wake, wsess, errq, forkq, timer, ans, nses>>
      BY <2>3 DEF Unregistered, Undispatched, Message, Unwind, slpVars, sesVars, peerVars
    <3>2. UNCHANGED cur /\ wake' \in [Co -> 0..nses]
      BY <1>0, <3>1 DEF ScheduleTypes
    <3> QED BY <3>1, <3>2, SchedKeep
  <2> QED BY <1>3, <2>1, <2>2, <2>3 DEF Arrives
<1>4. ASSUME NEW s \in Session, TimerFires(s) \/ ResponseArrives(s) \/ ErrorArrives(s)
      PROVE  Scheduler'
  BY <1>4, SchedRespond, SchedErrorArrives
<1>5. CASE UNCHANGED vars
  <2>1. /\ UNCHANGED <<phase, cur, st, sic, slp, wsess, errq, forkq, timer, ans, nses>>
        /\ wake' \in [Co -> 0..nses]
    BY <1>0, <1>5 DEF vars
  <2> QED BY <2>1, SchedKeep
<1> QED BY <1>2, <1>3, <1>4, <1>5, SchedProgram, SchedServiceDown DEF Next

-----------------------------------------------------------------------------
(* Both queues are served to the end, while nothing fails.                 *)

(* Only a step that counts an error raises one.                            *)
LEMMA ErrorsCounted ==
  ASSUME nerr \in Nat, [Next]_vars
  PROVE  /\ nerr' \in Nat
         /\ nerr' = 0 => /\ nerr = 0
                         /\ \A c \in Co : ~Fail(c)
                         /\ \A c \in Co, r \in Request : ret(c, r) \/ response(c, r) => c \notin resp
                         /\ \A p \in Peer, c \in Co, n \in 0..MaxRequest : ~Undecodable(p, c, n)
<1>5. \A p \in Peer, c \in Co, n \in 0..MaxRequest : Undecodable(p, c, n) => nerr' = nerr + 1
  BY DEF Undecodable
<1>1. CASE \E c \in Co : Program(c)
  <2>1. PICK c \in Co : Program(c)
    BY <1>1
  <2>2. nerr' = nerr \/ nerr' = nerr + 1
    BY <2>1 DEF Program, call, sleep, wait, wakeup, fork, timeout, remove_timeout, ret, response,
                respond, Enter, Leave, Return, Fail, exit, Stuck
  <2>3. \A d \in Co : Fail(d) => nerr' = nerr + 1
    BY DEF Fail
  <2>4. \A d \in Co, r \in Request : (ret(d, r) \/ response(d, r)) /\ d \in resp => nerr' = nerr + 1
    BY DEF ret, response, Stuck
  <2> QED BY <1>5, <2>2, <2>3, <2>4
<1>2. ASSUME ~ \E c \in Co : Program(c) PROVE nerr' = nerr \/ nerr' = nerr + 1
  BY <1>2 DEF Next, Dispatch, dispatch_wakeup, dispatch_error_queue, dispatch_fork,
     Arrives, Deliver, Undecodable, Unregistered, Undispatched, TimerFires, ResponseArrives,
     ErrorArrives, ServiceDown, vars
<1>3. \A c \in Co : Fail(c) => Program(c)
  BY DEF Program
<1>4. \A c \in Co, r \in Request : ret(c, r) \/ response(c, r) => Program(c)
  BY DEF Program
<1> QED BY <1>1, <1>2, <1>3, <1>4, <1>5

(* Steps of a coroutine: it goes on, or gives up control.                  *)
LEMMA QuietRun ==
  ASSUME Scheduler, QuietInv, nerr = 0, phase' \in {"run", "wake", "gone"}, UNCHANGED errq,
         \A c \in Co : wake'[c] # 0 => slp'[c] # 0,
         \A s \in Session : wsess[s] # None => wsess'[s] # None
  PROVE  QuietInv'
<1>1. errq \in Seq(Session)
  BY DEF Scheduler, ScheduleTypes
<1> QED BY <1>1 DEF QuietInv

(* Between two messages nothing is queued.                                 *)
LEMMA QuietIdle ==
  ASSUME Scheduler, QuietInv, nerr = 0, phase = "idle", UNCHANGED wake,
         errq' \in Seq(Session), phase' \in {"idle", "fork"} => errq' = <<>>,
         \A i, j \in DOMAIN errq' : errq'[i] = errq'[j] => i = j,
         \A i \in DOMAIN errq' : wsess'[errq'[i]] # None
  PROVE  QuietInv'
BY DEF QuietInv

LEMMA QuietProgram ==
  ASSUME Scheduler, WaiterTypes, QuietInv, nerr = 0, NEW c \in Co, Program(c), ~Fail(c),
         \A r \in Request : ret(c, r) \/ response(c, r) => c \notin resp
  PROVE  QuietInv'
<1>0. /\ ScheduleTypes /\ \A d \in Co : wake[d] # 0 => slp[d] # 0
      /\ WaiterTypes
  BY DEF Scheduler, QuietInv
<1>1. CASE \E p \in Peer : call(c, p)
  <2>1. PICK p \in Peer : call(c, p)
    BY <1>1
  <2>2. PICK n \in Session : n = NewSession /\ Fresh(n)
    BY <2>1, FreshSession DEF call
  <2>3. /\ phase' = "wake" /\ UNCHANGED <<slp, wake, errq>>
        /\ wsess' = [wsess EXCEPT ![n] = p]
    BY <2>1, <2>2 DEF call, Suspend, slpVars
  <2>4. \A s \in Session : wsess[s] # None => wsess'[s] # None
    BY <1>0, <2>2, <2>3 DEF ScheduleTypes, Fresh
  <2> QED BY <1>0, <2>3, <2>4, QuietRun
<1>2. ASSUME NEW what, SuspendSleep(c, what), UNCHANGED <<wake, wsess, errq>> PROVE QuietInv'
  <2>1. PICK n \in Session : n = NewSession /\ Fresh(n)
    BY <1>2, FreshSession DEF SuspendSleep
  <2>2. /\ phase' = "wake" /\ slp' = [slp EXCEPT ![c] = n] /\ n # 0
    BY <1>2, <2>1 DEF SuspendSleep, Suspend, Fresh
  <2>3. \A d \in Co : wake'[d] # 0 => slp'[d] # 0
    BY <1>0, <1>2, <2>2 DEF ScheduleTypes
  <2> QED BY <1>2, <2>2, <2>3, QuietRun
<1>3. CASE sleep(c) \/ wait(c)
  BY <1>2, <1>3 DEF sleep, wait
<1>4. CASE \E d \in Co : wakeup(c, d)
  <2>1. PICK d \in Co : wakeup(c, d)
    BY <1>4
  <2>2. \A e \in Co : wake'[e] # 0 => slp'[e] # 0
    BY <1>0, <2>1, WokenType DEF wakeup
  <2>3. phase' = "run" /\ UNCHANGED <<wsess, errq>>
    BY <2>1 DEF wakeup, ctlVars, Running, sesVars
  <2> QED BY <2>2, <2>3, QuietRun
<1>5. ASSUME phase' \in {"run", "wake"}, UNCHANGED <<slp, wake, wsess, errq>> PROVE QuietInv'
  BY <1>0, <1>5, QuietRun
<1>6. CASE \E d \in Co : fork(c, d) \/ timeout(c, d)
  BY <1>5, <1>6 DEF fork, timeout, ctlVars, slpVars, sesVars, Running
<1>7. CASE \E s \in Session : remove_timeout(c, s)
  BY <1>5, <1>7 DEF remove_timeout, ctlVars, slpVars, sesVars, Running
<1>8. CASE \E r \in Request : ret(c, r) \/ response(c, r)
  <2>1. phase' = "run" /\ UNCHANGED <<slp, wake, wsess, errq>>
    BY <1>8 DEF ret, response, Handles, Running, ctlVars, slpVars, sesVars
  <2> QED BY <1>5, <2>1
<1>9. CASE \E r \in Request, ok \in BOOLEAN : respond(c, r, ok)
  BY <1>5, <1>9 DEF respond, ctlVars, slpVars, sesVars, Running
<1>10. CASE Enter(c)
  <2>0. Running(c) /\ UNCHANGED <<wake, wsess, errq>>
    BY <1>10 DEF Enter
  <2>1. CASE owner \notin {None, c}
    BY <1>2, <1>10, <2>0, <2>1 DEF Enter
  <2>2. CASE owner \in {None, c}
    BY <1>5, <1>10, <2>0, <2>2 DEF Enter, ctlVars, Running
  <2> QED BY <2>1, <2>2
<1>11. CASE Leave(c)
  <2>1. phase' = "run" /\ UNCHANGED <<slp, wsess, errq>>
    BY <1>11 DEF Leave, Running, ctlVars, sesVars
  <2>2. CASE UNCHANGED wake
    BY <1>5, <2>1, <2>2
  <2>3. CASE HandOver
    <3>1. PICK o \in Co \cup {None} : o = owner'
      BY <1>0, <2>3, HandOverType DEF WaiterTypes
    <3>2. wake' = Woken(wake, o)
      BY <2>3, <3>1 DEF HandOver
    <3>3. \A d \in Co : wake'[d] # 0 => slp'[d] # 0
      BY <1>0, <2>1, <3>2, WokenType
    <3> QED BY <2>1, <3>3, QuietRun
  <2> QED BY <1>11, <2>2, <2>3 DEF Leave
<1>12. CASE Return(c)
  BY <1>5, <1>12 DEF Return, Suspend, slpVars, sesVars
<1>13. CASE exit(c)
  BY <1>13 DEF exit, QuietInv
<1> QED BY <1>1, <1>3, <1>4, <1>6, <1>7, <1>8, <1>9, <1>10, <1>11, <1>12, <1>13 DEF Program


LEMMA QuietDispatch ==
  ASSUME Scheduler, QuietInv, nerr = 0, Dispatch
  PROVE  QuietInv'
<1>0. /\ ScheduleTypes /\ ScheduleInv
      /\ \A d \in Co : wake[d] # 0 => slp[d] # 0
      /\ \A i, j \in DOMAIN errq : errq[i] = errq[j] => i = j
      /\ \A i \in DOMAIN errq : wsess[errq[i]] # None
      /\ phase \in {"error", "fork", "idle"} => \A c \in Co : wake[c] = 0
      /\ phase \in {"fork", "idle"} => errq = <<>>
  BY DEF Scheduler, QuietInv
<1>1. CASE dispatch_wakeup
  <2>0. phase = "wake" /\ UNCHANGED <<wsess, errq>>
    BY <1>1 DEF dispatch_wakeup
  <2>1. CASE \A c \in Co : wake[c] = 0
    <3>1. phase' = "error" /\ UNCHANGED <<slp, wake>>
      BY <1>1, <2>1 DEF dispatch_wakeup, slpVars
    <3> QED BY <1>0, <2>0, <2>1, <3>1 DEF QuietInv
  <2>2. CASE ~ \A c \in Co : wake[c] = 0
    <3>1. PICK c \in Co : /\ wake[c] # 0 /\ wake' = [wake EXCEPT ![c] = 0]
                          /\ slp[c] # 0 => slp' = [slp EXCEPT ![c] = 0] /\ phase' = "run"
      BY <1>1, <2>2 DEF dispatch_wakeup, Resume
    <3>2. slp' = [slp EXCEPT ![c] = 0] /\ phase' = "run"
      BY <1>0, <3>1
    <3>3. \A d \in Co : wake'[d] # 0 => slp'[d] # 0
      BY <1>0, <3>1, <3>2 DEF ScheduleTypes
    <3> QED BY <2>0, <3>2, <3>3, QuietRun
  <2> QED BY <2>1, <2>2
<1>2. CASE dispatch_error_queue
  <2>0. phase = "error" /\ UNCHANGED <<slp, wake>>
    BY <1>2 DEF dispatch_error_queue, slpVars
  <2>1. CASE errq = <<>>
    <3>1. phase' = "fork" /\ UNCHANGED <<wsess, errq>>
      BY <1>2, <2>1 DEF dispatch_error_queue, sesVars
    <3> QED BY <1>0, <2>0, <2>1, <3>1 DEF QuietInv
  <2>2. CASE errq # <<>>
    <3>1. PICK x \in Session : x = Head(errq)
      BY <1>0, <2>2 DEF ScheduleTypes
    <3>2. /\ errq' = Tail(errq) /\ wsess' = [wsess EXCEPT ![x] = None]
          /\ sic[x] # None => phase' = "run"
      BY <1>2, <2>2, <3>1 DEF dispatch_error_queue, Resume
    <3>3. /\ Len(errq) \in Nat /\ Len(errq) > 0 /\ DOMAIN errq = 1..Len(errq)
          /\ DOMAIN errq' = 1..Len(errq')
          /\ \A i \in DOMAIN errq' : errq'[i] = errq[i + 1] /\ i + 1 \in DOMAIN errq
      BY <1>0, <2>2, <3>1, <3>2, QueueTail DEF ScheduleTypes
    <3>4. 1 \in DOMAIN errq /\ errq[1] = x
      BY <1>0, <2>2, <3>1, <3>3 DEF ScheduleTypes
    <3>5. wsess[x] # None /\ SessionOK(x)
      BY <1>0, <3>4 DEF ScheduleInv
    <3>6. phase' = "run"
      BY <3>2, <3>5, SkynetLuaAssumption DEF SessionOK
    <3>7. \A i \in DOMAIN errq' : i \in Nat /\ i >= 1 /\ i + 1 # 1
      BY <1>0, <2>2, <3>2 DEF ScheduleTypes
    <3>8. \A i, j \in DOMAIN errq' : errq'[i] = errq'[j] => i = j
      BY <1>0, <3>3, <3>7
    <3>9. \A i \in DOMAIN errq' : errq'[i] # x /\ errq'[i] \in Session /\ wsess[errq'[i]] # None
      <4>1. \A i \in DOMAIN errq : errq[i] \in Session
        BY <1>0 DEF ScheduleTypes
      <4> QED BY <1>0, <3>3, <3>4, <3>7, <4>1
    <3>10. \A i \in DOMAIN errq' : wsess'[errq'[i]] # None
      BY <1>0, <3>2, <3>9 DEF ScheduleTypes
    <3> QED BY <1>0, <2>0, <3>6, <3>8, <3>10 DEF QuietInv
  <2> QED BY <2>1, <2>2
<1>3. CASE dispatch_fork
  <2>1. /\ phase = "fork" /\ phase' \in {"idle", "run"}
        /\ UNCHANGED <<slp, wake, wsess, errq>>
    BY <1>3 DEF dispatch_fork, Resume, slpVars, sesVars
  <2> QED BY <1>0, <2>1 DEF QuietInv
<1> QED BY <1>1, <1>2, <1>3 DEF Dispatch

LEMMA QuietMessage ==
  ASSUME Scheduler, QuietInv, nerr = 0,
         \/ \E p \in Peer, n \in 0..MaxRequest : Arrives(p, n)
         \/ \E s \in Session : TimerFires(s) \/ ResponseArrives(s) \/ ErrorArrives(s)
         \/ \E p \in Peer : ServiceDown(p),
         \A p \in Peer, c \in Co, n \in 0..MaxRequest : ~Undecodable(p, c, n)
  PROVE  QuietInv'
<1>0. ScheduleTypes /\ (phase = "idle" => errq = <<>>)
  BY DEF Scheduler, QuietInv
<1>1. ASSUME phase = "idle", UNCHANGED <<wake, errq>> PROVE QuietInv'
  <2>1. errq' = <<>> /\ errq' \in Seq(Session)
    BY <1>0, <1>1
  <2> QED BY <1>1, <2>1, QuietIdle
<1>2. CASE \E p \in Peer, n \in 0..MaxRequest : Arrives(p, n)
  BY <1>1, <1>2 DEF Arrives, Deliver, Unregistered, Undispatched, Message, slpVars
<1>3. CASE \E s \in Session : TimerFires(s) \/ ResponseArrives(s)
  BY <1>1, <1>3 DEF TimerFires, ResponseArrives, Respond, Resume, Suspend, ctlVars
<1>4. ASSUME phase = "idle", phase' = "wake", UNCHANGED <<wake, wsess>>,
             NEW ss \in Seq(Session), errq' = errq \o ss,
             \A i, j \in DOMAIN ss : ss[i] = ss[j] => i = j,
             \A i \in DOMAIN ss : wsess[ss[i]] # None
      PROVE  QuietInv'
  <2>1. errq' = ss
    BY <1>0, <1>4
  <2> QED BY <1>4, <2>1, QuietIdle
<1>5. ASSUME NEW x \in Session, ErrorArrives(x) PROVE QuietInv'
  <2>1. phase = "idle" /\ phase' = "wake" /\ UNCHANGED <<wake, wsess>>
    BY <1>5 DEF ErrorArrives, Suspend, slpVars, sesVars
  <2>2. CASE wsess[x] = None
    <3>1. UNCHANGED errq
      BY <1>5, <2>2 DEF ErrorArrives
    <3> QED BY <1>1, <2>1, <3>1
  <2>3. CASE wsess[x] # None
    <3>1. errq' = errq \o <<x>>
      BY <1>5, <2>3 DEF ErrorArrives, Failed
    <3>2. <<x>> \in Seq(Session) /\ DOMAIN <<x>> = {1} /\ <<x>>[1] = x
      OBVIOUS
    <3> QED BY <1>4, <2>1, <2>3, <3>1, <3>2
  <2> QED BY <2>2, <2>3
<1>6. ASSUME NEW p \in Peer, ServiceDown(p) PROVE QuietInv'
  <2>1. phase = "idle" /\ phase' = "wake" /\ UNCHANGED <<wake, wsess>>
    BY <1>6 DEF ServiceDown, Suspend, slpVars, sesVars
  <2>2. PICK S \in SUBSET Session : S = {s \in Session : wsess[s] = p}
    OBVIOUS
  <2>3. PICK ss \in SetToSeqs(S) : errq' = errq \o ss
    BY <1>6, <2>2 DEF ServiceDown, Failed
  <2>4. /\ ss \in Seq(Session)
        /\ \A i \in DOMAIN ss : ss[i] \in S
        /\ \A i, j \in DOMAIN ss : ss[i] = ss[j] => i = j
    BY AllCallsQueued
  <2>5. \A i \in DOMAIN ss : wsess[ss[i]] # None
    BY <2>2, <2>4, SkynetLuaAssumption
  <2> QED BY <1>4, <2>1, <2>3, <2>4, <2>5
<1> QED BY <1>2, <1>3, <1>5, <1>6

LEMMA QuietStep ==
  Scheduler /\ WaiterTypes /\ QuietInv /\ nerr \in Nat /\ [Next]_vars => QuietInv' /\ nerr' \in Nat
<1> SUFFICES ASSUME Scheduler, WaiterTypes, QuietInv, nerr \in Nat, [Next]_vars
             PROVE  QuietInv' /\ nerr' \in Nat
  OBVIOUS
<1>1. nerr' \in Nat
  BY ErrorsCounted
<1>2. CASE nerr' # 0
  BY <1>1, <1>2 DEF QuietInv
<1>3. CASE nerr' = 0
  <2>1. /\ nerr = 0 /\ \A c \in Co : ~Fail(c)
        /\ \A c \in Co, r \in Request : ret(c, r) \/ response(c, r) => c \notin resp
        /\ \A p \in Peer, c \in Co, n \in 0..MaxRequest : ~Undecodable(p, c, n)
    BY <1>3, ErrorsCounted
  <2>2. CASE \E c \in Co : Program(c)
    <3>1. PICK c \in Co : Program(c)
      BY <2>2
    <3>2. ~Fail(c) /\ \A r \in Request : ret(c, r) \/ response(c, r) => c \notin resp
      BY <2>1
    <3> QED BY <1>1, <2>1, <3>1, <3>2, QuietProgram
  <2>3. CASE UNCHANGED vars
    BY <2>3 DEF vars, QuietInv
  <2> QED BY <1>1, <2>1, <2>2, <2>3, QuietDispatch, QuietMessage DEF Next
<1> QED BY <1>1, <1>2, <1>3


-----------------------------------------------------------------------------
(* Who waits for the section: what the proof of a step rests on.           *)
WaitHyp == Scheduler /\ WaiterTypes /\ SectionInv /\ WaitInv

LEMMA WaitFacts ==
  ASSUME WaitHyp
  PROVE  /\ ScheduleTypes /\ ScheduleInv /\ owner \in Co \cup {None} /\ tq \in Seq(Co)
         /\ depth \in [Co -> Nat] /\ ref \in Nat
         /\ \A c \in Co : depth[c] > 0 => owner = c /\ ref = depth[c]
         /\ (\A c \in Co : depth[c] = 0) => ref = 0
         /\ WaitOutside /\ (stale \/ WaitBody)
BY DEF WaitHyp, Scheduler, WaiterTypes, SectionInv, SectionIsCounted, WaitInv

(* Steps that leave the section and those who wait for it alone.           *)
LEMMA WaitKeep ==
  ASSUME WaitHyp, UNCHANGED <<owner, tq, depth>>, stale => stale',
         \A c \in Co : Waiting(c)' <=> Waiting(c),
         \A c \in Co : Waiting(c) => wake'[c] = wake[c] /\ slp'[c] = slp[c]
  PROVE  WaitInv'
<1>1. /\ owner \in Co \cup {None} /\ tq \in Seq(Co) /\ WaitOutside /\ (stale \/ WaitBody)
      /\ \A i \in DOMAIN tq : tq[i] \in Co
  BY WaitFacts
<1>2. WaitOutside'
  BY <1>1 DEF WaitOutside
<1>3. WaitBody => WaitBody'
  BY <1>1 DEF WaitBody
<1> QED BY <1>1, <1>2, <1>3 DEF WaitInv

(* A coroutine that finds the section taken waits in its queue.            *)
LEMMA WaitEnterTaken ==
  ASSUME WaitHyp, NEW c \in Co, Enter(c), owner \notin {None, c}
  PROVE  WaitInv'
<1>0. /\ ScheduleTypes /\ owner \in Co \cup {None} /\ tq \in Seq(Co)
      /\ WaitOutside /\ (stale \/ WaitBody) /\ depth \in [Co -> Nat]
      /\ \A d \in Co : depth[d] > 0 => owner = d
  BY WaitFacts
<1>1. PICK n \in Session : n = NewSession /\ Fresh(n)
  BY FreshSession DEF Enter, SuspendSleep, WaitHyp
<1>2. /\ slp' = [slp EXCEPT ![c] = n] /\ st' = [st EXCEPT ![c] = "enter"] /\ tq' = Append(tq, c)
      /\ UNCHANGED <<owner, depth, wake, stale>> /\ Running(c) /\ depth[c] < MaxDepth
  BY <1>1 DEF Enter, SuspendSleep
<1>3. st[c] = "run"
  BY <1>2, RunningCo DEF WaitHyp
<1>4. depth[c] = 0 /\ MaxDepth > 0
  BY <1>0, <1>2, SkynetLuaAssumption
<1>5. /\ \A d \in Co : Waiting(d)' <=> Waiting(d) \/ d = c
      /\ \A d \in Co \ {c} : slp'[d] = slp[d]
      /\ slp'[c] = n /\ ~Waiting(c)
  BY <1>0, <1>2, <1>3 DEF ScheduleTypes, Waiting
<1>6. WaitOutside'
  BY <1>0, <1>2, <1>4, <1>5 DEF WaitOutside
<1>7. wake[c] # n
  BY <1>0, <1>1 DEF ScheduleTypes, Fresh
<1>8. /\ Len(tq) \in Nat /\ DOMAIN tq = 1..Len(tq) /\ DOMAIN tq' = 1..(Len(tq) + 1)
      /\ \A i \in DOMAIN tq : tq'[i] = tq[i] /\ tq[i] \in Co
      /\ tq'[Len(tq) + 1] = c /\ Len(tq') = Len(tq) + 1
  BY <1>0, <1>2
<1>9. ASSUME WaitBody PROVE WaitBody'
  <2>1. \A i \in DOMAIN tq : tq[i] # c
    BY <1>5, <1>9 DEF WaitBody
  <2>2. \A i \in DOMAIN tq' : i \in DOMAIN tq \/ i = Len(tq) + 1
    BY <1>8
  <2>3. \A i \in DOMAIN tq' : Waiting(tq[i])' /\ tq'[i] # owner'
    BY <1>2, <1>5, <1>8, <1>9, <2>2 DEF WaitBody
  <2>4. \A i, j \in DOMAIN tq' : tq'[i] = tq'[j] => i = j
    BY <1>8, <1>9, <2>1, <2>2 DEF WaitBody
  <2>5. \A d \in Co : Waiting(d)' /\ d # owner' => Contains(tq, d) \/ d = c
    BY <1>2, <1>5, <1>9 DEF WaitBody
  <2>6. \A d \in Co : Contains(tq, d) \/ d = c => Contains(tq, d)'
    BY <1>8 DEF Contains
  <2>7. \A d \in Co : Waiting(d)' /\ wake'[d] = slp'[d] => d = owner'
    BY <1>2, <1>5, <1>7, <1>9 DEF WaitBody
  <2>8. owner' # None => depth'[owner'] > 0 \/ (Waiting(owner)' /\ wake'[owner'] # 0)
    BY <1>0, <1>2, <1>5, <1>9 DEF WaitBody
  <2> QED BY <1>2, <2>3, <2>4, <2>5, <2>6, <2>7, <2>8 DEF WaitBody
<1> QED BY <1>0, <1>2, <1>6, <1>9 DEF WaitInv

(* One that finds it free, or owns it, takes it.                           *)
LEMMA WaitEnterFree ==
  ASSUME WaitHyp, NEW c \in Co, Enter(c), owner \in {None, c}
  PROVE  WaitInv'
<1>0. /\ ScheduleTypes /\ tq \in Seq(Co)
      /\ WaitOutside /\ (stale \/ WaitBody) /\ depth \in [Co -> Nat]
  BY WaitFacts
<1>1. /\ owner' = c /\ depth' = [depth EXCEPT ![c] = @ + 1] /\ Running(c)
      /\ UNCHANGED <<st, slp, wake, tq, stale>>
  BY DEF Enter
<1>2. st[c] = "run"
  BY <1>1, RunningCo DEF WaitHyp
<1>3. /\ \A d \in Co : Waiting(d)' <=> Waiting(d)
      /\ ~Waiting(c) /\ depth'[c] > 0
      /\ \A d \in Co \ {c} : depth'[d] = depth[d]
  BY <1>0, <1>1, <1>2 DEF Waiting
<1>4. WaitOutside'
  BY <1>0, <1>3 DEF WaitOutside
<1>5. ASSUME WaitBody PROVE WaitBody'
  <2>1. \A i \in DOMAIN tq : tq[i] \in Co
    BY <1>0
  <2>2. CASE owner = c
    BY <1>1, <1>3, <1>5, <2>1, <2>2, SkynetLuaAssumption DEF WaitBody
  <2>3. CASE owner = None
    <3>1. tq = <<>> /\ DOMAIN tq = {} /\ \A d \in Co : ~Contains(tq, d)
      BY <1>5, <2>3 DEF WaitBody, Contains
    <3>2. \A d \in Co : ~Waiting(d)
      BY <1>5, <2>3, <3>1, SkynetLuaAssumption DEF WaitBody
    <3> QED BY <1>1, <1>3, <3>1, <3>2, SkynetLuaAssumption DEF WaitBody
  <2> QED BY <2>2, <2>3
<1> QED BY <1>0, <1>1, <1>4, <1>5 DEF WaitInv


(* The holder leaves, and the section goes to the first that waits.        *)
LEMMA WaitHandOver ==
  ASSUME WaitHyp, NEW c \in Co, Running(c), owner = c, HandOver,
         UNCHANGED <<slp, stale>>, \A d \in Co \ {c} : depth'[d] = depth[d],
         \A d \in Co : Waiting(d)' <=> Waiting(d)
  PROVE  WaitInv'
<1>0. /\ Scheduler /\ ScheduleTypes /\ ScheduleInv /\ tq \in Seq(Co)
      /\ WaitOutside /\ (stale \/ WaitBody)
  BY WaitFacts DEF WaitHyp
<1>1. ~Waiting(c)
  BY <1>0, RunningCo DEF Waiting
<1>2. WaitOutside'
  BY <1>0, <1>1 DEF WaitOutside
<1>3. ASSUME WaitBody PROVE WaitBody'
  <2>0. DOMAIN tq = 1..Len(tq) /\ Len(tq) \in Nat /\ \A i \in DOMAIN tq : tq[i] \in Co
    BY <1>0
  <2>1. CASE tq = <<>>
    <3>1. owner' = None /\ tq' = <<>> /\ DOMAIN tq' = {}
      BY <2>1 DEF HandOver
    <3>2. \A d \in Co : ~Contains(tq, d)
      BY <2>1 DEF Contains
    <3>3. \A d \in Co : ~Waiting(d)
      BY <1>1, <1>3, <3>2 DEF WaitBody
    <3> QED BY <3>1, <3>3 DEF WaitBody
  <2>2. CASE tq # <<>>
    <3>1. PICK o \in Co : o = Head(tq)
      BY <1>0, <2>2
    <3>2. owner' = o /\ tq' = Tail(tq) /\ wake' = Woken(wake, o)
      BY <2>2, <3>1 DEF HandOver
    <3>3. /\ 1 \in DOMAIN tq /\ tq[1] = o
          /\ Len(tq') = Len(tq) - 1 /\ DOMAIN tq' = 1..Len(tq') /\ Len(tq') \in Nat
          /\ \A i \in DOMAIN tq' : tq'[i] = tq[i + 1] /\ i + 1 \in DOMAIN tq /\ i + 1 # 1
          /\ \A i \in DOMAIN tq \ {1} : i - 1 \in DOMAIN tq' /\ tq'[i - 1] = tq[i]
      BY <1>0, <2>2, <3>1, <3>2
    <3>4. Waiting(o) /\ o # c
      BY <1>3, <3>3 DEF WaitBody
    <3>5. slp[o] # 0
      BY <1>0, <3>4 DEF ScheduleInv, CoroutineOK, Waiting
    <3>6. wake'[o] # 0 /\ \A d \in Co \ {o} : wake'[d] = wake[d]
      BY <1>0, <3>2, <3>5, WokenType
    <3>7. \A i \in DOMAIN tq' : Waiting(tq[i])' /\ tq'[i] # owner'
      <4> SUFFICES ASSUME NEW i \in DOMAIN tq' PROVE Waiting(tq[i])' /\ tq'[i] # owner'
        OBVIOUS
      <4>1. PICK d \in Co : d = tq[i + 1]
        BY <2>0, <3>3
      <4>2. Waiting(d) /\ d # o
        BY <1>3, <3>3, <4>1 DEF WaitBody
      <4>3. d = tq'[i]
        BY <3>3, <4>1
      <4> QED BY <3>2, <4>2, <4>3
    <3>8. \A i, j \in DOMAIN tq' : tq'[i] = tq'[j] => i = j
      <4> SUFFICES ASSUME NEW i \in DOMAIN tq', NEW j \in DOMAIN tq', tq'[i] = tq'[j] PROVE i = j
        OBVIOUS
      <4>1. i + 1 = j + 1
        BY <1>3, <3>3 DEF WaitBody
      <4> QED BY <3>3, <4>1
    <3>9. ASSUME NEW d \in Co, Waiting(d), d # o PROVE Contains(tq, d)'
      <4>1. PICK i \in DOMAIN tq : tq[i] = d
        BY <1>1, <1>3, <2>0, <3>9 DEF WaitBody, Contains
      <4>2. i - 1 \in DOMAIN tq' /\ tq'[i - 1] = d
        BY <3>3, <3>9, <4>1
      <4> QED BY <3>3, <4>2 DEF Contains
    <3>10. ASSUME NEW d \in Co, Waiting(d), wake'[d] = slp[d] PROVE d = o
      BY <1>1, <1>3, <3>6, <3>10 DEF WaitBody
    <3>11. o # None
      BY SkynetLuaAssumption
    <3> QED BY <3>2, <3>4, <3>6, <3>7, <3>8, <3>9, <3>10, <3>11 DEF WaitBody
  <2> QED BY <2>1, <2>2
<1> QED BY <1>0, <1>2, <1>3 DEF WaitInv

LEMMA WaitLeave ==
  ASSUME WaitHyp, NEW c \in Co, Leave(c)
  PROVE  WaitInv'
<1>0. /\ ScheduleTypes /\ tq \in Seq(Co) /\ owner \in Co \cup {None}
      /\ WaitOutside /\ (stale \/ WaitBody) /\ depth \in [Co -> Nat] /\ ref \in Nat
      /\ \A d \in Co : depth[d] > 0 => owner = d /\ ref = depth[d]
  BY WaitFacts
<1>1. /\ Running(c) /\ depth[c] > 0 /\ depth' = [depth EXCEPT ![c] = @ - 1]
      /\ UNCHANGED <<st, slp, stale>>
      /\ IF ref = 1 THEN HandOver ELSE UNCHANGED <<owner, tq, wake>>
  BY DEF Leave
<1>2. /\ owner = c /\ ref = depth[c] /\ \A d \in Co \ {c} : depth'[d] = depth[d]
      /\ depth'[c] = depth[c] - 1
      /\ \A d \in Co : Waiting(d)' <=> Waiting(d)
  BY <1>0, <1>1 DEF Waiting
<1>3. CASE ref = 1
  BY <1>1, <1>2, <1>3, WaitHandOver
<1>4. CASE ref # 1
  <2>1. depth'[c] > 0 /\ ~Waiting(c)
    BY <1>0, <1>1, <1>2, <1>4 DEF WaitOutside
  <2>2. WaitOutside'
    BY <1>0, <1>2, <2>1 DEF WaitOutside
  <2>3. \A i \in DOMAIN tq : tq[i] \in Co
    BY <1>0
  <2>4. WaitBody => WaitBody'
    BY <1>1, <1>2, <1>4, <2>1, <2>3 DEF WaitBody
  <2> QED BY <1>0, <1>1, <2>2, <2>4 DEF WaitInv
<1> QED BY <1>3, <1>4

LEMMA WaitFail ==
  ASSUME WaitHyp, NEW c \in Co, Fail(c)
  PROVE  WaitInv'
<1>0. /\ ScheduleTypes /\ depth \in [Co -> Nat]
      /\ \A d \in Co : depth[d] > 0 => owner = d /\ ref = depth[d]
  BY WaitFacts
<1>1. /\ Running(c) /\ depth' = [depth EXCEPT ![c] = 0] /\ UNCHANGED <<slp, stale>>
      /\ st' = [st EXCEPT ![c] = "dead"]
      /\ IF depth[c] > 0 THEN HandOver ELSE UNCHANGED <<owner, tq, wake>>
  BY DEF Fail
<1>2. st[c] = "run"
  BY <1>1, RunningCo DEF WaitHyp
<1>3. /\ \A d \in Co : Waiting(d)' <=> Waiting(d)
      /\ \A d \in Co \ {c} : depth'[d] = depth[d]
  BY <1>0, <1>1, <1>2 DEF ScheduleTypes, Waiting
<1>4. CASE depth[c] > 0
  BY <1>0, <1>1, <1>3, <1>4, WaitHandOver
<1>5. CASE ~(depth[c] > 0)
  <2>1. UNCHANGED <<depth, owner, tq, wake>>
    BY <1>0, <1>1, <1>5
  <2> QED BY <1>1, <1>3, <2>1, WaitKeep
<1> QED BY <1>4, <1>5

(* dispatch_wakeup: a wakeup that reaches its sleep resumes the coroutine  *)
(* that the section was handed to.                                         *)
LEMMA WaitWakeup ==
  ASSUME WaitHyp, dispatch_wakeup
  PROVE  WaitInv'
<1>0. /\ ScheduleTypes /\ ScheduleInv /\ tq \in Seq(Co) /\ owner \in Co \cup {None}
      /\ WaitOutside /\ (stale \/ WaitBody) /\ depth \in [Co -> Nat] /\ ref \in Nat
      /\ \A d \in Co : depth[d] > 0 => owner = d /\ ref = depth[d]
      /\ (\A d \in Co : depth[d] = 0) => ref = 0
  BY WaitFacts
<1>1. CASE \A c \in Co : wake[c] = 0
  <2>1. UNCHANGED <<st, slp, wake, stale, owner, tq, depth>>
    BY <1>1 DEF dispatch_wakeup, slpVars, csVars
  <2> QED BY <2>1, WaitKeep DEF Waiting
<1>2. CASE ~ \A c \in Co : wake[c] = 0
  <2>1. PICK c \in Co :
          /\ wake[c] # 0 /\ wake' = [wake EXCEPT ![c] = 0]
          /\ IF slp[c] = 0
             THEN UNCHANGED <<st, slp, stale, csVars>>
             ELSE /\ slp' = [slp EXCEPT ![c] = 0]
                  /\ stale' = (stale \/ wake[c] # slp[c])
                  /\ st' = [st EXCEPT ![c] = "run"]
                  /\ IF st[c] = "enter" THEN Enters(c) ELSE UNCHANGED csVars
    BY <1>2 DEF dispatch_wakeup
  <2>2. /\ wake'[c] = 0 /\ \A d \in Co \ {c} : wake'[d] = wake[d]
    BY <1>0, <2>1 DEF ScheduleTypes
  <2>3. CASE slp[c] = 0
    <3>1. ~Waiting(c) /\ \A d \in Co : Waiting(d)' <=> Waiting(d)
      BY <1>0, <2>1, <2>3 DEF ScheduleInv, CoroutineOK, Waiting
    <3> QED BY <2>1, <2>2, <2>3, <3>1, WaitKeep DEF csVars
  <2>4. CASE slp[c] # 0
    <3>1. /\ ~Waiting(c)' /\ \A d \in Co \ {c} : (Waiting(d)' <=> Waiting(d)) /\ slp'[d] = slp[d]
          /\ stale' = (stale \/ wake[c] # slp[c])
      BY <1>0, <2>1, <2>4 DEF ScheduleTypes, Waiting
    <3>2. CASE st[c] # "enter"
      <4>1. UNCHANGED <<owner, tq, depth>> /\ ~Waiting(c)
        BY <2>1, <2>4, <3>2 DEF csVars, Waiting
      <4>2. WaitOutside'
        BY <1>0, <3>1, <4>1 DEF WaitOutside
      <4>3. \A i \in DOMAIN tq : tq[i] \in Co
        BY <1>0
      <4>4. WaitBody => WaitBody'
        BY <1>0, <2>2, <3>1, <4>1, <4>3 DEF WaitBody
      <4> QED BY <1>0, <3>1, <4>2, <4>4 DEF WaitInv
    <3>3. CASE st[c] = "enter"
      <4>0. Enters(c) /\ Waiting(c) /\ depth[c] = 0
        BY <1>0, <2>1, <2>4, <3>3 DEF Waiting, WaitOutside
      <4>1. \A d \in Co \ {c} : depth'[d] = depth[d]
        BY <1>0, <4>0 DEF Enters, csVars
      <4>2. WaitOutside'
        BY <1>0, <3>1, <4>1 DEF WaitOutside
      <4>3. ASSUME WaitBody, wake[c] = slp[c] PROVE WaitBody'
        <5>1. owner = c
          BY <4>0, <4>3 DEF WaitBody
        <5>2. ref = 0
          BY <1>0, <4>0, <5>1
        <5>3. owner' = c /\ depth'[c] = 1 /\ UNCHANGED tq
          BY <1>0, <4>0, <5>2 DEF Enters
        <5>4. \A i \in DOMAIN tq : tq[i] \in Co /\ tq[i] # c
          BY <1>0, <4>3, <5>1 DEF WaitBody
        <5> QED BY <2>2, <3>1, <4>3, <5>1, <5>3, <5>4, SkynetLuaAssumption DEF WaitBody
      <4> QED BY <1>0, <3>1, <4>2, <4>3 DEF WaitInv
    <3> QED BY <3>2, <3>3
  <2> QED BY <2>3, <2>4
<1> QED BY <1>1, <1>2


(* A coroutine that does not wait for the section moves.                   *)
LEMMA WaitMove ==
  ASSUME WaitHyp, UNCHANGED <<csVars, stale, wake>>, NEW c \in Co, st[c] # "enter",
         NEW what, what # "enter", st' = [st EXCEPT ![c] = what],
         \A d \in Co \ {c} : slp'[d] = slp[d]
  PROVE  WaitInv'
<1>1. ScheduleTypes
  BY WaitFacts
<1>2. \A d \in Co : (Waiting(d)' <=> Waiting(d)) /\ (Waiting(d) => d # c)
  BY <1>1 DEF ScheduleTypes, Waiting
<1> QED BY <1>2, WaitKeep DEF csVars

LEMMA WaitProgram ==
  ASSUME WaitHyp, NEW c \in Co, Program(c)
  PROVE  WaitInv'
<1>0. Scheduler /\ ScheduleTypes /\ ScheduleInv
  BY WaitFacts DEF WaitHyp
<1>r. Running(c) => st[c] = "run"
  BY <1>0, RunningCo
<1>k. ASSUME UNCHANGED <<csVars, st, slp, wake, stale>> PROVE WaitInv'
  BY <1>k, WaitKeep DEF csVars, Waiting
<1>1. CASE \E p \in Peer : call(c, p)
  <2>1. /\ Running(c) /\ UNCHANGED <<csVars, stale, wake, slp>>
        /\ st' = [st EXCEPT ![c] = "call"]
    BY <1>1 DEF call, slpVars
  <2> QED BY <1>r, <2>1, WaitMove
<1>2. CASE sleep(c) \/ wait(c)
  <2>1. PICK what \in {"sleep", "wait"} : SuspendSleep(c, what)
    BY <1>2 DEF sleep, wait
  <2>2. Running(c) /\ UNCHANGED <<csVars, stale, wake>>
    BY <1>2 DEF sleep, wait
  <2>3. st' = [st EXCEPT ![c] = what] /\ \A d \in Co \ {c} : slp'[d] = slp[d]
    BY <1>0, <2>1 DEF SuspendSleep, ScheduleTypes
  <2> QED BY <1>r, <2>1, <2>2, <2>3, WaitMove
<1>3. ASSUME NEW d \in Co, wakeup(c, d) PROVE WaitInv'
  <2>1. UNCHANGED <<csVars, st, slp>> /\ wake' = Woken(wake, d)
    BY <1>3 DEF wakeup
  <2>2. CASE st[d] = "enter"
    <3>1. stale'
      BY <1>3, <2>2 DEF wakeup
    <3>2. WaitOutside'
      BY <2>1, WaitFacts DEF WaitOutside, Waiting, csVars
    <3> QED BY <3>1, <3>2 DEF WaitInv
  <2>3. CASE st[d] # "enter"
    <3>1. stale => stale'
      BY <1>3, <2>3 DEF wakeup
    <3>2. \A e \in Co : Waiting(e) => wake'[e] = wake[e]
      BY <1>0, <2>1, <2>3, WokenType DEF Waiting
    <3> QED BY <2>1, <3>1, <3>2, WaitKeep DEF csVars, Waiting
  <2> QED BY <2>2, <2>3
<1>4. ASSUME NEW d \in Co, fork(c, d) \/ timeout(c, d) PROVE WaitInv'
  <2>1. /\ UNCHANGED <<csVars, stale, wake, slp>> /\ st[d] = "free"
        /\ st' = [st EXCEPT ![d] = "ready"]
    BY <1>4 DEF fork, timeout, Free, slpVars
  <2> QED BY <2>1, WaitMove
<1>5. ASSUME NEW s \in Session, remove_timeout(c, s) PROVE WaitInv'
  <2>1. PICK d \in Co : d = sic[s]
    BY <1>5 DEF remove_timeout
  <2>2. /\ UNCHANGED <<csVars, stale, wake, slp>> /\ st[d] = "ready"
        /\ st' = [st EXCEPT ![d] = "noop"]
    BY <1>5, <2>1 DEF remove_timeout, slpVars
  <2> QED BY <2>2, WaitMove
<1>6. ASSUME NEW r \in Request, ret(c, r) \/ response(c, r) PROVE WaitInv'
  <2>1. UNCHANGED <<csVars, stale, wake, slp>> /\ Running(c)
    BY <1>6 DEF ret, response, slpVars, Handles
  <2>2. CASE c \in resp
    <3>1. st' = [st EXCEPT ![c] = "stuck"]
      BY <1>6, <2>2 DEF ret, response, Stuck
    <3> QED BY <1>r, <2>1, <3>1, WaitMove
  <2>3. CASE c \notin resp
    <3>1. UNCHANGED st
      BY <1>6, <2>3 DEF ret, response
    <3> QED BY <1>k, <2>1, <3>1
  <2> QED BY <2>2, <2>3
<1>7. CASE \E r \in Request, ok \in BOOLEAN : respond(c, r, ok)
  BY <1>k, <1>7 DEF respond, slpVars
<1>8. CASE Return(c)
  <2>1. /\ UNCHANGED <<csVars, stale, wake, slp>> /\ Running(c)
        /\ st' = [st EXCEPT ![c] = "free"]
    BY <1>8 DEF Return, slpVars
  <2> QED BY <1>r, <2>1, WaitMove
<1>9. CASE exit(c)
  <2>1. owner' = None /\ tq' = <<>> /\ \A d \in Co : ~Waiting(d)'
    BY <1>9 DEF exit, Waiting
  <2>2. DOMAIN tq' = {}
    BY <2>1
  <2> QED BY <2>1, <2>2 DEF WaitInv, WaitOutside, WaitBody
<1>10. CASE Enter(c)
  BY <1>10, WaitEnterTaken, WaitEnterFree
<1> QED BY <1>1, <1>2, <1>3, <1>4, <1>5, <1>6, <1>7, <1>8, <1>9, <1>10, WaitLeave, WaitFail
        DEF Program

LEMMA WaitStep ==
  Scheduler /\ WaiterTypes /\ SectionInv /\ WaitInv /\ [Next]_vars => WaitInv'
<1> SUFFICES ASSUME WaitHyp, [Next]_vars PROVE WaitInv'
  BY DEF WaitHyp
<1>0. Scheduler /\ ScheduleTypes /\ ScheduleInv
  BY WaitFacts DEF WaitHyp
<1>k. ASSUME UNCHANGED <<csVars, st, slp, wake, stale>> PROVE WaitInv'
  BY <1>k, WaitKeep DEF csVars, Waiting
<1>1. CASE dispatch_error_queue
  <2>1. UNCHANGED <<csVars, slp, wake, stale>>
    BY <1>1 DEF dispatch_error_queue, slpVars
  <2>2. CASE errq = <<>>
    BY <1>1, <1>k, <2>1, <2>2 DEF dispatch_error_queue
  <2>3. CASE errq # <<>>
    <3>1. PICK x \in Session : x = Head(errq)
      BY <1>0, <2>3 DEF ScheduleTypes
    <3>2. IF sic[x] = None THEN UNCHANGED st ELSE st' = [st EXCEPT ![sic[x]] = "run"]
      BY <1>1, <2>3, <3>1 DEF dispatch_error_queue
    <3>3. CASE sic[x] = None
      BY <1>k, <2>1, <3>2, <3>3
    <3>4. CASE sic[x] # None
      <4>1. Queued(x) /\ SessionOK(x)
        <5>1. 1 \in DOMAIN errq /\ errq[1] = x
          BY <1>0, <2>3, <3>1 DEF ScheduleTypes
        <5> QED BY <1>0, <5>1 DEF Queued, ScheduleInv
      <4>2. PICK c \in Co : c = sic[x] /\ st[c] = "call"
        BY <3>4, <4>1 DEF SessionOK
      <4> QED BY <2>1, <3>2, <3>4, <4>2, WaitMove
    <3> QED BY <3>3, <3>4
  <2> QED BY <2>2, <2>3
<1>2. CASE dispatch_fork
  <2>1. UNCHANGED <<csVars, slp, wake, stale>>
    BY <1>2 DEF dispatch_fork, slpVars
  <2>2. UNCHANGED st \/ \E c \in forkq : st' = [st EXCEPT ![c] = "run"]
    BY <1>2 DEF dispatch_fork
  <2>3. ASSUME NEW c \in forkq, st' = [st EXCEPT ![c] = "run"] PROVE WaitInv'
    <3>1. c \in Co /\ st[c] = "ready"
      BY <1>0 DEF ScheduleTypes, ScheduleInv, CoroutineOK
    <3> QED BY <2>1, <2>3, <3>1, WaitMove
  <2> QED BY <1>k, <2>1, <2>2, <2>3
<1>3. ASSUME NEW p \in Peer, NEW n \in 0..MaxRequest, Arrives(p, n) PROVE WaitInv'
  <2>1. UNCHANGED <<csVars, stale, wake, slp>>
    BY <1>3 DEF Arrives, Deliver, Undecodable, Unregistered, Undispatched, slpVars
  <2>2. ASSUME NEW c \in Co, Deliver(p, c, n) \/ Undecodable(p, c, n) PROVE WaitInv'
    <3>1. PICK what \in {"run", "stuck"} : st[c] = "free" /\ st' = [st EXCEPT ![c] = what]
      BY <2>2 DEF Deliver, Undecodable, Free
    <3> QED BY <2>1, <3>1, WaitMove
  <2>3. CASE Unregistered(p, n) \/ Undispatched(p, n)
    BY <1>k, <2>1, <2>3 DEF Unregistered, Undispatched
  <2> QED BY <1>3, <2>2, <2>3 DEF Arrives
<1>4. ASSUME NEW x \in Session, TimerFires(x) \/ ResponseArrives(x) PROVE WaitInv'
  <2>1. UNCHANGED <<csVars, wake, stale>> /\ Respond(x) /\ (x \in timer \/ ans[x] # "none")
    BY <1>4 DEF TimerFires, ResponseArrives
  <2>2. CASE sic[x] \in {None, BREAK}
    BY <1>k, <2>1, <2>2 DEF Respond
  <2>3. CASE sic[x] \notin {None, BREAK}
    <3>1. PICK c \in Co : c = sic[x]
      BY <1>0, <2>3 DEF ScheduleTypes
    <3>2. PICK what \in {"run", "free"} : st' = [st EXCEPT ![c] = what]
      BY <2>1, <2>3, <3>1 DEF Respond
    <3>3. \A d \in Co \ {c} : slp'[d] = slp[d]
      BY <1>0, <2>1, <2>3, <3>1 DEF Respond, ScheduleTypes
    <3>4. SessionOK(x)
      BY <1>0 DEF ScheduleInv
    <3>5. st[c] # "enter"
      BY <2>1, <2>3, <3>1, <3>4 DEF SessionOK
    <3> QED BY <2>1, <3>2, <3>3, <3>5, WaitMove
  <2> QED BY <2>2, <2>3
<1>5. CASE (\E s \in Session : ErrorArrives(s)) \/ (\E p \in Peer : ServiceDown(p)) \/ UNCHANGED vars
  <2>1. UNCHANGED <<csVars, st, slp, wake, stale>>
    BY <1>5 DEF ErrorArrives, ServiceDown, vars, slpVars, csVars
  <2> QED BY <1>k, <2>1
<1> QED BY <1>1, <1>2, <1>3, <1>4, <1>5, WaitWakeup, WaitProgram DEF Next, Dispatch


-----------------------------------------------------------------------------
(* The rest of the types.                                                  *)
Bounded == depth \in [Co -> 0..MaxDepth]

LEMMA BoundedStep == WaitHyp /\ Bounded /\ [Next]_vars => Bounded'
<1> SUFFICES ASSUME WaitHyp, Bounded, [Next]_vars PROVE Bounded'
  OBVIOUS
<1>0. MaxDepth \in Nat /\ WaitOutside
  BY SkynetLuaAssumption, WaitFacts
<1>1. ASSUME NEW c \in Co, Enter(c) PROVE Bounded'
  BY <1>0, <1>1 DEF Enter, Bounded
<1>2. ASSUME NEW c \in Co, Leave(c) PROVE Bounded'
  BY <1>0, <1>2 DEF Leave, Bounded
<1>3. ASSUME NEW c \in Co, Fail(c) \/ exit(c) PROVE Bounded'
  <2>1. depth' = [depth EXCEPT ![c] = 0] \/ depth' = [d \in Co |-> 0]
    BY <1>3 DEF Fail, exit
  <2> QED BY <1>0, <2>1 DEF Bounded
<1>k. ASSUME UNCHANGED csVars PROVE Bounded'
  BY <1>k DEF Bounded, csVars
<1>4. CASE Dispatch
  <2>1. (\E c \in Co : st[c] = "enter" /\ Enters(c)) \/ UNCHANGED csVars
    BY <1>4 DEF Dispatch, dispatch_wakeup, dispatch_error_queue, dispatch_fork, csVars, slpVars
  <2>2. ASSUME NEW c \in Co, st[c] = "enter", Enters(c) PROVE Bounded'
    <3>1. MaxDepth > 0
      BY <1>0, <2>2 DEF WaitOutside, Waiting
    <3> QED BY <1>0, <2>2, <3>1 DEF Enters, Bounded, csVars
  <2> QED BY <1>k, <2>1, <2>2
<1>5. ASSUME NEW c \in Co,
             \/ \E p \in Peer : call(c, p)
             \/ sleep(c) \/ wait(c) \/ Return(c)
             \/ \E d \in Co : wakeup(c, d) \/ fork(c, d) \/ timeout(c, d)
             \/ \E s \in Session : remove_timeout(c, s)
      PROVE  UNCHANGED csVars
  BY <1>5 DEF call, sleep, wait, Return, wakeup, fork, timeout, remove_timeout
<1>6. ASSUME NEW c \in Co,
             \/ \E r \in Request : ret(c, r) \/ response(c, r)
             \/ \E r \in Request, ok \in BOOLEAN : respond(c, r, ok)
      PROVE  UNCHANGED csVars
  BY <1>6 DEF ret, response, respond
<1>7. CASE \/ \E p \in Peer, ses \in 0..MaxRequest : Arrives(p, ses)
           \/ \E s \in Session : TimerFires(s) \/ ResponseArrives(s) \/ ErrorArrives(s)
           \/ \E p \in Peer : ServiceDown(p)
           \/ UNCHANGED vars
  <2>1. UNCHANGED csVars
    BY <1>7 DEF Arrives, Deliver, Undecodable, Unregistered, Undispatched, TimerFires, ResponseArrives,
                ErrorArrives, ServiceDown, vars, csVars
  <2> QED BY <1>k, <2>1
<1> QED BY <1>1, <1>2, <1>3, <1>4, <1>5, <1>6, <1>7, <1>k DEF Next, Program

(* Requests, answers and counters.                                         *)
Kind == {"RESPONSE", "ERROR"}

RequestTypes ==
  /\ req \in [Co -> 0..MaxRequest]
  /\ resp \subseteq Co
  /\ clo \in [Request -> {"none", "open", "used"}]
  /\ from \in Seq(Peer) /\ Len(from) <= MaxRequest
  /\ sent \in [Request -> Seq(Kind)] /\ silent \subseteq Request

CountTypes == down \subseteq Peer /\ nerr \in 0..MaxError

LEMMA CountTypesStep == CountTypes /\ [Next]_vars => CountTypes'
<1> SUFFICES ASSUME CountTypes, [Next]_vars PROVE CountTypes'
  OBVIOUS
<1>1. down' = down \/ \E p \in Peer : down' = down \cup {p}
  <2>1. ASSUME NEW c \in Co, Program(c) PROVE down' = down
    BY <2>1 DEF Program, call, sleep, wait, wakeup, fork, timeout, remove_timeout, ret, response,
                respond, Enter, Leave, Return, Fail, exit, peerVars
  <2>2. ASSUME ~ \E c \in Co : Program(c)
        PROVE  down' = down \/ \E p \in Peer : down' = down \cup {p}
    BY <2>2 DEF Next, Dispatch, dispatch_wakeup, dispatch_error_queue, dispatch_fork,
       Arrives, Deliver, Undecodable, Unregistered, Undispatched, TimerFires, ResponseArrives,
       ErrorArrives, ServiceDown, vars, peerVars
  <2> QED BY <2>1, <2>2
<1>2. nerr' = nerr \/ (nerr < MaxError /\ nerr' = nerr + 1)
  <2>1. ASSUME NEW c \in Co, Program(c) PROVE nerr' = nerr \/ (nerr < MaxError /\ nerr' = nerr + 1)
    BY <2>1 DEF Program, call, sleep, wait, wakeup, fork, timeout, remove_timeout, ret, response,
                respond, Enter, Leave, Return, Fail, exit, Stuck
  <2>2. ASSUME ~ \E c \in Co : Program(c)
        PROVE  nerr' = nerr \/ (nerr < MaxError /\ nerr' = nerr + 1)
    BY <2>2 DEF Next, Dispatch, dispatch_wakeup, dispatch_error_queue, dispatch_fork,
       Arrives, Deliver, Undecodable, Unregistered, Undispatched, TimerFires, ResponseArrives,
       ErrorArrives, ServiceDown, vars
  <2> QED BY <2>1, <2>2
<1>3. nerr' \in 0..MaxError
  BY <1>2, SkynetLuaAssumption DEF CountTypes
<1> QED BY <1>1, <1>3 DEF CountTypes

LEMMA StaleStep == stale \in BOOLEAN /\ [Next]_vars => stale' \in BOOLEAN
<1> SUFFICES ASSUME stale \in BOOLEAN, [Next]_vars PROVE stale' \in BOOLEAN
  OBVIOUS
<1>1. CASE dispatch_wakeup
  <2>1. stale' = stale \/ \E c \in Co : stale' = (stale \/ wake[c] # slp[c])
    BY <1>1, Zenon DEF dispatch_wakeup, slpVars
  <2> QED BY <2>1
<1>3. ASSUME NEW c \in Co, NEW d \in Co, wakeup(c, d) PROVE stale' \in BOOLEAN
  <2>1. stale' = (stale \/ st[d] = "enter")
    BY <1>3, Zenon DEF wakeup
  <2> QED BY <2>1
<1>2. ASSUME ~dispatch_wakeup, \A c, d \in Co : ~wakeup(c, d) PROVE stale' = stale
  BY <1>2, ZenonT(60) DEF Next, Program, call, sleep, wait, fork, timeout, remove_timeout, ret, response,
     respond, Enter, Leave, Return, Fail, exit, Dispatch, dispatch_error_queue,
     dispatch_fork, Arrives, Deliver, Undecodable, Unregistered, Undispatched, TimerFires,
     ResponseArrives, ErrorArrives, ServiceDown, vars, slpVars
<1> QED BY <1>1, <1>2, <1>3


-----------------------------------------------------------------------------
(* What becomes of requests.                                               *)
RequestHyp == Scheduler /\ RequestTypes /\ RequestInv /\ down \subseteq Peer

LEMMA RequestFacts ==
  ASSUME RequestHyp
  PROVE  /\ Scheduler /\ ScheduleTypes /\ ScheduleInv /\ RequestTypes
         /\ Len(from) \in Nat /\ Arrived = 1..Len(from) /\ Arrived \subseteq Request
         /\ MaxRequest \in Nat /\ \A c \in Co : req[c] \in 0..MaxRequest
         /\ \A c, d \in Co : req[c] = req[d] => req[c] = 0 \/ c = d
         /\ \A c \in Co : req[c] # 0 => req[c] \in Arrived
         /\ \A c \in Co : req[c] # 0 => st[c] \notin {"free", "ready", "noop", "dead"}
         /\ \A c \in Co : c \in resp => req[c] # 0 \/ st[c] = "dead"
         /\ \A c \in Co : req[c] # 0 => (req[c] \in silent <=> st[c] = "stuck" /\ c \notin resp)
         /\ \A r \in Request : RequestOK(r)
         /\ phase = "gone" => \A c \in Co : req[c] = 0
<1>1. Scheduler /\ ScheduleTypes /\ ScheduleInv /\ RequestTypes /\ RequestInv
  BY DEF RequestHyp, Scheduler
<1>2. /\ MaxRequest \in Nat /\ from \in Seq(Peer) /\ Len(from) <= MaxRequest
      /\ \A c \in Co : req[c] \in 0..MaxRequest
  BY <1>1, SkynetLuaAssumption DEF RequestTypes
<1>3. Len(from) \in Nat /\ Arrived = 1..Len(from)
  BY <1>2 DEF Arrived
<1>4. Arrived \subseteq Request
  BY <1>2, <1>3 DEF Request
<1> QED BY <1>1, <1>2, <1>3, <1>4 DEF RequestInv

(* Steps that leave the requests alone.                                    *)
LEMMA RequestKeep ==
  ASSUME RequestHyp, UNCHANGED reqVars, down \subseteq down',
         \A c \in Co : st[c] = "dead" => st'[c] = "dead",
         \A c \in Co : req[c] # 0 => st'[c] \notin {"free", "ready", "noop", "dead"},
         \A c \in Co \ resp : st'[c] = "stuck" <=> st[c] = "stuck",
         phase' = "gone" => phase = "gone"
  PROVE  RequestTypes' /\ RequestInv'
<1>0. RequestTypes /\ RequestInv /\ UNCHANGED <<req, resp, clo, from, sent, silent, Arrived>>
  BY DEF RequestHyp, reqVars, Arrived
<1>1. RequestTypes'
  BY <1>0 DEF RequestTypes
<1>2. \A r \in Request : (Unanswered(r)' <=> Unanswered(r)) /\ Responses(r)' = Responses(r)
  BY <1>0 DEF Unanswered, Responses
<1>3. \A r \in Request : RequestOK(r)'
  BY <1>0, <1>2 DEF RequestInv, RequestOK
<1> QED BY <1>0, <1>1, <1>3 DEF RequestInv

(* A coroutine that runs moves, and its request stays with it.             *)
LEMMA RequestMove ==
  ASSUME RequestHyp, UNCHANGED reqVars, UNCHANGED down, phase' # "gone", NEW c \in Co,
         NEW what, st' = [st EXCEPT ![c] = what], st[c] \notin {"dead", "stuck"},
         what # "dead", what = "stuck" => c \in resp,
         req[c] # 0 => what \notin {"free", "ready", "noop"}
  PROVE  RequestTypes' /\ RequestInv'
<1>1. /\ \A d \in Co : req[d] # 0 => st[d] \notin {"free", "ready", "noop", "dead"}
      /\ ScheduleTypes
  BY RequestFacts
<1>2. \A d \in Co : st'[d] = IF d = c THEN what ELSE st[d]
  BY <1>1 DEF ScheduleTypes
<1> QED BY <1>1, <1>2, RequestKeep

(* An answer to the request r is sent, unless its sender is down.          *)
LEMMA AnswerSent ==
  ASSUME RequestTypes, NEW r \in Request, NEW kind \in Kind, r \in Arrived, Answer(r, kind)
  PROVE  /\ sent' \in [Request -> Seq(Kind)]
         /\ \A q \in Request \ {r} : sent'[q] = sent[q]
         /\ sent'[r] # <<>> \/ from[r] \in down
         /\ Responses(r) = {} => \A i, j \in DOMAIN sent'[r] :
              sent'[r][i] = "RESPONSE" /\ sent'[r][j] = "RESPONSE" => i = j
         /\ kind = "ERROR" => {i \in DOMAIN sent'[r] : sent'[r][i] = "RESPONSE"} = Responses(r)
<1>1. CASE from[r] \in down
  BY <1>1 DEF Answer, RequestTypes, Responses
<1>2. CASE from[r] \notin down
  <2>1. sent' = [sent EXCEPT ![r] = Append(@, kind)] /\ sent[r] \in Seq(Kind)
    BY <1>2 DEF Answer, RequestTypes
  <2>2. sent' \in [Request -> Seq(Kind)] /\ \A q \in Request \ {r} : sent'[q] = sent[q]
    BY <2>1 DEF RequestTypes
  <2>3. sent'[r] = Append(sent[r], kind)
    BY <2>1 DEF RequestTypes
  <2>4. /\ Len(sent[r]) \in Nat /\ DOMAIN sent[r] = 1..Len(sent[r]) /\ sent'[r] # <<>>
        /\ DOMAIN sent'[r] = 1..(Len(sent[r]) + 1)
        /\ \A i \in DOMAIN sent[r] : sent'[r][i] = sent[r][i]
        /\ sent'[r][Len(sent[r]) + 1] = kind
    BY <2>1, <2>3
  <2>5. \A i \in DOMAIN sent'[r] : i \in DOMAIN sent[r] \/ i = Len(sent[r]) + 1
    BY <2>4
  <2>6. DOMAIN sent[r] \subseteq DOMAIN sent'[r]
    BY <2>4
  <2>7. ASSUME Responses(r) = {},
               NEW i \in DOMAIN sent'[r], NEW j \in DOMAIN sent'[r],
               sent'[r][i] = "RESPONSE", sent'[r][j] = "RESPONSE"
        PROVE  i = j
    BY <2>4, <2>5, <2>7 DEF Responses
  <2>8. ASSUME kind = "ERROR"
        PROVE  {i \in DOMAIN sent'[r] : sent'[r][i] = "RESPONSE"} = Responses(r)
    BY <2>4, <2>5, <2>6, <2>8 DEF Responses
  <2> QED BY <2>2, <2>4, <2>7, <2>8
<1> QED BY <1>1, <1>2

(* skynet.ret: the first answer of the handler.                            *)
LEMMA RequestRet ==
  ASSUME RequestHyp, NEW c \in Co, NEW r \in Request, ret(c, r), c \notin resp
  PROVE  RequestTypes' /\ RequestInv'
<1>0. /\ RequestTypes /\ ScheduleTypes /\ Arrived \subseteq Request
      /\ \A d, e \in Co : req[d] = req[e] => req[d] = 0 \/ d = e
      /\ \A d \in Co : req[d] # 0 => req[d] \in Arrived
      /\ \A d \in Co : req[d] # 0 => st[d] \notin {"free", "ready", "noop", "dead"}
      /\ \A d \in Co : d \in resp => req[d] # 0 \/ st[d] = "dead"
      /\ \A d \in Co : req[d] # 0 => (req[d] \in silent <=> st[d] = "stuck" /\ d \notin resp)
      /\ \A q \in Request : RequestOK(q)
  BY RequestFacts
<1>1. /\ Running(c) /\ r \in Arrived /\ req[c] = r /\ resp' = resp \cup {c}
      /\ UNCHANGED <<phase, st, req, from, down, clo, silent, Arrived>>
      /\ \E kind \in Kind : Answer(r, kind)
  BY DEF ret, Handles, ctlVars, peerVars, Arrived, Kind
<1>2. r # 0 /\ st[c] = "run" /\ r \notin silent
  <2>1. st[c] = "run"
    BY <1>1, RequestFacts, RunningCo
  <2> QED BY <1>0, <1>1, <2>1, SkynetLuaAssumption DEF Request
<1>3. Unanswered(r) /\ ~Unanswered(r)' /\ \A q \in Request \ {r} : Unanswered(q)' <=> Unanswered(q)
  BY <1>0, <1>1, <1>2 DEF Unanswered
<1>4. Responses(r) = {} /\ clo[r] = "none"
  BY <1>0, <1>3 DEF RequestOK
<1>5. /\ sent' \in [Request -> Seq(Kind)]
      /\ \A q \in Request \ {r} : sent'[q] = sent[q]
      /\ sent'[r] # <<>> \/ from[r] \in down
      /\ \A i, j \in DOMAIN sent'[r] : sent'[r][i] = "RESPONSE" /\ sent'[r][j] = "RESPONSE" => i = j
  BY <1>0, <1>1, <1>4, AnswerSent
<1>6. RequestTypes'
  BY <1>0, <1>1, <1>5 DEF RequestTypes
<1>7. \A i, j \in Responses(r)' : i = j
  BY <1>5 DEF Responses
<1>8. \A q \in Request \ {r} : Responses(q)' = Responses(q)
  BY <1>5 DEF Responses
<1>9. RequestOK(r)'
  BY <1>1, <1>2, <1>3, <1>4, <1>5, <1>7 DEF RequestOK
<1>10. \A q \in Request \ {r} : RequestOK(q)'
  BY <1>0, <1>1, <1>3, <1>5, <1>8 DEF RequestOK
<1> QED BY <1>0, <1>1, <1>2, <1>6, <1>9, <1>10 DEF RequestInv, Running


(* skynet.response: the answer is left to a response object ...            *)
LEMMA RequestResponse ==
  ASSUME RequestHyp, NEW c \in Co, NEW r \in Request, response(c, r), c \notin resp
  PROVE  RequestTypes' /\ RequestInv'
<1>0. /\ RequestTypes /\ ScheduleTypes
      /\ \A d, e \in Co : req[d] = req[e] => req[d] = 0 \/ d = e
      /\ \A d \in Co : req[d] # 0 => req[d] \in Arrived
      /\ \A d \in Co : req[d] # 0 => st[d] \notin {"free", "ready", "noop", "dead"}
      /\ \A d \in Co : d \in resp => req[d] # 0 \/ st[d] = "dead"
      /\ \A d \in Co : req[d] # 0 => (req[d] \in silent <=> st[d] = "stuck" /\ d \notin resp)
      /\ \A q \in Request : RequestOK(q)
  BY RequestFacts
<1>1. /\ Running(c) /\ r \in Arrived /\ req[c] = r /\ resp' = resp \cup {c}
      /\ clo' = [clo EXCEPT ![r] = "open"]
      /\ UNCHANGED <<phase, st, req, from, down, sent, silent, Arrived>>
  BY DEF response, Handles, ctlVars, peerVars, Arrived
<1>2. r # 0 /\ st[c] = "run" /\ r \notin silent
  <2>1. st[c] = "run"
    BY <1>1, RequestFacts, RunningCo
  <2> QED BY <1>0, <1>1, <2>1, SkynetLuaAssumption DEF Request
<1>3. Unanswered(r) /\ ~Unanswered(r)' /\ \A q \in Request \ {r} : Unanswered(q)' <=> Unanswered(q)
  BY <1>0, <1>1, <1>2 DEF Unanswered
<1>4. Responses(r) = {}
  BY <1>0, <1>3 DEF RequestOK
<1>5. clo'[r] = "open" /\ \A q \in Request \ {r} : clo'[q] = clo[q]
  BY <1>0, <1>1 DEF RequestTypes
<1>6. RequestTypes'
  BY <1>0, <1>1 DEF RequestTypes
<1>8. \A q \in Request : Responses(q)' = Responses(q)
  BY <1>1 DEF Responses
<1>9. RequestOK(r)'
  BY <1>1, <1>2, <1>3, <1>4, <1>5, <1>8 DEF RequestOK
<1>10. \A q \in Request \ {r} : RequestOK(q)'
  BY <1>0, <1>1, <1>3, <1>5, <1>8 DEF RequestOK
<1> QED BY <1>0, <1>1, <1>2, <1>6, <1>9, <1>10 DEF RequestInv, Running

(* ... which is used once.                                                 *)
LEMMA RequestRespond ==
  ASSUME RequestHyp, NEW c \in Co, NEW r \in Request, NEW ok \in BOOLEAN, respond(c, r, ok)
  PROVE  RequestTypes' /\ RequestInv'
<1>0. /\ RequestTypes /\ ScheduleTypes
      /\ \A d, e \in Co : req[d] = req[e] => req[d] = 0 \/ d = e
      /\ \A d \in Co : req[d] # 0 => req[d] \in Arrived
      /\ \A d \in Co : req[d] # 0 => st[d] \notin {"free", "ready", "noop", "dead"}
      /\ \A d \in Co : d \in resp => req[d] # 0 \/ st[d] = "dead"
      /\ \A d \in Co : req[d] # 0 => (req[d] \in silent <=> st[d] = "stuck" /\ d \notin resp)
      /\ \A q \in Request : RequestOK(q)
      /\ phase = "gone" => \A d \in Co : req[d] = 0
  BY RequestFacts
<1>1. /\ clo[r] = "open" /\ clo' = [clo EXCEPT ![r] = "used"]
      /\ UNCHANGED <<phase, st, req, resp, from, down, silent, Arrived>>
      /\ \E kind \in Kind : Answer(r, kind)
  <2>1. Answer(r, IF ok THEN "RESPONSE" ELSE "ERROR")
    BY DEF respond
  <2>2. (IF ok THEN "RESPONSE" ELSE "ERROR") \in Kind
    BY DEF Kind
  <2>3. \E kind \in Kind : Answer(r, kind)
    BY <2>1, <2>2
  <2> QED BY <2>3 DEF respond, ctlVars, peerVars, Arrived
<1>2. r \in Arrived /\ ~Unanswered(r) /\ Responses(r) = {} /\ r \notin silent
  BY <1>0, <1>1 DEF RequestOK
<1>3. \A q \in Request : Unanswered(q)' <=> Unanswered(q)
  BY <1>1 DEF Unanswered
<1>4. clo'[r] = "used" /\ \A q \in Request \ {r} : clo'[q] = clo[q]
  BY <1>0, <1>1 DEF RequestTypes
<1>5. /\ sent' \in [Request -> Seq(Kind)]
      /\ \A q \in Request \ {r} : sent'[q] = sent[q]
      /\ sent'[r] # <<>> \/ from[r] \in down
      /\ \A i, j \in DOMAIN sent'[r] : sent'[r][i] = "RESPONSE" /\ sent'[r][j] = "RESPONSE" => i = j
  BY <1>0, <1>1, <1>2, AnswerSent
<1>6. RequestTypes'
  BY <1>0, <1>1, <1>5 DEF RequestTypes
<1>7. \A i, j \in Responses(r)' : i = j
  BY <1>5 DEF Responses
<1>8. \A q \in Request \ {r} : Responses(q)' = Responses(q)
  BY <1>5 DEF Responses
<1>9. RequestOK(r)'
  BY <1>1, <1>2, <1>3, <1>4, <1>5, <1>7 DEF RequestOK
<1>10. \A q \in Request \ {r} : RequestOK(q)'
  BY <1>0, <1>1, <1>3, <1>4, <1>5, <1>8 DEF RequestOK
<1> QED BY <1>0, <1>1, <1>6, <1>9, <1>10 DEF RequestInv

(* A handler that returns has answered, or made a response object, or its  *)
(* request is now among the silent ones.                                   *)
LEMMA RequestReturn ==
  ASSUME RequestHyp, NEW c \in Co, Return(c)
  PROVE  RequestTypes' /\ RequestInv'
<1>0. /\ RequestTypes /\ ScheduleTypes /\ Arrived \subseteq Request
      /\ \A d, e \in Co : req[d] = req[e] => req[d] = 0 \/ d = e
      /\ \A d \in Co : req[d] # 0 => req[d] \in Arrived
      /\ \A d \in Co : req[d] # 0 => st[d] \notin {"free", "ready", "noop", "dead"}
      /\ \A d \in Co : d \in resp => req[d] # 0 \/ st[d] = "dead"
      /\ \A d \in Co : req[d] # 0 => (req[d] \in silent <=> st[d] = "stuck" /\ d \notin resp)
      /\ \A q \in Request : RequestOK(q) /\ q # 0
  BY RequestFacts, SkynetLuaAssumption DEF Request
<1>1. /\ Running(c) /\ silent' = silent \cup (IF c \in resp THEN {} ELSE {req[c]} \ {0})
      /\ st' = [st EXCEPT ![c] = "free"] /\ req' = [req EXCEPT ![c] = 0]
      /\ resp' = resp \ {c} /\ phase' = "wake"
      /\ UNCHANGED <<from, down, sent, clo, Arrived>>
  BY DEF Return, Suspend, peerVars, Arrived
<1>2. /\ req'[c] = 0 /\ st'[c] = "free" /\ \A d \in Co \ {c} : req'[d] = req[d] /\ st'[d] = st[d]
      /\ req' \in [Co -> 0..MaxRequest]
  BY <1>0, <1>1, SkynetLuaAssumption DEF RequestTypes, ScheduleTypes
<1>3. \A q \in Request : /\ q \in silent' <=> q \in silent \/ (c \notin resp /\ req[c] = q)
                         /\ c \notin resp /\ req[c] = q => Unanswered(q)
  BY <1>0, <1>1 DEF Unanswered
<1>4. \A q \in Request : /\ Unanswered(q)' => Unanswered(q)
                         /\ Unanswered(q) => Unanswered(q)' \/ q \in silent'
  BY <1>0, <1>1, <1>2, <1>3 DEF Unanswered
<1>5. \A q \in Request : Responses(q)' = Responses(q)
  BY <1>1 DEF Responses
<1>6. RequestTypes'
  BY <1>0, <1>1, <1>2 DEF RequestTypes
<1>7. \A q \in Request : RequestOK(q)'
  <2> SUFFICES ASSUME NEW q \in Request PROVE RequestOK(q)'
    OBVIOUS
  <2>1. RequestOK(q) /\ (c \notin resp /\ req[c] = q => q \in Arrived)
    BY <1>0
  <2> QED BY <1>1, <1>3, <1>4, <1>5, <2>1 DEF RequestOK
<1>8. ASSUME NEW d \in Co, req'[d] # 0
      PROVE  req'[d] \in silent' <=> st'[d] = "stuck" /\ d \notin resp'
  <2>1. d # c /\ req'[d] = req[d] /\ st'[d] = st[d] /\ req[d] \in Request
    BY <1>0, <1>2, <1>8
  <2>2. req[c] # req[d] /\ (d \in resp' <=> d \in resp)
    BY <1>0, <1>1, <1>8, <2>1
  <2> QED BY <1>0, <1>3, <1>8, <2>1, <2>2
<1> QED BY <1>0, <1>1, <1>2, <1>6, <1>7, <1>8 DEF RequestInv

(* The caller of a handler that fails is told.                             *)
LEMMA RequestFail ==
  ASSUME RequestHyp, NEW c \in Co, Fail(c)
  PROVE  RequestTypes' /\ RequestInv'
<1>0. /\ RequestTypes /\ ScheduleTypes /\ Arrived \subseteq Request
      /\ \A d, e \in Co : req[d] = req[e] => req[d] = 0 \/ d = e
      /\ \A d \in Co : req[d] # 0 => req[d] \in Arrived
      /\ \A d \in Co : req[d] # 0 => st[d] \notin {"free", "ready", "noop", "dead"}
      /\ \A d \in Co : d \in resp => req[d] # 0 \/ st[d] = "dead"
      /\ \A d \in Co : req[d] # 0 => (req[d] \in silent <=> st[d] = "stuck" /\ d \notin resp)
      /\ \A q \in Request : RequestOK(q) /\ q # 0
  BY RequestFacts, SkynetLuaAssumption DEF Request
<1>1. /\ st' = [st EXCEPT ![c] = "dead"] /\ req' = [req EXCEPT ![c] = 0] /\ Report(c)
      /\ phase' = "fork" /\ UNCHANGED <<from, down, resp, clo, silent, Arrived>>
  BY DEF Fail, Unwind, peerVars, Arrived
<1>2. /\ req'[c] = 0 /\ \A d \in Co \ {c} : req'[d] = req[d] /\ st'[d] = st[d]
      /\ st'[c] = "dead"
      /\ req' \in [Co -> 0..MaxRequest]
  BY <1>0, <1>1, SkynetLuaAssumption DEF RequestTypes, ScheduleTypes
<1>3. \A q \in Request : /\ Unanswered(q)' => Unanswered(q)
                         /\ Unanswered(q) => Unanswered(q)' \/ req[c] = q
  BY <1>0, <1>1, <1>2 DEF Unanswered
<1>4. CASE req[c] = 0
  <2>1. UNCHANGED sent
    BY <1>1, <1>4 DEF Report
  <2>2. \A q \in Request : Responses(q)' = Responses(q) /\ (Unanswered(q)' <=> Unanswered(q))
    BY <1>0, <1>3, <1>4, <2>1 DEF Responses
  <2>3. RequestTypes'
    BY <1>0, <1>1, <1>2, <2>1 DEF RequestTypes
  <2>4. \A q \in Request : RequestOK(q)'
    BY <1>0, <1>1, <2>1, <2>2 DEF RequestOK
  <2> QED BY <1>0, <1>1, <1>2, <2>3, <2>4 DEF RequestInv
<1>5. CASE req[c] # 0
  <2>1. PICK r \in Request : r = req[c] /\ r \in Arrived
    BY <1>0, <1>5
  <2>2. sent' = [sent EXCEPT ![r] = Append(@, "ERROR")] /\ sent[r] \in Seq(Kind)
    BY <1>0, <1>1, <1>5, <2>1 DEF Report, RequestTypes
  <2>3. /\ sent' \in [Request -> Seq(Kind)] /\ sent'[r] = Append(sent[r], "ERROR")
        /\ \A q \in Request \ {r} : sent'[q] = sent[q]
    BY <1>0, <2>2 DEF RequestTypes, Kind
  <2>4. /\ Len(sent[r]) \in Nat /\ DOMAIN sent[r] = 1..Len(sent[r]) /\ sent'[r] # <<>>
        /\ DOMAIN sent'[r] = 1..(Len(sent[r]) + 1)
        /\ \A i \in DOMAIN sent[r] : sent'[r][i] = sent[r][i]
        /\ sent'[r][Len(sent[r]) + 1] = "ERROR"
    BY <2>2, <2>3
  <2>5. Responses(r)' = Responses(r)
    <3>1. \A i \in DOMAIN sent'[r] : i \in DOMAIN sent[r] \/ i = Len(sent[r]) + 1
      BY <2>4
    <3>2. DOMAIN sent[r] \subseteq DOMAIN sent'[r]
      BY <2>4
    <3> QED BY <2>4, <3>1, <3>2 DEF Responses
  <2>6. \A q \in Request \ {r} : Responses(q)' = Responses(q) /\ (Unanswered(q)' <=> Unanswered(q))
    BY <1>3, <2>1, <2>3 DEF Responses
  <2>7. RequestTypes'
    BY <1>0, <1>1, <1>2, <2>3 DEF RequestTypes
  <2>8. RequestOK(r)'
    BY <1>0, <1>1, <1>3, <2>1, <2>4, <2>5 DEF RequestOK
  <2>9. \A q \in Request \ {r} : RequestOK(q)'
    BY <1>0, <1>1, <2>3, <2>6 DEF RequestOK
  <2> QED BY <1>0, <1>1, <1>2, <2>7, <2>8, <2>9 DEF RequestInv
<1> QED BY <1>4, <1>5


(* Errors after an answer leave its responses as they were.                *)
LEMMA ErrorsAppended ==
  ASSUME NEW s \in Seq(Kind), NEW e \in Seq({"ERROR"})
  PROVE  /\ s \o e \in Seq(Kind)
         /\ {i \in DOMAIN (s \o e) : (s \o e)[i] = "RESPONSE"} = {i \in DOMAIN s : s[i] = "RESPONSE"}
         /\ s # <<>> \/ e # <<>> => s \o e # <<>>
<1>1. PICK t : t = s \o e
  OBVIOUS
<1>2. e \in Seq(Kind)
  BY DEF Kind
<1>3. /\ t \in Seq(Kind) /\ Len(t) = Len(s) + Len(e) /\ Len(s) \in Nat /\ Len(e) \in Nat
      /\ DOMAIN s = 1..Len(s) /\ DOMAIN e = 1..Len(e) /\ DOMAIN t = 1..(Len(s) + Len(e))
  BY <1>1, <1>2
<1>4. \A i \in DOMAIN s : i \in DOMAIN t /\ t[i] = s[i]
  BY <1>1, <1>3
<1>5. \A i \in DOMAIN t \ DOMAIN s : i - Len(s) \in DOMAIN e /\ t[i] = e[i - Len(s)]
  BY <1>1, <1>3
<1>6. \A i \in DOMAIN e : e[i] = "ERROR"
  BY <1>3
<1>7. {i \in DOMAIN t : t[i] = "RESPONSE"} = {i \in DOMAIN s : s[i] = "RESPONSE"}
  BY <1>4, <1>5, <1>6
<1>8. s # <<>> => Len(s) > 0
  OBVIOUS
<1>9. e # <<>> => Len(e) > 0
  OBVIOUS
<1>10. s # <<>> \/ e # <<>> => t # <<>>
  BY <1>3, <1>8, <1>9
<1> QED BY <1>1, <1>3, <1>7, <1>10

(* skynet.exit: every caller that waits is told.                           *)
LEMMA RequestExit ==
  ASSUME RequestHyp, NEW c \in Co, exit(c)
  PROVE  RequestTypes' /\ RequestInv'
<1>0. RequestTypes /\ \A q \in Request : RequestOK(q) /\ q # 0
  BY RequestFacts, SkynetLuaAssumption DEF Request
<1> DEFINE told(r) == (IF \E d \in Co : req[d] = r THEN <<"ERROR">> ELSE <<>>)
                    \o (IF clo[r] = "open" /\ from[r] \notin down THEN <<"ERROR">> ELSE <<>>)
<1>1. /\ sent' = [r \in Request |-> IF r \in Arrived THEN sent[r] \o told(r) ELSE sent[r]]
      /\ clo' = [r \in Request |-> IF clo[r] = "open" THEN "used" ELSE clo[r]]
      /\ req' = [d \in Co |-> 0] /\ resp' = {}
      /\ UNCHANGED <<from, down, silent, Arrived>>
  BY DEF exit, Arrived
<1>2. \A r \in Request : /\ told(r) \in Seq({"ERROR"})
                         /\ (\E d \in Co : req[d] = r) => told(r) # <<>>
                         /\ clo[r] = "open" /\ from[r] \notin down => told(r) # <<>>
  <2> SUFFICES ASSUME NEW r \in Request
               PROVE  /\ told(r) \in Seq({"ERROR"})
                      /\ (\E d \in Co : req[d] = r) => told(r) # <<>>
                      /\ clo[r] = "open" /\ from[r] \notin down => told(r) # <<>>
    OBVIOUS
  <2>1. PICK a : a = IF \E d \in Co : req[d] = r THEN <<"ERROR">> ELSE <<>>
    OBVIOUS
  <2>2. PICK b : b = IF clo[r] = "open" /\ from[r] \notin down THEN <<"ERROR">> ELSE <<>>
    OBVIOUS
  <2>3. told(r) = a \o b /\ a \in Seq({"ERROR"}) /\ b \in Seq({"ERROR"})
    <3>1. <<"ERROR">> \in Seq({"ERROR"}) /\ <<>> \in Seq({"ERROR"})
      OBVIOUS
    <3>2. told(r) = a \o b
      BY <2>1, <2>2, Zenon
    <3>3. a \in {<<"ERROR">>, <<>>} /\ b \in {<<"ERROR">>, <<>>}
      BY <2>1, <2>2, Zenon
    <3> QED BY <3>1, <3>2, <3>3
  <2>4. /\ a \o b \in Seq({"ERROR"}) /\ (a # <<>> => a \o b # <<>>) /\ (b # <<>> => a \o b # <<>>)
    BY <2>3
  <2> QED BY <2>1, <2>2, <2>3, <2>4
<1> HIDE DEF told
<1>3. \A r \in Request :
        /\ sent'[r] \in Seq(Kind)
        /\ {i \in DOMAIN sent'[r] : sent'[r][i] = "RESPONSE"} = Responses(r)
        /\ sent[r] # <<>> => sent'[r] # <<>>
        /\ r \in Arrived /\ told(r) # <<>> => sent'[r] # <<>>
        /\ r \notin Arrived => sent'[r] = sent[r]
  <2> SUFFICES ASSUME NEW r \in Request
               PROVE  /\ sent'[r] \in Seq(Kind)
                      /\ {i \in DOMAIN sent'[r] : sent'[r][i] = "RESPONSE"} = Responses(r)
                      /\ sent[r] # <<>> => sent'[r] # <<>>
                      /\ r \in Arrived /\ told(r) # <<>> => sent'[r] # <<>>
                      /\ r \notin Arrived => sent'[r] = sent[r]
    OBVIOUS
  <2>1. sent[r] \in Seq(Kind)
    BY <1>0 DEF RequestTypes
  <2>2. CASE r \notin Arrived
    BY <1>1, <2>1, <2>2 DEF Responses
  <2>3. CASE r \in Arrived
    <3>1. sent'[r] = sent[r] \o told(r)
      BY <1>1, <2>3
    <3> QED BY <1>2, <2>1, <2>3, <3>1, ErrorsAppended DEF Responses
  <2> QED BY <2>2, <2>3
<1>4. \A r \in Request : clo'[r] = IF clo[r] = "open" THEN "used" ELSE clo[r]
  BY <1>1
<1>5. \A d \in Co : req'[d] = 0
  BY <1>1
<1>6. RequestTypes'
  <2>1. req' \in [Co -> 0..MaxRequest]
    BY <1>1, SkynetLuaAssumption
  <2>2. clo' \in [Request -> {"none", "open", "used"}]
    BY <1>0, <1>1 DEF RequestTypes
  <2>3. sent' \in [Request -> Seq(Kind)]
    BY <1>1, <1>3
  <2> QED BY <1>0, <1>1, <2>1, <2>2, <2>3 DEF RequestTypes
<1>7. \A r \in Request : ~Unanswered(r)' /\ Responses(r)' = Responses(r)
  BY <1>0, <1>3, <1>5 DEF Unanswered, Responses
<1>8. \A r \in Request : RequestOK(r)'
  <2> SUFFICES ASSUME NEW r \in Request PROVE RequestOK(r)'
    OBVIOUS
  <2>1. RequestOK(r) /\ (Unanswered(r) => told(r) # <<>>)
    BY <1>0, <1>2 DEF Unanswered
  <2> QED BY <1>1, <1>2, <1>3, <1>4, <1>7, <2>1 DEF RequestOK
<1> QED BY <1>1, <1>5, <1>6, <1>8 DEF RequestInv

(* A message arrives, and perhaps it is a new request.                     *)
NewRequest(p, n) ==
  \/ n = 0 /\ UNCHANGED from
  \/ n = Len(from) + 1 /\ n # 0 /\ n <= MaxRequest /\ from' = Append(from, p)

LEMMA RequestNew ==
  ASSUME RequestHyp, NEW p \in Peer, NEW n \in 0..MaxRequest, NewRequest(p, n)
  PROVE  /\ Arrived' = Arrived \cup (IF n = 0 THEN {} ELSE {n}) /\ n \notin Arrived
         /\ \A q \in Arrived : from'[q] = from[q]
         /\ from' \in Seq(Peer) /\ Len(from') <= MaxRequest
         /\ n # 0 => n \in Request
<1>0. /\ RequestTypes /\ Len(from) \in Nat /\ Arrived = 1..Len(from) /\ MaxRequest \in Nat
  BY RequestFacts
<1>1. CASE n = 0 /\ UNCHANGED from
  BY <1>0, <1>1 DEF RequestTypes, Arrived
<1>2. CASE n = Len(from) + 1 /\ n # 0 /\ n <= MaxRequest /\ from' = Append(from, p)
  <2>1. /\ from' \in Seq(Peer) /\ Len(from') = n /\ DOMAIN from' = 1..n
        /\ \A q \in 1..Len(from) : from'[q] = from[q]
    BY <1>0, <1>2 DEF RequestTypes
  <2>2. 1..n = (1..Len(from)) \cup {n} /\ n \notin 1..Len(from) /\ n \in Request
    BY <1>0, <1>2 DEF Request
  <2> QED BY <1>0, <1>2, <2>1, <2>2 DEF Arrived
<1> QED BY <1>1, <1>2 DEF NewRequest

(* It gets a coroutine of its own, which may be lost at once.              *)
LEMMA RequestDeliver ==
  ASSUME RequestHyp, NEW p \in Peer, NEW c \in Co, NEW n \in 0..MaxRequest,
         Deliver(p, c, n) \/ Undecodable(p, c, n)
  PROVE  RequestTypes' /\ RequestInv'
<1>0. /\ RequestTypes /\ ScheduleTypes /\ Arrived \subseteq Request
      /\ Len(from) \in Nat /\ Arrived = 1..Len(from) /\ MaxRequest \in Nat
      /\ \A d, e \in Co : req[d] = req[e] => req[d] = 0 \/ d = e
      /\ \A d \in Co : req[d] # 0 => req[d] \in Arrived
      /\ \A d \in Co : req[d] # 0 => st[d] \notin {"free", "ready", "noop", "dead"}
      /\ \A d \in Co : d \in resp => req[d] # 0 \/ st[d] = "dead"
      /\ \A d \in Co : req[d] # 0 => (req[d] \in silent <=> st[d] = "stuck" /\ d \notin resp)
      /\ \A q \in Request : RequestOK(q)
  BY RequestFacts
<1>1. /\ st[c] = "free" /\ req' = [req EXCEPT ![c] = n] /\ UNCHANGED <<resp, clo, sent, down>>
      /\ phase' # "gone" /\ NewRequest(p, n)
      /\ \/ st' = [st EXCEPT ![c] = "run"] /\ UNCHANGED silent
         \/ st' = [st EXCEPT ![c] = "stuck"] /\ silent' = silent \cup ({n} \ {0})
  <2>1. Message(p, n) => NewRequest(p, n)
    BY <1>0 DEF Message, NewRequest, Request
  <2> QED BY <2>1 DEF Deliver, Undecodable, Free, Resume, Unwind, peerVars
<1>2. req[c] = 0 /\ c \notin resp
  BY <1>0, <1>1
<1>4. /\ Arrived' = Arrived \cup (IF n = 0 THEN {} ELSE {n}) /\ n \notin Arrived
      /\ \A q \in Arrived : from'[q] = from[q]
      /\ from' \in Seq(Peer) /\ Len(from') <= MaxRequest
      /\ n # 0 => n \in Request
  BY <1>1, RequestNew
<1>11. n \notin silent /\ 0 \notin silent
  <2>1. 0 \notin Request /\ silent \subseteq Request
    BY <1>0, SkynetLuaAssumption DEF Request, RequestTypes
  <2>2. n \in Request => n \notin silent
    BY <1>0, <1>4 DEF RequestOK
  <2> QED BY <2>1, <2>2
<1>3. /\ req'[c] = n /\ \A d \in Co \ {c} : req'[d] = req[d] /\ st'[d] = st[d]
      /\ st'[c] \in {"run", "stuck"} /\ (st'[c] = "stuck" /\ n # 0 <=> n \in silent')
      /\ silent' \subseteq silent \cup {n} /\ silent \subseteq silent' /\ 0 \notin silent'
      /\ req' \in [Co -> 0..MaxRequest]
  BY <1>0, <1>1, <1>11 DEF RequestTypes, ScheduleTypes
<1>5. \A q \in Request : Unanswered(q)' <=> Unanswered(q) \/ q = n
  <2>1. \A q \in Request : q # 0
    BY SkynetLuaAssumption DEF Request
  <2> QED BY <1>1, <1>2, <1>3, <2>1 DEF Unanswered
<1>6. \A q \in Request : Responses(q)' = Responses(q)
  BY <1>1 DEF Responses
<1>7. RequestTypes'
  BY <1>0, <1>1, <1>3, <1>4 DEF RequestTypes
<1>8. \A q \in Request : RequestOK(q)'
  <2> SUFFICES ASSUME NEW q \in Request PROVE RequestOK(q)'
    OBVIOUS
  <2>0. RequestOK(q) /\ q # 0
    BY <1>0, SkynetLuaAssumption DEF Request
  <2>1. CASE q = n
    <3>1. q \notin Arrived /\ sent[q] = <<>> /\ clo[q] = "none"
      BY <1>4, <2>0, <2>1 DEF RequestOK
    <3>2. Responses(q) = {}
      BY <3>1 DEF Responses
    <3>3. q \in Arrived' /\ Unanswered(q)' /\ clo'[q] = "none" /\ Responses(q)' = {}
      BY <1>1, <1>4, <1>5, <1>6, <2>0, <2>1, <3>1, <3>2
    <3> QED BY <3>3 DEF RequestOK
  <2>2. CASE q # n
    <3>1. q \in silent' <=> q \in silent
      BY <1>3, <2>2
    <3> QED BY <1>1, <1>4, <1>5, <1>6, <2>0, <2>2, <3>1 DEF RequestOK
  <2> QED BY <2>1, <2>2
<1>9. \A d, e \in Co : req'[d] = req'[e] => req'[d] = 0 \/ d = e
  BY <1>0, <1>3, <1>4
<1>10. \A d \in Co : /\ req'[d] # 0 => req'[d] \in Arrived'
                     /\ req'[d] # 0 => st'[d] \notin {"free", "ready", "noop", "dead"}
                     /\ d \in resp' => req'[d] # 0 \/ st'[d] = "dead"
  BY <1>0, <1>1, <1>2, <1>3, <1>4
<1>12. ASSUME NEW d \in Co, req'[d] # 0
       PROVE  req'[d] \in silent' <=> st'[d] = "stuck" /\ d \notin resp'
  <2>1. CASE d = c
    BY <1>1, <1>2, <1>3, <1>12, <2>1
  <2>2. CASE d # c
    <3>1. req'[d] = req[d] /\ st'[d] = st[d] /\ req[d] \in Arrived /\ req[d] # n
      BY <1>0, <1>3, <1>4, <1>12, <2>2
    <3>2. req[d] \in silent' <=> req[d] \in silent
      BY <1>3, <3>1
    <3> QED BY <1>0, <1>1, <1>12, <3>1, <3>2
  <2> QED BY <2>1, <2>2
<1> QED BY <1>1, <1>7, <1>8, <1>9, <1>10, <1>12 DEF RequestInv

(* Or it gets none: an error is its answer, or it has none.                *)
LEMMA RequestRefused ==
  ASSUME RequestHyp, NEW p \in Peer, NEW n \in 0..MaxRequest,
         Unregistered(p, n) \/ Undispatched(p, n)
  PROVE  RequestTypes' /\ RequestInv'
<1>0. /\ RequestTypes /\ ScheduleTypes /\ Arrived \subseteq Request
      /\ Len(from) \in Nat /\ Arrived = 1..Len(from) /\ MaxRequest \in Nat
      /\ \A d, e \in Co : req[d] = req[e] => req[d] = 0 \/ d = e
      /\ \A d \in Co : req[d] # 0 => req[d] \in Arrived
      /\ \A d \in Co : req[d] # 0 => st[d] \notin {"free", "ready", "noop", "dead"}
      /\ \A d \in Co : d \in resp => req[d] # 0 \/ st[d] = "dead"
      /\ \A d \in Co : req[d] # 0 => (req[d] \in silent <=> st[d] = "stuck" /\ d \notin resp)
      /\ \A q \in Request : RequestOK(q) /\ q # 0
  BY RequestFacts, SkynetLuaAssumption DEF Request
<1>1. /\ UNCHANGED <<st, req, resp, clo, down>> /\ phase' # "gone" /\ NewRequest(p, n)
      /\ \/ silent' = silent /\ sent' = IF n = 0 THEN sent ELSE [sent EXCEPT ![n] = <<"ERROR">>]
         \/ silent' = silent \cup ({n} \ {0}) /\ sent' = sent
  <2>1. Message(p, n) => NewRequest(p, n)
    BY <1>0 DEF Message, NewRequest, Request
  <2> QED BY <2>1 DEF Unregistered, Undispatched, Unwind, peerVars
<1>2. /\ Arrived' = Arrived \cup (IF n = 0 THEN {} ELSE {n}) /\ n \notin Arrived
      /\ \A q \in Arrived : from'[q] = from[q]
      /\ from' \in Seq(Peer) /\ Len(from') <= MaxRequest
      /\ n # 0 => n \in Request
  BY <1>1, RequestNew
<1>3. /\ \A q \in Request \ {n} : sent'[q] = sent[q] /\ (q \in silent' <=> q \in silent)
      /\ sent' \in [Request -> Seq(Kind)] /\ silent' \subseteq Request
  <2>1. <<"ERROR">> \in Seq(Kind)
    BY DEF Kind
  <2> QED BY <1>0, <1>1, <1>2, <2>1 DEF RequestTypes
<1>4. RequestTypes'
  BY <1>0, <1>1, <1>2, <1>3 DEF RequestTypes
<1>5. \A q \in Request : Unanswered(q)' <=> Unanswered(q)
  BY <1>1 DEF Unanswered
<1>6. \A q \in Request : RequestOK(q)'
  <2> SUFFICES ASSUME NEW q \in Request PROVE RequestOK(q)'
    OBVIOUS
  <2>0. RequestOK(q) /\ q # 0
    BY <1>0
  <2>1. CASE q = n
    <3>1. q \notin Arrived /\ sent[q] = <<>> /\ clo[q] = "none" /\ q \notin silent /\ n # 0
      BY <1>2, <2>0, <2>1 DEF RequestOK
    <3>2. ~Unanswered(q)
      BY <1>0, <2>0, <3>1 DEF Unanswered
    <3>3. \/ q \in silent' /\ sent'[q] = <<>>
          \/ q \notin silent' /\ sent'[q] = <<"ERROR">>
      BY <1>0, <1>1, <2>1, <3>1 DEF RequestTypes
    <3>4. sent'[q] \in {<<>>, <<"ERROR">>} => Responses(q)' = {}
      BY DEF Responses
    <3>5. q \in silent' \/ sent'[q] # <<>>
      BY <3>3
    <3>6. clo'[q] = "none" /\ q \in Arrived' /\ ~Unanswered(q)'
      BY <1>1, <1>2, <1>5, <2>1, <3>1, <3>2
    <3> QED BY <3>3, <3>4, <3>5, <3>6 DEF RequestOK
  <2>2. CASE q # n
    <3>1. Responses(q)' = Responses(q)
      BY <1>3, <2>2 DEF Responses
    <3> QED BY <1>1, <1>2, <1>3, <1>5, <2>0, <2>2, <3>1 DEF RequestOK
  <2> QED BY <2>1, <2>2
<1>7. \A d \in Co : req[d] # 0 => req[d] \in Request /\ req[d] # n /\ req[d] \in Arrived'
  BY <1>0, <1>2
<1> QED BY <1>0, <1>1, <1>3, <1>4, <1>6, <1>7 DEF RequestInv


LEMMA RequestProgram ==
  ASSUME RequestHyp, NEW c \in Co, Program(c)
  PROVE  RequestTypes' /\ RequestInv'
<1>0. /\ Scheduler /\ ScheduleTypes /\ ScheduleInv
      /\ \A d \in Co : req[d] # 0 => st[d] \notin {"free", "ready", "noop", "dead"}
  BY RequestFacts
<1>r. Running(c) => st[c] = "run" /\ phase = "run"
  BY <1>0, RunningCo DEF Running
<1>k. ASSUME UNCHANGED <<reqVars, down, st, phase>> PROVE RequestTypes' /\ RequestInv'
  BY <1>0, <1>k, RequestKeep
<1>1. CASE \E p \in Peer : call(c, p)
  <2>1. /\ Running(c) /\ UNCHANGED <<reqVars, down>> /\ phase' = "wake"
        /\ st' = [st EXCEPT ![c] = "call"]
    BY <1>1 DEF call, Suspend
  <2> QED BY <1>r, <2>1, RequestMove
<1>2. ASSUME NEW what \in {"sleep", "wait", "enter"}, SuspendSleep(c, what), Running(c),
             UNCHANGED <<reqVars, down>>
      PROVE  RequestTypes' /\ RequestInv'
  <2>1. phase' = "wake" /\ st' = [st EXCEPT ![c] = what]
    BY <1>2 DEF SuspendSleep, Suspend
  <2> QED BY <1>r, <1>2, <2>1, RequestMove
<1>3. CASE sleep(c) \/ wait(c)
  BY <1>2, <1>3 DEF sleep, wait, peerVars
<1>4. CASE \E d \in Co : wakeup(c, d)
  BY <1>k, <1>4 DEF wakeup, peerVars, ctlVars
<1>5. ASSUME NEW d \in Co, fork(c, d) \/ timeout(c, d) PROVE RequestTypes' /\ RequestInv'
  <2>1. /\ Running(c) /\ UNCHANGED <<reqVars, down, phase>> /\ st[d] = "free"
        /\ st' = [st EXCEPT ![d] = "ready"]
    BY <1>5 DEF fork, timeout, Free, ctlVars, peerVars
  <2> QED BY <1>0, <1>r, <2>1, RequestMove
<1>6. ASSUME NEW s \in Session, remove_timeout(c, s) PROVE RequestTypes' /\ RequestInv'
  <2>1. PICK d \in Co : d = sic[s]
    BY <1>6 DEF remove_timeout
  <2>2. /\ Running(c) /\ UNCHANGED <<reqVars, down, phase>> /\ st[d] = "ready"
        /\ st' = [st EXCEPT ![d] = "noop"]
    BY <1>6, <2>1 DEF remove_timeout, ctlVars, peerVars
  <2> QED BY <1>0, <1>r, <2>2, RequestMove
<1>7. ASSUME NEW r \in Request, ret(c, r) \/ response(c, r) PROVE RequestTypes' /\ RequestInv'
  <2>1. CASE c \in resp
    <3>1. /\ Running(c) /\ UNCHANGED <<reqVars, down>> /\ phase' = "fork"
          /\ st' = [st EXCEPT ![c] = "stuck"]
      BY <1>7, <2>1 DEF ret, response, Handles, Stuck, Unwind, reqVars, peerVars
    <3> QED BY <1>r, <2>1, <3>1, RequestMove
  <2>2. CASE c \notin resp
    BY <1>7, <2>2, RequestRet, RequestResponse
  <2> QED BY <2>1, <2>2
<1>8. CASE \E r \in Request, ok \in BOOLEAN : respond(c, r, ok)
  BY <1>8, RequestRespond
<1>9. CASE Enter(c)
  <2>1. CASE owner \notin {None, c}
    BY <1>2, <1>9, <2>1 DEF Enter, peerVars
  <2>2. CASE owner \in {None, c}
    BY <1>k, <1>9, <2>2 DEF Enter, peerVars, ctlVars
  <2> QED BY <2>1, <2>2
<1>10. CASE Leave(c)
  BY <1>k, <1>10 DEF Leave, peerVars, ctlVars
<1> QED BY <1>1, <1>3, <1>4, <1>5, <1>6, <1>7, <1>8, <1>9, <1>10,
           RequestReturn, RequestFail, RequestExit DEF Program

LEMMA RequestStep ==
  RequestHyp /\ [Next]_vars => RequestTypes' /\ RequestInv'
<1> SUFFICES ASSUME RequestHyp, [Next]_vars PROVE RequestTypes' /\ RequestInv'
  OBVIOUS
<1>0. /\ Scheduler /\ ScheduleTypes /\ ScheduleInv
      /\ \A d \in Co : req[d] # 0 => st[d] \notin {"free", "ready", "noop", "dead"}
  BY RequestFacts
<1>6. ASSUME NEW p \in Peer, NEW n \in 0..MaxRequest, Arrives(p, n) PROVE RequestTypes' /\ RequestInv'
  BY <1>6, RequestDeliver, RequestRefused DEF Arrives
<1>k. ASSUME UNCHANGED <<reqVars, st>>, down \subseteq down', phase' = "gone" => phase = "gone"
      PROVE  RequestTypes' /\ RequestInv'
  BY <1>0, <1>k, RequestKeep
<1>1. CASE dispatch_wakeup
  <2>1. UNCHANGED <<reqVars, down>> /\ phase' \in {"error", "run"}
    BY <1>1 DEF dispatch_wakeup, peerVars, Resume
  <2>2. UNCHANGED st \/ \E c \in Co : slp[c] # 0 /\ st' = [st EXCEPT ![c] = "run"]
    BY <1>1 DEF dispatch_wakeup
  <2>3. ASSUME NEW c \in Co, slp[c] # 0, st' = [st EXCEPT ![c] = "run"]
        PROVE  RequestTypes' /\ RequestInv'
    <3>1. st[c] \notin {"dead", "stuck"}
      BY <1>0, <2>3 DEF ScheduleInv, CoroutineOK
    <3> QED BY <2>1, <2>3, <3>1, RequestMove
  <2> QED BY <1>k, <2>1, <2>2, <2>3
<1>2. CASE dispatch_error_queue
  <2>1. UNCHANGED <<reqVars, down>> /\ phase' \in {"fork", "run"}
    BY <1>2 DEF dispatch_error_queue, peerVars, Resume, Unwind
  <2>2. CASE errq = <<>>
    BY <1>2, <1>k, <2>1, <2>2 DEF dispatch_error_queue
  <2>3. CASE errq # <<>>
    <3>1. PICK x \in Session : x = Head(errq)
      BY <1>0, <2>3 DEF ScheduleTypes
    <3>2. IF sic[x] = None THEN UNCHANGED st ELSE st' = [st EXCEPT ![sic[x]] = "run"]
      BY <1>2, <2>3, <3>1 DEF dispatch_error_queue
    <3>3. CASE sic[x] = None
      BY <1>k, <2>1, <3>2, <3>3
    <3>4. CASE sic[x] # None
      <4>1. Queued(x) /\ SessionOK(x)
        <5>1. 1 \in DOMAIN errq /\ errq[1] = x
          BY <1>0, <2>3, <3>1 DEF ScheduleTypes
        <5> QED BY <1>0, <5>1 DEF Queued, ScheduleInv
      <4>2. PICK c \in Co : c = sic[x] /\ st[c] = "call"
        BY <3>4, <4>1 DEF SessionOK
      <4> QED BY <2>1, <3>2, <3>4, <4>2, RequestMove
    <3> QED BY <3>3, <3>4
  <2> QED BY <2>2, <2>3
<1>3. CASE dispatch_fork
  <2>1. UNCHANGED <<reqVars, down>> /\ phase' \in {"idle", "run"}
    BY <1>3 DEF dispatch_fork, peerVars, Resume
  <2>2. UNCHANGED st \/ \E c \in forkq : st' = [st EXCEPT ![c] = "run"]
    BY <1>3 DEF dispatch_fork
  <2>3. ASSUME NEW c \in forkq, st' = [st EXCEPT ![c] = "run"]
        PROVE  RequestTypes' /\ RequestInv'
    <3>1. c \in Co /\ st[c] = "ready"
      BY <1>0 DEF ScheduleTypes, ScheduleInv, CoroutineOK
    <3> QED BY <2>1, <2>3, <3>1, RequestMove
  <2> QED BY <1>k, <2>1, <2>2, <2>3
<1>4. ASSUME NEW x \in Session, TimerFires(x) \/ ResponseArrives(x)
      PROVE  RequestTypes' /\ RequestInv'
  <2>1. UNCHANGED <<reqVars, down>> /\ Respond(x) /\ phase = "idle"
    BY <1>4 DEF TimerFires, ResponseArrives, peerVars
  <2>2. CASE sic[x] \in {None, BREAK}
    BY <1>k, <2>1, <2>2 DEF Respond, ctlVars
  <2>3. CASE sic[x] \notin {None, BREAK}
    <3>1. PICK c \in Co : c = sic[x]
      BY <1>0, <2>3 DEF ScheduleTypes
    <3>2. PICK what \in {"run", "free"} : /\ st' = [st EXCEPT ![c] = what]
                                          /\ what = "free" => st[c] = "noop"
      BY <2>1, <2>3, <3>1 DEF Respond
    <3>3. phase' # "gone"
      BY <2>1, <2>3, <3>1 DEF Respond, Suspend, Resume
    <3>4. st[c] \notin {"dead", "stuck"}
      BY <1>0, <3>1 DEF ScheduleInv, SessionOK
    <3> QED BY <1>0, <2>1, <3>2, <3>3, <3>4, RequestMove
  <2> QED BY <2>2, <2>3
<1>5. CASE (\E s \in Session : ErrorArrives(s)) \/ (\E p \in Peer : ServiceDown(p)) \/ UNCHANGED vars
  <2>1. UNCHANGED <<reqVars, st>> /\ down \subseteq down' /\ (phase' = "wake" \/ UNCHANGED phase)
    BY <1>5 DEF ErrorArrives, ServiceDown, Suspend, vars, reqVars
  <2> QED BY <1>k, <2>1
<1> QED BY <1>1, <1>2, <1>3, <1>4, <1>5, <1>6, RequestProgram DEF Next, Dispatch

-----------------------------------------------------------------------------
(* The invariant of the scheduler, and what follows from it.               *)
SkynetLuaInv ==
  /\ Scheduler /\ WaiterTypes /\ SectionInv
  /\ QuietInv /\ WaitInv /\ Bounded
  /\ RequestTypes /\ RequestInv
  /\ CountTypes /\ stale \in BOOLEAN

LEMMA InitialState == Init => SkynetLuaInv
<1> SUFFICES ASSUME Init PROVE SkynetLuaInv
  OBVIOUS
<1>1. Scheduler
  BY SchedInit
<1>2. WaiterTypes /\ SectionInv /\ Bounded
  BY SkynetLuaAssumption DEF Init, WaiterTypes, SectionInv, SectionIsCounted, Bounded
<1>3. QuietInv
  BY DEF Init, QuietInv
<1>4. WaitInv
  <2>1. tq = <<>> /\ DOMAIN tq = {} /\ owner = None /\ \A c \in Co : ~Waiting(c)
    BY DEF Init, Waiting
  <2> QED BY <2>1 DEF WaitInv, WaitOutside, WaitBody
<1>5. RequestTypes
  <2>1. req \in [Co -> 0..MaxRequest]
    BY SkynetLuaAssumption DEF Init
  <2>2. /\ from = <<>> /\ from \in Seq(Peer) /\ Len(from) = 0 /\ <<>> \in Seq(Kind)
    BY DEF Init
  <2>3. sent \in [Request -> Seq(Kind)] /\ clo \in [Request -> {"none", "open", "used"}]
    BY <2>2 DEF Init
  <2>4. silent \subseteq Request
    BY DEF Init
  <2> QED BY <2>1, <2>2, <2>3, <2>4, SkynetLuaAssumption DEF Init, RequestTypes
<1>6. RequestInv
  <2>1. Arrived = {}
    BY DEF Init, Arrived
  <2>2. \A c \in Co : req[c] = 0
    BY DEF Init
  <2>3. \A r \in Request : r # 0 /\ sent[r] = <<>> /\ clo[r] = "none" /\ r \notin silent
    BY SkynetLuaAssumption DEF Init, Request
  <2>4. \A r \in Request : ~Unanswered(r) /\ Responses(r) = {}
    BY <2>2, <2>3 DEF Unanswered, Responses
  <2>5. \A r \in Request : RequestOK(r)
    BY <2>1, <2>3, <2>4 DEF RequestOK
  <2> QED BY <2>2, <2>5 DEF RequestInv, Init
<1>7. CountTypes /\ stale \in BOOLEAN
  <2>1. stale \in BOOLEAN
    BY Zenon DEF Init
  <2>2. CountTypes
    BY SkynetLuaAssumption DEF Init, CountTypes
  <2> QED BY <2>1, <2>2
<1> QED BY <1>1, <1>2, <1>3, <1>4, <1>5, <1>6, <1>7 DEF SkynetLuaInv

LEMMA EveryStep == SkynetLuaInv /\ [Next]_vars => SkynetLuaInv'
<1> SUFFICES ASSUME SkynetLuaInv, [Next]_vars PROVE SkynetLuaInv'
  OBVIOUS
<1>0. /\ Scheduler /\ WaiterTypes /\ SectionInv /\ QuietInv /\ WaitInv /\ Bounded
      /\ RequestTypes /\ RequestInv /\ CountTypes /\ stale \in BOOLEAN
  BY DEF SkynetLuaInv
<1>1. Scheduler' /\ WaiterTypes' /\ SectionInv'
  BY <1>0, SchedStep, WaiterTypesStep, SectionStep
<1>2. QuietInv'
  <2>1. nerr \in Nat
    BY <1>0, SkynetLuaAssumption DEF CountTypes
  <2> QED BY <1>0, <2>1, QuietStep
<1>3. WaitInv' /\ Bounded'
  BY <1>0, WaitStep, BoundedStep DEF WaitHyp
<1>4. RequestTypes' /\ RequestInv'
  BY <1>0, RequestStep DEF RequestHyp, CountTypes
<1>5. CountTypes' /\ stale' \in BOOLEAN
  BY <1>0, CountTypesStep, StaleStep
<1> QED BY <1>1, <1>2, <1>3, <1>4, <1>5 DEF SkynetLuaInv

LEMMA SkynetLuaInvariant == Spec => []SkynetLuaInv
BY InitialState, EveryStep, PTL DEF Spec

LEMMA Types == SkynetLuaInv => TypeOK
<1> SUFFICES ASSUME SkynetLuaInv PROVE TypeOK
  OBVIOUS
<1>1. /\ ScheduleTypes /\ WaiterTypes /\ SectionInv /\ Bounded /\ RequestTypes /\ CountTypes
      /\ stale \in BOOLEAN
  BY DEF SkynetLuaInv, Scheduler
<1>2. ref \in 0..MaxDepth
  <2>1. MaxDepth \in Nat /\ \A c \in Co : depth[c] \in 0..MaxDepth
    BY <1>1, SkynetLuaAssumption DEF Bounded
  <2>2. CASE \E c \in Co : depth[c] > 0
    BY <1>1, <2>1, <2>2 DEF SectionInv, SectionIsCounted
  <2>3. CASE \A c \in Co : depth[c] = 0
    BY <1>1, <2>1, <2>3 DEF SectionInv, SectionIsCounted
  <2> QED BY <2>1, <2>2, <2>3
<1>3. sent \in [Request -> Seq({"RESPONSE", "ERROR"})]
  BY <1>1 DEF RequestTypes, Kind
<1> QED BY <1>1, <1>2, <1>3 DEF TypeOK, ScheduleTypes, WaiterTypes, Bounded, RequestTypes, CountTypes

(* A coroutine is registered for one session at a time, so no two messages *)
(* can resume it: session_id_coroutine, however calls, sleeps, timeouts,   *)
(* wakeups and errors follow each other.                                   *)
THEOREM CoroutinesAreResumedOnce == Spec => []ResumedOnce
<1>1. SkynetLuaInv => ResumedOnce
  BY DEF SkynetLuaInv, Scheduler, ScheduleInv
<1> QED BY <1>1, SkynetLuaInvariant, PTL

(* A coroutine that called, or sleeps, is still going to be resumed: its   *)
(* session is registered, and the answer is due, or its failure waits in   *)
(* error_queue, or the timer has it.                                       *)
THEOREM NoCoroutineIsForgotten == Spec => []NobodyForgotten
<1>1. SkynetLuaInv => NobodyForgotten
  <2> SUFFICES ASSUME SkynetLuaInv PROVE NobodyForgotten
    OBVIOUS
  <2>1. ScheduleInv /\ TypeOK
    BY Types DEF SkynetLuaInv, Scheduler
  <2>2. ASSUME NEW c \in Co, st[c] = "call"
        PROVE  \E s \in Session : /\ sic[s] = c /\ wsess[s] # None
                                  /\ \/ ans[s] = "due"
                                     \/ \E i \in DOMAIN errq : errq[i] = s
    <3>1. PICK s \in Session : sic[s] = c
      BY <2>1, <2>2 DEF ScheduleInv
    <3>2. SessionOK(s)
      BY <2>1 DEF ScheduleInv
    <3> QED BY <2>2, <3>1, <3>2 DEF SessionOK, Queued
  <2>3. ASSUME NEW c \in Co, st[c] = "sleep" PROVE slp[c] \in timer /\ sic[slp[c]] = c
    BY <2>1, <2>3 DEF ScheduleInv, CoroutineOK
  <2>4. ASSUME NEW s \in Session, sic[s] = BREAK PROVE s \in timer
    BY <2>1, <2>4 DEF ScheduleInv, SessionOK
  <2> QED BY <2>1, <2>2, <2>3, <2>4 DEF NobodyForgotten
<1> QED BY <1>1, SkynetLuaInvariant, PTL

(* A dispatch in which nothing fails ends with both queues served.         *)
THEOREM DispatchDrainsItsQueues == Spec => []Drained
<1>1. SkynetLuaInv => Drained
  BY DEF SkynetLuaInv, QuietInv, Drained
<1> QED BY <1>1, SkynetLuaInvariant, PTL

(* Who waits for the section of queue.lua is the one it was handed to, and *)
(* woken, or is queued behind one that is inside or was woken.             *)
THEOREM SectionServesItsWaiters == Spec => []WaitersAreServed
<1>1. SkynetLuaInv => WaitersAreServed
  <2> SUFFICES ASSUME SkynetLuaInv PROVE WaitersAreServed
    OBVIOUS
  <2>0. WaitHyp
    BY DEF SkynetLuaInv, WaitHyp
  <2>1. /\ SectionIsCounted /\ WaitOutside /\ (stale \/ WaitBody)
        /\ owner \in Co \cup {None} /\ tq \in Seq(Co)
    BY <2>0, WaitFacts DEF WaitHyp, SectionInv
  <2>2. ASSUME WaitBody, NEW c \in Co, Waiting(c)
        PROVE  \/ owner = c /\ wake[c] # 0
               \/ /\ Contains(tq, c)
                  /\ owner # None
                  /\ depth[owner] > 0 \/ (Waiting(owner) /\ wake[owner] # 0)
    <3>1. CASE owner = c
      BY <2>1, <2>2, <3>1, SkynetLuaAssumption DEF WaitBody, WaitOutside
    <3>2. CASE owner # c
      <4>1. Contains(tq, c)
        BY <2>2, <3>2 DEF WaitBody
      <4>2. owner # None
        BY <2>2, <4>1 DEF WaitBody, Contains
      <4> QED BY <2>2, <4>1, <4>2 DEF WaitBody
    <3> QED BY <3>1, <3>2
  <2> QED BY <2>1, <2>2 DEF WaitersAreServed
<1> QED BY <1>1, SkynetLuaInvariant, PTL

(* A caller that is never answered met no handler, or one that returned    *)
(* without answering; everybody else is answered once the handler is done, *)
(* with one response at most: skynet.ret, a response object, an error, an  *)
(* unknown protocol, skynet.exit.                                          *)
THEOREM EveryRequestIsAnswered == Spec => []RequestsAreAnswered
<1>1. SkynetLuaInv => RequestsAreAnswered
  <2> SUFFICES ASSUME SkynetLuaInv, NEW r \in Arrived
               PROVE  /\ \/ r \in silent
                         \/ sent[r] # <<>>
                         \/ from[r] \in down
                         \/ clo[r] = "open"
                         \/ \E c \in Co : req[c] = r /\ st[c] # "stuck"
                      /\ Cardinality(Responses(r)) <= IF r \in silent THEN 0 ELSE 1
    BY DEF RequestsAreAnswered, Responses
  <2>0. RequestHyp
    BY DEF SkynetLuaInv, RequestHyp, CountTypes
  <2>1. /\ r \in Request /\ RequestOK(r) /\ r # 0
        /\ \A c \in Co : req[c] = r /\ c \notin resp /\ r \notin silent => st[c] # "stuck"
    BY <2>0, RequestFacts, SkynetLuaAssumption DEF Request
  <2>2. Cardinality(Responses(r)) <= IF r \in silent THEN 0 ELSE 1
    <3>1. CASE Responses(r) = {}
      BY <3>1, FS_EmptySet
    <3>2. CASE Responses(r) # {}
      <4>1. PICK i : Responses(r) = {i}
        BY <2>1, <3>2 DEF RequestOK
      <4>2. Cardinality({i}) = 1 /\ r \notin silent
        BY <2>1, <3>2, FS_Singleton DEF RequestOK
      <4> QED BY <4>1, <4>2
    <3> QED BY <3>1, <3>2
  <2>3. ASSUME Unanswered(r), r \notin silent PROVE \E c \in Co : req[c] = r /\ st[c] # "stuck"
    BY <2>1, <2>3 DEF Unanswered
  <2> QED BY <2>1, <2>2, <2>3 DEF RequestOK
<1> QED BY <1>1, SkynetLuaInvariant, PTL
=============================================================================
