----------------------------- MODULE SkynetLua -----------------------------
(***************************************************************************)
(* The coroutine scheduler of a Lua service, lualib/skynet.lua, with the   *)
(* critical section of lualib/skynet/queue.lua on top of it.               *)
(*                                                                         *)
(* C calls skynet.dispatch_message once per message.  It resumes one       *)
(* coroutine, which runs until it yields a command to suspend; suspend     *)
(* then resumes, one after the other, the coroutines that were woken       *)
(* (dispatch_wakeup) and those whose call failed (dispatch_error_queue),   *)
(* and dispatch_message ends with the forked ones.  Each suspend returns   *)
(* into the one that called it, which finds both queues as its callee left *)
(* them, so the nesting shows only in one respect: an error raised by      *)
(* suspend unwinds all of it, up to the pcall of dispatch_message.  phase  *)
(* is therefore all there is of the stack.                                 *)
(*                                                                         *)
(* What a coroutine does when it runs is any sequence of the API's calls.  *)
(* The services it talks to are the environment: they call, they answer a  *)
(* call with a response or an error, they may send the other kind of       *)
(* answer after it (a handler that fails after skynet.ret; a response      *)
(* object used after its handler failed), and they go down.                *)
(*                                                                         *)
(* Left out: skynet.term, the debug command that declares a service dead   *)
(* although it has sent nothing.  Without it watching_service decides      *)
(* nothing: _error_dispatch looks the sender of the message up that        *)
(* raw_dispatch_message has just counted.                                  *)
(***************************************************************************)
EXTENDS Integers, Sequences, FiniteSets, SequencesExt

CONSTANTS
  Co,          \* coroutine objects; a finished one is used again (coroutine_pool)
  Peer,        \* other services
  None,        \* nil
  BREAK,       \* the mark "BREAK" in session_id_coroutine
  MaxSession,  \* bound: sessions the service allocates
  MaxRequest,  \* bound: requests that want an answer
  MaxError,    \* bound: coroutines that end in an error
  MaxDepth     \* bound: nested entries of the critical section

ASSUME SkynetLuaAssumption ==
  /\ {MaxSession, MaxRequest, MaxError, MaxDepth} \subseteq Nat
  /\ {None, BREAK} \cap (Co \cup Peer) = {} /\ None # BREAK

VARIABLES
  phase,     \* where dispatch_message is; "idle" between messages, "gone" after exit
  cur,       \* the running coroutine
  st,        \* what each coroutine is doing
  sic,       \* session_id_coroutine
  slp,       \* sleep_session, 0 is nil
  wake,      \* wakeup_session: 0 is nil, otherwise the sleep it was meant for
  wsess,     \* watching_session
  errq,      \* error_queue
  forkq,     \* fork_queue
  req,       \* session_coroutine_id, 0 if it is nil or wants no answer; the
             \* session_coroutine_address of a request is from
  resp,      \* session_response
  clo,       \* unresponse: the response object of each request
  owner,     \* queue: current_thread
  ref,       \* queue: ref
  tq,        \* queue: thread_queue
  depth,     \* the levels of the queue's function a coroutine is in
  timer,     \* sessions the timer has yet to answer
  ans,       \* what the called service owes each session: an answer ("due"), or
             \* after an error perhaps a response ("error")
  down,      \* dead_service: services that are gone
  from,      \* who sent each request
  sent,      \* the answers sent to each request
  silent,    \* the requests that met no handler, or one that returned and
             \* never answered
  nses,      \* sessions allocated
  nerr,      \* errors so far
  stale      \* a wakeup was used that was meant for an earlier sleep, or was
             \* aimed past queue.lua at one of its waiters

ctlVars  == <<phase, cur>>
sesVars  == <<sic, wsess>>
slpVars  == <<slp, wake, stale>>
reqVars  == <<req, resp, clo, from, sent, silent>>
csVars   == <<owner, ref, tq, depth>>
peerVars == <<ans, down>>
vars == <<phase, cur, st, sic, slp, wake, wsess, errq, forkq, req, resp, clo,
          owner, ref, tq, depth, timer, ans, down, from, sent, silent, nses, nerr, stale>>

Session == 1..MaxSession
Request == 1..MaxRequest
Arrived == DOMAIN from

Init ==
  /\ phase = "idle" /\ cur = None
  /\ st = [c \in Co |-> "free"]
  /\ sic = [s \in Session |-> None] /\ wsess = [s \in Session |-> None]
  /\ slp = [c \in Co |-> 0] /\ wake = [c \in Co |-> 0]
  /\ errq = <<>> /\ forkq = {}
  /\ req = [c \in Co |-> 0] /\ resp = {}
  /\ owner = None /\ ref = 0 /\ tq = <<>> /\ depth = [c \in Co |-> 0]
  /\ timer = {} /\ ans = [s \in Session |-> "none"]
  /\ clo = [r \in Request |-> "none"] /\ down = {}
  /\ from = <<>> /\ sent = [r \in Request |-> <<>>] /\ silent = {}
  /\ nses = 0 /\ nerr = 0 /\ stale = FALSE

-----------------------------------------------------------------------------
(* Resuming and yielding.                                                  *)

Running(c) == phase = "run" /\ cur = c
Resume(c)  == phase' = "run" /\ cur' = c

\* Mutant: the woken coroutines are forgotten.
Suspend_deaf == phase' = "error" /\ cur' = None

\* suspend has dealt with the command and goes on to dispatch_wakeup.
Suspend == phase' = "wake" /\ cur' = None

\* suspend raises an error: neither queue is served, dispatch_message's pcall
\* catches it and the forked coroutines follow.
Unwind == phase' = "fork" /\ cur' = None

\* A free coroutine for co_create: any of the pool, or a new one.
Free == {c \in Co : st[c] = "free"}

\* c.genid or the TIMEOUT command.
NewSession == nses + 1
HasSession == nses < MaxSession

-----------------------------------------------------------------------------
(* The API, as a running coroutine calls it.                               *)

call(c, p) ==
  /\ Running(c) /\ HasSession /\ p \notin down
  /\ nses' = NewSession
  /\ sic' = [sic EXCEPT ![NewSession] = c]
  /\ wsess' = [wsess EXCEPT ![NewSession] = p]
  /\ ans' = [ans EXCEPT ![NewSession] = "due"]
  /\ st' = [st EXCEPT ![c] = "call"]
  /\ Suspend
  /\ UNCHANGED <<slpVars, errq, forkq, reqVars, csVars, timer, down, nerr>>

\* The command SLEEP, for skynet.sleep, skynet.wait and the queue's wait.
SuspendSleep(c, what) ==
  /\ HasSession
  /\ nses' = NewSession
  /\ sic' = [sic EXCEPT ![NewSession] = c]
  /\ slp' = [slp EXCEPT ![c] = NewSession]
  /\ st' = [st EXCEPT ![c] = what]
  /\ Suspend

sleep(c) ==
  /\ Running(c)
  /\ SuspendSleep(c, "sleep")
  /\ timer' = timer \cup {NewSession}
  /\ UNCHANGED <<wake, stale, wsess, errq, forkq, reqVars, csVars, peerVars, nerr>>

wait(c) ==
  /\ Running(c)
  /\ SuspendSleep(c, "wait")
  /\ UNCHANGED <<wake, stale, wsess, errq, forkq, reqVars, csVars, timer, peerVars, nerr>>

\* skynet.wakeup, as an operator on wakeup_session.
Woken(w, c) == IF c # None /\ slp[c] # 0 /\ w[c] = 0 THEN [w EXCEPT ![c] = slp[c]] ELSE w

\* A program wakes any coroutine that sleeps, one that waits in queue.lua too;
\* another wakeup does nothing.
wakeup(c, d) ==
  /\ Running(c) /\ slp[d] # 0 /\ wake[d] = 0
  /\ wake' = Woken(wake, d)
  /\ stale' = (stale \/ st[d] = "enter")
  /\ UNCHANGED <<ctlVars, st, slp, sesVars, errq, forkq, reqVars, csVars,
                 timer, peerVars, nses, nerr>>

fork(c, d) ==
  /\ Running(c) /\ d \in Free
  /\ st' = [st EXCEPT ![d] = "ready"]
  /\ forkq' = forkq \cup {d}
  /\ UNCHANGED <<ctlVars, slpVars, sesVars, errq, reqVars, csVars, timer, peerVars, nses, nerr>>

timeout(c, d) ==
  /\ Running(c) /\ d \in Free /\ HasSession
  /\ nses' = NewSession
  /\ timer' = timer \cup {NewSession}
  /\ sic' = [sic EXCEPT ![NewSession] = d]
  /\ st' = [st EXCEPT ![d] = "ready"]
  /\ UNCHANGED <<ctlVars, slpVars, wsess, errq, forkq, reqVars, csVars, peerVars, nerr>>

\* The session of a timeout gets a coroutine that does nothing; the one it
\* had is garbage, and its name stands for the new one here.
remove_timeout(c, s) ==
  /\ Running(c) /\ s \in timer
  /\ sic[s] \in Co /\ st[sic[s]] = "ready"
  /\ st' = [st EXCEPT ![sic[s]] = "noop"]
  /\ UNCHANGED <<ctlVars, slpVars, sesVars, errq, forkq, reqVars, csVars,
                 timer, peerVars, nses, nerr>>

\* An answer leaves, unless its receiver is known to be dead.
Answer(r, kind) ==
  sent' = IF from[r] \in down THEN sent ELSE [sent EXCEPT ![r] = Append(@, kind)]

\* A second skynet.ret or skynet.response is an error of suspend: the
\* coroutine stays where it yielded, for ever.
Stuck(c) ==
  /\ nerr < MaxError
  /\ nerr' = nerr + 1
  /\ st' = [st EXCEPT ![c] = "stuck"]
  /\ Unwind
  /\ UNCHANGED <<resp, clo, sent>>

Handles(c, r) == Running(c) /\ r \in Arrived /\ req[c] = r

\* RETURN.  A package that is too large is answered with an error.
ret(c, r) ==
  /\ Handles(c, r)
  /\ IF c \in resp
     THEN Stuck(c)
     ELSE /\ resp' = resp \cup {c}
          /\ \E kind \in {"RESPONSE", "ERROR"} : Answer(r, kind)
          /\ UNCHANGED <<ctlVars, st, clo, nerr>>
  /\ UNCHANGED <<slpVars, sesVars, errq, forkq, req, from, silent, csVars, timer, peerVars, nses>>

\* RESPONSE: skynet.response makes the response object ...
response(c, r) ==
  /\ Handles(c, r)
  /\ IF c \in resp
     THEN Stuck(c)
     ELSE /\ resp' = resp \cup {c}
          /\ clo' = [clo EXCEPT ![r] = "open"]
          /\ UNCHANGED <<ctlVars, st, sent, nerr>>
  /\ UNCHANGED <<slpVars, sesVars, errq, forkq, req, from, silent, csVars, timer, peerVars, nses>>

\* ... which any coroutine may use once; "TEST" only drops it when it is dead.
respond(c, r, ok) ==
  /\ Running(c) /\ clo[r] = "open"
  /\ clo' = [clo EXCEPT ![r] = "used"]
  /\ Answer(r, IF ok THEN "RESPONSE" ELSE "ERROR")
  /\ UNCHANGED <<ctlVars, st, slpVars, sesVars, errq, forkq, req, resp, from,
                 silent, csVars, timer, peerVars, nses, nerr>>

-----------------------------------------------------------------------------
(* queue.lua.                                                              *)

\* Mutant: the section is taken whoever holds it.
EnterAlways(c) ==
  /\ Running(c) /\ depth[c] < MaxDepth
  /\ owner' = c /\ ref' = ref + 1
  /\ depth' = [depth EXCEPT ![c] = @ + 1]
  /\ UNCHANGED <<ctlVars, st, sic, slp, nses, tq>>
  /\ UNCHANGED <<wake, stale, wsess, errq, forkq, reqVars, timer, peerVars, nerr>>

\* Another coroutine is inside, or the section has been handed to it.
Enter(c) ==
  /\ Running(c) /\ depth[c] < MaxDepth
  /\ IF owner \notin {None, c}
     THEN /\ tq' = Append(tq, c)
          /\ SuspendSleep(c, "enter")
          /\ UNCHANGED <<owner, ref, depth>>
     ELSE /\ owner' = c /\ ref' = ref + 1
          /\ depth' = [depth EXCEPT ![c] = @ + 1]
          /\ UNCHANGED <<ctlVars, st, sic, slp, nses, tq>>
  /\ UNCHANGED <<wake, stale, wsess, errq, forkq, reqVars, timer, peerVars, nerr>>

\* Mutant: the next waiter is taken off the queue and not woken.
HandOver_no_wakeup ==
  /\ owner' = IF tq = <<>> THEN None ELSE Head(tq)
  /\ tq' = IF tq = <<>> THEN tq ELSE Tail(tq)
  /\ wake' = wake

\* xpcall_ret once ref is 0: the section goes to the first waiter.
HandOver ==
  /\ owner' = IF tq = <<>> THEN None ELSE Head(tq)
  /\ tq' = IF tq = <<>> THEN tq ELSE Tail(tq)
  /\ wake' = Woken(wake, owner')

\* The section's function returns, or raises an error that the caller catches.
Leave(c) ==
  /\ Running(c) /\ depth[c] > 0
  /\ ref' = ref - 1
  /\ depth' = [depth EXCEPT ![c] = @ - 1]
  /\ IF ref = 1 THEN HandOver ELSE UNCHANGED <<owner, tq, wake>>
  /\ UNCHANGED <<ctlVars, st, slp, stale, sesVars, errq, forkq, reqVars,
                 timer, peerVars, nses, nerr>>

-----------------------------------------------------------------------------
(* A coroutine ends.                                                       *)

\* EXIT.  Nothing looks whether the handler of a request has answered it.
Return(c) ==
  /\ Running(c) /\ depth[c] = 0
  /\ silent' = silent \cup (IF c \in resp THEN {} ELSE {req[c]} \ {0})
  /\ st' = [st EXCEPT ![c] = "free"]
  /\ req' = [req EXCEPT ![c] = 0]
  /\ resp' = resp \ {c}
  /\ Suspend
  /\ UNCHANGED <<slpVars, sesVars, errq, forkq, clo, from, sent, csVars,
                 timer, peerVars, nses, nerr>>

\* Mutant: the caller is not told.
Report_nothing(c) == sent' = sent

\* The caller of a handler that fails is told, whatever it was told before.
Report(c) ==
  sent' = IF req[c] = 0 THEN sent ELSE [sent EXCEPT ![req[c]] = Append(@, "ERROR")]

\* An error nobody catches; every level of the section it was in is left.
Fail(c) ==
  /\ Running(c) /\ nerr < MaxError
  /\ nerr' = nerr + 1
  /\ st' = [st EXCEPT ![c] = "dead"]
  /\ Report(c)
  /\ req' = [req EXCEPT ![c] = 0]
  /\ depth' = [depth EXCEPT ![c] = 0]
  /\ IF depth[c] > 0 THEN ref' = 0 /\ HandOver ELSE UNCHANGED <<ref, owner, tq, wake>>
  /\ Unwind
  /\ UNCHANGED <<slp, stale, sesVars, errq, forkq, resp, clo, from, silent, timer, peerVars, nses>>

\* skynet.exit: an error to every caller and for every unused response object;
\* then the Lua state is closed and its messages are dropped.  The services it
\* was calling are told as well; they are not followed here, nor is what the
\* levels of suspend around it would still resume in the closing service.
exit(c) ==
  /\ Running(c)
  /\ LET told(r) == (IF \E d \in Co : req[d] = r THEN <<"ERROR">> ELSE <<>>)
                    \o (IF clo[r] = "open" /\ from[r] \notin down THEN <<"ERROR">> ELSE <<>>)
     IN  sent' = [r \in Request |-> IF r \in Arrived THEN sent[r] \o told(r) ELSE sent[r]]
  /\ clo' = [r \in Request |-> IF clo[r] = "open" THEN "used" ELSE clo[r]]
  /\ phase' = "gone" /\ cur' = None
  /\ st' = [d \in Co |-> "free"]
  /\ sic' = [s \in Session |-> None] /\ wsess' = [s \in Session |-> None]
  /\ slp' = [d \in Co |-> 0] /\ wake' = [d \in Co |-> 0]
  /\ errq' = <<>> /\ forkq' = {}
  /\ req' = [d \in Co |-> 0] /\ resp' = {}
  /\ owner' = None /\ ref' = 0 /\ tq' = <<>> /\ depth' = [d \in Co |-> 0]
  /\ timer' = {} /\ ans' = [s \in Session |-> "none"]
  /\ UNCHANGED <<from, silent, down, nses, nerr, stale>>

-----------------------------------------------------------------------------
(* suspend and dispatch_message go on.                                     *)

\* The queue's wait returns: assert(ref == 0), then the section is entered.
\* If it fails the error is caught by the program or is its next step.
Enters(c) ==
  IF ref = 0
  THEN owner' = c /\ ref' = 1 /\ depth' = [depth EXCEPT ![c] = 1] /\ UNCHANGED tq
  ELSE UNCHANGED csVars

\* Mutant: the session stays with the coroutine.
Broken_not(c) == c

\* skynet.wait clears its session, skynet.sleep leaves the mark for the answer
\* of the timer that is still to come.
Broken(c) == IF st[c] = "sleep" THEN BREAK ELSE None

dispatch_wakeup ==
  /\ phase = "wake"
  /\ IF \A c \in Co : wake[c] = 0
     THEN phase' = "error" /\ UNCHANGED <<cur, st, sic, slpVars, csVars>>
     ELSE \E c \in {d \in Co : wake[d] # 0} :
            /\ wake' = [wake EXCEPT ![c] = 0]
            /\ IF slp[c] = 0
               THEN phase' = "error" /\ UNCHANGED <<cur, st, sic, slp, stale, csVars>>
               ELSE /\ sic' = [sic EXCEPT ![slp[c]] = Broken(c)]
                    /\ slp' = [slp EXCEPT ![c] = 0]
                    /\ stale' = (stale \/ wake[c] # slp[c])
                    /\ st' = [st EXCEPT ![c] = "run"]
                    /\ IF st[c] = "enter" THEN Enters(c) ELSE UNCHANGED csVars
                    /\ Resume(c)
  /\ UNCHANGED <<wsess, errq, forkq, reqVars, timer, peerVars, nses, nerr>>

\* dispatch_error_queue.  A session that was answered meanwhile has no
\* coroutine, and resuming nil is an error.
dispatch_error_queue ==
  /\ phase = "error"
  /\ IF errq = <<>>
     THEN phase' = "fork" /\ UNCHANGED <<cur, st, sesVars, errq>>
     ELSE LET s == Head(errq)
          IN  /\ errq' = Tail(errq)
              /\ sic' = [sic EXCEPT ![s] = None]
              /\ wsess' = [wsess EXCEPT ![s] = None]
              /\ IF sic[s] = None
                 THEN Unwind /\ UNCHANGED st
                 ELSE Resume(sic[s]) /\ st' = [st EXCEPT ![sic[s]] = "run"]
  /\ UNCHANGED <<slpVars, forkq, reqVars, csVars, timer, peerVars, nses, nerr>>

\* The loop of dispatch_message over the forked coroutines.
dispatch_fork ==
  /\ phase = "fork"
  /\ IF forkq = {}
     THEN phase' = "idle" /\ UNCHANGED <<cur, st, forkq>>
     ELSE \E c \in forkq :
            /\ forkq' = forkq \ {c}
            /\ st' = [st EXCEPT ![c] = "run"]
            /\ Resume(c)
  /\ UNCHANGED <<slpVars, sesVars, errq, reqVars, csVars, timer, peerVars, nses, nerr>>

-----------------------------------------------------------------------------
(* Messages: raw_dispatch_message.                                         *)

\* A message of service p; ses is its session, 0 if it wants no answer.
Message(p, ses) ==
  /\ phase = "idle" /\ p \notin down
  /\ \/ ses = 0 /\ UNCHANGED from
     \/ ses = Len(from) + 1 /\ ses \in Request /\ from' = Append(from, p)

\* It runs in a coroutine of its own.
Deliver(p, c, ses) ==
  /\ Message(p, ses) /\ c \in Free
  /\ req' = [req EXCEPT ![c] = ses]
  /\ st' = [st EXCEPT ![c] = "run"]
  /\ Resume(c)
  /\ UNCHANGED <<slpVars, sesVars, errq, forkq, resp, clo, sent, silent, csVars,
                 timer, peerVars, nses, nerr>>

\* p.unpack fails: the coroutine has the request and is never resumed.
Undecodable(p, c, ses) ==
  /\ Message(p, ses) /\ c \in Free /\ nerr < MaxError
  /\ nerr' = nerr + 1
  /\ req' = [req EXCEPT ![c] = ses]
  /\ st' = [st EXCEPT ![c] = "stuck"]
  /\ silent' = silent \cup ({ses} \ {0})
  /\ Unwind
  /\ UNCHANGED <<slpVars, sesVars, errq, forkq, resp, clo, sent, csVars,
                 timer, peerVars, nses>>

\* A protocol that is not registered; without a session that is an error.
Unregistered(p, ses) ==
  /\ Message(p, ses)
  /\ sent' = IF ses = 0 THEN sent ELSE [sent EXCEPT ![ses] = <<"ERROR">>]
  /\ Unwind
  /\ UNCHANGED <<st, slpVars, sesVars, errq, forkq, req, resp, clo, silent, csVars,
                 timer, peerVars, nses, nerr>>

\* A protocol that has no dispatch function: unknown_request, an error.
Undispatched(p, ses) ==
  /\ Message(p, ses)
  /\ silent' = silent \cup ({ses} \ {0})
  /\ Unwind
  /\ UNCHANGED <<st, slpVars, sesVars, errq, forkq, req, resp, clo, sent, csVars,
                 timer, peerVars, nses, nerr>>

Arrives(p, ses) ==
  \/ \E c \in Co : Deliver(p, c, ses) \/ Undecodable(p, c, ses)
  \/ Unregistered(p, ses) \/ Undispatched(p, ses)

\* A response resumes the coroutine of its session with true; a sleep that
\* was broken is only noted.
Respond(s) ==
  LET c == sic[s]
  IN  /\ sic' = [sic EXCEPT ![s] = None]
      /\ IF c \in {None, BREAK}
         THEN UNCHANGED <<ctlVars, st, slp, wsess>>
         ELSE /\ slp' = [slp EXCEPT ![c] = 0]
              /\ wsess' = [wsess EXCEPT ![s] = None]
              /\ IF st[c] = "noop"
                 THEN Suspend /\ st' = [st EXCEPT ![c] = "free"]
                 ELSE Resume(c) /\ st' = [st EXCEPT ![c] = "run"]

TimerFires(s) ==
  /\ phase = "idle" /\ s \in timer
  /\ timer' = timer \ {s}
  /\ Respond(s)
  /\ UNCHANGED <<wake, stale, errq, forkq, reqVars, csVars, peerVars, nses, nerr>>

ResponseArrives(s) ==
  /\ phase = "idle" /\ ans[s] \in {"due", "error"}
  /\ ans' = [ans EXCEPT ![s] = "none"]
  /\ Respond(s)
  /\ UNCHANGED <<wake, stale, errq, forkq, reqVars, csVars, timer, down, nses, nerr>>

\* Mutant: the failed session is not queued.
Failed_ignored(ss) == errq' = errq

\* _error_dispatch queues the sessions that are still watched.
Failed(ss) == errq' = errq \o ss

\* An error for one session, in a coroutine that ends at once.  The one that
\* comes after the response finds the session gone.
ErrorArrives(s) ==
  /\ phase = "idle" /\ s <= nses /\ ans[s] # "error" /\ wsess[s] \notin down
  /\ ans' = [ans EXCEPT ![s] = IF @ = "due" THEN "error" ELSE @]
  /\ IF wsess[s] = None THEN UNCHANGED errq ELSE Failed(<<s>>)
  /\ Suspend
  /\ UNCHANGED <<st, slpVars, sesVars, forkq, reqVars, csVars, timer, down, nses, nerr>>

\* An error with session 0: the service is down, all calls to it fail.
ServiceDown(p) ==
  /\ phase = "idle" /\ p \notin down
  /\ down' = down \cup {p}
  /\ LET calls == {s \in Session : wsess[s] = p}
     IN  /\ \E ss \in SetToSeqs(calls) : Failed(ss)
         /\ ans' = [s \in Session |-> IF s \in calls THEN "none" ELSE ans[s]]
  /\ Suspend
  /\ UNCHANGED <<st, slpVars, sesVars, forkq, reqVars, csVars, timer, nses, nerr>>

-----------------------------------------------------------------------------
Program(c) ==
  \/ \E p \in Peer : call(c, p)
  \/ sleep(c) \/ wait(c)
  \/ \E d \in Co : wakeup(c, d) \/ fork(c, d) \/ timeout(c, d)
  \/ \E s \in Session : remove_timeout(c, s)
  \/ \E r \in Request : ret(c, r) \/ response(c, r)
  \/ \E r \in Request, ok \in BOOLEAN : respond(c, r, ok)
  \/ Enter(c) \/ Leave(c) \/ Return(c) \/ Fail(c) \/ exit(c)

Dispatch == dispatch_wakeup \/ dispatch_error_queue \/ dispatch_fork

Next ==
  \/ \E c \in Co : Program(c)
  \/ Dispatch
  \/ \E p \in Peer, ses \in 0..MaxRequest : Arrives(p, ses)
  \/ \E s \in Session : TimerFires(s) \/ ResponseArrives(s) \/ ErrorArrives(s)
  \/ \E p \in Peer : ServiceDown(p)

Spec == Init /\ [][Next]_vars

-----------------------------------------------------------------------------
State == {"free", "ready", "noop", "run", "call", "sleep", "wait", "enter", "stuck", "dead"}

\* The state is well formed.
TypeOK ==
  /\ phase \in {"idle", "run", "wake", "error", "fork", "gone"}
  /\ cur \in Co \cup {None} /\ (phase = "run" <=> cur # None)
  /\ st \in [Co -> State]
  /\ sic \in [Session -> Co \cup {None, BREAK}]
  /\ slp \in [Co -> 0..nses] /\ wake \in [Co -> 0..nses]
  /\ wsess \in [Session -> Peer \cup {None}]
  /\ errq \in Seq(Session) /\ forkq \subseteq Co
  /\ req \in [Co -> 0..MaxRequest]
  /\ resp \subseteq Co
  /\ clo \in [Request -> {"none", "open", "used"}]
  /\ owner \in Co \cup {None} /\ ref \in 0..MaxDepth /\ tq \in Seq(Co)
  /\ depth \in [Co -> 0..MaxDepth]
  /\ timer \subseteq 1..nses /\ down \subseteq Peer /\ nses \in 0..MaxSession
  /\ ans \in [Session -> {"none", "due", "error"}]
  /\ from \in Seq(Peer) /\ sent \in [Request -> Seq({"RESPONSE", "ERROR"})]
  /\ silent \subseteq Request
  /\ nerr \in 0..MaxError /\ stale \in BOOLEAN

\* A coroutine that gave up control will be resumed: one that calls has its
\* session registered and the answer is due or its failure is queued, however
\* responses, late errors, dead services and unwinding errors were ordered;
\* one that sleeps has its timer; a broken sleep has its mark until the timer
\* answers.
NobodyForgotten ==
  /\ TypeOK
  /\ \A c \in Co : st[c] = "call" =>
       \E s \in Session :
         /\ sic[s] = c /\ wsess[s] # None
         /\ \/ ans[s] = "due"
            \/ \E i \in DOMAIN errq : errq[i] = s
  /\ \A c \in Co : st[c] = "sleep" => slp[c] \in timer /\ sic[slp[c]] = c
  /\ \A s \in Session : sic[s] = BREAK => s \in timer

\* A coroutine waits on one thing at a time: no message can resume it twice.
ResumedOnce ==
  \A s, t \in Session : s # t /\ sic[s] = sic[t] => sic[s] \in {None, BREAK}

\* The section's counter and owner are those of the coroutine inside.
SectionIsCounted ==
  /\ \A c \in Co : depth[c] > 0 => owner = c /\ ref = depth[c]
  /\ (\A c \in Co : depth[c] = 0) => ref = 0

Lock == INSTANCE CriticalSection WITH inside <- depth

\* The section implements a lock that can be entered again, although waiters
\* are resumed later than they are chosen, and by anything that wakes them.
ImplementsLock == Lock!Spec

\* A caller waits in vain only for a request that no handler took up (no
\* dispatch function, a message that cannot be decoded) or whose handler
\* returned and never answered; then it gets no response, and an error at most
\* from the exit of the service.  By every other road, an error in the handler,
\* a response object, an unknown protocol, the exit, it is answered once the
\* handler is done, and with one response at most (a RESPONSE and an ERROR for
\* the same session do occur).
RequestsAreAnswered ==
  \A r \in Arrived :
    /\ \/ r \in silent
       \/ sent[r] # <<>>
       \/ from[r] \in down
       \/ clo[r] = "open"
       \/ \E c \in Co : req[c] = r /\ st[c] # "stuck"
    /\ LET responses == {i \in DOMAIN sent[r] : sent[r][i] = "RESPONSE"}
       IN  Cardinality(responses) <= IF r \in silent THEN 0 ELSE 1

\* At the end of a dispatch in which nothing failed no coroutine is left woken
\* or failed and not resumed.
Drained ==
  phase = "idle" /\ nerr = 0 => errq = <<>> /\ \A c \in Co : wake[c] = 0

Waiting(c) == st[c] = "enter"

\* Who waits for the section will get it: it is queued behind a holder that is
\* inside or has been woken to enter, or it is that holder itself, even when an
\* error has unwound the dispatch before the wakeup was served.  That takes
\* wakeups that reach the sleep they were meant for, and a program that wakes
\* no coroutine that waits in queue.lua.
WaitersAreServed ==
  /\ SectionIsCounted
  /\ stale \/ \A c \in Co : Waiting(c) =>
       \/ owner = c /\ wake[c] # 0
       \/ /\ Contains(tq, c)
          /\ owner # None
          /\ depth[owner] > 0 \/ (Waiting(owner) /\ wake[owner] # 0)
=============================================================================
