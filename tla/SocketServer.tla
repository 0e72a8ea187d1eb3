---------------------------- MODULE SocketServer ----------------------------
(***************************************************************************)
(* The socket server, skynet-src/socket_server.c: a table of sockets that  *)
(* the socket thread owns.  Worker threads reserve a slot with a           *)
(* compare-and-swap and put commands into a pipe; the socket thread reads  *)
(* the pipe, waits for events of the kernel, writes what is buffered and   *)
(* reports to the services.                                                *)
(*                                                                         *)
(* A packet is Size units; a buffer list is the sequence of the units that *)
(* are still to be written, so writing is taking a prefix of it.  The      *)
(* kernel accepts any number of units, fails, and signals what it likes of *)
(* the sockets that are registered.  A socket's descriptor bears its id.   *)
(* Addresses, options (T, C), user objects (no service registers any) and  *)
(* the exit command X are left out.  A failed assertion is the phase       *)
(* "abort".                                                                *)
(***************************************************************************)
EXTENDS Integers, Sequences, FiniteSets, SequencesExt, FiniteSetsExt

CONSTANTS
  Worker,      \* worker threads
  NSlot,       \* MAX_SOCKET
  MaxEvent,    \* MAX_EVENT
  Size,        \* units of a packet
  MaxId,       \* bound: ids allocated
  MaxPkt,      \* bound: packets sent
  MaxCmd,      \* bound: start and close commands
  MaxPipe,     \* bound: commands in the pipe
  Kind         \* bound: what each id may be reserved for

ASSUME SocketServerAssumption ==
  /\ {NSlot, MaxEvent, Size, MaxId, MaxPkt, MaxCmd, MaxPipe} \subseteq Nat \ {0}
  /\ Kind \in [1..MaxId -> SUBSET {"O", "L", "B", "U"}]

VARIABLES
  slot,        \* the table
  alloc,       \* alloc_id
  req,         \* per worker: the id it has reserved and not yet published
  pipe,        \* the control pipe
  pc,          \* where the socket thread is between two steps others can see
  checkctrl,
  ev,          \* the events not yet dispatched
  arg,         \* the id clear_closed_event looks for, or open_socket failed for
  fds,         \* descriptors the process has open
  how,         \* how each id given to a service came about: O L B U, or accepted
  told,        \* the ids whose services were told CLOSE, or an ERROR that ends the socket
  warned,      \* the ids whose services were told an ERROR of accept: the socket stays
  pkts,        \* per packet: socket, priority, and whether send_socket took it
  wire,        \* the units the kernel has accepted, of the sockets that are open
  ncmd,        \* start and close commands so far
  lost         \* a failed open has given back a slot reserved for another id

vars == <<slot, alloc, req, pipe, pc, checkctrl, ev, arg, fds, how, told, warned, pkts, wire, ncmd, lost>>

Id       == 1..MaxId
Slots    == 0..NSlot - 1
HASH_ID(id) == id % NSlot
Known    == DOMAIN how
Open     == {"PLISTEN", "LISTEN", "CONNECTING", "CONNECTED", "HALFCLOSE", "PACCEPT", "BIND"}
Polled   == Open \ {"PLISTEN", "PACCEPT"}

NewFd(type, id, proto, wr) ==
  [type |-> type, id |-> id, proto |-> proto, high |-> <<>>, low |-> <<>>, wb |-> 0, wr |-> wr]

Init ==
  /\ slot = [i \in Slots |-> NewFd("INVALID", 0, "tcp", FALSE)]
  /\ alloc = 0 /\ req = [w \in Worker |-> <<>>]
  /\ pipe = <<>> /\ pc = "poll" /\ checkctrl = TRUE /\ ev = <<>> /\ arg = 0
  /\ fds = {} /\ how = <<>> /\ told = {} /\ warned = {}
  /\ pkts = <<>> /\ wire = [id \in Id |-> <<>>] /\ ncmd = 0 /\ lost = FALSE

-----------------------------------------------------------------------------
(* Worker threads.                                                         *)

\* The ids one call of reserve_id tries, up to the first with a free slot.
Tried == {id \in alloc + 1..alloc + NSlot : slot[HASH_ID(id)].type = "INVALID"}

\* The compare-and-swap, in one step with the increment of alloc_id: a thread
\* that stalls between the two, and takes a slot under an id lower than those
\* given out since, is left out.  A listening or datagram socket has been
\* opened before, and is closed again if there is no slot.
reserve_id(w, kind) ==
  /\ req[w] = <<>>
  /\ Tried # {} /\ Min(Tried) <= MaxId /\ kind \in Kind[Min(Tried)]
  /\ alloc' = Min(Tried)
  /\ slot' = [slot EXCEPT ![HASH_ID(Min(Tried))].type = "RESERVE"]
  /\ req' = [req EXCEPT ![w] = <<kind, Min(Tried)>>]
  /\ fds' = IF kind \in {"L", "U"} THEN fds \cup {Min(Tried)} ELSE fds
  /\ UNCHANGED <<pipe, pc, checkctrl, ev, arg, how, told, pkts, wire, ncmd>>

\* ... and the id is written; then the command is sent.
Requested(w) ==
  LET id == req[w][2] IN
  /\ req[w] # <<>> /\ Len(pipe) < MaxPipe
  /\ slot' = [slot EXCEPT ![HASH_ID(id)].id = id]
  /\ pipe' = Append(pipe, [c |-> req[w][1], id |-> id, x |-> 0])
  /\ how' = [i \in Known \cup {id} |-> IF i = id THEN req[w][1] ELSE how[i]]
  /\ req' = [req EXCEPT ![w] = <<>>]
  /\ UNCHANGED <<alloc, pc, checkctrl, ev, arg, fds, told, pkts, wire, ncmd>>

SendRequest(c, id, x) ==
  /\ Len(pipe) < MaxPipe
  /\ pipe' = Append(pipe, [c |-> c, id |-> id, x |-> x])
  /\ UNCHANGED <<slot, alloc, req, pc, checkctrl, ev, arg, fds, how, told, wire>>

\* The sender looks at the slot first, without any lock.
socket_server_send(id, low) ==
  /\ slot[HASH_ID(id)].id = id /\ slot[HASH_ID(id)].type # "INVALID"
  /\ Len(pkts) < MaxPkt
  /\ pkts' = Append(pkts, [id |-> id, low |-> low, taken |-> FALSE])
  /\ SendRequest(IF low THEN "P" ELSE "D", id, Len(pkts) + 1)
  /\ UNCHANGED ncmd

socket_server_start(id) ==
  /\ how[id] \in {"L", "accepted"} /\ ncmd < MaxCmd
  /\ ncmd' = ncmd + 1
  /\ SendRequest("S", id, 0)
  /\ UNCHANGED pkts

\* shutdown = 0 waits for the buffered packets.
socket_server_close(id, shutdown) ==
  /\ ncmd < MaxCmd
  /\ ncmd' = ncmd + 1
  /\ SendRequest("K", id, shutdown)
  /\ UNCHANGED pkts

-----------------------------------------------------------------------------
(* The socket thread: helpers.                                             *)

Abort ==
  /\ pc' = "abort"
  /\ UNCHANGED <<slot, ev, arg, fds, told, wire>>

\* Mutant: the descriptor stays open.
Freed_leak(i) == fds

\* The descriptors that are left; that of a bound socket is its owner's.
Freed(i) == IF slot[i].type = "BIND" THEN fds ELSE fds \ {slot[i].id}

\* SOCKET_CLOSE or SOCKET_ERROR is reported; OPEN, DATA and ACCEPT are not kept.
Tell(id) == told' = told \cup {id}

\* Of a closed socket only the id matters: new_fd sets the rest again.
Invalid(i) == NewFd("INVALID", slot[i].id, "tcp", FALSE)

\* force_close: the assertion, the lists, the descriptor, the slot.
force_close(i) ==
  /\ slot' = [slot EXCEPT ![i] = Invalid(i)]
  /\ fds' = Freed(i)
  /\ wire' = [wire EXCEPT ![slot[i].id] = <<>>]
  /\ Tell(slot[i].id)

\* A command that ended a socket still has events to clear; see below.
Ended(id) ==
  /\ arg' = IF ev = <<>> THEN 0 ELSE id
  /\ pc' = IF ev = <<>> THEN "poll" ELSE "clear"

Goes == pc' = "poll" /\ arg' = 0

-----------------------------------------------------------------------------
(* Writing.                                                                *)

Empty(s)   == s.high = <<>> /\ s.low = <<>>
Drop(l, k) == SubSeq(l, k + 1, Len(l))

\* What is left of the packet at the head of a list, whose units come together.
HeadOf(l) == SubSeq(l, 1, Cardinality({k \in DOMAIN l : l[k] = Head(l)}))

\* A datagram is written whole or not at all.
Written(s, l) == {k \in 0..Len(l) : s.proto = "udp" => k % Size = 0}

list_uncomplete(l) == l # <<>> /\ Len(HeadOf(l)) < Size

\* raise_uncomplete.
Raised(s) ==
  IF list_uncomplete(s.low)
  THEN [s EXCEPT !.high = HeadOf(s.low), !.low = Drop(s.low, Len(HeadOf(s.low)))]
  ELSE s

\* send_buffer when k units of the high list and, if that is all of it, j of
\* the low one are accepted.
Sent(s, k, j) ==
  IF k < Len(s.high)
  THEN [s EXCEPT !.high = Drop(s.high, k), !.wb = @ - k]
  ELSE Raised([s EXCEPT !.high = <<>>, !.low = Drop(s.low, j), !.wb = @ - k - j])

SentUnits(s, k, j) == SubSeq(s.high, 1, k) \o SubSeq(s.low, 1, j)

\* Both lists were empty after the high one: the write event is turned off,
\* and a socket that waits to be closed is closed.
Emptied(s, k) == k = Len(s.high) /\ s.low = <<>>

\* What send_buffer may come to: the assertion that no packet of the low list
\* is half written fails, the socket is to be closed (a write failed, or all is
\* out and that was waited for), or s and units are what is left and written.
send_buffer(s) ==
  LET end(e) == [end |-> e, s |-> s, units |-> <<>>]
      cuts   == {c \in Written(s, s.high) \X Written(s, s.low) : c[1] < Len(s.high) => c[2] = 0}
      after(k, j) ==
        IF Emptied(s, k) /\ s.type = "HALFCLOSE" THEN end("closed")
        ELSE [end |-> "open", units |-> SentUnits(s, k, j),
              s |-> IF Emptied(s, k) THEN [Sent(s, k, j) EXCEPT !.wr = FALSE] ELSE Sent(s, k, j)]
  IN  IF list_uncomplete(s.low) THEN {end("abort")}
      ELSE {after(c[1], c[2]) : c \in cuts}
           \cup (IF s.proto = "tcp" /\ ~Empty(s) THEN {end("closed")} ELSE {})

Wrote(id, units) == wire' = [wire EXCEPT ![id] = @ \o units]

-----------------------------------------------------------------------------
(* The socket thread: commands, in the order of the pipe.                  *)

Cmd(c) ==
  /\ pc = "poll" /\ checkctrl /\ pipe # <<>> /\ Head(pipe).c = c
  /\ pipe' = Tail(pipe)
  /\ UNCHANGED <<alloc, req, checkctrl, ev, how, ncmd>>

cid == Head(pipe).id
cs  == HASH_ID(cid)

\* new_fd takes a reserved slot whose lists are empty.
NewFdOk == slot[cs].type = "RESERVE" /\ Empty(slot[cs])

\* The type of the slot is INVALID, whatever it was.
Clobber(i) == slot' = [slot EXCEPT ![i].type = "INVALID"]

\* sp_add fails in new_fd, which gives the slot back; the callers that do so
\* once more go through "fail".
SpAddFails == slot[cs].type = "RESERVE" /\ Clobber(cs)

Opened(type, proto, wr) == slot' = [slot EXCEPT ![cs] = NewFd(type, cid, proto, wr)]

\* 'O': no address or no descriptor; the event poll is full; or a connection
\* that is made at once or later.
open_socket ==
  /\ Cmd("O")
  /\ \/ Clobber(cs) /\ Tell(cid) /\ Ended(cid) /\ UNCHANGED fds
     \/ SpAddFails /\ pc' = "fail" /\ arg' = cid /\ UNCHANGED <<told, fds>>
     \/ NewFdOk /\ Opened("CONNECTED", "tcp", FALSE) /\ Goes /\ UNCHANGED told /\ fds' = fds \cup {cid}
     \/ NewFdOk /\ Opened("CONNECTING", "tcp", TRUE) /\ Goes /\ fds' = fds \cup {cid} /\ UNCHANGED told
     \/ ~NewFdOk /\ Abort
  /\ UNCHANGED <<pkts, wire>>

\* Mutant: the failure is not reported.
OpenFailed_silent ==
  /\ pc = "fail"
  /\ Clobber(HASH_ID(arg))
  /\ Goes
  /\ UNCHANGED <<alloc, req, pipe, checkctrl, ev, fds, how, told, pkts, wire, ncmd>>

\* The failure of 'O' and 'U' goes on: the slot is given back once more.  A
\* datagram socket fails without a report.
OpenFailed ==
  /\ pc = "fail"
  /\ Clobber(HASH_ID(arg))
  /\ IF how[arg] = "O"
     THEN Tell(arg) /\ Ended(arg)
     ELSE Goes /\ UNCHANGED told
  /\ UNCHANGED <<alloc, req, pipe, checkctrl, ev, fds, how, pkts, wire, ncmd>>

\* 'U'.
add_udp_socket ==
  /\ Cmd("U")
  /\ \/ SpAddFails /\ pc' = "fail" /\ arg' = cid /\ fds' = fds \ {cid}
     \/ NewFdOk /\ Opened("CONNECTED", "udp", FALSE) /\ Goes /\ UNCHANGED fds
     \/ ~NewFdOk /\ Abort
  /\ UNCHANGED <<told, pkts, wire>>

\* 'L'.
listen_socket ==
  /\ Cmd("L")
  /\ \/ NewFdOk /\ Opened("PLISTEN", "tcp", FALSE) /\ Goes
     \/ ~NewFdOk /\ Abort
  /\ UNCHANGED <<told, fds, pkts, wire>>

\* 'B'.
bind_socket ==
  /\ Cmd("B")
  /\ \/ SpAddFails /\ Tell(cid) /\ Ended(cid)
     \/ NewFdOk /\ Opened("BIND", "tcp", FALSE) /\ Goes /\ UNCHANGED told
     \/ ~NewFdOk /\ Abort
  /\ UNCHANGED <<fds, pkts, wire>>

\* The command's id is no longer, or not yet, that of the slot.
Stale == slot[cs].type = "INVALID" \/ slot[cs].id # cid

\* 'S'.  "transfer" to another service leaves the socket as it is.
start_socket ==
  /\ Cmd("S")
  /\ LET type == slot[cs].type IN
     \/ Stale /\ Tell(cid) /\ Ended(cid) /\ UNCHANGED <<slot, fds, wire>>
     \/ /\ ~Stale /\ type \in {"PACCEPT", "PLISTEN"}
        /\ \/ force_close(cs) /\ Ended(cid)
           \/ /\ slot' = [slot EXCEPT ![cs].type = IF type = "PACCEPT" THEN "CONNECTED" ELSE "LISTEN"]
              /\ Goes /\ UNCHANGED <<told, fds, wire>>
     \/ ~Stale /\ type = "CONNECTED" /\ Goes /\ UNCHANGED <<slot, fds, told, wire>>
     \/ ~Stale /\ type \notin {"PACCEPT", "PLISTEN", "CONNECTED"} /\ Goes /\ UNCHANGED <<slot, fds, told, wire>>
  /\ UNCHANGED pkts

\* What close_socket does once it has written what it can.
CloseOrWait(s, units) ==
  IF Head(pipe).x = 1 \/ Empty(s)
  THEN force_close(cs) /\ Ended(cid)
  ELSE /\ Wrote(cid, units)
       /\ slot' = [slot EXCEPT ![cs] = [s EXCEPT !.type = "HALFCLOSE"]]
       /\ Goes /\ UNCHANGED <<told, fds>>

\* 'K'.  A socket that is gone is reported closed, again.  A slot that bears
\* the id and is reserved for the next one trips an assertion of force_close.
close_socket ==
  /\ Cmd("K")
  /\ \/ Stale /\ Tell(cid) /\ Ended(cid) /\ UNCHANGED <<slot, fds, wire>>
     \/ ~Stale /\ slot[cs].type = "RESERVE" /\ Abort
     \/ ~Stale /\ slot[cs].type # "RESERVE" /\ Empty(slot[cs]) /\ force_close(cs) /\ Ended(cid)
     \/ /\ ~Stale /\ slot[cs].type # "RESERVE" /\ ~Empty(slot[cs])
        /\ \E o \in send_buffer(slot[cs]) :
             CASE o.end = "abort"  -> Abort
               [] o.end = "closed" -> force_close(cs) /\ Ended(cid)
               [] o.end = "open"   -> CloseOrWait(o.s, o.units)
  /\ UNCHANGED pkts

pkt == Head(pipe).x
Units(p) == [n \in 1..Size |-> p]

\* Mutant: a packet is written past the ones that wait.
Direct_busy(s) == s.type = "CONNECTED"

\* The packet is written without going through the lists.
Direct(s) == s.type = "CONNECTED" /\ Empty(s)

\* Mutant: what is appended is not counted.
Buffered_uncounted(s, k, low) ==
  IF low /\ ~(s.proto = "tcp" /\ Direct(s))
  THEN [s EXCEPT !.low = @ \o Drop(Units(pkt), k)]
  ELSE [s EXCEPT !.high = @ \o Drop(Units(pkt), k)]

\* The packet, or the rest of one that was written in part, is appended.  A
\* stream puts such a rest into the high list, whatever its priority.
Buffered(s, k, low) ==
  IF low /\ ~(s.proto = "tcp" /\ Direct(s))
  THEN [s EXCEPT !.low = @ \o Drop(Units(pkt), k), !.wb = @ + Size - k]
  ELSE [s EXCEPT !.high = @ \o Drop(Units(pkt), k), !.wb = @ + Size - k]

\* Mutant: the write event is not asked for.
Armed_not(s) == s

Armed(s) == [s EXCEPT !.wr = TRUE]

\* 'D' and 'P'.
send_socket(c) ==
  LET s == slot[cs]
      low == c = "P"
      taken == pkts' = [pkts EXCEPT ![pkt].taken = TRUE]
  IN
  /\ Cmd(c)
  /\ \/ /\ Stale \/ s.type \in {"HALFCLOSE", "PACCEPT", "PLISTEN", "LISTEN"}
        /\ Goes /\ UNCHANGED <<slot, fds, told, pkts, wire>>
     \/ /\ ~Stale /\ Direct(s)
        /\ \/ /\ s.proto = "tcp"
              /\ force_close(cs) /\ Ended(cid) /\ UNCHANGED pkts
           \/ \E k \in Written(s, Units(pkt)) :
                /\ wire' = [wire EXCEPT ![cid] = @ \o SubSeq(Units(pkt), 1, k)]
                /\ slot' = [slot EXCEPT ![cs] = IF k = Size THEN s ELSE Armed(Buffered(s, k, low))]
                /\ taken /\ Goes /\ UNCHANGED <<fds, told>>
     \/ /\ ~Stale /\ s.type \in {"CONNECTING", "CONNECTED", "BIND", "RESERVE"}
        /\ ~Direct(s)
        /\ slot' = [slot EXCEPT ![cs] = Buffered(s, 0, low)]
        /\ taken /\ Goes /\ UNCHANGED <<fds, told, wire>>

\* clear_closed_event looks for the id in slots that are still INVALID, and
\* drops the first event it finds.
Cleared ==
  LET gone == {n \in DOMAIN ev : slot[ev[n].s].type = "INVALID" /\ slot[ev[n].s].id = arg}
  IN  IF gone = {} THEN ev ELSE RemoveAt(ev, Min(gone))

clear_closed_event ==
  /\ pc = "clear"
  /\ ev' = Cleared
  /\ Goes
  /\ UNCHANGED <<slot, alloc, req, pipe, checkctrl, fds, how, told, pkts, wire, ncmd>>

-----------------------------------------------------------------------------
(* The socket thread: events.                                              *)

\* has_cmd says no, or is not asked before the next wait: a command that comes
\* just after it is one that comes just after the step.
NoCommand == pc = "poll" /\ (checkctrl => pipe = <<>>)

Event == [s : {i \in Slots : slot[i].type \in Polled}, r : BOOLEAN, w : BOOLEAN]
Signalled == {e \in Event : (e.r \/ e.w) /\ (e.w => slot[e.s].wr)}

\* sp_wait.  The first event is dispatched before the pipe is looked at,
\* unless it is the pipe's own.
sp_wait ==
  /\ NoCommand /\ ev = <<>>
  /\ checkctrl' = TRUE
  /\ \E batch \in SUBSET Signalled :
       /\ Cardinality(batch) <= MaxEvent
       /\ \A d, e \in batch : d # e => d.s # e.s
       /\ ev' \in SetToSeqs(batch)
  /\ pc' \in (IF ev' = <<>> THEN {"poll"} ELSE {"poll", "event"})
  /\ UNCHANGED <<slot, alloc, req, pipe, arg, fds, how, told, pkts, wire, ncmd>>

At(types) ==
  /\ ev # <<>> /\ (pc = "event" \/ NoCommand)
  /\ slot[Head(ev).s].type \in types
  /\ checkctrl' = (pc = "event")
  /\ UNCHANGED <<pipe, ncmd>>

es == Head(ev).s
Handled == ev' = Tail(ev)

report_connect ==
  /\ At({"CONNECTING"})
  /\ \/ force_close(es)
     \/ /\ slot' = [slot EXCEPT ![es].type = "CONNECTED", ![es].wr = ~Empty(slot[es])]
        /\ UNCHANGED <<fds, told, wire>>
  /\ Handled /\ Goes
  /\ UNCHANGED <<alloc, req, how, pkts>>

\* A connection is accepted if there is a slot; or there is none, or nobody
\* connects any more, and nothing is reported.
\* new_fd asserts that nothing was sent to the slot in the meantime.
report_accept ==
  /\ At({"LISTEN"})
  /\ \/ /\ Tried # {} /\ Min(Tried) <= MaxId
        /\ LET id == Min(Tried) IN
           /\ alloc' = id
           /\ IF ~Empty(slot[HASH_ID(id)]) THEN Abort /\ UNCHANGED how
              ELSE /\ slot' = [slot EXCEPT ![HASH_ID(id)] = NewFd("PACCEPT", id, "tcp", FALSE)]
                   /\ fds' = fds \cup {id}
                   /\ how' = [i \in Known \cup {id} |-> IF i = id THEN "accepted" ELSE how[i]]
                   /\ Handled /\ Goes /\ UNCHANGED <<told, wire>>
     \/ Handled /\ Goes /\ UNCHANGED <<slot, alloc, fds, how, told, wire>>
  /\ UNCHANGED <<req, pkts>>

\* accept finds no descriptor left (EMFILE, ENFILE): an ERROR is reported
\* under the id of the listening socket, which stays as it is.
AcceptFails ==
  /\ At({"LISTEN"})
  /\ warned' = warned \cup {slot[es].id}
  /\ Handled /\ Goes
  /\ UNCHANGED <<slot, alloc, req, fds, how, told, pkts, wire>>

EventOfInvalid ==
  /\ At({"INVALID"})
  /\ Handled /\ Goes
  /\ UNCHANGED <<slot, alloc, req, fds, how, told, pkts, wire>>

\* forward_message_tcp and _udp: data, nothing, end of file, or an error.  If
\* the event is for writing too, that comes next.
forward_message ==
  /\ At((Open \cup {"RESERVE"}) \ {"CONNECTING", "LISTEN"})
  /\ Head(ev).r
  /\ \/ /\ slot[es].type # "RESERVE"
        /\ ev' = IF Head(ev).w THEN [ev EXCEPT ![1].r = FALSE] ELSE Tail(ev)
        /\ Goes /\ UNCHANGED <<slot, fds, told, wire>>
     \/ /\ slot[es].type # "RESERVE"
        /\ force_close(es)
        /\ Handled /\ Goes
     \/ slot[es].type = "RESERVE" /\ Abort
  /\ UNCHANGED <<alloc, req, how, pkts>>

Flush ==
  /\ At((Open \cup {"RESERVE"}) \ {"CONNECTING", "LISTEN"})
  /\ ~Head(ev).r
  /\ IF slot[es].type = "RESERVE" /\ ~Empty(slot[es]) THEN Abort
     ELSE \E o \in send_buffer(slot[es]) :
            CASE o.end = "abort"  -> Abort
              [] o.end = "closed" -> force_close(es) /\ Handled /\ Goes
              [] o.end = "open"   -> /\ slot' = [slot EXCEPT ![es] = o.s]
                                     /\ Wrote(slot[es].id, o.units)
                                     /\ Handled /\ Goes /\ UNCHANGED <<fds, told>>
  /\ UNCHANGED <<alloc, req, how, pkts>>

-----------------------------------------------------------------------------
Workers ==
  /\ pc # "abort"
  /\ \/ \E w \in Worker, kind \in {"O", "L", "B", "U"} : reserve_id(w, kind)
     \/ \E w \in Worker : Requested(w)
     \/ \E id \in Known, low \in BOOLEAN : socket_server_send(id, low)
     \/ \E id \in Known : socket_server_start(id)
     \/ \E id \in Known, shutdown \in {0, 1} : socket_server_close(id, shutdown)

SocketThread ==
  \/ open_socket \/ OpenFailed \/ add_udp_socket \/ listen_socket \/ bind_socket
  \/ start_socket \/ close_socket \/ send_socket("D") \/ send_socket("P")
  \/ clear_closed_event \/ sp_wait
  \/ report_connect \/ report_accept \/ EventOfInvalid \/ forward_message \/ Flush

ThreadStep ==
  \/ (Workers \/ SocketThread) /\ UNCHANGED warned
  \/ AcceptFails

\* The failed open gives its slot back a second time (OpenFailed), and a worker
\* has reserved it since the first.
Reclaims == pc = "fail" /\ pc' # "fail" /\ slot[HASH_ID(arg)].type # "INVALID"

Next ==
  /\ ThreadStep
  /\ lost' = (lost \/ Reclaims)

Spec == Init /\ [][Next]_vars

-----------------------------------------------------------------------------
Types == Open \cup {"INVALID", "RESERVE"}

\* The state is well formed.
TypeOK ==
  /\ \A i \in Slots :
       /\ slot[i].type \in Types /\ slot[i].id \in 0..MaxId
       /\ slot[i].proto \in {"tcp", "udp"} /\ slot[i].wr \in BOOLEAN
       /\ Range(slot[i].high) \cup Range(slot[i].low) \subseteq DOMAIN pkts
       /\ slot[i].wb \in Nat
  /\ alloc \in 0..MaxId /\ fds \subseteq Id /\ Known \subseteq Id
  /\ told \subseteq Known /\ warned \subseteq Known
  /\ pc \in {"poll", "event", "clear", "fail", "abort"}
  /\ \A i \in DOMAIN ev : ev[i].s \in Slots

\* The properties are stated for runs in which no failed open gave back a slot
\* that was another id's by then (lost): after it two ids may come to share a
\* slot, and they fail.

\* The slot holds the id.
Holds(id) == slot[HASH_ID(id)].id = id /\ slot[HASH_ID(id)].type \in Open
Pending(id) ==
  \/ \E i \in DOMAIN pipe : pipe[i].id = id /\ pipe[i].c \in {"O", "L", "B", "U"}
  \/ pc = "fail" /\ arg = id

\* The peer gets whole packets: however the two lists, partial writes and
\* direct writes follow each other, no packet is cut by another one, and
\* packets of one priority come in the order in which they were sent.
StreamIsWhole ==
  ~lost => \A id \in Id :
    LET w == wire[id] IN
    \A i, j \in DOMAIN w : i < j =>
      /\ w[i] = w[j] => \A k \in i..j : w[k] = w[i]
      /\ w[i] # w[j] => Cardinality({k \in DOMAIN w : w[k] = w[i]}) = Size
      /\ pkts[w[i]].low = pkts[w[j]].low => w[i] <= w[j]

\* While its socket is open, every unit of a packet that was taken is either
\* written or still buffered, once; wb_size, which the senders are given to
\* throttle themselves, is the number of the buffered ones, and stays so when
\* two ids share a slot.
NothingLost ==
  /\ TypeOK
  /\ \A i \in Slots : slot[i].type \in Open =>
       LET s == slot[i]
           all == wire[s.id] \o s.high \o s.low
       IN
       /\ s.wb = Len(s.high) + Len(s.low)
       /\ \A p \in DOMAIN pkts :
            ~lost /\ pkts[p].taken /\ pkts[p].id = s.id =>
              Cardinality({k \in DOMAIN all : all[k] = p}) = Size

\* A socket with something to write waits for the event that lets it: nothing
\* else would ever write it, or close a socket that is half closed.  (A bound
\* descriptor never waits for it: what is sent there stays, and so does the
\* socket when it is closed.)
WriteArmed ==
  ~lost => \A i \in Slots :
    slot[i].type \in Open /\ ~Empty(slot[i]) /\ how[slot[i].id] # "B" => slot[i].wr

\* An id whose socket is gone was reported closed or failed, over all the ways
\* it may go, so that its service can forget it; only a datagram socket that
\* could not be registered goes without a word.  An id that was reported is
\* gone, with one exception: an ERROR may also mean that a listening socket ran
\* out of descriptors in accept, and that socket is still open and will be
\* reported when it goes.  (The ERRORs look alike, and socket.lua and
\* gateserver.lua close the listener on this one too.)
ClosedIffTold ==
  pc # "abort" /\ ~lost => \A id \in Known :
    /\ id \in told => ~Holds(id) /\ ~Pending(id)
    /\ id \in warned \ told => how[id] = "L" /\ Holds(id)
    /\ ~Holds(id) /\ ~Pending(id) /\ how[id] # "U" => id \in told

\* No descriptor is lost, and none is used after it was closed.
DescriptorsOwned ==
  pc # "abort" /\ ~lost =>
    fds = {id \in Known : how[id] # "B" /\ Holds(id)}
          \cup {id \in Known : how[id] \in {"L", "U"} /\ Pending(id) /\ ~(pc = "fail" /\ arg = id)}
          \cup {id \in Id : \E w \in Worker, k \in {"L", "U"} : req[w] = <<k, id>>}
=============================================================================
