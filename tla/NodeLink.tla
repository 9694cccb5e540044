------------------------------ MODULE NodeLink ------------------------------
(***************************************************************************)
(* One telemetry node (node/node.py), its entry in the server, and the     *)
(* network between them: REGISTER and BYE over TCP with timeouts and       *)
(* retries, TELEMETRY and NACK|104 over UDP, and a server that may crash   *)
(* and be started again with an empty table.                               *)
(*                                                                         *)
(* The node is one thread.  "pc" is where it is:                           *)
(*   loop      top of the loop of run()                                    *)
(*   register  top of the loop of register(), about to resolve and connect *)
(*   await     waiting for the reply to REGISTER                           *)
(*   backoff   sleeping before the next attempt                            *)
(*   burst     in the loop of send_telemetry()                             *)
(*   interval  sleeping between bursts                                     *)
(*   drain     in the loop of check_nack()                                 *)
(*   bye       about to connect for BYE                                    *)
(*   byeAwait  waiting for the reply to BYE                                *)
(*   done      the summary is printed; crashed: an exception ended it      *)
(*                                                                         *)
(* A request the node gave up waiting for is not gone: it waits in the     *)
(* accepted connection and the server may still serve it ("stale").        *)
(*                                                                         *)
(* An operator whose name starts with Faulty is the operator after it with *)
(* a plausible mistake, to show that the properties can fail.              *)
(***************************************************************************)
EXTENDS TelemetryRules, Sequences

CONSTANTS
  Burst,       \* datagrams per burst (the length of VARS)
  Reorder,     \* the network may deliver a datagram before an older one
  Duplicate,   \* the network may deliver a datagram twice
  TableFull,   \* other nodes may have filled the server's table
  Counting,    \* keep the counters; without them only the control remains
  MaxIssued,   \* bound: sequence numbers used, when counting
  MaxFlight,   \* bound: datagrams, and answers to them, in flight
  MaxCrashes,  \* bound: crashes of the server
  MaxStale     \* bound: abandoned requests of a kind

ASSUME NodeLinkAssumption ==
  /\ Burst \in Nat \ {0} /\ MaxFlight \in Nat \ {0}
  /\ {Reorder, Duplicate, TableFull, Counting} \subseteq BOOLEAN
  /\ {MaxIssued, MaxCrashes, MaxStale} \subseteq Nat

VARIABLES
  pc, running, registered,  \* the node; registered and running as in node.py
  resolved,                 \* self.ip is not None
  seq, sent, nacks, pos,    \* self.seq, .sent, .nacks; datagrams of this burst so far
  req, reply,               \* the request the node waits for, and the answer
  stale,                    \* abandoned requests still waiting at the server
  up, entry, crashes,       \* the server and the node's entry in its table
  toServer, toNode,         \* UDP in flight: sequence numbers; NACKs and ICMP errors
  issued, dropped           \* history: numbers used, numbers that never arrived

nodeData == <<running, registered, resolved, seq, sent, nacks, pos>>
tcpVars == <<req, reply, stale>>
serverVars == <<up, entry, crashes>>
netVars == <<toServer, toNode>>
history == <<issued, dropped>>
vars == <<pc, nodeData, tcpVars, serverVars, netVars, history>>

Requests == {"REGISTER", "BYE"}

NoEntry == [used |-> FALSE, active |-> FALSE, received |-> 0, lost |-> 0, last_seq |-> 0]

\* A counter after k more events.
Count(n, k) == IF Counting THEN n + k ELSE n

Init ==
  /\ pc = "loop" /\ running = TRUE /\ registered = FALSE /\ resolved = FALSE
  /\ seq = 0 /\ sent = 0 /\ nacks = 0 /\ pos = 0
  /\ req = "none" /\ reply = "none" /\ stale = [r \in Requests |-> 0]
  /\ up = TRUE /\ entry = NoEntry /\ crashes = 0
  /\ toServer = <<>> /\ toNode = <<>>
  /\ issued = 0 /\ dropped = 0

----------------------------------------------------------------------------
(* The node. *)

GoTo(from, to) == pc = from /\ pc' = to

\* SIGINT or SIGTERM, at any moment.
Stop ==
  /\ running /\ pc \notin {"done", "crashed"}
  /\ running' = FALSE
  /\ UNCHANGED <<pc, registered, resolved, seq, sent, nacks, pos, tcpVars, serverVars,
                 netVars, history>>

\* Top of run().  Before BYE the UDP socket is closed and unread answers are lost.
RunLoop ==
  /\ \/ running /\ ~registered /\ GoTo("loop", "register") /\ UNCHANGED toNode
     \/ running /\ registered /\ GoTo("loop", "burst") /\ UNCHANGED toNode
     \/ ~running /\ GoTo("loop", "bye") /\ toNode' = <<>>
  /\ pos' = 0
  /\ UNCHANGED <<running, registered, resolved, seq, sent, nacks, tcpVars, serverVars,
                 toServer, history>>

FaultyRegisterStopped ==
  /\ ~running /\ GoTo("register", "backoff")
  /\ UNCHANGED <<nodeData, tcpVars, serverVars, netVars, history>>

\* Top of register() when the node was stopped meanwhile: run() breaks out too.
RegisterStopped ==
  /\ ~running /\ GoTo("register", "bye")
  /\ toNode' = <<>>
  /\ UNCHANGED <<nodeData, tcpVars, serverVars, toServer, history>>

\* The name does not resolve, or it does and the connection fails.
RegisterFails ==
  /\ running /\ GoTo("register", "backoff")
  /\ resolved' \in {resolved, TRUE}
  /\ UNCHANGED <<running, registered, seq, sent, nacks, pos, tcpVars, serverVars,
                 netVars, history>>

RegisterSent ==
  /\ running /\ up /\ GoTo("register", "await")
  /\ resolved' = TRUE
  /\ req' = "REGISTER" /\ reply' = "none"
  /\ UNCHANGED <<running, registered, seq, sent, nacks, pos, stale, serverVars,
                 netVars, history>>

\* OK|REGISTERED restarts the numbering.  Back in run(), a stopped node breaks out.
RegisterAccepted ==
  /\ reply = "OK" /\ GoTo("await", IF running THEN "burst" ELSE "bye")
  /\ toNode' = IF running THEN toNode ELSE <<>>
  /\ registered' = TRUE /\ seq' = 0 /\ pos' = 0
  /\ req' = "none" /\ reply' = "none"
  /\ UNCHANGED <<running, resolved, sent, nacks, stale, serverVars, toServer, history>>

\* ERR|106, or the connection was closed or reset.
RegisterRefused ==
  /\ reply \in {"ERR", "RESET"} /\ GoTo("await", "backoff")
  /\ req' = "none" /\ reply' = "none"
  /\ UNCHANGED <<nodeData, stale, serverVars, netVars, history>>

\* settimeout expires: a request the server has not served yet stays with it.
GiveUp ==
  /\ IF reply = "none"
       THEN stale[req] < MaxStale /\ stale' = [stale EXCEPT ![req] = @ + 1]
       ELSE UNCHANGED stale
  /\ req' = "none" /\ reply' = "none"

RegisterTimeout ==
  /\ GoTo("await", "backoff") /\ GiveUp
  /\ UNCHANGED <<nodeData, serverVars, netVars, history>>

BackoffOver ==
  /\ GoTo("backoff", "register")
  /\ UNCHANGED <<nodeData, tcpVars, serverVars, netVars, history>>

\* The number is used even when sendto() fails, which ends the burst early.  A full
\* network drops the datagram.
SendTelemetry ==
  /\ pc = "burst" /\ pos < Burst /\ (Counting => issued < MaxIssued)
  /\ seq' = Count(seq, 1) /\ issued' = Count(issued, 1)
  /\ \/ /\ pc' = "burst" /\ pos' = pos + 1 /\ sent' = Count(sent, 1)
        /\ \/ /\ Len(toServer) < MaxFlight /\ toServer' = Append(toServer, seq')
              /\ UNCHANGED dropped
           \/ dropped' = Count(dropped, 1) /\ UNCHANGED toServer
     \/ /\ pc' = "interval" /\ dropped' = Count(dropped, 1)
        /\ UNCHANGED <<pos, sent, toServer>>
  /\ UNCHANGED <<running, registered, resolved, nacks, tcpVars, serverVars, toNode>>

BurstOver ==
  /\ pos = Burst /\ GoTo("burst", "interval")
  /\ UNCHANGED <<nodeData, tcpVars, serverVars, netVars, history>>

IntervalOver ==
  /\ GoTo("interval", "drain")
  /\ UNCHANGED <<nodeData, tcpVars, serverVars, netVars, history>>

\* One round of check_nack(): a NACK is counted and the loop goes on, an ICMP error
\* (Windows) leaves the loop, and so does an empty socket.
CheckNack ==
  /\ pc = "drain"
  /\ \/ /\ toNode = <<>> /\ pc' = "loop"
        /\ UNCHANGED <<registered, nacks, toNode>>
     \/ /\ toNode # <<>>
        /\ pc' = IF Head(toNode) = "NACK" THEN "drain" ELSE "loop"
        /\ nacks' = IF Head(toNode) = "NACK" THEN Count(nacks, 1) ELSE nacks
        /\ registered' = FALSE
        /\ toNode' = Tail(toNode)
  /\ UNCHANGED <<running, resolved, seq, sent, pos, tcpVars, serverVars, toServer, history>>

\* bye(): without an address connect() raises TypeError, which nothing catches.
ByeWithoutAddress ==
  /\ ~resolved /\ GoTo("bye", "crashed")
  /\ UNCHANGED <<nodeData, tcpVars, serverVars, netVars, history>>

ByeFails ==
  /\ resolved /\ GoTo("bye", "done")
  /\ UNCHANGED <<nodeData, tcpVars, serverVars, netVars, history>>

ByeSent ==
  /\ resolved /\ up /\ GoTo("bye", "byeAwait")
  /\ req' = "BYE" /\ reply' = "none"
  /\ UNCHANGED <<nodeData, stale, serverVars, netVars, history>>

\* Whatever the reply, or without one after 3 seconds.
ByeOver ==
  /\ GoTo("byeAwait", "done") /\ GiveUp
  /\ UNCHANGED <<nodeData, serverVars, netVars, history>>

----------------------------------------------------------------------------
(* The server and the network. *)

Enrolled == [entry EXCEPT !.used = TRUE, !.active = TRUE, !.last_seq = 0]

\* What tlp_handle_tcp may make of a request: the entry afterwards and the answer.
Outcomes(r) ==
  CASE r = "BYE" ->
         IF entry.used THEN { [entry |-> [entry EXCEPT !.active = FALSE], answer |-> "OK"] }
                       ELSE { [entry |-> entry, answer |-> "ERR"] }
    [] r = "REGISTER" ->
         { [entry |-> Enrolled, answer |-> "OK"] } \cup
         IF TableFull /\ ~entry.used THEN { [entry |-> entry, answer |-> "ERR"] } ELSE {}

Serve ==
  /\ up /\ req # "none" /\ reply = "none"
  /\ \E o \in Outcomes(req) : entry' = o.entry /\ reply' = o.answer
  /\ UNCHANGED <<pc, nodeData, req, stale, up, crashes, netVars, history>>

ServeStale ==
  /\ up
  /\ \E r \in Requests :
       /\ stale[r] > 0 /\ stale' = [stale EXCEPT ![r] = @ - 1]
       /\ \E o \in Outcomes(r) : entry' = o.entry
  /\ UNCHANGED <<pc, nodeData, req, reply, up, crashes, netVars, history>>

SocketOpen == pc \notin {"bye", "byeAwait", "done", "crashed"}

\* An answer to the node's UDP socket, which may get lost.
Answer(message) ==
  \/ SocketOpen /\ Len(toNode) < MaxFlight /\ toNode' = Append(toNode, message)
  \/ UNCHANGED toNode

\* The k-th datagram in flight arrives; the network may keep a copy.
Arrives(k) ==
  /\ k = 1 \/ Reorder
  /\ \/ toServer' = SubSeq(toServer, 1, k - 1) \o SubSeq(toServer, k + 1, Len(toServer))
     \/ Duplicate /\ UNCHANGED toServer

FaultyAccepted(n) ==
  [entry EXCEPT !.active = TRUE, !.received = Count(@, 1),
                !.lost = @ + (IF n > entry.last_seq + 1 THEN n - entry.last_seq - 1 ELSE 0),
                !.last_seq = NextLastSeq(@, n)]

Accepted(n) ==
  [entry EXCEPT !.active = TRUE, !.received = Count(@, 1),
                !.lost = @ + Gap(entry.last_seq, n),
                !.last_seq = NextLastSeq(@, n)]

TelemetryAccepted ==
  /\ up /\ entry.used
  /\ \E k \in 1 .. Len(toServer) : Arrives(k) /\ entry' = Accepted(toServer[k])
  /\ UNCHANGED <<pc, nodeData, tcpVars, up, crashes, toNode, history>>

FaultyTelemetryRejected ==
  /\ up /\ ~entry.used
  /\ \E k \in 1 .. Len(toServer) : Arrives(k)
  /\ UNCHANGED <<pc, nodeData, tcpVars, serverVars, toNode, history>>

TelemetryRejected ==
  /\ up /\ ~entry.used
  /\ \E k \in 1 .. Len(toServer) : Arrives(k)
  /\ Answer("NACK")
  /\ UNCHANGED <<pc, nodeData, tcpVars, serverVars, history>>

TelemetryUnreachable ==
  /\ ~up /\ toServer # <<>>
  /\ toServer' = Tail(toServer) /\ dropped' = Count(dropped, 1)
  /\ Answer("UNREACHABLE")
  /\ UNCHANGED <<pc, nodeData, tcpVars, serverVars, issued>>

\* The process dies, with its table and its connections.
Crash ==
  /\ up /\ crashes < MaxCrashes
  /\ up' = FALSE /\ entry' = NoEntry /\ crashes' = crashes + 1
  /\ reply' = IF req # "none" /\ reply = "none" THEN "RESET" ELSE reply
  /\ stale' = [r \in Requests |-> 0]
  /\ UNCHANGED <<pc, nodeData, req, netVars, history>>

\* docker-compose: restart: unless-stopped.
Restart ==
  /\ ~up /\ up' = TRUE
  /\ UNCHANGED <<pc, nodeData, tcpVars, entry, crashes, netVars, history>>

----------------------------------------------------------------------------
NodeStep ==
  \/ RunLoop \/ RegisterStopped \/ RegisterFails \/ RegisterSent \/ RegisterAccepted
  \/ RegisterRefused \/ RegisterTimeout \/ BackoffOver \/ SendTelemetry \/ BurstOver
  \/ IntervalOver \/ CheckNack \/ ByeWithoutAddress \/ ByeFails \/ ByeSent \/ ByeOver

Next ==
  \/ NodeStep \/ Stop
  \/ Serve \/ ServeStale
  \/ TelemetryAccepted \/ TelemetryRejected \/ TelemetryUnreachable
  \/ Crash \/ Restart

Spec == Init /\ [][Next]_vars

\* The node's thread runs, Docker starts the server again and the server's threads
\* serve what reached them.  The network is fair: what is tried again and again
\* (connecting, a served request before the timeout, a datagram, a NACK) sometimes
\* succeeds.  Nothing obliges a node to stop or a server to crash.
FairSpec ==
  /\ Spec
  /\ WF_vars(NodeStep) /\ WF_vars(Restart)
  /\ SF_vars(RegisterSent) /\ SF_vars(Serve) /\ SF_vars(RegisterAccepted)
  /\ SF_vars(SendTelemetry /\ toServer' # toServer)
  /\ WF_vars(TelemetryAccepted)
  /\ SF_vars(TelemetryRejected /\ toNode' # toNode)
  /\ WF_vars(TelemetryRejected)

----------------------------------------------------------------------------
(* Properties. *)

\* Every variable keeps to its type; the counters never go below zero, which in the
\* server's uint64_t would be a huge loss.
TypeOK ==
  /\ pc \in {"loop", "register", "await", "backoff", "burst", "interval", "drain",
             "bye", "byeAwait", "done", "crashed"}
  /\ {running, registered, resolved, up} \subseteq BOOLEAN
  /\ {seq, sent, nacks, issued, dropped} \subseteq Nat
  /\ pos \in 0 .. Burst
  /\ req \in Requests \cup {"none"} /\ reply \in {"none", "OK", "ERR", "RESET"}
  /\ stale \in [Requests -> 0 .. MaxStale]
  /\ entry \in [used : BOOLEAN, active : BOOLEAN, received : Nat, lost : Nat, last_seq : Nat]
  /\ crashes \in 0 .. MaxCrashes
  /\ toServer \in Seq(Nat) /\ toNode \in Seq({"NACK", "UNREACHABLE"})

\* On a network that loses datagrams but keeps their order, the server never reports
\* more lost datagrams than were lost, through restarts of the numbering, late
\* REGISTERs and crashes.
LossNotOverstated == entry.lost <= dropped

\* A stopped node leaves through bye() and its summary (docstring of node.py, 5).
StopsCleanly == pc # "crashed"

\* A running node that the server does not know (first start, or the server lost its
\* table) is registered again without anybody's help, or told that the table is full.
NodeComesBack == (up /\ ~entry.used /\ running) ~> (entry.used \/ ~running \/ reply = "ERR")

\* A stopped node ends, wherever the signal found it and whatever the server does.
StopEnds == ~running ~> pc \in {"done", "crashed"}
=============================================================================
