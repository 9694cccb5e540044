--------------------------- MODULE NodeLinkProofs ---------------------------
(***************************************************************************)
(* Proofs about NodeLink: types on any network, and the loss accounting on *)
(* a network that keeps the order of the datagrams, for bursts, crashes    *)
(* and abandoned requests without number.                                  *)
(***************************************************************************)
EXTENDS NodeLink, TLAPS

Places == {"loop", "register", "await", "backoff", "burst", "interval", "drain",
           "bye", "byeAwait", "done", "crashed"}

Entry == [used : BOOLEAN, active : BOOLEAN, received : Nat, lost : Nat, last_seq : Nat]

\* TypeOK in three parts.
NodeTypes ==
  /\ pc \in Places /\ pos \in 0 .. Burst
  /\ running \in BOOLEAN /\ registered \in BOOLEAN /\ resolved \in BOOLEAN
  /\ seq \in Nat /\ sent \in Nat /\ nacks \in Nat /\ issued \in Nat /\ dropped \in Nat

ServerTypes ==
  /\ req \in Requests \cup {"none"} /\ reply \in {"none", "OK", "ERR", "RESET"}
  /\ stale \in [Requests -> 0 .. MaxStale]
  /\ up \in BOOLEAN /\ entry \in Entry /\ crashes \in 0 .. MaxCrashes

NetTypes ==
  toServer \in Seq(Nat) /\ toNode \in Seq({"NACK", "UNREACHABLE"})

Types == NodeTypes /\ ServerTypes /\ NetTypes

LEMMA TypesAreTypeOK == Types <=> TypeOK
BY DEF Types, NodeTypes, ServerTypes, NetTypes, TypeOK, Places, Entry

LEMMA Constants ==
  /\ Burst \in Nat \ {0} /\ MaxFlight \in Nat \ {0} /\ Counting \in BOOLEAN
  /\ MaxIssued \in Nat /\ MaxCrashes \in Nat /\ MaxStale \in Nat
BY NodeLinkAssumption

LEMMA CountNat ==
  ASSUME NEW n \in Nat, NEW k \in Nat
  PROVE  Count(n, k) \in Nat
BY DEF Count

LEMMA SeqRules ==
  ASSUME NEW l \in Nat, NEW n \in Nat
  PROVE  /\ Gap(l, n) \in Nat /\ NextLastSeq(l, n) \in Nat
         /\ Gap(l, n) = 0 \/ (l > 0 /\ n > l + 1 /\ Gap(l, n) = n - l - 1)
         /\ NextLastSeq(l, n) >= n
BY DEF Gap, NextLastSeq

LEMMA EntryRules ==
  ASSUME entry \in Entry, NEW n \in Nat
  PROVE  /\ NoEntry \in Entry /\ Enrolled \in Entry /\ Accepted(n) \in Entry
         /\ [entry EXCEPT !.active = FALSE] \in Entry
         /\ Enrolled.last_seq = 0 /\ Enrolled.lost = entry.lost
         /\ Accepted(n).lost = entry.lost + Gap(entry.last_seq, n)
         /\ Accepted(n).last_seq = NextLastSeq(entry.last_seq, n)
<1>1. /\ entry.received \in Nat /\ entry.lost \in Nat /\ entry.last_seq \in Nat
      /\ entry.used \in BOOLEAN
  BY DEF Entry
<1>2. /\ Gap(entry.last_seq, n) \in Nat /\ NextLastSeq(entry.last_seq, n) \in Nat
      /\ Count(entry.received, 1) \in Nat
  BY <1>1, SeqRules, CountNat
<1>3. entry.lost + Gap(entry.last_seq, n) \in Nat
  BY <1>1, <1>2
<1>4. Accepted(n) \in Entry /\ Accepted(n).lost = entry.lost + Gap(entry.last_seq, n)
      /\ Accepted(n).last_seq = NextLastSeq(entry.last_seq, n)
  BY <1>2, <1>3 DEF Accepted, Entry
<1>5. NoEntry \in Entry
  BY DEF NoEntry, Entry
<1>6. Enrolled \in Entry /\ Enrolled.last_seq = 0 /\ Enrolled.lost = entry.lost
      /\ [entry EXCEPT !.active = FALSE] \in Entry
  BY DEF Enrolled, Entry
<1> QED BY <1>4, <1>5, <1>6

LEMMA OutcomeRules ==
  ASSUME entry \in Entry, NEW r \in Requests, NEW o \in Outcomes(r)
  PROVE  /\ o.answer \in {"OK", "ERR"} /\ o.entry \in Entry /\ o.entry.lost = entry.lost
         /\ o.entry.last_seq \in {0, entry.last_seq}
         /\ o.entry.used \/ (o.entry = entry)
<1>1. CASE r = "BYE"
  <2>1. \/ entry.used /\ o = [entry |-> [entry EXCEPT !.active = FALSE], answer |-> "OK"]
        \/ o = [entry |-> entry, answer |-> "ERR"]
    BY <1>1 DEF Outcomes
  <2>2. [entry EXCEPT !.active = FALSE].lost = entry.lost
        /\ [entry EXCEPT !.active = FALSE].last_seq = entry.last_seq
        /\ [entry EXCEPT !.active = FALSE].used = entry.used
    BY DEF Entry
  <2>3. [entry EXCEPT !.active = FALSE] \in Entry
    BY DEF Entry
  <2> DEFINE e == [entry EXCEPT !.active = FALSE]
  <2> HIDE DEF e
  <2>4. \/ entry.used /\ o.entry = e /\ o.answer = "OK"
        \/ o.entry = entry /\ o.answer = "ERR"
    <3>1. \/ entry.used /\ o = [entry |-> e, answer |-> "OK"]
          \/ o = [entry |-> entry, answer |-> "ERR"]
      BY <2>1 DEF e
    <3> QED BY <3>1
  <2>5. e \in Entry /\ e.lost = entry.lost /\ e.last_seq = entry.last_seq /\ e.used = entry.used
    BY <2>2, <2>3 DEF e
  <2> QED BY <2>4, <2>5
<1>2. CASE r = "REGISTER"
  <2>1. o = [entry |-> Enrolled, answer |-> "OK"] \/ o = [entry |-> entry, answer |-> "ERR"]
    BY <1>2 DEF Outcomes
  <2>2. Enrolled.used
    BY DEF Enrolled, Entry
  <2>3. Enrolled \in Entry /\ Enrolled.last_seq = 0 /\ Enrolled.lost = entry.lost
    BY EntryRules
  <2> QED BY <2>1, <2>2, <2>3
<1> QED BY <1>1, <1>2 DEF Requests

----------------------------------------------------------------------------
(* Types. *)

\* The actions that touch neither the server nor the datagrams on their way to it.
NodeAlone ==
  \/ Stop \/ RunLoop \/ RegisterStopped \/ RegisterFails \/ RegisterSent \/ RegisterAccepted
  \/ RegisterRefused \/ RegisterTimeout \/ BackoffOver \/ BurstOver \/ IntervalOver
  \/ CheckNack \/ ByeWithoutAddress \/ ByeFails \/ ByeSent \/ ByeOver

LEMMA NodeAloneEffect ==
  NodeAlone => /\ UNCHANGED <<up, entry, crashes, toServer, issued, dropped>>
               /\ seq' \in {0, seq}
BY DEF NodeAlone, Stop, RunLoop, RegisterStopped, RegisterFails, RegisterSent,
       RegisterAccepted, RegisterRefused, RegisterTimeout, BackoffOver, BurstOver,
       IntervalOver, CheckNack, ByeWithoutAddress, ByeFails, ByeSent, ByeOver,
       nodeData, serverVars, netVars, history

LEMMA GiveUpTypes ==
  ASSUME ServerTypes, GiveUp, UNCHANGED <<up, entry, crashes>>
  PROVE  ServerTypes'
<1>1. req' = "none" /\ reply' = "none"
  BY DEF GiveUp
<1>2. stale' \in [Requests -> 0 .. MaxStale]
  <2>1. CASE stale' = stale
    BY <2>1 DEF ServerTypes
  <2>2. CASE stale[req] < MaxStale /\ stale' = [stale EXCEPT ![req] = @ + 1]
    <3>1. \A r \in Requests : stale[r] \in 0 .. MaxStale /\ MaxStale \in Nat
      BY Constants DEF ServerTypes
    <3>2. DOMAIN stale' = Requests /\ stale' = [r \in Requests |-> stale'[r]]
      BY <2>2 DEF ServerTypes
    <3>3. \A r \in Requests : stale'[r] = stale[r] \/ (r = req /\ stale'[r] = stale[r] + 1)
      BY <2>2 DEF ServerTypes
    <3>4. \A r \in Requests : stale'[r] \in 0 .. MaxStale
      BY <2>2, <3>1, <3>3
    <3> QED BY <3>2, <3>4
  <2> QED BY <2>1, <2>2 DEF GiveUp
<1> QED BY <1>1, <1>2 DEF ServerTypes

LEMMA NodeAloneTypes == Types /\ NodeAlone => Types'
<1> SUFFICES ASSUME Types, NodeAlone PROVE Types'
  OBVIOUS
<1> USE DEF GoTo, nodeData, tcpVars, serverVars, netVars, history, Places
<1>1. NodeTypes'
  <2>1. pos' \in {0, pos} /\ nacks' \in {nacks, Count(nacks, 1)} /\ pc' \in Places
        /\ UNCHANGED <<sent, issued, dropped>> /\ seq' \in {0, seq}
        /\ running' \in {running, FALSE} /\ registered' \in {registered, TRUE, FALSE}
        /\ resolved' \in {resolved, TRUE}
    <3>1. CASE Stop \/ RunLoop \/ RegisterStopped \/ RegisterFails \/ RegisterSent
      BY <3>1 DEF Types, NodeTypes, Stop, RunLoop, RegisterStopped, RegisterFails, RegisterSent
    <3>2. CASE RegisterAccepted \/ RegisterRefused \/ RegisterTimeout \/ BackoffOver
      BY <3>2 DEF Types, NodeTypes, RegisterAccepted, RegisterRefused, RegisterTimeout, BackoffOver
    <3>3. CASE BurstOver \/ IntervalOver \/ CheckNack
      BY <3>3 DEF Types, NodeTypes, BurstOver, IntervalOver, CheckNack
    <3>4. CASE ByeWithoutAddress \/ ByeFails \/ ByeSent \/ ByeOver
      BY <3>4 DEF Types, NodeTypes, ByeWithoutAddress, ByeFails, ByeSent, ByeOver
    <3> QED BY <3>1, <3>2, <3>3, <3>4 DEF NodeAlone
  <2>2. nacks \in Nat /\ pos \in 0 .. Burst /\ seq \in Nat /\ Burst \in Nat \ {0}
    BY Constants DEF Types, NodeTypes
  <2>3. nacks' \in Nat /\ pos' \in 0 .. Burst /\ seq' \in Nat
    <3>1. Count(nacks, 1) \in Nat
      BY <2>2, CountNat
    <3>2. nacks' \in Nat /\ seq' \in Nat
      BY <2>1, <2>2, <3>1
    <3>3. pos' \in 0 .. Burst
      BY <2>1, <2>2
    <3> QED BY <3>2, <3>3
  <2>4. running' \in BOOLEAN /\ registered' \in BOOLEAN /\ resolved' \in BOOLEAN
    BY <2>1 DEF Types, NodeTypes
  <2> QED BY <2>1, <2>3, <2>4 DEF Types, NodeTypes
<1>2. UNCHANGED <<up, entry, crashes, toServer>>
  BY NodeAloneEffect
<1>3. ServerTypes'
  <2>1. CASE RegisterTimeout \/ ByeOver
    BY <1>2, <2>1, GiveUpTypes DEF RegisterTimeout, ByeOver, Types
  <2>2. CASE RegisterSent \/ ByeSent
    BY <1>2, <2>2 DEF RegisterSent, ByeSent, Types, ServerTypes, Requests
  <2>3. CASE RegisterAccepted \/ RegisterRefused
    BY <1>2, <2>3 DEF RegisterAccepted, RegisterRefused, Types, ServerTypes
  <2>4. CASE UNCHANGED <<req, reply, stale>>
    BY <1>2, <2>4 DEF Types, ServerTypes
  <2>5. Stop \/ RunLoop \/ RegisterStopped \/ RegisterFails \/ BackoffOver \/ BurstOver
        \/ IntervalOver \/ CheckNack \/ ByeWithoutAddress \/ ByeFails
          => UNCHANGED <<req, reply, stale>>
    BY DEF Stop, RunLoop, RegisterStopped, RegisterFails, BackoffOver, BurstOver, IntervalOver,
           CheckNack, ByeWithoutAddress, ByeFails
  <2> QED BY <2>1, <2>2, <2>3, <2>4, <2>5 DEF NodeAlone
<1>4. toNode' \in {toNode, <<>>} \/ (toNode # <<>> /\ toNode' = Tail(toNode))
  <2>1. CASE RunLoop \/ RegisterStopped \/ RegisterAccepted \/ CheckNack
    BY <2>1 DEF RunLoop, RegisterStopped, RegisterAccepted, CheckNack
  <2>2. CASE \/ Stop \/ RegisterFails \/ RegisterSent \/ RegisterRefused \/ RegisterTimeout
             \/ BackoffOver \/ BurstOver \/ IntervalOver \/ ByeWithoutAddress \/ ByeFails
             \/ ByeSent \/ ByeOver
    BY <2>2 DEF Stop, RegisterFails, RegisterSent, RegisterRefused, RegisterTimeout, BackoffOver,
                BurstOver, IntervalOver, ByeWithoutAddress, ByeFails, ByeSent, ByeOver
  <2> QED BY <2>1, <2>2 DEF NodeAlone
<1>5. NetTypes'
  <2>1. toNode \in Seq({"NACK", "UNREACHABLE"}) /\ toServer' \in Seq(Nat)
    BY <1>2 DEF Types, NetTypes
  <2>2. toNode # <<>> => Tail(toNode) \in Seq({"NACK", "UNREACHABLE"})
    BY <2>1
  <2>3. <<>> \in Seq({"NACK", "UNREACHABLE"})
    OBVIOUS
  <2>4. toNode' \in Seq({"NACK", "UNREACHABLE"})
    BY <1>4, <2>1, <2>2, <2>3
  <2> QED BY <2>1, <2>4 DEF NetTypes
<1> QED BY <1>1, <1>3, <1>5 DEF Types

LEMMA SendTypes == Types /\ SendTelemetry => Types'
<1> SUFFICES ASSUME Types, SendTelemetry PROVE Types'
  OBVIOUS
<1>1. /\ pc = "burst" /\ pc' \in {"burst", "interval"} /\ pos < Burst /\ pos' \in {pos, pos + 1}
      /\ seq' = Count(seq, 1) /\ issued' = Count(issued, 1)
      /\ sent' \in {sent, Count(sent, 1)} /\ dropped' \in {dropped, Count(dropped, 1)}
      /\ toServer' = toServer \/ toServer' = Append(toServer, seq')
      /\ UNCHANGED <<running, registered, resolved, nacks, req, reply, stale, up, entry,
                     crashes, toNode>>
  BY DEF SendTelemetry, tcpVars, serverVars
<1>2. /\ seq' \in Nat /\ issued' \in Nat /\ Count(sent, 1) \in Nat /\ Count(dropped, 1) \in Nat
  BY <1>1, CountNat DEF Types, NodeTypes
<1>3. NodeTypes'
  BY <1>1, <1>2, Constants DEF Types, NodeTypes, Places
<1>4. ServerTypes'
  BY <1>1 DEF Types, ServerTypes
<1>5. toServer' \in Seq(Nat)
  <2>1. toServer \in Seq(Nat) /\ seq' \in Nat
    BY <1>2 DEF Types, NetTypes
  <2>2. Append(toServer, seq') \in Seq(Nat)
    BY <2>1
  <2> QED BY <1>1, <2>1, <2>2
<1> QED BY <1>1, <1>3, <1>4, <1>5 DEF Types, NetTypes

LEMMA ArrivesTypes ==
  ASSUME NetTypes, NEW k \in 1 .. Len(toServer), Arrives(k)
  PROVE  toServer' \in Seq(Nat) /\ toServer[k] \in Nat
<1>1. toServer \in Seq(Nat) /\ Len(toServer) \in Nat
  BY DEF NetTypes
<1>2. SubSeq(toServer, 1, k - 1) \in Seq(Nat) /\ SubSeq(toServer, k + 1, Len(toServer)) \in Seq(Nat)
  BY <1>1
<1>3. SubSeq(toServer, 1, k - 1) \o SubSeq(toServer, k + 1, Len(toServer)) \in Seq(Nat)
  BY <1>2
<1>4. toServer[k] \in Nat
  BY <1>1
<1>5. \/ toServer' = SubSeq(toServer, 1, k - 1) \o SubSeq(toServer, k + 1, Len(toServer))
      \/ toServer' = toServer
  BY DEF Arrives
<1> QED BY <1>1, <1>3, <1>4, <1>5

LEMMA AnswerTypes ==
  ASSUME NetTypes, NEW m \in {"NACK", "UNREACHABLE"}, Answer(m)
  PROVE  toNode' \in Seq({"NACK", "UNREACHABLE"})
BY DEF NetTypes, Answer

LEMMA ServerStepTypes ==
  Types /\ (\/ Serve \/ ServeStale \/ TelemetryAccepted \/ TelemetryRejected
            \/ TelemetryUnreachable \/ Crash \/ Restart \/ UNCHANGED vars) => Types'
<1> SUFFICES ASSUME Types PROVE
      (\/ Serve \/ ServeStale \/ TelemetryAccepted \/ TelemetryRejected
       \/ TelemetryUnreachable \/ Crash \/ Restart \/ UNCHANGED vars) => Types'
  OBVIOUS
<1> USE DEF Types, nodeData, tcpVars, serverVars, netVars, history
<1>1. CASE Serve
  <2>1. /\ req # "none" /\ UNCHANGED <<pc, nodeData, req, stale, up, crashes, netVars, history>>
        /\ \E o \in Outcomes(req) : entry' = o.entry /\ reply' = o.answer
    BY <1>1 DEF Serve
  <2>2. req \in Requests
    BY <2>1 DEF ServerTypes
  <2>3. entry' \in Entry /\ reply' \in {"OK", "ERR"}
    BY <2>1, <2>2, OutcomeRules DEF ServerTypes
  <2> QED BY <2>1, <2>3 DEF NodeTypes, ServerTypes, NetTypes
<1>2. CASE ServeStale
  <2>1. PICK r \in Requests : /\ stale[r] > 0 /\ stale' = [stale EXCEPT ![r] = @ - 1]
                              /\ \E o \in Outcomes(r) : entry' = o.entry
    BY <1>2 DEF ServeStale
  <2>2. UNCHANGED <<pc, nodeData, req, reply, up, crashes, netVars, history>>
    BY <1>2 DEF ServeStale
  <2>3. entry' \in Entry
    BY <2>1, OutcomeRules DEF ServerTypes
  <2>4. stale' \in [Requests -> 0 .. MaxStale]
    BY <2>1, Constants DEF ServerTypes
  <2> QED BY <2>2, <2>3, <2>4 DEF NodeTypes, ServerTypes, NetTypes
<1>3. CASE TelemetryAccepted
  <2>1. PICK k \in 1 .. Len(toServer) : Arrives(k) /\ entry' = Accepted(toServer[k])
    BY <1>3 DEF TelemetryAccepted
  <2>2. toServer' \in Seq(Nat) /\ toServer[k] \in Nat
    BY <2>1, ArrivesTypes
  <2>3. entry' \in Entry
    BY <2>1, <2>2, EntryRules DEF ServerTypes
  <2> QED BY <1>3, <2>2, <2>3 DEF TelemetryAccepted, NodeTypes, ServerTypes, NetTypes
<1>4. CASE TelemetryRejected
  <2>1. PICK k \in 1 .. Len(toServer) : Arrives(k)
    BY <1>4 DEF TelemetryRejected
  <2>2. toServer' \in Seq(Nat)
    BY <2>1, ArrivesTypes
  <2>3. toNode' \in Seq({"NACK", "UNREACHABLE"})
    BY <1>4, AnswerTypes DEF TelemetryRejected
  <2> QED BY <1>4, <2>2, <2>3 DEF TelemetryRejected, NodeTypes, ServerTypes, NetTypes
<1>5. CASE TelemetryUnreachable
  <2>1. toServer # <<>> /\ toServer' = Tail(toServer) /\ dropped' = Count(dropped, 1)
        /\ Answer("UNREACHABLE")
        /\ UNCHANGED <<pc, nodeData, tcpVars, serverVars, issued>>
    BY <1>5 DEF TelemetryUnreachable
  <2>2. toServer' \in Seq(Nat)
    BY <2>1 DEF NetTypes
  <2>3. toNode' \in Seq({"NACK", "UNREACHABLE"})
    BY <2>1, AnswerTypes
  <2>4. dropped' \in Nat
    BY <2>1, CountNat DEF NodeTypes
  <2> QED BY <2>1, <2>2, <2>3, <2>4 DEF NodeTypes, ServerTypes, NetTypes
<1>6. CASE Crash
  <2>1. /\ up' = FALSE /\ entry' = NoEntry /\ crashes' = crashes + 1 /\ crashes < MaxCrashes
        /\ reply' \in {"RESET", reply} /\ stale' = [r \in Requests |-> 0]
        /\ UNCHANGED <<pc, nodeData, req, netVars, history>>
    BY <1>6 DEF Crash
  <2>2. entry' \in Entry
    BY <2>1 DEF NoEntry, Entry
  <2>3. crashes' \in 0 .. MaxCrashes /\ stale' \in [Requests -> 0 .. MaxStale]
    BY <2>1, Constants DEF ServerTypes
  <2> QED BY <2>1, <2>2, <2>3 DEF NodeTypes, ServerTypes, NetTypes
<1>7. CASE Restart
  BY <1>7 DEF Restart, NodeTypes, ServerTypes, NetTypes
<1>8. CASE UNCHANGED vars
  BY <1>8 DEF vars, NodeTypes, ServerTypes, NetTypes
<1> QED BY <1>1, <1>2, <1>3, <1>4, <1>5, <1>6, <1>7, <1>8

LEMMA NextTypes == Types /\ [Next]_vars => Types'
BY NodeAloneTypes, SendTypes, ServerStepTypes DEF Next, NodeStep, NodeAlone

LEMMA InitTypes == Init => Types
<1> SUFFICES ASSUME Init PROVE Types
  OBVIOUS
<1>1. NoEntry \in Entry
  BY DEF NoEntry, Entry
<1>2. NodeTypes
  <2>1. 0 \in 0 .. Burst
    BY Constants
  <2>2. pc \in Places
    BY DEF Init, Places
  <2> QED BY <2>1, <2>2 DEF Init, NodeTypes
<1>3. [r \in Requests |-> 0] \in [Requests -> 0 .. MaxStale] /\ 0 \in 0 .. MaxCrashes
  BY Constants
<1>4. ServerTypes
  BY <1>1, <1>3 DEF Init, ServerTypes
<1>5. NetTypes
  <2>1. <<>> \in Seq(Nat) /\ <<>> \in Seq({"NACK", "UNREACHABLE"})
    OBVIOUS
  <2> QED BY <2>1 DEF Init, NetTypes
<1> QED BY <1>2, <1>4, <1>5 DEF Types

\* No counter of the node or of its entry ever goes below zero, on any network.
THEOREM TypesKept == Spec => []TypeOK
BY TypesAreTypeOK, InitTypes, NextTypes, PTL DEF Spec

----------------------------------------------------------------------------
(* The end of a node. *)

\* Past the first connection the address is known, and it is never forgotten.
AddressKnown ==
  /\ registered \/ sent > 0 \/ pc \in {"await", "burst", "interval", "drain", "byeAwait"} => resolved
  /\ pc = "crashed" => ~resolved

LEMMA NextKnown == AddressKnown /\ [Next]_vars => AddressKnown'
<1> SUFFICES ASSUME AddressKnown, [Next]_vars PROVE AddressKnown'
  OBVIOUS
<1> USE DEF AddressKnown, GoTo
<1>1. CASE UNCHANGED vars
  BY <1>1 DEF vars, nodeData
<1>2. CASE RunLoop \/ RegisterStopped \/ RegisterRefused \/ RegisterTimeout \/ BackoffOver \/ BurstOver
           \/ IntervalOver \/ ByeWithoutAddress \/ ByeFails \/ ByeSent \/ ByeOver \/ Stop
  BY <1>2 DEF RunLoop, RegisterStopped, RegisterRefused, RegisterTimeout, BackoffOver, BurstOver,
              IntervalOver, ByeWithoutAddress, ByeFails, ByeSent, ByeOver, Stop, nodeData
<1>3. CASE RegisterFails \/ RegisterSent \/ RegisterAccepted
  <2>1. CASE RegisterFails
    <3>1. resolved => resolved'
      BY <2>1 DEF RegisterFails
    <3> QED BY <2>1, <3>1 DEF RegisterFails
  <2>2. CASE RegisterSent
    BY <2>2 DEF RegisterSent
  <2>3. CASE RegisterAccepted
    <3>1. /\ pc = "await" /\ pc' \in {"burst", "bye"} /\ UNCHANGED <<resolved, sent>>
      BY <2>3 DEF RegisterAccepted
    <3> QED BY <3>1
  <2> QED BY <1>3, <2>1, <2>2, <2>3
<1>4. CASE SendTelemetry
  BY <1>4 DEF SendTelemetry
<1>5. CASE CheckNack
  BY <1>5 DEF CheckNack
<1>6. CASE Serve \/ ServeStale \/ TelemetryAccepted \/ TelemetryRejected \/ TelemetryUnreachable
           \/ Crash \/ Restart
  BY <1>6 DEF Serve, ServeStale, TelemetryAccepted, TelemetryRejected, TelemetryUnreachable, Crash,
              Restart, nodeData
<1> QED BY <1>1, <1>2, <1>3, <1>4, <1>5, <1>6 DEF Next, NodeStep

\* The crash that node_stop shows is the only one: a node whose name was ever resolved, and
\* so every node that ever registered or sent a datagram, leaves through bye() to the end.
THEOREM ResolvedNodesStopCleanly ==
  Spec => [](resolved \/ registered \/ sent > 0 => StopsCleanly)
<1>1. Init => AddressKnown
  BY DEF Init, AddressKnown
<1>2. AddressKnown => (resolved \/ registered \/ sent > 0 => StopsCleanly)
  BY DEF AddressKnown, StopsCleanly
<1> QED BY <1>1, <1>2, NextKnown, PTL DEF Spec

----------------------------------------------------------------------------
(* The loss accounting, where the network keeps the order.                 *)
(*                                                                         *)
(* In the order they were sent, the datagrams in flight stand between the  *)
(* last one that left the network and the next one to be sent.  Each stage *)
(* has its number and what had been dropped when it was sent; the server   *)
(* may count a gap between two of them, and at least as many were dropped  *)
(* in between.                                                             *)

\* From number x, with dx dropped before it, to number y, with dy dropped before it.
Step(x, dx, y, dy) == dy >= dx /\ dy >= dx + y - x - 1

\* n and f are the numbers and the drops of the stages 0 to Len(q); the next number
\* to be sent is s + 1, with d dropped before it.
Stages(q, n, f) ==
  /\ n \in [0 .. Len(q) -> Nat] /\ f \in [0 .. Len(q) -> Nat]
  /\ \A i \in 1 .. Len(q) : n[i] = q[i] /\ Step(n[i - 1], f[i - 1], n[i], f[i])

Chain(q, s, d, n, f) ==
  /\ Stages(q, n, f) /\ Step(n[Len(q)], f[Len(q)], s + 1, d)
  /\ \A i \in 0 .. Len(q) : f[i] <= d

LEMMA StagesFirst ==
  ASSUME NEW q \in Seq(Nat), NEW n, NEW f, Stages(q, n, f)
  PROVE  n[0] \in Nat /\ f[0] \in Nat /\ n[Len(q)] \in Nat /\ f[Len(q)] \in Nat
<1>1. Len(q) \in Nat /\ 0 \in 0 .. Len(q) /\ Len(q) \in 0 .. Len(q)
  OBVIOUS
<1> QED BY <1>1 DEF Stages

LEMMA ChainOnward ==
  ASSUME NEW q \in Seq(Nat), NEW s \in Nat, NEW d \in Nat, NEW n, NEW f, Chain(q, s, d, n, f)
  PROVE  /\ Chain(q, 0, d, n, f) /\ Chain(q, s, d + 1, n, f)
         /\ Chain(q, s + 1, d + 1, n, f)
<1> DEFINE x == n[Len(q)]
           dx == f[Len(q)]
<1>1. x \in Nat /\ dx \in Nat
  BY StagesFirst DEF Chain
<1>2. Stages(q, n, f) /\ Step(x, dx, s + 1, d)
  BY DEF Chain
<1>3. (\A i \in 0 .. Len(q) : f[i] <= d) /\ (\A i \in 0 .. Len(q) : f[i] <= d + 1)
  <2>1. Len(q) \in Nat /\ \A i \in 0 .. Len(q) : f[i] \in Nat /\ f[i] <= d
    BY DEF Chain, Stages
  <2> QED BY <2>1
<1> HIDE DEF x, dx
<1>4. Step(x, dx, 0 + 1, d) /\ Step(x, dx, s + 1, d + 1) /\ Step(x, dx, s + 1 + 1, d + 1)
  BY <1>1, <1>2 DEF Step
<1> QED BY <1>2, <1>4, <1>3 DEF Chain, x, dx

LEMMA ChainAppend ==
  ASSUME NEW q \in Seq(Nat), NEW s \in Nat, NEW d \in Nat, NEW n, NEW f, Chain(q, s, d, n, f)
  PROVE  \E n2, f2 : /\ Chain(Append(q, s + 1), s + 1, d, n2, f2)
                     /\ n2[0] = n[0] /\ f2[0] = f[0]
<1> DEFINE k == Len(q)
           r == Append(q, s + 1)
           n2 == [i \in 0 .. k + 1 |-> IF i = k + 1 THEN s + 1 ELSE n[i]]
           f2 == [i \in 0 .. k + 1 |-> IF i = k + 1 THEN d ELSE f[i]]
<1>1. k \in Nat /\ Len(r) = k + 1 /\ r[k + 1] = s + 1 /\ \A i \in 1 .. k : r[i] = q[i]
  OBVIOUS
<1>2. /\ n \in [0 .. k -> Nat] /\ f \in [0 .. k -> Nat]
      /\ \A i \in 1 .. k : n[i] = q[i] /\ Step(n[i - 1], f[i - 1], n[i], f[i])
      /\ Step(n[k], f[k], s + 1, d) /\ \A i \in 0 .. k : f[i] <= d
  BY DEF Chain, Stages
<1> HIDE DEF k, r
<1>3. n2 \in [0 .. k + 1 -> Nat] /\ f2 \in [0 .. k + 1 -> Nat]
  BY <1>1, <1>2
<1>4. /\ n2[k + 1] = s + 1 /\ f2[k + 1] = d
      /\ \A i \in 0 .. k : n2[i] = n[i] /\ f2[i] = f[i]
  BY <1>1
<1> HIDE DEF n2, f2
<1>5. \A i \in 1 .. k + 1 : n2[i] = r[i] /\ Step(n2[i - 1], f2[i - 1], n2[i], f2[i])
  <2> TAKE i \in 1 .. k + 1
  <2>1. CASE i \in 1 .. k
    <3>1. i - 1 \in 0 .. k /\ i \in 0 .. k
      BY <1>1, <2>1
    <3> QED BY <1>1, <1>2, <1>4, <2>1, <3>1
  <2>2. CASE i = k + 1
    <3>1. i - 1 = k /\ k \in 0 .. k
      BY <1>1, <2>2
    <3> QED BY <1>1, <1>2, <1>4, <2>2, <3>1
  <2> QED BY <1>1, <2>1, <2>2
<1>6. Step(n2[k + 1], f2[k + 1], s + 1 + 1, d)
  BY <1>4 DEF Step
<1>7. \A i \in 0 .. k + 1 : f2[i] <= d
  BY <1>1, <1>2, <1>4
<1>8. Chain(r, s + 1, d, n2, f2)
  BY <1>1, <1>3, <1>5, <1>6, <1>7 DEF Chain, Stages
<1>9. n2[0] = n[0] /\ f2[0] = f[0]
  BY <1>1, <1>4
<1> QED BY <1>8, <1>9 DEF r

LEMMA ChainTail ==
  ASSUME NEW q \in Seq(Nat), q # <<>>, NEW s \in Nat, NEW d \in Nat, NEW n, NEW f,
         Chain(q, s, d, n, f)
  PROVE  \E n2, f2 : /\ Chain(Tail(q), s, d, n2, f2)
                     /\ n2[0] = q[1] /\ Step(n[0], f[0], n2[0], f2[0])
<1> DEFINE k == Len(q)
           r == Tail(q)
           n2 == [i \in 0 .. k - 1 |-> n[i + 1]]
           f2 == [i \in 0 .. k - 1 |-> f[i + 1]]
<1>1. k \in Nat /\ k > 0 /\ Len(r) = k - 1 /\ \A i \in 1 .. k - 1 : r[i] = q[i + 1]
  OBVIOUS
<1>2. /\ n \in [0 .. k -> Nat] /\ f \in [0 .. k -> Nat]
      /\ \A i \in 1 .. k : n[i] = q[i] /\ Step(n[i - 1], f[i - 1], n[i], f[i])
      /\ Step(n[k], f[k], s + 1, d) /\ \A i \in 0 .. k : f[i] <= d
  BY DEF Chain, Stages
<1> HIDE DEF k, r
<1>3. n2 \in [0 .. k - 1 -> Nat] /\ f2 \in [0 .. k - 1 -> Nat]
  <2>1. \A i \in 0 .. k - 1 : i + 1 \in 0 .. k
    BY <1>1
  <2> QED BY <1>2, <2>1
<1>4. \A i \in 0 .. k - 1 : n2[i] = n[i + 1] /\ f2[i] = f[i + 1]
  OBVIOUS
<1> HIDE DEF n2, f2
<1>5. \A i \in 1 .. k - 1 : n2[i] = r[i] /\ Step(n2[i - 1], f2[i - 1], n2[i], f2[i])
  <2> TAKE i \in 1 .. k - 1
  <2>1. i - 1 \in 0 .. k - 1 /\ i \in 0 .. k - 1 /\ i + 1 \in 1 .. k /\ (i - 1) + 1 = i
        /\ (i + 1) - 1 = i
    BY <1>1
  <2>2. n2[i] = n[i + 1] /\ f2[i] = f[i + 1] /\ n2[i - 1] = n[i] /\ f2[i - 1] = f[i]
    BY <1>4, <2>1
  <2>3. n[i + 1] = q[i + 1] /\ Step(n[i], f[i], n[i + 1], f[i + 1])
    BY <1>2, <2>1
  <2> QED BY <1>1, <2>2, <2>3
<1>6. n2[k - 1] = n[k] /\ f2[k - 1] = f[k]
  BY <1>1, <1>4
<1>7. \A i \in 0 .. k - 1 : f2[i] <= d
  <2>1. \A i \in 0 .. k - 1 : i + 1 \in 0 .. k
    BY <1>1
  <2> QED BY <1>2, <1>4, <2>1
<1>8. Chain(r, s, d, n2, f2)
  BY <1>1, <1>2, <1>3, <1>5, <1>6, <1>7 DEF Chain, Stages
<1>9. n2[0] = q[1] /\ Step(n[0], f[0], n2[0], f2[0])
  <2>1. 0 \in 0 .. k - 1 /\ 1 \in 1 .. k /\ 1 - 1 = 0 /\ 0 + 1 = 1
    BY <1>1
  <2> QED BY <1>2, <1>4, <2>1
<1> QED BY <1>8, <1>9 DEF r

\* What the server has counted is no more than what was dropped before the datagram
\* that left the network last, which is no newer than the last number the entry keeps.
Behind(n, f) ==
  entry.lost <= f[0] /\ (entry.last_seq = 0 \/ entry.last_seq >= n[0])

\* LossNotOverstated, strengthened until every step keeps it.
Accounted ==
  /\ ~up => ~entry.used
  /\ ~entry.used => entry.last_seq = 0
  /\ \E n, f : Chain(toServer, seq, dropped, n, f) /\ Behind(n, f)

LEMMA AccountedIsNotOverstated == Types /\ Accounted => LossNotOverstated
<1> SUFFICES ASSUME Types, Accounted PROVE entry.lost <= dropped
  BY DEF LossNotOverstated
<1>1. PICK n, f : Chain(toServer, seq, dropped, n, f) /\ Behind(n, f)
  BY DEF Accounted
<1>2. toServer \in Seq(Nat) /\ dropped \in Nat /\ entry.lost \in Nat
  BY DEF Types, NodeTypes, ServerTypes, NetTypes, Entry
<1>3. f[0] \in Nat
  BY <1>1, <1>2, StagesFirst DEF Chain
<1>4. f[0] <= dropped
  <2>1. 0 \in 0 .. Len(toServer)
    BY <1>2
  <2> QED BY <1>1, <2>1 DEF Chain
<1> QED BY <1>1, <1>2, <1>3, <1>4 DEF Behind

LEMMA InitAccounted == Init => Accounted
<1> SUFFICES ASSUME Init PROVE Accounted
  OBVIOUS
<1> DEFINE z == [i \in 0 .. 0 |-> 0]
<1>1. toServer = <<>> /\ Len(toServer) = 0 /\ seq = 0 /\ dropped = 0 /\ up
  BY DEF Init
<1>2. z \in [0 .. 0 -> Nat] /\ z[0] = 0 /\ \A i \in 0 .. 0 : i = 0
  OBVIOUS
<1> HIDE DEF z
<1>3. Stages(toServer, z, z)
  BY <1>1, <1>2 DEF Stages
<1>4. Step(z[0], z[0], 0 + 1, 0)
  BY <1>2 DEF Step
<1>5. Chain(toServer, seq, dropped, z, z)
  BY <1>1, <1>2, <1>3, <1>4 DEF Chain
<1>6. entry.lost = 0 /\ entry.last_seq = 0
  BY DEF Init, NoEntry
<1>7. Behind(z, z)
  BY <1>2, <1>6 DEF Behind
<1> QED BY <1>1, <1>5, <1>6, <1>7 DEF Accounted

\* The actions of the node other than sending keep it: at most they start the
\* numbering again.
LEMMA NodeAloneAccounted == Types /\ Accounted /\ NodeAlone => Accounted'
<1> SUFFICES ASSUME Types, Accounted, NodeAlone PROVE Accounted'
  OBVIOUS
<1>1. UNCHANGED <<up, entry, toServer, dropped>> /\ seq' \in {0, seq}
  BY NodeAloneEffect
<1>2. PICK n, f : Chain(toServer, seq, dropped, n, f) /\ Behind(n, f)
  BY DEF Accounted
<1>3. toServer \in Seq(Nat) /\ seq \in Nat /\ dropped \in Nat
  BY DEF Types, NodeTypes, NetTypes
<1>4. Chain(toServer, 0, dropped, n, f)
  BY <1>2, <1>3, ChainOnward
<1>5. Chain(toServer, seq', dropped, n, f)
  BY <1>1, <1>2, <1>4
<1>6. Chain(toServer', seq', dropped', n, f)
  BY <1>1, <1>5
<1>7. Behind(n, f)'
  BY <1>1, <1>2 DEF Behind
<1>8. (~up => ~entry.used)' /\ (~entry.used => entry.last_seq = 0)'
  BY <1>1 DEF Accounted
<1> QED BY <1>6, <1>7, <1>8 DEF Accounted

LEMMA SendAccounted == Counting /\ Types /\ Accounted /\ SendTelemetry => Accounted'
<1> SUFFICES ASSUME Counting, Types, Accounted, SendTelemetry PROVE Accounted'
  OBVIOUS
<1>1. /\ seq' = seq + 1 /\ UNCHANGED <<up, entry>>
      /\ \/ toServer' = Append(toServer, seq + 1) /\ dropped' = dropped
         \/ toServer' = toServer /\ dropped' = dropped + 1
  BY DEF SendTelemetry, Count, serverVars
<1>2. PICK n, f : Chain(toServer, seq, dropped, n, f) /\ Behind(n, f)
  BY DEF Accounted
<1>3. toServer \in Seq(Nat) /\ seq \in Nat /\ dropped \in Nat
  BY DEF Types, NodeTypes, NetTypes
<1>4. PICK n2, f2 : Chain(toServer', seq', dropped', n2, f2) /\ n2[0] = n[0] /\ f2[0] = f[0]
  <2>1. CASE toServer' = Append(toServer, seq + 1) /\ dropped' = dropped
    <3>1. \E n2, f2 : /\ Chain(Append(toServer, seq + 1), seq + 1, dropped, n2, f2)
                      /\ n2[0] = n[0] /\ f2[0] = f[0]
      BY <1>2, <1>3, ChainAppend
    <3> QED BY <1>1, <2>1, <3>1
  <2>2. CASE toServer' = toServer /\ dropped' = dropped + 1
    <3>1. Chain(toServer, seq + 1, dropped + 1, n, f)
      BY <1>2, <1>3, ChainOnward
    <3> QED BY <1>1, <2>2, <3>1
  <2> QED BY <1>1, <2>1, <2>2
<1>5. Behind(n2, f2)'
  BY <1>1, <1>2, <1>4 DEF Behind
<1>6. (~up => ~entry.used)' /\ (~entry.used => entry.last_seq = 0)'
  BY <1>1 DEF Accounted
<1> QED BY <1>4, <1>5, <1>6 DEF Accounted

\* A request served, on time or late, keeps the losses counted so far and the last
\* number, or forgets the last number.
LEMMA ServeAccounted == Types /\ Accounted /\ (Serve \/ ServeStale) => Accounted'
<1> SUFFICES ASSUME Types, Accounted, Serve \/ ServeStale PROVE Accounted'
  OBVIOUS
<1>1. PICK r \in Requests : up /\ \E o \in Outcomes(r) : entry' = o.entry
  <2>1. CASE Serve
    BY <2>1 DEF Serve, Types, ServerTypes
  <2>2. CASE ServeStale
    BY <2>2 DEF ServeStale
  <2> QED BY <2>1, <2>2
<1>2. UNCHANGED <<up, seq, toServer, dropped>>
  BY DEF Serve, ServeStale, nodeData, netVars, history
<1>3. /\ entry'.lost = entry.lost /\ entry'.last_seq \in {0, entry.last_seq}
      /\ entry'.used \/ entry' = entry
  <2>1. PICK o \in Outcomes(r) : entry' = o.entry
    BY <1>1
  <2>2. entry \in Entry
    BY DEF Types, ServerTypes
  <2>3. o.entry.lost = entry.lost /\ o.entry.last_seq \in {0, entry.last_seq}
        /\ (o.entry.used \/ o.entry = entry)
    BY <2>2, OutcomeRules
  <2> QED BY <2>1, <2>3
<1>4. PICK n, f : Chain(toServer, seq, dropped, n, f) /\ Behind(n, f)
  BY DEF Accounted
<1>5. Chain(toServer', seq', dropped', n, f)
  BY <1>2, <1>4
<1>6. Behind(n, f)'
  BY <1>3, <1>4 DEF Behind
<1>7. (~up => ~entry.used)' /\ (~entry.used => entry.last_seq = 0)'
  BY <1>1, <1>2, <1>3 DEF Accounted
<1> QED BY <1>5, <1>6, <1>7 DEF Accounted

\* Without reordering and duplicates the oldest datagram in flight arrives and is gone.
LEMMA ArrivalInOrder ==
  ASSUME ~Reorder, ~Duplicate, toServer \in Seq(Nat), NEW k \in 1 .. Len(toServer), Arrives(k)
  PROVE  k = 1 /\ toServer # <<>> /\ toServer' = Tail(toServer)
<1>1. k = 1 /\ toServer' = SubSeq(toServer, 1, k - 1) \o SubSeq(toServer, k + 1, Len(toServer))
  BY DEF Arrives
<1>2. toServer # <<>> /\ Len(toServer) \in Nat
  OBVIOUS
<1>3. SubSeq(toServer, 1, 0) = <<>>
  BY <1>2
<1>4. SubSeq(toServer, 2, Len(toServer)) = Tail(toServer)
  BY <1>2
<1>5. <<>> \o Tail(toServer) = Tail(toServer)
  BY <1>2
<1>6. k - 1 = 0 /\ k + 1 = 2
  BY <1>1
<1> QED BY <1>1, <1>2, <1>3, <1>4, <1>5, <1>6

LEMMA TelemetryAcceptedAccounted ==
  ASSUME ~Reorder, ~Duplicate, Types, Accounted, TelemetryAccepted
  PROVE  Accounted'
<1>1. PICK k \in 1 .. Len(toServer) : Arrives(k) /\ entry' = Accepted(toServer[k])
  BY DEF TelemetryAccepted
<1>2. /\ toServer \in Seq(Nat) /\ seq \in Nat /\ dropped \in Nat /\ entry \in Entry
      /\ entry.lost \in Nat /\ entry.last_seq \in Nat /\ entry.used \in BOOLEAN
  BY DEF Types, NodeTypes, ServerTypes, NetTypes, Entry
<1>3. k = 1 /\ toServer # <<>> /\ toServer' = Tail(toServer)
  BY <1>1, <1>2, ArrivalInOrder
<1> DEFINE x == toServer[1]
<1>4. x \in Nat
  BY <1>2, <1>3
<1>5. PICK n, f : Chain(toServer, seq, dropped, n, f) /\ Behind(n, f)
  BY DEF Accounted
<1>6. PICK n2, f2 : /\ Chain(Tail(toServer), seq, dropped, n2, f2)
                    /\ n2[0] = x /\ Step(n[0], f[0], n2[0], f2[0])
  BY <1>2, <1>3, <1>5, ChainTail
<1>7. n[0] \in Nat /\ f[0] \in Nat
  BY <1>2, <1>5, StagesFirst DEF Chain
<1>8. f2[0] \in Nat
  <2>1. Tail(toServer) \in Seq(Nat)
    BY <1>2, <1>3
  <2> QED BY <1>6, <2>1, StagesFirst DEF Chain
<1>9. entry' = Accepted(x)
  BY <1>1, <1>3
<1> HIDE DEF x
<1>10. /\ entry'.lost = entry.lost + Gap(entry.last_seq, x)
       /\ entry'.last_seq = NextLastSeq(entry.last_seq, x)
  BY <1>2, <1>4, <1>9, EntryRules
<1>11. /\ Gap(entry.last_seq, x) \in Nat /\ NextLastSeq(entry.last_seq, x) \in Nat
       /\ \/ Gap(entry.last_seq, x) = 0
          \/ entry.last_seq > 0 /\ Gap(entry.last_seq, x) = x - entry.last_seq - 1
       /\ NextLastSeq(entry.last_seq, x) >= x
  <2> DEFINE l == entry.last_seq
  <2>1. l \in Nat
    BY <1>2
  <2> HIDE DEF l
  <2>2. /\ Gap(l, x) \in Nat /\ NextLastSeq(l, x) \in Nat
        /\ Gap(l, x) = 0 \/ (l > 0 /\ Gap(l, x) = x - l - 1)
        /\ NextLastSeq(l, x) >= x
    BY <1>4, <2>1, SeqRules
  <2> QED BY <2>2 DEF l
<1>12. Behind(n2, f2)'
  <2>1. f2[0] >= f[0] /\ f2[0] >= f[0] + x - n[0] - 1
    BY <1>6 DEF Step
  <2>2. entry.lost <= f[0] /\ (entry.last_seq = 0 \/ entry.last_seq >= n[0])
    BY <1>5 DEF Behind
  <2>3. entry.lost + Gap(entry.last_seq, x) <= f2[0]
    <3> DEFINE l == entry.last_seq
               lost == entry.lost
               g == Gap(l, x)
               a == n[0]
               fa == f[0]
               fx == f2[0]
    <3>1. /\ l \in Nat /\ lost \in Nat /\ g \in Nat /\ a \in Nat /\ fa \in Nat /\ fx \in Nat
          /\ g = 0 \/ (l > 0 /\ g = x - l - 1)
          /\ fx >= fa /\ fx >= fa + x - a - 1 /\ lost <= fa /\ (l = 0 \/ l >= a)
      BY <1>2, <1>7, <1>8, <1>11, <2>1, <2>2
    <3> HIDE DEF l, lost, g, a, fa, fx
    <3>2. lost + g <= fx
      BY <1>4, <3>1
    <3> QED BY <3>2 DEF l, lost, g, fx
  <2> QED BY <1>6, <1>10, <1>11, <2>3 DEF Behind
<1>13. Chain(toServer', seq', dropped', n2, f2)
  BY <1>3, <1>6 DEF TelemetryAccepted, nodeData, history
<1>14. up' = up /\ up /\ entry'.used
  BY <1>2, <1>9 DEF TelemetryAccepted, Accepted, Entry
<1> QED BY <1>12, <1>13, <1>14 DEF Accounted

LEMMA TelemetryLostAccounted ==
  ASSUME Counting, ~Reorder, ~Duplicate, Types, Accounted,
         TelemetryRejected \/ TelemetryUnreachable
  PROVE  Accounted'
<1>1. toServer \in Seq(Nat) /\ seq \in Nat /\ dropped \in Nat /\ entry.lost \in Nat
  BY DEF Types, NodeTypes, ServerTypes, NetTypes, Entry
<1>2. /\ toServer # <<>> /\ toServer' = Tail(toServer) /\ dropped' \in {dropped, dropped + 1}
      /\ ~entry.used /\ UNCHANGED <<up, entry, seq>>
  <2>1. CASE TelemetryRejected
    <3>1. PICK k \in 1 .. Len(toServer) : Arrives(k)
      BY <2>1 DEF TelemetryRejected
    <3>2. toServer # <<>> /\ toServer' = Tail(toServer)
      BY <1>1, <3>1, ArrivalInOrder
    <3> QED BY <2>1, <3>2 DEF TelemetryRejected, nodeData, serverVars, history
  <2>2. CASE TelemetryUnreachable
    BY <2>2 DEF TelemetryUnreachable, Accounted, nodeData, serverVars, Count
  <2> QED BY <2>1, <2>2
<1>3. PICK n, f : Chain(toServer, seq, dropped, n, f) /\ Behind(n, f)
  BY DEF Accounted
<1>4. PICK n2, f2 : /\ Chain(Tail(toServer), seq, dropped, n2, f2)
                    /\ n2[0] = toServer[1] /\ Step(n[0], f[0], n2[0], f2[0])
  BY <1>1, <1>2, <1>3, ChainTail
<1>5. Tail(toServer) \in Seq(Nat)
  BY <1>1, <1>2
<1>6. Chain(Tail(toServer), seq, dropped + 1, n2, f2)
  BY <1>1, <1>4, <1>5, ChainOnward
<1>7. Chain(toServer', seq', dropped', n2, f2)
  BY <1>2, <1>4, <1>6
<1>8. f[0] \in Nat /\ f2[0] \in Nat
  BY <1>1, <1>3, <1>4, <1>5, StagesFirst DEF Chain
<1>9. entry.lost <= f2[0] /\ entry.last_seq = 0
  BY <1>1, <1>2, <1>3, <1>4, <1>8 DEF Behind, Step, Accounted
<1>10. Behind(n2, f2)'
  BY <1>2, <1>9 DEF Behind
<1> QED BY <1>2, <1>7, <1>9, <1>10 DEF Accounted

LEMMA CrashAccounted == Types /\ Accounted /\ (Crash \/ Restart) => Accounted'
<1> SUFFICES ASSUME Types, Accounted, Crash \/ Restart PROVE Accounted'
  OBVIOUS
<1>1. PICK n, f : Chain(toServer, seq, dropped, n, f) /\ Behind(n, f)
  BY DEF Accounted
<1>2. toServer \in Seq(Nat) /\ entry.last_seq \in Nat
  BY DEF Types, NetTypes, ServerTypes, Entry
<1>3. f[0] \in Nat
  BY <1>1, <1>2, StagesFirst DEF Chain
<1>4. UNCHANGED <<seq, toServer, dropped>>
  BY DEF Crash, Restart, nodeData, netVars, history
<1>5. Chain(toServer', seq', dropped', n, f)
  BY <1>1, <1>4
<1>6. CASE Crash
  <2>1. entry' = NoEntry
    BY <1>6 DEF Crash
  <2>2. ~entry'.used /\ entry'.lost = 0 /\ entry'.last_seq = 0
    BY <2>1 DEF NoEntry
  <2> QED BY <1>3, <1>5, <2>2 DEF Accounted, Behind
<1>7. CASE Restart
  BY <1>1, <1>5, <1>7 DEF Accounted, Behind, Restart
<1> QED BY <1>6, <1>7

\* On a network that loses datagrams but keeps their order and makes no copies, the
\* server never reports more lost datagrams than were lost, whatever the node, its
\* abandoned requests and the crashes of the server do.
THEOREM LossNeverOverstated ==
  ASSUME Counting, ~Reorder, ~Duplicate
  PROVE  Spec => []LossNotOverstated
<1>1. Init => Types /\ Accounted
  BY InitTypes, InitAccounted
<1>2. Types /\ Accounted /\ [Next]_vars => (Types /\ Accounted)'
  <2> SUFFICES ASSUME Types, Accounted, [Next]_vars PROVE Accounted'
    BY NextTypes
  <2>1. CASE NodeAlone
    BY <2>1, NodeAloneAccounted
  <2>2. CASE SendTelemetry
    BY <2>2, SendAccounted
  <2>3. CASE Serve \/ ServeStale
    BY <2>3, ServeAccounted
  <2>4. CASE TelemetryAccepted
    BY <2>4, TelemetryAcceptedAccounted
  <2>5. CASE TelemetryRejected \/ TelemetryUnreachable
    BY <2>5, TelemetryLostAccounted
  <2>6. CASE Crash \/ Restart
    BY <2>6, CrashAccounted
  <2>7. CASE UNCHANGED vars
    BY <2>7 DEF vars, nodeData, serverVars, netVars, history, Accounted, Behind
  <2> QED BY <2>1, <2>2, <2>3, <2>4, <2>5, <2>6, <2>7 DEF Next, NodeStep, NodeAlone
<1> QED BY <1>1, <1>2, AccountedIsNotOverstated, PTL DEF Spec
=============================================================================
