-------------------------- MODULE AlertPushProofs --------------------------
(***************************************************************************)
(* Proofs about AlertPush, for any number of connections and subscribers,  *)
(* any buffers, and peers that do what they like.                          *)
(***************************************************************************)
EXTENDS AlertPush, FiniteSetTheorems, TLAPS

Threads == {"none", "accepted", "reading", "command", "replying", "leaving", "closing", "ended"}

\* TypeOK without the bound of operators_connected, in three parts.
ConnTypes ==
  /\ thread \in [Conns -> Threads] /\ fd \in [Conns -> Fds \cup {NoFd}]
  /\ command \in [Conns -> Commands] /\ commands \in [Conns -> 0 .. MaxCommands]

TableTypes ==
  /\ g_subscribers \in [Slots -> Fds \cup {NoFd}]
  /\ since \in [Conns -> Nat \cup {NotYet}]

PushTypes ==
  /\ pushing \in 0 .. MaxSubscribers + 1 /\ raised \in 0 .. MaxRaised
  /\ peer \in [Conns -> {"open", "gone"}]
  /\ sock \in [Conns -> Seq(Message)] /\ read \in [Conns -> Nat]

\* A thread has a descriptor from accept() to close(), and no two have the same.
FdsOwned ==
  /\ \A c \in Conns : fd[c] = NoFd <=> thread[c] \in {"none", "ended"}
  /\ \A c, d \in Conns : fd[c] = fd[d] /\ fd[c] # NoFd => c = d

Operators == { c \in Conns : Serving(c) }

IInv ==
  /\ ConnTypes /\ TableTypes /\ PushTypes
  /\ FdsOwned /\ SubscribersAreServed /\ NoDoubleSubscription /\ OperatorsAgree

LEMMA Constants ==
  /\ MaxConns \in Nat \ {0} /\ MaxSubscribers \in Nat \ {0} /\ BufferCap \in Nat \ {0}
  /\ MaxCommands \in Nat /\ MaxRaised \in Nat
  /\ NoFd \notin Fds /\ NotYet \notin Nat /\ Idle = 0
BY AlertPushAssumption DEF NoFd, Fds, NotYet, Idle

LEMMA OperatorsCounted ==
  IsFiniteSet(Operators) /\ Cardinality(Operators) \in 0 .. MaxConns
<1>1. IsFiniteSet(Conns) /\ Cardinality(Conns) = MaxConns
  BY Constants, FS_Interval DEF Conns
<1>2. Operators \in SUBSET Conns
  BY DEF Operators
<1>3. IsFiniteSet(Operators) /\ Cardinality(Operators) <= MaxConns
  BY <1>1, <1>2, FS_Subset
<1>4. Cardinality(Operators) \in Nat
  BY <1>3, FS_CardinalityType
<1> QED BY <1>3, <1>4, Constants

LEMMA InitOK == Init => IInv
<1> SUFFICES ASSUME Init PROVE IInv
  OBVIOUS
<1>1. ConnTypes /\ TableTypes /\ PushTypes
  BY Constants DEF Init, ConnTypes, TableTypes, PushTypes, Threads, Commands, NoFd, NotYet, Idle
<1>2. FdsOwned /\ SubscribersAreServed /\ NoDoubleSubscription
  BY DEF Init, FdsOwned, SubscribersAreServed, NoDoubleSubscription
<1>3. Operators = {}
  BY DEF Init, Operators, Serving
<1>4. OperatorsAgree
  BY <1>3, FS_EmptySet DEF Init, OperatorsAgree, Operators
<1> QED BY <1>1, <1>2, <1>4 DEF IInv

----------------------------------------------------------------------------
(* Steps that leave the table, the descriptors and the operators alone. *)

LEMMA SteadyStep ==
  ASSUME IInv, ConnTypes', PushTypes', UNCHANGED <<fd, g_subscribers, since, operators_connected>>,
         \A c \in Conns : /\ Serving(c) <=> Serving(c)'
                          /\ thread[c] \in {"none", "ended"} <=> thread'[c] \in {"none", "ended"}
  PROVE  IInv'
<1>1. TableTypes'
  BY DEF IInv, TableTypes
<1>2. FdsOwned'
  BY DEF IInv, FdsOwned
<1>3. SubscribersAreServed'
  BY DEF IInv, SubscribersAreServed
<1>4. NoDoubleSubscription'
  BY DEF IInv, NoDoubleSubscription
<1>5. Operators' = Operators
  BY DEF Operators
<1>6. OperatorsAgree'
  BY <1>5 DEF IInv, OperatorsAgree, Operators
<1> QED BY <1>1, <1>2, <1>3, <1>4, <1>6 DEF IInv

LEMMA ReadingStep ==
  ASSUME IInv, NEW c \in Conns, ReadCommand(c) \/ ReadEnd(c)
  PROVE  IInv'
<1>1. PushTypes'
  BY DEF IInv, PushTypes, ReadCommand, ReadEnd, pushVars, peerVars
<1>2. CASE ReadCommand(c)
  <2>1. /\ thread[c] = "reading" /\ thread' = [thread EXCEPT ![c] = "command"]
        /\ commands[c] < MaxCommands /\ commands' = [commands EXCEPT ![c] = @ + 1]
        /\ \E k \in Commands : command' = [command EXCEPT ![c] = k]
        /\ UNCHANGED <<fd, g_subscribers, since, operators_connected>>
    BY <1>2 DEF ReadCommand, GoTo, tableVars
  <2>2. ConnTypes'
    BY <2>1, Constants DEF IInv, ConnTypes, Threads
  <2>3. \A d \in Conns : /\ Serving(d) <=> Serving(d)'
                         /\ thread[d] \in {"none", "ended"} <=> thread'[d] \in {"none", "ended"}
    BY <2>1 DEF IInv, ConnTypes, Serving
  <2> QED BY <1>1, <2>1, <2>2, <2>3, SteadyStep
<1>3. CASE ReadEnd(c)
  <2>1. /\ thread[c] = "reading" /\ thread' = [thread EXCEPT ![c] = "leaving"]
        /\ UNCHANGED <<fd, command, commands, g_subscribers, since, operators_connected>>
    BY <1>3 DEF ReadEnd, GoTo, tableVars
  <2>2. ConnTypes'
    BY <2>1 DEF IInv, ConnTypes, Threads
  <2>3. \A d \in Conns : /\ Serving(d) <=> Serving(d)'
                         /\ thread[d] \in {"none", "ended"} <=> thread'[d] \in {"none", "ended"}
    BY <2>1 DEF IInv, ConnTypes, Serving
  <2> QED BY <1>1, <2>1, <2>2, <2>3, SteadyStep
<1> QED BY <1>2, <1>3

LEMMA MessageSent ==
  ASSUME sock \in [Conns -> Seq(Message)], NEW c \in Conns, NEW k \in Commands \cup {"ALERT"},
         NEW n \in Nat
  PROVE  [sock EXCEPT ![c] = Append(@, [kind |-> k, number |-> n])] \in [Conns -> Seq(Message)]
<1>1. [kind |-> k, number |-> n] \in Message
  BY DEF Message
<1>2. Append(sock[c], [kind |-> k, number |-> n]) \in Seq(Message)
  BY <1>1
<1> QED BY <1>2

LEMMA ReplyStep ==
  ASSUME IInv, NEW c \in Conns, Reply(c)
  PROVE  IInv'
<1>1. \E t \in {"leaving", "reading"} : thread' = [thread EXCEPT ![c] = t]
  BY DEF Reply, Answered
<1>2. /\ thread[c] = "replying" /\ command' = [command EXCEPT ![c] = "QUERY"]
      /\ UNCHANGED <<fd, commands, g_subscribers, since, operators_connected>>
      /\ UNCHANGED <<pushing, raised, peer, read>>
  BY DEF Reply, tableVars, pushVars
<1>3. command[c] \in Commands /\ sock \in [Conns -> Seq(Message)]
  BY DEF IInv, ConnTypes, PushTypes
<1>4. sock' \in [Conns -> Seq(Message)]
  <2>1. \/ sock' = sock
        \/ sock' = [sock EXCEPT ![c] = Append(@, [kind |-> command[c], number |-> 0])]
    BY DEF Reply
  <2>2. [sock EXCEPT ![c] = Append(@, [kind |-> command[c], number |-> 0])]
          \in [Conns -> Seq(Message)]
    BY <1>3, MessageSent
  <2> QED BY <1>3, <2>1, <2>2
<1>5. PushTypes'
  BY <1>2, <1>4 DEF IInv, PushTypes
<1>6. ConnTypes'
  BY <1>1, <1>2 DEF IInv, ConnTypes, Threads, Commands
<1>7. \A d \in Conns : /\ Serving(d) <=> Serving(d)'
                       /\ thread[d] \in {"none", "ended"} <=> thread'[d] \in {"none", "ended"}
  BY <1>1, <1>2 DEF IInv, ConnTypes, Serving
<1> QED BY <1>2, <1>5, <1>6, <1>7, SteadyStep

\* The raising thread between two sends, and the peers.
LEMMA QuietStep ==
  ASSUME IInv, PushTypes',
         UNCHANGED <<connVars, tableVars, since>>
  PROVE  IInv'
<1>1. ConnTypes'
  BY DEF IInv, ConnTypes, connVars
<1>2. \A d \in Conns : /\ Serving(d) <=> Serving(d)'
                       /\ thread[d] \in {"none", "ended"} <=> thread'[d] \in {"none", "ended"}
  BY DEF connVars, Serving
<1> QED BY <1>1, <1>2, SteadyStep DEF connVars, tableVars

LEMMA OtherSteps ==
  ASSUME IInv, \/ Raise \/ PushSkip \/ PushEnd \/ UNCHANGED vars
               \/ \E c \in Conns : PeerRead(c) \/ PeerLeaves(c)
  PROVE  IInv'
<1> USE DEF IInv, PushTypes
<1>1. CASE Raise
  BY <1>1, Constants, QuietStep DEF Raise, peerVars
<1>2. CASE PushSkip
  BY <1>2, Constants, QuietStep DEF PushSkip, Slots, peerVars
<1>3. CASE PushEnd
  BY <1>3, Constants, QuietStep DEF PushEnd, peerVars
<1>4. CASE UNCHANGED vars
  BY <1>4, QuietStep DEF vars, pushVars, peerVars
<1>5. ASSUME NEW c \in Conns, PeerRead(c) PROVE IInv'
  <2>1. /\ sock[c] # <<>> /\ sock[c] \in Seq(Message) /\ sock' = [sock EXCEPT ![c] = Tail(@)]
        /\ read' = read \/ read' = [read EXCEPT ![c] = @ + 1]
        /\ UNCHANGED <<connVars, tableVars, since, pushing, raised, peer>>
    BY <1>5 DEF PeerRead, pushVars
  <2>2. Tail(sock[c]) \in Seq(Message)
    BY <2>1
  <2>3. PushTypes'
    BY <2>1, <2>2
  <2> QED BY <2>1, <2>3, QuietStep
<1>6. ASSUME NEW c \in Conns, PeerLeaves(c) PROVE IInv'
  <2>1. PushTypes' /\ UNCHANGED <<connVars, tableVars, since>>
    BY <1>6 DEF PeerLeaves, pushVars
  <2> QED BY <2>1, QuietStep
<1> QED BY <1>1, <1>2, <1>3, <1>4, <1>5, <1>6

----------------------------------------------------------------------------
(* Steps that change the table, a descriptor or the number of operators. *)

\* accept() never hands out a descriptor that is still in the table: that one is still
\* open, and its thread still serves it.
LEMMA AcceptStep ==
  ASSUME IInv, NEW c \in Conns, Accept(c)
  PROVE  IInv'
<1>1. PICK f \in Fds \ { fd[d] : d \in Conns } : fd' = [fd EXCEPT ![c] = f]
  BY DEF Accept
<1>2. /\ thread[c] = "none" /\ thread' = [thread EXCEPT ![c] = "accepted"]
      /\ UNCHANGED <<command, commands, tableVars, pushVars, peerVars, since>>
  BY DEF Accept, GoTo
<1>3. ConnTypes' /\ TableTypes' /\ PushTypes'
  BY <1>1, <1>2 DEF IInv, ConnTypes, TableTypes, PushTypes, Threads, tableVars, pushVars, peerVars
<1>4. \A d \in Conns : f # fd[d]
  BY <1>1
<1>5. f # NoFd
  BY <1>1, Constants
<1>6. FdsOwned'
  BY <1>1, <1>2, <1>4, <1>5 DEF IInv, ConnTypes, FdsOwned
<1>7. \A d \in Conns : Serving(d) <=> Serving(d)'
  BY <1>2 DEF IInv, ConnTypes, Serving
<1>8. \A d \in Conns : Serving(d) => fd'[d] = fd[d]
  BY <1>1, <1>2 DEF IInv, ConnTypes, Serving
<1>9. SubscribersAreServed' /\ NoDoubleSubscription'
  BY <1>2, <1>7, <1>8 DEF IInv, SubscribersAreServed, NoDoubleSubscription, tableVars
<1>10. OperatorsAgree'
  <2>1. Operators' = Operators
    BY <1>7 DEF Operators
  <2> QED BY <1>2, <2>1 DEF IInv, OperatorsAgree, Operators, tableVars
<1> QED BY <1>3, <1>6, <1>9, <1>10 DEF IInv

LEMMA EnterStep ==
  ASSUME IInv, NEW c \in Conns, Enter(c)
  PROVE  IInv'
<1>1. /\ thread[c] = "accepted" /\ thread' = [thread EXCEPT ![c] = "reading"]
      /\ operators_connected' = operators_connected + 1
      /\ UNCHANGED <<fd, command, commands, g_subscribers, pushVars, peerVars, since>>
  BY DEF Enter, GoTo
<1>2. ConnTypes' /\ TableTypes' /\ PushTypes'
  BY <1>1 DEF IInv, ConnTypes, TableTypes, PushTypes, Threads, pushVars, peerVars
<1>3. FdsOwned' /\ NoDoubleSubscription'
  BY <1>1 DEF IInv, ConnTypes, FdsOwned, NoDoubleSubscription
<1>4. \A d \in Conns : Serving(d) => Serving(d)'
  BY <1>1 DEF IInv, ConnTypes, Serving
<1>5. SubscribersAreServed'
  BY <1>1, <1>4 DEF IInv, SubscribersAreServed
<1>6. Operators' = Operators \cup {c} /\ c \notin Operators
  BY <1>1 DEF IInv, ConnTypes, Operators, Serving
<1>7. Cardinality(Operators') = Cardinality(Operators) + 1
  BY <1>6, OperatorsCounted, FS_AddElement
<1>8. OperatorsAgree'
  BY <1>1, <1>7 DEF IInv, OperatorsAgree, Operators
<1> QED BY <1>2, <1>3, <1>5, <1>8 DEF IInv

\* What state_subscribe does to the table.
LEMMA SubscribedFacts ==
  ASSUME TableTypes, NoDoubleSubscription, NEW f \in Fds, NEW g \in Subscribed(f), g # g_subscribers
  PROVE  /\ g \in [Slots -> Fds \cup {NoFd}]
         /\ \A i, j \in Slots : g[i] = g[j] /\ g[i] # NoFd => i = j
         /\ \A i \in Slots : g[i] = f \/ g[i] = g_subscribers[i]
<1>1. PICK i \in Slots : g = [g_subscribers EXCEPT ![i] = f] /\ ~Listed(f)
  BY DEF Subscribed
<1> QED BY <1>1 DEF TableTypes, NoDoubleSubscription, Listed

LEMMA HandleStep ==
  ASSUME IInv, NEW c \in Conns, Handle(c)
  PROVE  IInv'
<1>1. /\ thread[c] = "command" /\ thread' = [thread EXCEPT ![c] = "replying"]
      /\ UNCHANGED <<fd, command, commands, operators_connected, pushVars, peerVars>>
  BY DEF Handle, GoTo
<1>2. ConnTypes' /\ PushTypes'
  BY <1>1 DEF IInv, ConnTypes, PushTypes, Threads, pushVars, peerVars
<1>3. \A d \in Conns : /\ Serving(d) <=> Serving(d)'
                       /\ thread[d] \in {"none", "ended"} <=> thread'[d] \in {"none", "ended"}
  BY <1>1 DEF IInv, ConnTypes, Serving
<1>4. CASE g_subscribers' = g_subscribers
  <2>1. since' = since
    BY <1>4 DEF Handle
  <2> QED BY <1>1, <1>2, <1>3, <1>4, <2>1, SteadyStep
<1>5. CASE g_subscribers' # g_subscribers
  <2>1. /\ g_subscribers' \in Subscribed(fd[c])
        /\ since' = [since EXCEPT ![c] = raised]
    BY <1>5 DEF Handle
  <2>2. fd[c] \in Fds /\ Serving(c)' /\ raised \in Nat /\ raised # NotYet
    BY <1>1, <1>3, Constants DEF IInv, ConnTypes, PushTypes, FdsOwned, Serving
  <2>3. /\ g_subscribers' \in [Slots -> Fds \cup {NoFd}] /\ NoDoubleSubscription'
        /\ \A i \in Slots : g_subscribers'[i] \in {fd[c], g_subscribers[i]}
    BY <1>5, <2>1, <2>2, SubscribedFacts DEF IInv, NoDoubleSubscription
  <2>4. TableTypes' /\ since'[c] # NotYet
        /\ \A d \in Conns : since[d] # NotYet => since'[d] # NotYet
    BY <2>1, <2>2, <2>3 DEF IInv, TableTypes
  <2>5. FdsOwned'
    BY <1>1, <1>3 DEF IInv, FdsOwned
  <2>6. SubscribersAreServed'
    BY <1>1, <1>3, <2>2, <2>3, <2>4 DEF IInv, SubscribersAreServed
  <2>7. Operators' = Operators
    BY <1>3 DEF Operators
  <2>8. OperatorsAgree'
    BY <1>1, <2>7 DEF IInv, OperatorsAgree, Operators
  <2> QED BY <1>2, <2>3, <2>4, <2>5, <2>6, <2>8 DEF IInv
<1> QED BY <1>4, <1>5

LEMMA LeaveStep ==
  ASSUME IInv, NEW c \in Conns, Leave(c)
  PROVE  IInv'
<1>1. /\ thread[c] = "leaving" /\ thread' = [thread EXCEPT ![c] = "closing"]
      /\ g_subscribers' = Unsubscribed(fd[c]) /\ operators_connected' = operators_connected - 1
      /\ UNCHANGED <<fd, command, commands, pushVars, peerVars, since>>
  BY DEF Leave, GoTo
<1>2. ConnTypes' /\ TableTypes' /\ PushTypes'
  BY <1>1 DEF IInv, ConnTypes, TableTypes, PushTypes, Threads, Unsubscribed, pushVars, peerVars
<1>3. FdsOwned'
  BY <1>1 DEF IInv, ConnTypes, FdsOwned
<1>4. \A i \in Slots : g_subscribers'[i] # NoFd =>
         g_subscribers'[i] = g_subscribers[i] /\ g_subscribers[i] # fd[c]
  BY <1>1 DEF Unsubscribed
<1>5. NoDoubleSubscription'
  BY <1>4 DEF IInv, NoDoubleSubscription
<1>6. \A d \in Conns : d # c => (Serving(d) <=> Serving(d)')
  BY <1>1 DEF IInv, ConnTypes, Serving
<1>7. SubscribersAreServed'
  <2> SUFFICES ASSUME NEW i \in Slots, g_subscribers'[i] # NoFd
               PROVE  \E d \in Conns : /\ fd'[d] = g_subscribers'[i] /\ Serving(d)'
                                       /\ since'[d] # NotYet
    BY DEF SubscribersAreServed
  <2>1. PICK d \in Conns : fd[d] = g_subscribers[i] /\ Serving(d) /\ since[d] # NotYet
    BY <1>4 DEF IInv, SubscribersAreServed
  <2> QED BY <1>1, <1>4, <1>6, <2>1
<1>8. Operators' = Operators \ {c} /\ c \in Operators
  BY <1>1 DEF IInv, ConnTypes, Operators, Serving
<1>9. Cardinality(Operators') = Cardinality(Operators) - 1
  BY <1>8, OperatorsCounted, FS_RemoveElement
<1>10. OperatorsAgree'
  BY <1>1, <1>9 DEF IInv, OperatorsAgree, Operators
<1> QED BY <1>2, <1>3, <1>5, <1>7, <1>10 DEF IInv

LEMMA CloseStep ==
  ASSUME IInv, NEW c \in Conns, Close(c)
  PROVE  IInv'
<1>1. /\ thread[c] = "closing" /\ thread' = [thread EXCEPT ![c] = "ended"]
      /\ fd' = [fd EXCEPT ![c] = NoFd]
      /\ UNCHANGED <<command, commands, tableVars, pushVars, peerVars, since>>
  BY DEF Close, GoTo
<1>2. ConnTypes' /\ TableTypes' /\ PushTypes'
  BY <1>1 DEF IInv, ConnTypes, TableTypes, PushTypes, Threads, tableVars, pushVars, peerVars
<1>3. FdsOwned'
  BY <1>1 DEF IInv, ConnTypes, FdsOwned
<1>4. \A d \in Conns : /\ Serving(d) <=> Serving(d)'
                       /\ Serving(d) => fd'[d] = fd[d]
  BY <1>1 DEF IInv, ConnTypes, Serving
<1>5. SubscribersAreServed' /\ NoDoubleSubscription'
  BY <1>1, <1>4 DEF IInv, SubscribersAreServed, NoDoubleSubscription, tableVars
<1>6. Operators' = Operators
  BY <1>4 DEF Operators
<1>7. OperatorsAgree'
  BY <1>1, <1>6 DEF IInv, OperatorsAgree, Operators, tableVars
<1> QED BY <1>2, <1>3, <1>5, <1>7 DEF IInv

LEMMA PushOne ==
  ASSUME IInv, Push
  PROVE  IInv'
<1>1. /\ pushing \in Slots /\ pushing' = pushing + 1
      /\ UNCHANGED <<connVars, operators_connected, raised, peer, read, since>>
  BY DEF Push
<1>2. /\ sock' \in [Conns -> Seq(Message)]
      /\ \A i \in Slots : g_subscribers'[i] \in {NoFd, g_subscribers[i]}
      /\ g_subscribers' \in [Slots -> Fds \cup {NoFd}]
  <2>1. CASE Receivers = {}
    <3>1. \/ g_subscribers' = [g_subscribers EXCEPT ![pushing] = NoFd]
          \/ g_subscribers' = g_subscribers
      BY <2>1 DEF Push
    <3>2. sock' = sock
      BY <2>1 DEF Push
    <3> QED BY <1>1, <3>1, <3>2 DEF IInv, TableTypes, PushTypes
  <2>2. CASE Receivers # {}
    <3>1. PICK c \in Receivers :
            /\ sock' = [sock EXCEPT ![c] = Append(@, [kind |-> "ALERT", number |-> raised])]
            /\ g_subscribers' = g_subscribers
      BY <2>2 DEF Push
    <3>2. c \in Conns /\ raised \in Nat /\ sock \in [Conns -> Seq(Message)]
      BY Constants DEF Receivers, IInv, PushTypes
    <3>3. sock' \in [Conns -> Seq(Message)]
      BY <3>1, <3>2, MessageSent
    <3> QED BY <3>1, <3>3 DEF IInv, TableTypes
  <2> QED BY <2>1, <2>2
<1>3. ConnTypes' /\ TableTypes' /\ PushTypes'
  BY <1>1, <1>2, Constants DEF IInv, ConnTypes, TableTypes, PushTypes, connVars, Slots
<1>4. FdsOwned'
  BY <1>1 DEF IInv, FdsOwned, connVars
<1>5. SubscribersAreServed' /\ NoDoubleSubscription'
  BY <1>1, <1>2 DEF IInv, SubscribersAreServed, NoDoubleSubscription, Serving, connVars
<1>6. Operators' = Operators
  BY <1>1 DEF Operators, Serving, connVars
<1>7. OperatorsAgree'
  BY <1>1, <1>6 DEF IInv, OperatorsAgree, Operators
<1> QED BY <1>3, <1>4, <1>5, <1>7 DEF IInv

LEMMA NextOK == IInv /\ [Next]_vars => IInv'
BY AcceptStep, EnterStep, ReadingStep, HandleStep, ReplyStep, LeaveStep, CloseStep, PushOne,
   OtherSteps DEF Next, Connection, PushStep

LEMMA Invariance == Spec => []IInv
BY InitOK, NextOK, PTL DEF Spec

\* operators_connected never leaves 0 .. number of connections; a socket holds nothing but
\* whole messages.
THEOREM TypesKept == Spec => []TypeOK
<1>1. IInv => TypeOK
  <2> SUFFICES ASSUME IInv PROVE TypeOK
    OBVIOUS
  <2>1. operators_connected \in 0 .. MaxConns
    BY OperatorsCounted DEF IInv, OperatorsAgree, Operators
  <2> QED BY <2>1 DEF IInv, TypeOK, ConnTypes, TableTypes, PushTypes, Threads
<1> QED BY <1>1, Invariance, PTL

\* However connections and alerts interleave, a descriptor is out of the table before it
\* is closed, and so before accept() can give its number to somebody else.
THEOREM OnlyServedGetAlerts == Spec => []SubscribersAreServed
<1>1. IInv => SubscribersAreServed
  BY DEF IInv
<1> QED BY <1>1, Invariance, PTL

\* No operator is twice in the table, whatever it sends and whoever leaves meanwhile.
THEOREM NoDoubles == Spec => []NoDoubleSubscription
<1>1. IInv => NoDoubleSubscription
  BY DEF IInv
<1> QED BY <1>1, Invariance, PTL

\* operators_connected is the number of operators, however their threads end.
THEOREM OperatorsCountRight == Spec => []OperatorsAgree
<1>1. IInv => OperatorsAgree
  BY DEF IInv
<1> QED BY <1>1, Invariance, PTL

----------------------------------------------------------------------------
(* The alerts in a socket.  While the push loop is at or before the slot of  *)
(* a subscriber, the alert being raised is not due to it yet.                *)

Due(i) == IF pushing \in 1 .. i THEN raised - 1 ELSE raised

\* Nothing is missing between what the peer has read and what is due to it.
UpToDate(c) ==
  \A i \in Slots : g_subscribers[i] = fd[c] =>
    Expected(c) <= Due(i) + 1 /\ Waiting(c) = Expected(c) .. Due(i)

Flow(c) ==
  /\ since[c] = NotYet => read[c] = 0 /\ Waiting(c) = {}
  /\ since[c] # NotYet => thread[c] \notin {"none", "accepted"}
  /\ \A n \in Waiting(c) : n \in Expected(c) .. raised /\ Expected(c) .. n \subseteq Waiting(c)
  /\ InOrder(sock[c])
  /\ peer[c] = "gone" => sock[c] = <<>>
  /\ peer[c] = "open" /\ since[c] # NotYet =>
       Expected(c) <= raised + 1 /\ (Serving(c) => Listed(fd[c]))
  /\ peer[c] = "open" /\ fd[c] # NoFd => UpToDate(c)

FlowInv == \A c \in Conns : Flow(c)

LEMMA NothingSent == AlertNumbers(<<>>) = {} /\ InOrder(<<>>)
BY DEF AlertNumbers, AlertsIn, InOrder

\* Numbers are numbers.
LEMMA NumbersAreNat ==
  ASSUME NEW s \in Seq(Message)
  PROVE  AlertNumbers(s) \subseteq Nat
<1>1. \A k \in 1 .. Len(s) : s[k] \in Message
  OBVIOUS
<1> QED BY <1>1 DEF AlertNumbers, AlertsIn, Message

\* A reply between the alerts changes nothing about them.
LEMMA ReplyAppended ==
  ASSUME NEW s \in Seq(Message), NEW m \in Message, m.kind # "ALERT", InOrder(s)
  PROVE  AlertNumbers(Append(s, m)) = AlertNumbers(s) /\ InOrder(Append(s, m))
<1>1. /\ Len(Append(s, m)) = Len(s) + 1 /\ Append(s, m)[Len(s) + 1] = m
      /\ \A k \in 1 .. Len(s) : Append(s, m)[k] = s[k]
  OBVIOUS
<1>2. AlertsIn(Append(s, m)) = AlertsIn(s)
  BY <1>1 DEF AlertsIn
<1>3. \A k \in AlertsIn(s) : Append(s, m)[k] = s[k]
  BY <1>1 DEF AlertsIn
<1>4. InOrder(Append(s, m))
  <2> SUFFICES ASSUME NEW j \in AlertsIn(Append(s, m)), NEW k \in AlertsIn(Append(s, m)), j < k
               PROVE  Append(s, m)[j].number < Append(s, m)[k].number
    BY DEF InOrder
  <2>1. j \in AlertsIn(s) /\ k \in AlertsIn(s)
    BY <1>2
  <2>2. s[j].number < s[k].number
    BY <2>1 DEF InOrder
  <2> QED BY <1>3, <2>1, <2>2
<1>5. AlertNumbers(Append(s, m)) = AlertNumbers(s)
  BY <1>2, <1>3, Zenon DEF AlertNumbers
<1> QED BY <1>4, <1>5

LEMMA AlertAppended ==
  ASSUME NEW s \in Seq(Message), NEW m \in Message, m.kind = "ALERT", InOrder(s),
         \A n \in AlertNumbers(s) : n < m.number
  PROVE  AlertNumbers(Append(s, m)) = AlertNumbers(s) \cup {m.number} /\ InOrder(Append(s, m))
<1>1. /\ Len(Append(s, m)) = Len(s) + 1 /\ Append(s, m)[Len(s) + 1] = m
      /\ \A k \in 1 .. Len(s) : Append(s, m)[k] = s[k]
  OBVIOUS
<1>2. AlertsIn(Append(s, m)) = AlertsIn(s) \cup {Len(s) + 1}
  BY <1>1 DEF AlertsIn
<1>3. \A k \in AlertsIn(s) : k <= Len(s) /\ Append(s, m)[k] = s[k]
  BY <1>1 DEF AlertsIn
<1>4. AlertNumbers(Append(s, m)) = AlertNumbers(s) \cup {m.number}
  BY <1>1, <1>2, <1>3 DEF AlertNumbers
<1>5. \A k \in AlertsIn(s) : s[k].number < m.number /\ k \in Nat
  BY DEF AlertNumbers, AlertsIn
<1>6. InOrder(Append(s, m))
  <2> SUFFICES ASSUME NEW j \in AlertsIn(Append(s, m)), NEW k \in AlertsIn(Append(s, m)), j < k
               PROVE  Append(s, m)[j].number < Append(s, m)[k].number
    BY DEF InOrder
  <2>1. j \in AlertsIn(s)
    <3>1. k <= Len(s) + 1 /\ Len(s) + 1 \in Nat
      BY <1>2, <1>3, <1>5
    <3> QED BY <1>2, <1>5, <3>1
  <2>2. CASE k \in AlertsIn(s)
    BY <1>3, <2>1, <2>2 DEF InOrder
  <2>3. CASE k = Len(s) + 1
    BY <1>1, <1>3, <1>5, <2>1, <2>3
  <2> QED BY <1>2, <2>2, <2>3
<1> QED BY <1>4, <1>6

\* Reading a message takes the smallest number away, if it is an alert.
LEMMA HeadRead ==
  ASSUME NEW s \in Seq(Message), s # <<>>, InOrder(s)
  PROVE  /\ InOrder(Tail(s))
         /\ Head(s).kind = "ALERT" =>
              /\ Head(s).number \in AlertNumbers(s)
              /\ \A n \in AlertNumbers(s) : Head(s).number <= n
              /\ AlertNumbers(Tail(s)) = AlertNumbers(s) \ {Head(s).number}
         /\ Head(s).kind # "ALERT" => AlertNumbers(Tail(s)) = AlertNumbers(s)
<1>1. /\ Len(s) \in Nat \ {0} /\ Len(Tail(s)) = Len(s) - 1 /\ Head(s) = s[1]
      /\ \A k \in 1 .. Len(Tail(s)) : Tail(s)[k] = s[k + 1]
  OBVIOUS
<1>2. \A k \in 1 .. Len(s) : s[k] \in Message
  OBVIOUS
<1>3. \A k \in 1 .. Len(Tail(s)) : k \in AlertsIn(Tail(s)) <=> k + 1 \in AlertsIn(s)
  BY <1>1 DEF AlertsIn
<1>4. AlertsIn(s) \subseteq 1 .. Len(s) /\ AlertsIn(Tail(s)) \subseteq 1 .. Len(Tail(s))
  BY DEF AlertsIn
<1>5. InOrder(Tail(s))
  <2> SUFFICES ASSUME NEW j \in AlertsIn(Tail(s)), NEW k \in AlertsIn(Tail(s)), j < k
               PROVE  Tail(s)[j].number < Tail(s)[k].number
    BY DEF InOrder
  <2>1. j \in 1 .. Len(Tail(s)) /\ k \in 1 .. Len(Tail(s))
    BY <1>4
  <2>2. j + 1 \in AlertsIn(s) /\ k + 1 \in AlertsIn(s) /\ j + 1 < k + 1
    BY <1>3, <2>1
  <2>3. s[j + 1].number < s[k + 1].number
    BY <2>2 DEF InOrder
  <2> QED BY <1>1, <2>1, <2>3
<1>6. AlertNumbers(Tail(s)) = { s[k].number : k \in AlertsIn(s) \ {1} }
  <2>1. ASSUME NEW k \in AlertsIn(Tail(s))
        PROVE  \E i \in AlertsIn(s) \ {1} : Tail(s)[k].number = s[i].number
    <3>1. k \in 1 .. Len(Tail(s)) /\ k + 1 \in AlertsIn(s) /\ k + 1 # 1
      BY <1>3, <1>4
    <3> QED BY <1>1, <3>1
  <2>2. ASSUME NEW k \in AlertsIn(s) \ {1}
        PROVE  \E i \in AlertsIn(Tail(s)) : s[k].number = Tail(s)[i].number
    <3>1. k - 1 \in 1 .. Len(Tail(s)) /\ (k - 1) + 1 = k
      BY <1>1, <1>4
    <3>2. k - 1 \in AlertsIn(Tail(s)) /\ Tail(s)[k - 1] = s[k]
      BY <1>1, <1>3, <3>1
    <3> QED BY <3>2
  <2>3. \A n : n \in AlertNumbers(Tail(s)) => n \in { s[k].number : k \in AlertsIn(s) \ {1} }
    BY <2>1 DEF AlertNumbers
  <2>4. \A n : n \in { s[k].number : k \in AlertsIn(s) \ {1} } => n \in AlertNumbers(Tail(s))
    BY <2>2 DEF AlertNumbers
  <2> QED BY <2>3, <2>4
<1>7. CASE Head(s).kind = "ALERT"
  <2>1. 1 \in AlertsIn(s)
    BY <1>1, <1>7 DEF AlertsIn
  <2>2. \A k \in AlertsIn(s) \ {1} : s[1].number < s[k].number
    <3>1. \A k \in AlertsIn(s) \ {1} : 1 < k
      BY <1>1, <1>4
    <3> QED BY <2>1, <3>1 DEF InOrder
  <2>3. \A k \in AlertsIn(s) : s[k].number \in Nat
    BY <1>2, <1>4 DEF Message
  <2>4. \A n \in AlertNumbers(s) : s[1].number <= n
    BY <2>1, <2>2, <2>3 DEF AlertNumbers
  <2>5. { s[k].number : k \in AlertsIn(s) \ {1} } = AlertNumbers(s) \ {s[1].number}
    BY <2>1, <2>2, <2>3 DEF AlertNumbers
  <2> QED BY <1>1, <1>5, <1>6, <1>7, <2>1, <2>4, <2>5 DEF AlertNumbers
<1>8. CASE Head(s).kind # "ALERT"
  <2>1. AlertsIn(s) \ {1} = AlertsIn(s)
    BY <1>1, <1>8 DEF AlertsIn
  <2> QED BY <1>5, <1>6, <1>8, <2>1 DEF AlertNumbers
<1> QED BY <1>7, <1>8

LEMMA ExpectedIsInt ==
  ASSUME IInv, NEW c \in Conns
  PROVE  Expected(c) \in Int
<1>1. since[c] \in Int /\ read[c] \in Int
  BY DEF IInv, TableTypes, PushTypes, NotYet
<1> QED BY <1>1 DEF Expected

LEMMA FlowInit == Init => FlowInv
<1> SUFFICES ASSUME Init, NEW c \in Conns PROVE Flow(c)
  BY DEF FlowInv
<1>1. sock[c] = <<>> /\ since[c] = NotYet /\ read[c] = 0 /\ peer[c] = "open" /\ fd[c] = NoFd
  BY DEF Init
<1>2. Waiting(c) = {} /\ InOrder(sock[c])
  BY <1>1, NothingSent DEF Waiting
<1> QED BY <1>1, <1>2 DEF Flow

\* What a connection thread does between its critical sections.
LEMMA FlowThread ==
  ASSUME IInv, FlowInv, UNCHANGED <<sock, read, since, peer, raised, pushing, g_subscribers, fd>>,
         \A c \in Conns :
           /\ thread'[c] \in {"none", "accepted"} => thread[c] \in {"none", "accepted"}
           /\ Serving(c)' => Serving(c) \/ since[c] = NotYet
  PROVE  FlowInv'
<1> SUFFICES ASSUME NEW c \in Conns PROVE Flow(c)'
  BY DEF FlowInv
<1>1. Waiting(c)' = Waiting(c) /\ Expected(c)' = Expected(c) /\ \A i \in Slots : Due(i)' = Due(i)
  BY DEF Waiting, Expected, Due
<1>2. Listed(fd[c])' <=> Listed(fd[c])
  BY DEF Listed
<1>3. UpToDate(c)' <=> UpToDate(c)
  BY <1>1 DEF UpToDate
<1> QED BY <1>1, <1>2, <1>3 DEF FlowInv, Flow

LEMMA FlowFd ==
  ASSUME IInv, FlowInv, NEW c \in Conns, Accept(c) \/ Close(c)
  PROVE  FlowInv'
<1>1. UNCHANGED <<sock, read, since, peer, raised, pushing, g_subscribers>>
  BY DEF Accept, Close, tableVars, pushVars, peerVars
<1>2. /\ thread[c] \in {"none", "closing"} /\ thread'[c] \in {"accepted", "ended"}
      /\ thread'[c] = "accepted" => thread[c] = "none"
      /\ \A d \in Conns : d # c => thread'[d] = thread[d] /\ fd'[d] = fd[d]
  BY DEF Accept, Close, GoTo, IInv, ConnTypes
<1>3. fd'[c] = NoFd \/ \A d \in Conns : fd'[c] # fd[d]
  BY DEF Accept, Close, IInv, ConnTypes
<1>4. \A i \in Slots : g_subscribers[i] # NoFd => g_subscribers[i] # fd'[c]
  <2> SUFFICES ASSUME NEW i \in Slots, g_subscribers[i] # NoFd, g_subscribers[i] = fd'[c]
               PROVE  FALSE
    OBVIOUS
  <2>1. PICK d \in Conns : fd[d] = g_subscribers[i]
    BY DEF IInv, SubscribersAreServed
  <2> QED BY <1>3, <2>1
<1> SUFFICES ASSUME NEW d \in Conns PROVE Flow(d)'
  BY DEF FlowInv
<1>5. Waiting(d)' = Waiting(d) /\ Expected(d)' = Expected(d) /\ \A i \in Slots : Due(i)' = Due(i)
  BY <1>1 DEF Waiting, Expected, Due
<1>6. CASE d = c
  <2>1. ~Serving(d)' /\ (fd'[d] # NoFd => UpToDate(d)')
    BY <1>1, <1>2, <1>4, <1>6 DEF Serving, UpToDate
  <2> QED BY <1>1, <1>2, <1>5, <1>6, <2>1 DEF FlowInv, Flow
<1>7. CASE d # c
  <2>1. Serving(d)' = Serving(d) /\ fd'[d] = fd[d] /\ thread'[d] = thread[d]
    BY <1>2, <1>7 DEF Serving
  <2>2. Listed(fd[d])' <=> Listed(fd[d])
    BY <1>1, <2>1 DEF Listed
  <2>3. UpToDate(d)' <=> UpToDate(d)
    BY <1>1, <1>5, <2>1 DEF UpToDate
  <2> QED BY <1>1, <1>5, <2>1, <2>2, <2>3 DEF FlowInv, Flow
<1> QED BY <1>6, <1>7

\* A new subscriber starts with the next alert, as no push is under way.
LEMMA FlowHandle ==
  ASSUME IInv, FlowInv, NEW c \in Conns, Handle(c)
  PROVE  FlowInv'
<1>1. /\ thread[c] = "command" /\ thread' = [thread EXCEPT ![c] = "replying"] /\ pushing = Idle
      /\ UNCHANGED <<fd, sock, read, peer, raised, pushing>>
  BY DEF Handle, GoTo, MutexFree, pushVars, peerVars
<1>2. \A d \in Conns : /\ Serving(d)' <=> Serving(d)
                       /\ thread'[d] \in {"none", "accepted"} => thread[d] \in {"none", "accepted"}
  BY <1>1 DEF IInv, ConnTypes, Serving
<1>3. CASE g_subscribers' = g_subscribers
  <2>1. since' = since
    BY <1>3 DEF Handle
  <2> QED BY <1>1, <1>2, <1>3, <2>1, FlowThread
<1>4. CASE g_subscribers' # g_subscribers
  <2>1. g_subscribers' \in Subscribed(fd[c]) /\ since' = [since EXCEPT ![c] = raised]
    BY <1>4 DEF Handle
  <2>2. PICK i \in Slots : g_subscribers' = [g_subscribers EXCEPT ![i] = fd[c]]
                          /\ g_subscribers[i] = NoFd /\ ~Listed(fd[c])
    BY <1>4, <2>1 DEF Subscribed
  <2>3. raised \in Nat /\ fd[c] # NoFd /\ Serving(c)
    BY <1>1, Constants DEF IInv, PushTypes, FdsOwned, Serving
  <2>4. \A j \in Slots : Due(j) = raised /\ Due(j)' = raised
    BY <1>1, Constants DEF Due, Slots
  <2> SUFFICES ASSUME NEW d \in Conns PROVE Flow(d)'
    BY DEF FlowInv
  <2>5. Waiting(d)' = Waiting(d)
    BY <1>1 DEF Waiting
  <2>6. CASE d = c
    <3>1. since'[c] = raised /\ since'[c] # NotYet /\ thread'[c] = "replying"
      BY <1>1, <2>1, <2>3, Constants DEF IInv, TableTypes, ConnTypes
    <3>2. CASE peer[c] = "gone"
      <4>1. sock[c] = <<>> /\ Waiting(c) = {}
        BY <3>2, NothingSent DEF FlowInv, Flow, Waiting
      <4> QED BY <1>1, <2>5, <2>6, <3>1, <3>2, <4>1, NothingSent DEF Flow
    <3>3. CASE peer[c] = "open"
      <4>1. since[c] = NotYet
        BY <2>2, <2>3, <3>3 DEF FlowInv, Flow
      <4>2. read[c] = 0 /\ Waiting(c) = {} /\ Expected(c)' = raised + 1
        BY <1>1, <2>3, <3>1, <4>1 DEF FlowInv, Flow, Expected
      <4>3. Listed(fd[c])'
        BY <1>1, <2>2 DEF Listed, IInv, TableTypes
      <4>4. UpToDate(c)'
        <5>1. (raised + 1) .. raised = {} /\ raised + 1 <= raised + 1
          BY <2>3
        <5> QED BY <2>4, <2>5, <2>6, <4>2, <5>1 DEF UpToDate
      <4>5. InOrder(sock[c])'
        BY <1>1 DEF FlowInv, Flow
      <4> QED BY <1>1, <2>3, <2>5, <2>6, <3>1, <3>3, <4>2, <4>3, <4>4, <4>5 DEF Flow
    <3> QED BY <2>6, <3>2, <3>3 DEF IInv, PushTypes
  <2>7. CASE d # c
    <3>1. since'[d] = since[d] /\ Expected(d)' = Expected(d)
      BY <1>1, <2>1, <2>7 DEF IInv, TableTypes, Expected
    <3>2. fd[d] # NoFd => fd[d] # fd[c]
      BY <2>7 DEF IInv, FdsOwned
    <3>3. Serving(d) => fd[d] # NoFd
      BY DEF IInv, FdsOwned, Serving
    <3>4. fd[d] # NoFd =>
            \A j \in Slots : g_subscribers'[j] = fd'[d] <=> g_subscribers[j] = fd[d]
      BY <1>1, <2>2, <3>2 DEF IInv, TableTypes
    <3>5. fd[d] # NoFd => (UpToDate(d)' <=> UpToDate(d)) /\ (Listed(fd[d])' <=> Listed(fd[d]))
      BY <1>1, <2>4, <2>5, <3>1, <3>4 DEF UpToDate, Listed
    <3> QED BY <1>1, <1>2, <2>5, <3>1, <3>3, <3>5 DEF FlowInv, Flow
  <2> QED BY <2>6, <2>7
<1> QED BY <1>3, <1>4

LEMMA FlowReply ==
  ASSUME IInv, FlowInv, NEW c \in Conns, Reply(c)
  PROVE  FlowInv'
<1>1. /\ thread[c] = "replying" /\ \E t \in {"leaving", "reading"} : thread' = [thread EXCEPT ![c] = t]
      /\ UNCHANGED <<fd, g_subscribers, read, since, peer, raised, pushing>>
  BY DEF Reply, Answered, tableVars, pushVars
<1>2. \A d \in Conns : /\ Serving(d)' => Serving(d)
                       /\ thread'[d] \in {"none", "accepted"} => thread[d] \in {"none", "accepted"}
  BY <1>1 DEF IInv, ConnTypes, Serving
<1>3. CASE sock' = sock
  BY <1>1, <1>2, <1>3, FlowThread
<1>4. CASE sock' # sock
  <2> DEFINE m == [kind |-> command[c], number |-> 0]
  <2>1. peer[c] = "open" /\ sock' = [sock EXCEPT ![c] = Append(@, m)]
    BY <1>4 DEF Reply
  <2>2. command[c] \in Commands /\ sock \in [Conns -> Seq(Message)]
    BY DEF IInv, ConnTypes, PushTypes
  <2>3. m \in Message /\ m.kind # "ALERT"
    BY <2>2 DEF Message, Commands
  <2>4. sock[c] \in Seq(Message) /\ InOrder(sock[c])
    BY <2>2 DEF FlowInv, Flow
  <2>5. AlertNumbers(Append(sock[c], m)) = AlertNumbers(sock[c]) /\ InOrder(Append(sock[c], m))
    BY <2>3, <2>4, ReplyAppended
  <2> HIDE DEF m
  <2> SUFFICES ASSUME NEW d \in Conns PROVE Flow(d)'
    BY DEF FlowInv
  <2>6. Waiting(d)' = Waiting(d) /\ InOrder(sock[d])' /\ (peer[d] = "gone" => sock'[d] = sock[d])
    BY <2>1, <2>2, <2>5 DEF Waiting, FlowInv, Flow
  <2>7. Expected(d)' = Expected(d) /\ \A i \in Slots : Due(i)' = Due(i)
    BY <1>1 DEF Expected, Due
  <2>8. (Listed(fd[d])' <=> Listed(fd[d])) /\ (UpToDate(d)' <=> UpToDate(d))
    BY <1>1, <2>6, <2>7 DEF Listed, UpToDate
  <2> QED BY <1>1, <1>2, <2>6, <2>7, <2>8 DEF FlowInv, Flow
<1> QED BY <1>3, <1>4

\* Whoever leaves is out of the table; what is still in its socket stays in order.
LEMMA FlowLeave ==
  ASSUME IInv, FlowInv, NEW c \in Conns, Leave(c)
  PROVE  FlowInv'
<1>1. /\ thread[c] = "leaving" /\ thread' = [thread EXCEPT ![c] = "closing"]
      /\ g_subscribers' = Unsubscribed(fd[c])
      /\ UNCHANGED <<fd, sock, read, since, peer, raised, pushing>>
  BY DEF Leave, GoTo, pushVars, peerVars
<1>2. fd[c] # NoFd
  BY <1>1 DEF IInv, FdsOwned
<1> SUFFICES ASSUME NEW d \in Conns PROVE Flow(d)'
  BY DEF FlowInv
<1>3. Waiting(d)' = Waiting(d) /\ Expected(d)' = Expected(d) /\ \A i \in Slots : Due(i)' = Due(i)
  BY <1>1 DEF Waiting, Expected, Due
<1>4. \A i \in Slots : g_subscribers'[i] # NoFd => g_subscribers'[i] = g_subscribers[i]
  BY <1>1 DEF Unsubscribed
<1>5. fd[d] # NoFd => (UpToDate(d) => UpToDate(d)')
  BY <1>1, <1>3, <1>4 DEF UpToDate
<1>6. Serving(d)' => Serving(d) /\ d # c
  BY <1>1 DEF IInv, ConnTypes, Serving
<1>7. Serving(d)' => (Listed(fd[d]) => Listed(fd[d])')
  <2> SUFFICES ASSUME Serving(d)', NEW i \in Slots, g_subscribers[i] = fd[d]
               PROVE  g_subscribers'[i] = fd'[d]
    BY DEF Listed
  <2>1. fd[d] # fd[c]
    BY <1>2, <1>6 DEF IInv, FdsOwned
  <2> QED BY <1>1, <2>1 DEF Unsubscribed
<1>8. thread'[d] \in {"none", "accepted"} => thread[d] \in {"none", "accepted"}
  BY <1>1 DEF IInv, ConnTypes
<1> QED BY <1>1, <1>3, <1>5, <1>6, <1>7, <1>8 DEF FlowInv, Flow

\* The loop passes by a free slot, begins or ends: what is due to a subscriber is as before.
LEMMA FlowLoop ==
  ASSUME IInv, FlowInv, Raise \/ PushSkip \/ PushEnd
  PROVE  FlowInv'
<1>1. UNCHANGED <<thread, fd, g_subscribers, peer, sock, read, since>>
      /\ raised \in Nat /\ raised' \in Nat /\ raised <= raised'
  BY Constants DEF Raise, PushSkip, PushEnd, connVars, tableVars, peerVars, IInv, PushTypes
<1>2. \A i \in Slots : g_subscribers[i] # NoFd => Due(i)' = Due(i)
  <2>1. CASE Raise
    BY <2>1, Constants DEF Raise, MutexFree, Due, Slots, IInv, PushTypes
  <2>2. CASE PushSkip
    BY <2>2, Constants DEF PushSkip, Due, Slots, IInv, PushTypes
  <2>3. CASE PushEnd
    BY <2>3, Constants DEF PushEnd, Due, Slots, IInv, PushTypes
  <2> QED BY <2>1, <2>2, <2>3
<1> SUFFICES ASSUME NEW d \in Conns PROVE Flow(d)'
  BY DEF FlowInv
<1>3. Waiting(d)' = Waiting(d) /\ Expected(d)' = Expected(d) /\ Expected(d) \in Int
  BY <1>1, ExpectedIsInt DEF Waiting, Expected
<1>4. (Listed(fd[d])' <=> Listed(fd[d])) /\ (Serving(d)' <=> Serving(d))
  BY <1>1 DEF Listed, Serving
<1>5. fd[d] # NoFd => (UpToDate(d)' <=> UpToDate(d))
  BY <1>1, <1>2, <1>3 DEF UpToDate
<1>6. \A n \in Expected(d) .. raised : n \in Expected(d) .. raised'
  BY <1>1, <1>3 DEF IInv, PushTypes
<1>7. Expected(d) <= raised + 1 => Expected(d) <= raised' + 1
  BY <1>1, <1>3 DEF IInv, PushTypes, Raise, PushSkip, PushEnd
<1> QED BY <1>1, <1>3, <1>4, <1>5, <1>6, <1>7 DEF FlowInv, Flow

\* One send() of the loop: the subscriber gets the alert, a vanished one is dropped or not.
LEMMA FlowPush ==
  ASSUME IInv, FlowInv, Push
  PROVE  FlowInv'
<1>1. /\ pushing \in Slots /\ g_subscribers[pushing] # NoFd /\ pushing' = pushing + 1
      /\ UNCHANGED <<thread, fd, raised, peer, read, since>>
  BY DEF Push, connVars
<1>2. pushing \in Nat \ {0} /\ raised \in Nat /\ sock \in [Conns -> Seq(Message)]
  BY <1>1, Constants DEF Slots, IInv, PushTypes
<1>3. \A i \in Slots \ {pushing} : Due(i)' = Due(i)
  BY <1>1, <1>2 DEF Due, Slots
<1>4. \A i \in Slots : i = pushing => Due(i) = raised - 1 /\ Due(i)' = raised
  <2>1. \A i \in Slots : i = pushing => i \in 1 .. i /\ i + 1 \notin 1 .. i
    BY <1>2
  <2> QED BY <1>1, <2>1 DEF Due
<1>5. \A i \in Slots \ {pushing} : g_subscribers[i] # g_subscribers[pushing]
  BY <1>1 DEF IInv, NoDoubleSubscription
<1> SUFFICES ASSUME NEW d \in Conns PROVE Flow(d)'
  BY DEF FlowInv
<1>6. Expected(d)' = Expected(d) /\ (Serving(d)' <=> Serving(d)) /\ Expected(d) \in Int
  BY <1>1, ExpectedIsInt DEF Expected, Serving
<1>7. CASE Receivers = {}
  <2>1. sock' = sock /\ \/ g_subscribers' = [g_subscribers EXCEPT ![pushing] = NoFd]
                        \/ g_subscribers' = g_subscribers
    BY <1>7 DEF Push
  <2>2. peer[d] = "open" /\ fd[d] # NoFd => fd[d] # g_subscribers[pushing]
    BY <1>7 DEF Receivers
  <2>3. peer[d] = "open" /\ fd[d] # NoFd =>
          /\ \A i \in Slots : g_subscribers'[i] = fd[d] <=> g_subscribers[i] = fd[d]
          /\ \A i \in Slots : g_subscribers[i] = fd[d] => Due(i)' = Due(i)
    BY <1>1, <1>3, <2>1, <2>2 DEF IInv, TableTypes
  <2>4. Waiting(d)' = Waiting(d)
    BY <2>1 DEF Waiting
  <2>5. peer[d] = "open" /\ fd[d] # NoFd =>
          (UpToDate(d)' <=> UpToDate(d)) /\ (Listed(fd[d])' <=> Listed(fd[d]))
    BY <1>1, <1>6, <2>3, <2>4 DEF UpToDate, Listed
  <2>6. Serving(d) => fd[d] # NoFd
    BY DEF IInv, FdsOwned, Serving
  <2> QED BY <1>1, <1>6, <2>1, <2>4, <2>5, <2>6 DEF FlowInv, Flow
<1>8. CASE Receivers # {}
  <2> DEFINE m == [kind |-> "ALERT", number |-> raised]
  <2>1. PICK c \in Receivers : sock' = [sock EXCEPT ![c] = Append(@, m)]
    BY <1>8 DEF Push
  <2>2. /\ c \in Conns /\ fd[c] # NoFd /\ fd[c] = g_subscribers[pushing] /\ peer[c] = "open"
        /\ g_subscribers' = g_subscribers
    BY <1>8 DEF Push, Receivers
  <2>3. m \in Message /\ m.kind = "ALERT" /\ m.number = raised
    BY <1>2 DEF Message
  <2> HIDE DEF m
  <2>4. Listed(fd[d])' <=> Listed(fd[d])
    BY <1>1, <2>2 DEF Listed
  <2>5. CASE d = c
    <3>1. Waiting(c) = Expected(c) .. raised - 1 /\ Expected(c) <= raised
      <4>1. UpToDate(c)
        BY <2>2 DEF FlowInv, Flow
      <4> QED BY <1>1, <1>2, <1>4, <1>6, <2>2, <2>5, <4>1 DEF UpToDate
    <3>2. InOrder(sock[c]) /\ sock[c] \in Seq(Message)
      BY <1>2, <2>2 DEF FlowInv, Flow
    <3>3. \A n \in AlertNumbers(sock[c]) : n < m.number
      BY <1>2, <1>6, <2>3, <2>5, <3>1 DEF Waiting
    <3>4. sock'[c] = Append(sock[c], m)
      BY <1>2, <2>1, <2>2
    <3>5. Waiting(c)' = Waiting(c) \cup {raised} /\ InOrder(sock[c])'
      BY <2>3, <3>2, <3>3, <3>4, AlertAppended DEF Waiting
    <3>6. Waiting(c)' = Expected(c) .. raised
      BY <1>2, <1>6, <2>5, <3>1, <3>5
    <3>7. \A i \in Slots : g_subscribers[i] = fd[c] => i = pushing
      BY <1>5, <2>2
    <3>8. UpToDate(c)'
      <4>1. Expected(c) <= raised + 1
        BY <1>2, <1>6, <2>5, <3>1
      <4> QED BY <1>1, <1>4, <1>6, <2>2, <2>5, <3>6, <3>7, <4>1 DEF UpToDate
    <3>9. since[c] # NotYet
      <4>1. PICK e \in Conns : fd[e] = g_subscribers[pushing] /\ since[e] # NotYet
        BY <1>1 DEF IInv, SubscribersAreServed
      <4> QED BY <2>2, <4>1 DEF IInv, FdsOwned
    <3>10. \A n \in Waiting(c)' : n \in Expected(c) .. raised /\ Expected(c) .. n \subseteq Waiting(c)'
      BY <1>2, <1>6, <2>5, <3>6
    <3> QED BY <1>1, <1>2, <1>6, <2>2, <2>4, <2>5, <3>1, <3>5, <3>8, <3>9, <3>10 DEF FlowInv, Flow
  <2>6. CASE d # c
    <3>1. sock'[d] = sock[d] /\ Waiting(d)' = Waiting(d)
      BY <1>2, <2>1, <2>2, <2>6 DEF Waiting
    <3>2. fd[d] # NoFd => fd[d] # g_subscribers[pushing]
      BY <2>2, <2>6 DEF IInv, FdsOwned
    <3>3. fd[d] # NoFd => (UpToDate(d)' <=> UpToDate(d))
      BY <1>1, <1>3, <1>6, <2>2, <3>1, <3>2 DEF UpToDate
    <3> QED BY <1>1, <1>6, <2>4, <3>1, <3>3 DEF FlowInv, Flow
  <2> QED BY <2>5, <2>6
<1> QED BY <1>7, <1>8

\* A peer reads the alert it expects next.
LEMMA FlowPeer ==
  ASSUME IInv, FlowInv, NEW c \in Conns, PeerRead(c) \/ PeerLeaves(c)
  PROVE  FlowInv'
<1>1. /\ UNCHANGED <<thread, fd, raised, pushing, g_subscribers, since>> /\ peer[c] = "open"
      /\ sock \in [Conns -> Seq(Message)] /\ read \in [Conns -> Nat] /\ raised \in Nat
      /\ peer \in [Conns -> {"open", "gone"}]
  BY Constants DEF PeerRead, PeerLeaves, connVars, tableVars, pushVars, IInv, PushTypes
<1> SUFFICES ASSUME NEW d \in Conns PROVE Flow(d)'
  BY DEF FlowInv
<1>2. /\ \A i \in Slots : Due(i)' = Due(i)
      /\ (Listed(fd[d])' <=> Listed(fd[d])) /\ (Serving(d)' <=> Serving(d))
  BY <1>1 DEF Due, Listed, Serving
<1>3. CASE d # c
  <2>1. sock'[d] = sock[d] /\ read'[d] = read[d] /\ peer'[d] = peer[d]
    BY <1>1, <1>3 DEF PeerRead, PeerLeaves
  <2>2. Waiting(d)' = Waiting(d) /\ Expected(d)' = Expected(d)
    BY <1>1, <2>1 DEF Waiting, Expected
  <2>3. UpToDate(d)' <=> UpToDate(d)
    BY <1>1, <1>2, <2>2 DEF UpToDate
  <2> QED BY <1>1, <1>2, <2>1, <2>2, <2>3 DEF FlowInv, Flow
<1>4. CASE d = c /\ PeerLeaves(c)
  <2>1. sock'[c] = <<>> /\ read' = read /\ peer'[c] = "gone"
    BY <1>1, <1>4 DEF PeerLeaves
  <2>2. Waiting(c)' = {} /\ InOrder(sock[c])'
    BY <2>1, NothingSent DEF Waiting
  <2> QED BY <1>1, <1>4, <2>1, <2>2 DEF FlowInv, Flow
<1>5. CASE d = c /\ PeerRead(c)
  <2> DEFINE s == sock[c]
  <2>1. s \in Seq(Message) /\ s # <<>> /\ InOrder(s) /\ sock'[c] = Tail(s) /\ peer' = peer
    BY <1>1, <1>5 DEF PeerRead, FlowInv, Flow
  <2>2. InOrder(sock[c])'
    BY <2>1, HeadRead
  <2>3. Expected(c) \in Int
    BY ExpectedIsInt
  <2>4. CASE Head(s).kind = "ALERT"
    <3>1. read'[c] = read[c] + 1
      BY <1>1, <1>5, <2>4 DEF PeerRead
    <3>2. Head(s).number \in Waiting(c) /\ (\A n \in Waiting(c) : Head(s).number <= n)
          /\ Waiting(c)' = Waiting(c) \ {Head(s).number}
      BY <2>1, <2>4, HeadRead DEF Waiting
    <3>3. Head(s).number = Expected(c)
      <4>1. Head(s).number \in Expected(c) .. raised
            /\ Expected(c) .. Head(s).number \subseteq Waiting(c)
        BY <3>2 DEF FlowInv, Flow
      <4>2. Expected(c) \in Waiting(c)
        BY <2>3, <4>1
      <4> QED BY <2>3, <3>2, <4>1, <4>2
    <3>4. Expected(c)' = Expected(c) + 1
      <4>1. since[c] \in Int /\ read[c] \in Int /\ since'[c] = since[c]
        BY <1>1 DEF IInv, TableTypes, NotYet
      <4> QED BY <3>1, <4>1 DEF Expected
    <3>5. Expected(c) <= raised /\ since[c] # NotYet
      BY <1>1, <2>3, <3>2, <3>3 DEF FlowInv, Flow
    <3>6. \A n \in Waiting(c)' : n \in (Expected(c) + 1) .. raised
                                  /\ (Expected(c) + 1) .. n \subseteq Waiting(c)'
      BY <1>1, <2>3, <3>2, <3>3 DEF FlowInv, Flow
    <3>7. fd[c] # NoFd => UpToDate(c)'
      <4> SUFFICES ASSUME fd[c] # NoFd, NEW i \in Slots, g_subscribers[i] = fd[c]
                   PROVE  Expected(c)' <= Due(i) + 1 /\ Waiting(c)' = Expected(c)' .. Due(i)
        BY <1>1, <1>2 DEF UpToDate
      <4>1. Waiting(c) = Expected(c) .. Due(i) /\ Due(i) \in Int
        BY <1>1 DEF FlowInv, Flow, UpToDate, Due
      <4> QED BY <2>3, <3>2, <3>3, <3>4, <4>1
    <3> QED BY <1>1, <1>2, <1>5, <2>1, <2>2, <2>3, <3>4, <3>5, <3>6, <3>7 DEF FlowInv, Flow
  <2>5. CASE Head(s).kind # "ALERT"
    <3>1. read' = read /\ Waiting(c)' = Waiting(c)
      BY <1>5, <2>1, <2>5, HeadRead DEF PeerRead, Waiting
    <3>2. Expected(c)' = Expected(c)
      BY <1>1, <3>1 DEF Expected
    <3>3. UpToDate(c)' <=> UpToDate(c)
      BY <1>1, <1>2, <1>5, <3>1, <3>2 DEF UpToDate
    <3> QED BY <1>1, <1>2, <1>5, <2>1, <2>2, <3>1, <3>2, <3>3 DEF FlowInv, Flow
  <2> QED BY <2>4, <2>5
<1> QED BY <1>3, <1>4, <1>5

LEMMA FlowSteps ==
  ASSUME IInv, FlowInv, [Next]_vars
  PROVE  FlowInv'
<1>1. ASSUME NEW c \in Conns, Enter(c) \/ ReadCommand(c) \/ ReadEnd(c)
      PROVE  FlowInv'
  <2>1. UNCHANGED <<sock, read, since, peer, raised, pushing, g_subscribers, fd>>
    BY <1>1 DEF Enter, ReadCommand, ReadEnd, tableVars, pushVars, peerVars
  <2>2. /\ thread[c] \in {"accepted", "reading"}
        /\ \E t \in {"reading", "command", "leaving"} : thread' = [thread EXCEPT ![c] = t]
    BY <1>1 DEF Enter, ReadCommand, ReadEnd, GoTo
  <2>3. thread[c] = "accepted" => since[c] = NotYet
    BY DEF FlowInv, Flow
  <2>4. \A d \in Conns :
          /\ thread'[d] \in {"none", "accepted"} => thread[d] \in {"none", "accepted"}
          /\ Serving(d)' => Serving(d) \/ since[d] = NotYet
    BY <2>2, <2>3 DEF IInv, ConnTypes, Serving
  <2> QED BY <2>1, <2>4, FlowThread
<1>2. CASE UNCHANGED vars
  <2>1. \A d \in Conns : thread'[d] = thread[d] /\ (Serving(d)' <=> Serving(d))
    BY <1>2 DEF vars, connVars, Serving
  <2>2. UNCHANGED <<sock, read, since, peer, raised, pushing, g_subscribers, fd>>
    BY <1>2 DEF vars, connVars, tableVars, pushVars, peerVars
  <2> QED BY <2>1, <2>2, FlowThread
<1> QED BY <1>1, <1>2, FlowFd, FlowHandle, FlowReply, FlowLeave, FlowLoop, FlowPush, FlowPeer
        DEF Next, Connection, PushStep

\* However alerts, connections and slow or vanishing peers interleave: what a subscriber has
\* in its socket are the alerts that follow the ones it read, in order and none twice, up to
\* the last one raised; and nobody gets an alert who did not subscribe.
THEOREM NoAlertLost == Spec => []AlertsComplete
<1>1. IInv /\ FlowInv => AlertsComplete
  <2> SUFFICES ASSUME IInv, FlowInv, NEW c \in Conns
               PROVE  /\ Waiting(c) # {} => since[c] # NotYet
                      /\ \A n \in Waiting(c) :
                           n \in Expected(c) .. raised /\ Expected(c) .. n \subseteq Waiting(c)
                      /\ InOrder(sock[c])
                      /\ MutexFree /\ fd[c] # NoFd /\ Listed(fd[c]) /\ peer[c] = "open" =>
                           Expected(c) <= raised + 1 /\ Waiting(c) = Expected(c) .. raised
    BY DEF AlertsComplete
  <2>1. MutexFree => \A i \in Slots : Due(i) = raised
    BY Constants DEF MutexFree, Due
  <2> QED BY <2>1 DEF FlowInv, Flow, UpToDate, Listed
<1>2. Init => FlowInv
  BY FlowInit
<1>3. IInv /\ FlowInv /\ [Next]_vars => FlowInv'
  BY FlowSteps
<1> QED BY <1>1, <1>2, <1>3, Invariance, PTL DEF Spec

----------------------------------------------------------------------------
(* Operators that were told OK|SUBSCRIBED. *)

\* There is room in the table for everybody who is being served.
Room == operators_connected <= MaxSubscribers

\* A confirmation was sent to c, or is about to be.
Confirmed(c) ==
  \/ \E k \in 1 .. Len(sock[c]) : sock[c][k].kind = "SUBSCRIBE"
  \/ thread[c] = "replying" /\ command[c] = "SUBSCRIBE"

Kept == \A c \in Conns : Confirmed(c) => since[c] # NotYet

\* As long as there is room, an operator that is not in the table finds a free slot: were
\* there none, each slot would belong to another of the operators served.
LEMMA FreeSlot ==
  ASSUME IInv, Room, NEW c \in Conns, Serving(c), ~Listed(fd[c])
  PROVE  Listed(NoFd)
<1> SUFFICES ASSUME ~Listed(NoFd) PROVE FALSE
  OBVIOUS
<1> DEFINE Owner(i) == CHOOSE d \in Conns : fd[d] = g_subscribers[i] /\ Serving(d)
<1> DEFINE f == [i \in Slots |-> Owner(i)]
<1>1. ASSUME NEW i \in Slots
      PROVE  Owner(i) \in Operators \ {c} /\ fd[Owner(i)] = g_subscribers[i]
  <2>1. g_subscribers[i] # NoFd /\ g_subscribers[i] # fd[c]
    BY DEF Listed
  <2>2. \E d \in Conns : fd[d] = g_subscribers[i] /\ Serving(d)
    BY <2>1 DEF IInv, SubscribersAreServed
  <2>3. Owner(i) \in Conns /\ fd[Owner(i)] = g_subscribers[i] /\ Serving(Owner(i))
    BY <2>2
  <2> QED BY <2>1, <2>3 DEF Operators
<1> HIDE DEF Owner
<1>2. f \in [Slots -> Operators \ {c}]
  BY <1>1
<1>3. IsFiniteSet(Slots) /\ Cardinality(Slots) = MaxSubscribers
  BY Constants, FS_Interval DEF Slots
<1>4. /\ IsFiniteSet(Operators \ {c}) /\ Cardinality(Operators \ {c}) = Cardinality(Operators) - 1
  BY OperatorsCounted, FS_RemoveElement DEF Operators
<1>5. Cardinality(Operators) = operators_connected /\ Cardinality(Operators) \in Nat
  BY OperatorsCounted, Constants DEF IInv, OperatorsAgree, Operators
<1>6. Cardinality(Operators \ {c}) < Cardinality(Slots)
  BY <1>3, <1>4, <1>5, Constants DEF Room
<1>7. PICK i, j \in Slots : i # j /\ f[i] = f[j]
  <2> HIDE DEF f
  <2> QED BY <1>2, <1>3, <1>4, <1>6, FS_PigeonHole
<1>8. g_subscribers[i] = g_subscribers[j] /\ g_subscribers[i] # NoFd
  BY <1>1, <1>7 DEF Listed
<1> QED BY <1>7, <1>8 DEF IInv, NoDoubleSubscription

\* SUBSCRIBE_ALERTS leaves its operator subscribed.
LEMMA HandleSubscribes ==
  ASSUME IInv, Room, NEW c \in Conns, Handle(c), command[c] = "SUBSCRIBE"
  PROVE  since'[c] # NotYet
<1>1. /\ Serving(c) /\ fd[c] # NoFd
  BY DEF Handle, GoTo, Serving, IInv, FdsOwned
<1>2. CASE Listed(fd[c])
  <2>1. PICK i \in Slots : g_subscribers[i] = fd[c]
    BY <1>2 DEF Listed
  <2>2. since[c] # NotYet
    BY <1>1, <2>1 DEF IInv, SubscribersAreServed, FdsOwned
  <2>3. g_subscribers' = g_subscribers
    BY <1>2 DEF Handle, Subscribed
  <2> QED BY <2>2, <2>3 DEF Handle
<1>3. CASE ~Listed(fd[c])
  <2>1. Listed(NoFd)
    BY <1>1, <1>3, FreeSlot
  <2>2. \E i \in Slots : g_subscribers' = [g_subscribers EXCEPT ![i] = fd[c]]
    BY <1>3, <2>1 DEF Handle, Subscribed
  <2>3. g_subscribers' # g_subscribers
    BY <1>3, <2>2 DEF IInv, TableTypes, Listed
  <2>4. since' = [since EXCEPT ![c] = raised] /\ raised \in Nat
    BY <2>3 DEF Handle, IInv, PushTypes
  <2> QED BY <2>4, Constants DEF IInv, TableTypes
<1> QED BY <1>2, <1>3

\* Who is subscribed stays so.
LEMMA SinceStays ==
  ASSUME IInv, [Next]_vars, NEW c \in Conns, since[c] # NotYet
  PROVE  since'[c] # NotYet
<1>1. ASSUME NEW d \in Conns, Handle(d) PROVE since'[c] # NotYet
  BY <1>1, Constants DEF Handle, IInv, TableTypes, PushTypes
<1>2. ASSUME UNCHANGED since PROVE since'[c] # NotYet
  BY <1>2
<1> QED BY <1>1, <1>2 DEF Next, Connection, PushStep, Accept, Enter, ReadCommand, ReadEnd, Reply,
                          Leave, Close, Raise, PushSkip, Push, PushEnd, PeerRead, PeerLeaves, vars

\* A confirmation gets on its way in no other way than through Handle and Reply.
LEMMA ConfirmedBefore ==
  ASSUME IInv, [Next]_vars, NEW c \in Conns, Confirmed(c)', ~Handle(c)
  PROVE  Confirmed(c)
<1> USE DEF IInv, ConnTypes, PushTypes
<1>1. sock[c] \in Seq(Message)
  OBVIOUS
<1>2. ASSUME UNCHANGED sock,
             thread'[c] = "replying" => thread[c] = "replying" /\ command'[c] = command[c]
      PROVE  Confirmed(c)
  BY <1>2 DEF Confirmed
<1>3. ASSUME NEW m, m.kind = "SUBSCRIBE" => thread[c] = "replying" /\ command[c] = "SUBSCRIBE",
             m \in Message, sock'[c] = Append(sock[c], m),
             thread'[c] = "replying" => thread[c] = "replying" /\ command'[c] = command[c]
      PROVE  Confirmed(c)
  <2>1. \A k \in 1 .. Len(Append(sock[c], m)) :
          \/ Append(sock[c], m)[k] = m
          \/ k \in 1 .. Len(sock[c]) /\ Append(sock[c], m)[k] = sock[c][k]
    BY <1>1, <1>3
  <2> QED BY <1>3, <2>1 DEF Confirmed
<1>4. CASE UNCHANGED vars
  BY <1>2, <1>4 DEF vars, connVars, peerVars
<1>5. ASSUME NEW d \in Conns,
             Accept(d) \/ Enter(d) \/ ReadCommand(d) \/ ReadEnd(d) \/ Leave(d) \/ Close(d)
      PROVE  Confirmed(c)
  <2>1. UNCHANGED peerVars
    BY <1>5 DEF Accept, Enter, ReadCommand, ReadEnd, Leave, Close
  <2>2. /\ thread[d] # "replying"
        /\ \E t \in Threads \ {"replying"} : thread' = [thread EXCEPT ![d] = t]
    BY <1>5 DEF Accept, Enter, ReadCommand, ReadEnd, Leave, Close, GoTo, Threads
  <2>3. UNCHANGED command \/ \E k \in Commands : command' = [command EXCEPT ![d] = k]
    BY <1>5 DEF Accept, Enter, ReadCommand, ReadEnd, Leave, Close
  <2>4. thread'[c] = "replying" => c # d /\ thread[c] = "replying"
    BY <2>2
  <2> QED BY <1>2, <2>1, <2>3, <2>4 DEF peerVars
<1>6. ASSUME NEW d \in Conns, Handle(d) PROVE Confirmed(c)
  <2>1. d # c /\ UNCHANGED <<sock, command>> /\ thread' = [thread EXCEPT ![d] = "replying"]
    BY <1>6 DEF Handle, GoTo, peerVars
  <2> QED BY <1>2, <2>1
<1>7. ASSUME NEW d \in Conns, Reply(d) PROVE Confirmed(c)
  <2>1. /\ thread[d] = "replying" /\ \E t \in {"leaving", "reading"} : thread' = [thread EXCEPT ![d] = t]
        /\ command' = [command EXCEPT ![d] = "QUERY"]
    BY <1>7 DEF Reply, Answered
  <2>2. CASE d # c
    <3>1. sock'[c] = sock[c]
      BY <1>7, <2>2 DEF Reply
    <3> QED BY <2>1, <2>2, <3>1 DEF Confirmed
  <2>3. CASE d = c /\ sock' = sock
    BY <1>2, <2>1, <2>3
  <2>4. CASE d = c /\ sock' # sock
    <3> DEFINE m == [kind |-> command[c], number |-> 0]
    <3>1. sock' = [sock EXCEPT ![c] = Append(@, m)] /\ command[c] \in Commands
      BY <1>7, <2>4 DEF Reply
    <3>2. m \in Message /\ m.kind = command[c] /\ sock'[c] = Append(sock[c], m)
      BY <3>1 DEF Message
    <3>3. thread[c] = "replying" /\ thread'[c] # "replying"
      BY <2>1, <2>4
    <3> HIDE DEF m
    <3>4. m.kind = "SUBSCRIBE" => thread[c] = "replying" /\ command[c] = "SUBSCRIBE"
      BY <3>2, <3>3
    <3> QED BY <1>3, <3>2, <3>3, <3>4
  <2> QED BY <2>2, <2>3, <2>4
<1>8. CASE Raise \/ PushSkip \/ PushEnd
  BY <1>2, <1>8 DEF Raise, PushSkip, PushEnd, connVars, peerVars
<1>9. CASE Push
  <2>1. UNCHANGED <<thread, command>>
    BY <1>9 DEF Push, connVars
  <2>2. CASE UNCHANGED sock
    BY <1>2, <2>1, <2>2
  <2>3. CASE sock' # sock
    <3> DEFINE m == [kind |-> "ALERT", number |-> raised]
    <3>1. PICK d \in Conns : sock' = [sock EXCEPT ![d] = Append(@, m)]
      BY <1>9, <2>3 DEF Push, Receivers
    <3>2. m \in Message /\ m.kind = "ALERT"
      BY Constants DEF Message
    <3>3. sock'[c] = sock[c] \/ sock'[c] = Append(sock[c], m)
      BY <3>1
    <3> HIDE DEF m
    <3>4. CASE sock'[c] = sock[c]
      BY <2>1, <3>4 DEF Confirmed
    <3> QED BY <1>3, <2>1, <3>2, <3>3, <3>4
  <2> QED BY <2>2, <2>3
<1>10. ASSUME NEW d \in Conns, PeerRead(d) \/ PeerLeaves(d) PROVE Confirmed(c)
  <2>1. UNCHANGED <<thread, command>>
    BY <1>10 DEF PeerRead, PeerLeaves, connVars
  <2>2. \/ sock'[c] = sock[c] \/ sock'[c] = <<>>
        \/ sock[c] # <<>> /\ sock'[c] = Tail(sock[c])
    BY <1>10 DEF PeerRead, PeerLeaves
  <2>3. \A k \in 1 .. Len(sock'[c]) : \E l \in 1 .. Len(sock[c]) : sock'[c][k] = sock[c][l]
    <3>1. CASE sock'[c] = sock[c]
      BY <3>1
    <3>2. CASE sock'[c] = <<>>
      BY <3>2
    <3>3. CASE sock[c] # <<>> /\ sock'[c] = Tail(sock[c])
      <4>1. \A k \in 1 .. Len(Tail(sock[c])) : k + 1 \in 1 .. Len(sock[c]) /\ Tail(sock[c])[k] = sock[c][k + 1]
        BY <1>1, <3>3
      <4> QED BY <3>3, <4>1
    <3> QED BY <2>2, <3>1, <3>2, <3>3
  <2> QED BY <2>1, <2>3 DEF Confirmed
<1> QED BY <1>4, <1>5, <1>6, <1>7, <1>8, <1>9, <1>10 DEF Next, Connection, PushStep

LEMMA KeptSteps ==
  ASSUME IInv, Room, Kept, [Next]_vars
  PROVE  Kept'
<1> SUFFICES ASSUME NEW c \in Conns, Confirmed(c)' PROVE since'[c] # NotYet
  BY DEF Kept
<1>1. CASE Confirmed(c)
  BY <1>1, SinceStays DEF Kept
<1>2. CASE ~Confirmed(c)
  <2>1. Handle(c)
    BY <1>2, ConfirmedBefore
  <2>2. CASE command[c] = "SUBSCRIBE"
    BY <2>1, <2>2, HandleSubscribes
  <2>3. CASE command[c] # "SUBSCRIBE"
    <3>1. UNCHANGED <<sock, command>>
      BY <2>1 DEF Handle, peerVars
    <3> QED BY <1>2, <2>3, <3>1 DEF Confirmed
  <2> QED BY <2>2, <2>3
<1> QED BY <1>1, <1>2

\* While no more operators are connected than there are slots, OK|SUBSCRIBED is true and
\* stays true: whoever has it in its socket is in the table.  (push_full shows that the
\* server says so even when the table is full.)
THEOREM SubscribedWhileRoom == Spec /\ []Room => []SubscribedIsListed
<1>1. Init => Kept
  BY DEF Init, Kept, Confirmed
<1>2. IInv /\ Room /\ Kept /\ [Next]_vars => Kept'
  BY KeptSteps
<1>3. FlowInv /\ Kept => SubscribedIsListed
  BY DEF FlowInv, Flow, Kept, Confirmed, SubscribedIsListed, Serving
<1>4. Init => FlowInv
  BY FlowInit
<1>5. IInv /\ FlowInv /\ [Next]_vars => FlowInv'
  BY FlowSteps
<1> QED BY <1>1, <1>2, <1>3, <1>4, <1>5, Invariance, PTL DEF Spec
=============================================================================
