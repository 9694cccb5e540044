----------------------------- MODULE AlertPush -----------------------------
(***************************************************************************)
(* How alerts reach the operators: the thread of each TCP connection       *)
(* (tcp_operator.c), the table of subscribed descriptors and the push loop *)
(* of state_add_alert (state.c), which sends while it holds g_mutex, and   *)
(* the peers at the other end, who read when they like and may vanish.     *)
(*                                                                         *)
(* Short critical sections are single actions.  The push loop is not: it   *)
(* visits one subscriber per step and keeps the mutex until the end.  A    *)
(* socket holds BufferCap messages the peer has not read; a send to a full *)
(* socket blocks, one to a vanished peer may fail.  Which thread raised the*)
(* alert (UDP or watchdog) makes no difference here: alerts are numbers.   *)
(*                                                                         *)
(* A connection thread goes through                                        *)
(*   none      not accepted yet                                            *)
(*   accepted  before it counts itself in operators_connected              *)
(*   reading   in recv()                                                   *)
(*   command   a line was read, before its handler takes the mutex         *)
(*   replying  sending the reply                                           *)
(*   leaving   out of the loop, before state_unsubscribe                   *)
(*   closing   before close(fd)                                            *)
(*   ended                                                                 *)
(*                                                                         *)
(* An operator whose name starts with Faulty is the operator after it with *)
(* a plausible mistake, to show that the properties can fail.              *)
(***************************************************************************)
EXTENDS Integers, Sequences, FiniteSets

CONSTANTS
  MaxConns,        \* bound: connections, each used once
  MaxSubscribers,  \* MAX_SUBSCRIBERS
  BufferCap,       \* messages a socket holds before send() blocks
  MaxCommands,     \* bound: commands a peer sends
  MaxRaised        \* bound: alerts raised

ASSUME AlertPushAssumption ==
  /\ {MaxConns, MaxSubscribers, BufferCap} \subseteq Nat \ {0}
  /\ {MaxCommands, MaxRaised} \subseteq Nat

VARIABLES
  thread,               \* where the thread of a connection is
  fd,                   \* its descriptor, NoFd before accept() and after close()
  command, commands,    \* the command it handles, if any; how many it has read
  g_subscribers,        \* the table of descriptors
  operators_connected,  \* g_stats
  pushing, raised,      \* slot the push loop is at (Idle: mutex free); alerts raised
  peer,                 \* "open" or "gone"
  sock, read,           \* messages on their way to the peer; alerts it has read
  since                 \* history: alerts raised when the peer was subscribed

connVars == <<thread, fd, command, commands>>
tableVars == <<g_subscribers, operators_connected>>
pushVars == <<pushing, raised>>
peerVars == <<peer, sock, read>>
vars == <<connVars, tableVars, pushVars, peerVars, since>>

\* The listening thread accepts one connection at a time: they are numbered in that order.
Conns == 1 .. MaxConns
NoFd == -1
Fds == 1 .. MaxConns
Slots == 1 .. MaxSubscribers
Idle == 0
Commands == {"SUBSCRIBE", "QUERY", "QUIT"}
NotYet == -1
Message == [kind : Commands \cup {"ALERT"}, number : Nat]

Init ==
  /\ thread = [c \in Conns |-> "none"] /\ fd = [c \in Conns |-> NoFd]
  /\ command = [c \in Conns |-> "QUERY"] /\ commands = [c \in Conns |-> 0]
  /\ g_subscribers = [i \in Slots |-> NoFd] /\ operators_connected = 0
  /\ pushing = Idle /\ raised = 0
  /\ peer = [c \in Conns |-> "open"]
  /\ sock = [c \in Conns |-> <<>>] /\ read = [c \in Conns |-> 0]
  /\ since = [c \in Conns |-> NotYet]

MutexFree == pushing = Idle

Listed(f) == \E i \in Slots : g_subscribers[i] = f

GoTo(c, from, to) == thread[c] = from /\ thread' = [thread EXCEPT ![c] = to]

----------------------------------------------------------------------------
(* Connection threads. *)

\* accept() returns the lowest descriptor that is free.
Accept(c) ==
  /\ GoTo(c, "none", "accepted") /\ \A d \in 1 .. c - 1 : thread[d] # "none"
  /\ \E f \in Fds \ { fd[d] : d \in Conns } :
       /\ \A g \in Fds \ { fd[d] : d \in Conns } : f <= g
       /\ fd' = [fd EXCEPT ![c] = f]
  /\ UNCHANGED <<command, commands, tableVars, pushVars, peerVars, since>>

FaultyEnter(c) ==
  /\ MutexFree /\ GoTo(c, "accepted", "reading")
  /\ UNCHANGED <<fd, command, commands, tableVars, pushVars, peerVars, since>>

Enter(c) ==
  /\ MutexFree /\ GoTo(c, "accepted", "reading")
  /\ operators_connected' = operators_connected + 1
  /\ UNCHANGED <<fd, command, commands, g_subscribers, pushVars, peerVars, since>>

ReadCommand(c) ==
  /\ commands[c] < MaxCommands
  /\ GoTo(c, "reading", "command")
  /\ command' \in { [command EXCEPT ![c] = k] : k \in Commands }
  /\ commands' = [commands EXCEPT ![c] = @ + 1]
  /\ UNCHANGED <<fd, tableVars, pushVars, peerVars, since>>

\* recv() returns 0 or an error.
ReadEnd(c) ==
  /\ peer[c] = "gone" /\ GoTo(c, "reading", "leaving")
  /\ UNCHANGED <<fd, command, commands, tableVars, pushVars, peerVars, since>>

FaultySubscribed(f) ==
  IF \E i \in Slots : g_subscribers[i] = NoFd
  THEN { [g_subscribers EXCEPT ![i] = f] :
           i \in { j \in Slots : /\ g_subscribers[j] = NoFd
                                 /\ \A k \in 1 .. j - 1 : g_subscribers[k] # NoFd } }
  ELSE { g_subscribers }

\* state_subscribe: nothing if listed or full, else the first free slot.
Subscribed(f) ==
  IF ~Listed(f) /\ Listed(NoFd)
  THEN { [g_subscribers EXCEPT ![i] = f] :
           i \in { j \in Slots : /\ g_subscribers[j] = NoFd
                                 /\ \A k \in 1 .. j - 1 : g_subscribers[k] # NoFd } }
  ELSE { g_subscribers }

\* tlp_handle_tcp: every command takes the mutex, if only to be counted.
Handle(c) ==
  /\ MutexFree /\ GoTo(c, "command", "replying")
  /\ IF command[c] = "SUBSCRIBE"
       THEN /\ g_subscribers' \in Subscribed(fd[c])
            /\ since' = IF g_subscribers' # g_subscribers
                        THEN [since EXCEPT ![c] = raised] ELSE since
       ELSE UNCHANGED <<g_subscribers, since>>
  /\ UNCHANGED <<fd, command, commands, operators_connected, pushVars, peerVars>>

Answered(c) == IF command[c] = "QUIT" THEN "leaving" ELSE "reading"

\* Tries a failed send again.
FaultyReply(c) ==
  /\ thread[c] = "replying" /\ peer[c] = "open" /\ Len(sock[c]) < BufferCap
  /\ sock' = [sock EXCEPT ![c] = Append(@, [kind |-> command[c], number |-> 0])]
  /\ thread' = [thread EXCEPT ![c] = Answered(c)]
  /\ command' = [command EXCEPT ![c] = "QUERY"]
  /\ UNCHANGED <<fd, commands, tableVars, pushVars, peer, read, since>>

\* The reply is sent without the mutex; after QUIT, or when it fails, the loop ends.
\* A send to a peer that has just gone may still succeed.
Reply(c) ==
  /\ thread[c] = "replying"
  /\ \/ /\ peer[c] = "gone"
        /\ thread' \in { [thread EXCEPT ![c] = t] : t \in {"leaving", Answered(c)} }
        /\ UNCHANGED sock
     \/ /\ peer[c] = "open" /\ Len(sock[c]) < BufferCap
        /\ sock' = [sock EXCEPT ![c] = Append(@, [kind |-> command[c], number |-> 0])]
        /\ thread' = [thread EXCEPT ![c] = Answered(c)]
  /\ command' = [command EXCEPT ![c] = "QUERY"]
  /\ UNCHANGED <<fd, commands, tableVars, pushVars, peer, read, since>>

FaultyUnsubscribed(f) == g_subscribers

Unsubscribed(f) ==
  [i \in Slots |-> IF g_subscribers[i] = f THEN NoFd ELSE g_subscribers[i]]

FaultyLeave(c) ==
  /\ MutexFree /\ GoTo(c, "leaving", "closing")
  /\ g_subscribers' = Unsubscribed(fd[c])
  /\ operators_connected' =
       IF Listed(fd[c]) THEN operators_connected - 1 ELSE operators_connected
  /\ UNCHANGED <<fd, command, commands, pushVars, peerVars, since>>

Leave(c) ==
  /\ MutexFree /\ GoTo(c, "leaving", "closing")
  /\ g_subscribers' = Unsubscribed(fd[c])
  /\ operators_connected' = operators_connected - 1
  /\ UNCHANGED <<fd, command, commands, pushVars, peerVars, since>>

Close(c) ==
  /\ GoTo(c, "closing", "ended")
  /\ fd' = [fd EXCEPT ![c] = NoFd]
  /\ UNCHANGED <<command, commands, tableVars, pushVars, peerVars, since>>

----------------------------------------------------------------------------
(* The thread that raises an alert, with the mutex held. *)

Raise ==
  /\ MutexFree /\ raised < MaxRaised
  /\ raised' = raised + 1 /\ pushing' = 1
  /\ UNCHANGED <<connVars, tableVars, peerVars, since>>

\* Does not advance.
EndlessPushSkip ==
  /\ pushing \in Slots /\ g_subscribers[pushing] = NoFd
  /\ UNCHANGED vars

\* Leaves the loop at the first free slot.
FaultyPushSkip ==
  /\ pushing \in Slots /\ g_subscribers[pushing] = NoFd
  /\ pushing' = MaxSubscribers + 1
  /\ UNCHANGED <<connVars, tableVars, raised, peerVars, since>>

PushSkip ==
  /\ pushing \in Slots /\ g_subscribers[pushing] = NoFd
  /\ pushing' = pushing + 1
  /\ UNCHANGED <<connVars, tableVars, raised, peerVars, since>>

Receivers ==
  { c \in Conns : fd[c] # NoFd /\ fd[c] = g_subscribers[pushing] /\ peer[c] = "open" }

\* send() to the descriptor in the slot, whoever it belongs to now.  It fails when the
\* descriptor is closed, fails or is in vain when the peer is gone, and waits while the
\* socket is full.
Push ==
  /\ pushing \in Slots /\ g_subscribers[pushing] # NoFd
  /\ \/ /\ Receivers = {}
        /\ \/ g_subscribers' = [g_subscribers EXCEPT ![pushing] = NoFd]
           \/ g_subscribers[pushing] \in { fd[c] : c \in Conns } /\ UNCHANGED g_subscribers
        /\ UNCHANGED sock
     \/ \E c \in Receivers :
          /\ Len(sock[c]) < BufferCap
          /\ sock' = [sock EXCEPT ![c] = Append(@, [kind |-> "ALERT", number |-> raised])]
          /\ UNCHANGED g_subscribers
  /\ pushing' = pushing + 1
  /\ UNCHANGED <<connVars, operators_connected, raised, peer, read, since>>

PushEnd ==
  /\ pushing = MaxSubscribers + 1 /\ pushing' = Idle
  /\ UNCHANGED <<connVars, tableVars, raised, peerVars, since>>

----------------------------------------------------------------------------
(* The peers (operator_client.py, a node, or anything that speaks TCP). *)

PeerRead(c) ==
  /\ peer[c] = "open" /\ sock[c] # <<>>
  /\ read' = IF Head(sock[c]).kind = "ALERT" THEN [read EXCEPT ![c] = @ + 1] ELSE read
  /\ sock' = [sock EXCEPT ![c] = Tail(@)]
  /\ UNCHANGED <<connVars, tableVars, pushVars, peer, since>>

PeerLeaves(c) ==
  /\ peer[c] = "open" /\ thread[c] # "none"
  /\ peer' = [peer EXCEPT ![c] = "gone"]
  /\ sock' = [sock EXCEPT ![c] = <<>>]
  /\ UNCHANGED <<connVars, tableVars, pushVars, read, since>>

----------------------------------------------------------------------------
PushStep == PushSkip \/ Push \/ PushEnd

Connection(c) ==
  \/ Enter(c) \/ ReadEnd(c) \/ Handle(c) \/ Reply(c) \/ Leave(c) \/ Close(c)

Next ==
  \/ \E c \in Conns :
       Connection(c) \/ Accept(c) \/ ReadCommand(c) \/ PeerRead(c) \/ PeerLeaves(c)
  \/ Raise \/ PushStep

Spec == Init /\ [][Next]_vars

\* Every server thread runs, and gets the mutex if it is free again and again.
FairSpec ==
  /\ Spec
  /\ WF_vars(PushStep)
  /\ \A c \in Conns :
       /\ WF_vars(ReadEnd(c) \/ Reply(c) \/ Close(c))
       /\ SF_vars(Enter(c) \/ Handle(c) \/ Leave(c))

\* In addition every peer reads what it is sent.
FairPeersSpec == FairSpec /\ \A c \in Conns : WF_vars(PeerRead(c))

----------------------------------------------------------------------------
(* Properties. *)

\* Every variable keeps to its type; operators_connected stays between 0 and the
\* number of connections.
TypeOK ==
  /\ thread \in [Conns -> {"none", "accepted", "reading", "command", "replying",
                           "leaving", "closing", "ended"}]
  /\ fd \in [Conns -> Fds \cup {NoFd}]
  /\ command \in [Conns -> Commands] /\ commands \in [Conns -> 0 .. MaxCommands]
  /\ g_subscribers \in [Slots -> Fds \cup {NoFd}]
  /\ operators_connected \in 0 .. MaxConns
  /\ pushing \in 0 .. MaxSubscribers + 1 /\ raised \in 0 .. MaxRaised
  /\ peer \in [Conns -> {"open", "gone"}]
  /\ sock \in [Conns -> Seq(Message)] /\ read \in [Conns -> Nat]
  /\ since \in [Conns -> Nat \cup {NotYet}]

Serving(c) == thread[c] \in {"reading", "command", "replying", "leaving"}

\* A descriptor stays in the table only while the thread that subscribed it serves it:
\* it is out of the table before it is closed, so that the next connection to be given
\* the same number does not inherit the subscription.
SubscribersAreServed ==
  \A i \in Slots : g_subscribers[i] # NoFd =>
    \E c \in Conns : fd[c] = g_subscribers[i] /\ Serving(c) /\ since[c] # NotYet

\* No operator is in the table twice, so none gets an alert twice.
NoDoubleSubscription ==
  \A i, j \in Slots : g_subscribers[i] = g_subscribers[j] /\ g_subscribers[i] # NoFd => i = j

\* An operator that was told OK|SUBSCRIBED gets the alerts from then on (PROTOCOLO.md, 4).
SubscribedIsListed ==
  \A c \in Conns : peer[c] = "open" /\ Serving(c) =>
    \A k \in 1 .. Len(sock[c]) : sock[c][k].kind = "SUBSCRIBE" => Listed(fd[c])

\* The number of operators that SYSTEM_STATUS reports.
OperatorsAgree == operators_connected = Cardinality({ c \in Conns : Serving(c) })

AlertsIn(s) == { k \in 1 .. Len(s) : s[k].kind = "ALERT" }

AlertNumbers(s) == { s[k].number : k \in AlertsIn(s) }
InOrder(s) == \A j, k \in AlertsIn(s) : j < k => s[j].number < s[k].number

\* The next alert that a peer is to read, and those on their way to it.
Expected(c) == since[c] + read[c] + 1
Waiting(c) == AlertNumbers(sock[c])

\* "Una alerta no se puede perder" (PROTOCOLO.md, 2): a subscribed operator gets every
\* alert raised since, in order and once; an operator that did not subscribe gets none.
AlertsComplete ==
  \A c \in Conns :
    /\ Waiting(c) # {} => since[c] # NotYet
    /\ \A n \in Waiting(c) : n \in Expected(c) .. raised /\ Expected(c) .. n \subseteq Waiting(c)
    /\ InOrder(sock[c])
    /\ MutexFree /\ fd[c] # NoFd /\ Listed(fd[c]) /\ peer[c] = "open" =>
         Expected(c) <= raised + 1 /\ Waiting(c) = Expected(c) .. raised

\* The mutex is released after an alert.
MutexReleased == ~MutexFree ~> MutexFree

\* Every command is handled and answered.
CommandsAnswered == \A c \in Conns : thread[c] = "command" ~> thread[c] \in {"reading", "closing"}
=============================================================================
