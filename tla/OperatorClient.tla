--------------------------- MODULE OperatorClient ---------------------------
(***************************************************************************)
(* The operator's client (operator_client.py): the main thread, which asks *)
(* for a command, sends it and reads lines until its reply is complete, and*)
(* the listener threads, one for each confirmed subscription, which read   *)
(* pushed alerts from the same socket.  Socket and buffer are shared under *)
(* a lock.  At the other end two threads write to the socket: that of the  *)
(* connection, which answers command by command, and whichever pushes an   *)
(* alert, with the server's mutex.  While the socket is full a line may    *)
(* wait half sent, and the other thread's bytes get into it.               *)
(*                                                                         *)
(* A line is the word it starts with, who sent it and its number.  "buf"   *)
(* holds the complete lines received; "partial" says that the beginning of *)
(* the next one was received too; it is the head of "net", or the line     *)
(* that a thread of the server has begun and not yet ended.                *)
(*                                                                         *)
(* The main thread goes through                                            *)
(*   connecting  in Operator()                                             *)
(*   menu        waiting for the user (or between two commands of --cmd)   *)
(*   locking     in send(), waiting for the lock                           *)
(*   reading     in the loop of send(), with the lock                      *)
(*   showing     the reply is complete and the lock released               *)
(*   ended       the process has an exit code                              *)
(* and a listener through off, waiting, reading, printing, done.           *)
(*                                                                         *)
(* An operator whose name starts with Faulty is the operator after it with *)
(* a plausible mistake, to show that the properties can fail.              *)
(***************************************************************************)
EXTENDS Integers, Sequences, FiniteSets

CONSTANTS
  MaxCommands,   \* bound: commands of a session
  MaxAlerts,     \* bound: alerts pushed
  SocketFills    \* the operator's socket may be full, so that lines are sent in pieces

ASSUME OperatorClientAssumption ==
  MaxCommands \in Nat \ {0} /\ MaxAlerts \in Nat /\ SocketFills \in BOOLEAN

VARIABLES
  pc, exit,          \* the main thread; exit code of the process
  single,            \* started with --cmd
  cmd, asked,        \* the command of send() and how many there were
  lines,             \* the lines of its reply so far
  subscribed, lock,  \* as in class Operator; the lock's holder
  listener, hand,    \* state of each listener, the line it is about to print
  shown,             \* how often each alert was displayed
  buf, partial, net, \* lines received; lines on their way
  inbox, out,        \* commands and reply lines the server has still to deal with
  closing, closed,   \* close_now of client_thread; the connection is closed
  listed, raised,    \* the connection is in g_subscribers; alerts pushed to it
  pending, begun,    \* the alert still to be sent; whose next line is half sent
  served,            \* history: what the server made of the last command
  crossed            \* history: an alert overtook OK|SUBSCRIBED, or cut or was cut by a line

mainVars == <<pc, exit, single, cmd, asked, lines, subscribed>>
threadVars == <<listener, hand>>
streamVars == <<buf, partial, net>>
replyVars == <<inbox, out, served, closing, closed>>
pushVars == <<listed, raised, pending, begun, crossed>>
serverVars == <<replyVars, pushVars>>
vars == <<mainVars, threadVars, lock, shown, streamVars, serverVars>>

\* A reply of several lines whose rows look like pushed alerts (LIST_NODES and GET_LAST
\* answer likewise), the subscription, a reply of one line, and the command after which
\* the server closes.
Commands == {"GET_ALERTS", "SUBSCRIBE_ALERTS", "PING", "QUIT"}

Line(word, number) == [word |-> word, pushed |-> FALSE, number |-> number, torn |-> FALSE]

Alert(number) == [word |-> "ALERT", pushed |-> TRUE, number |-> number, torn |-> FALSE]

\* The rest of a line whose beginning was read as part of another.
RestOfLine == [word |-> "?", pushed |-> FALSE, number |-> 0, torn |-> TRUE]

\* What tlp_handle_tcp may answer to a command.  append() leaves out the rows that do not
\* fit the 8192 bytes, and END as well when not even that fits.  (The cut text of such an
\* END, sent without a newline, could only begin the line of an alert in a reply that never
\* completes anyway.)
Replies(c, number) ==
  IF c = "GET_ALERTS"
  THEN LET first == Line("OK|ALERTS", number)
           row == Line("ALERT", number)
           end == Line("END", number)
       IN  { << first, row, end >>, << first, end >>, << first, row >> }
  ELSE { << Line(CASE c = "SUBSCRIBE_ALERTS" -> "OK|SUBSCRIBED"
                   [] c = "PING" -> "OK|PONG"
                   [] c = "QUIT" -> "OK|BYE", number) >> }

Listeners == 1 .. MaxCommands
Free == 0
Main == -1
NoExit == -1
NoLine == Line("", 0)

Init ==
  /\ pc = "connecting" /\ exit = NoExit /\ single \in BOOLEAN
  /\ cmd = [kind |-> "PING", number |-> 0] /\ asked = 0 /\ lines = <<>>
  /\ subscribed = FALSE /\ lock = Free
  /\ listener = [i \in Listeners |-> "off"] /\ hand = [i \in Listeners |-> NoLine]
  /\ shown = [a \in 1 .. MaxAlerts |-> 0] /\ buf = <<>> /\ partial = FALSE /\ net = <<>>
  /\ inbox = <<>> /\ out = <<>> /\ served = <<>> /\ closing = FALSE /\ closed = FALSE
  /\ listed = FALSE /\ raised = 0 /\ pending = <<>> /\ begun = "none" /\ crossed = FALSE

\* Does not leave the loop.
FaultyEnd(code) == pc' = "menu" /\ exit' = code

End(code) == pc' = "ended" /\ exit' = code

----------------------------------------------------------------------------
(* The main thread. *)

\* Operator(): DNS and connect.  A failure is the exit code 2 of main().
Connect ==
  /\ pc = "connecting"
  /\ \/ pc' = "menu" /\ UNCHANGED exit
     \/ End(2)
  /\ UNCHANGED <<single, cmd, asked, lines, subscribed, threadVars, lock, shown,
                 streamVars, serverVars>>

\* interactive(): what the user typed, after the menu's numbers are translated; the end
\* of the input and Ctrl+C are QUIT at the prompt.  main(): --cmd sends its command and then QUIT.
Ask ==
  /\ pc = "menu" /\ asked < MaxCommands /\ (single => asked < 2)
  /\ \E k \in IF single /\ asked = 1 THEN {"QUIT"} ELSE Commands :
       cmd' = [kind |-> k, number |-> asked + 1]
  /\ asked' = asked + 1 /\ pc' = "locking" /\ lines' = <<>>
  /\ UNCHANGED <<exit, single, subscribed, threadVars, lock, shown, streamVars, serverVars>>

\* send(): with the lock, sendall().  To a server that closed it fails or is in vain.
\* An OSError is the exit code 1, caught in interactive() or not caught at all.
Send ==
  /\ pc = "locking" /\ lock = Free
  /\ \/ ~closed /\ pc' = "reading" /\ lock' = Main /\ inbox' = Append(inbox, cmd)
        /\ UNCHANGED exit
     \/ closed /\ pc' = "reading" /\ lock' = Main /\ UNCHANGED <<exit, inbox>>
     \/ closed /\ End(1) /\ UNCHANGED <<lock, inbox>>
  /\ UNCHANGED <<single, cmd, asked, lines, subscribed, threadVars, shown, streamVars,
                 out, served, closing, closed, pushVars>>

\* The line is alert number a, or a torn one that the beginning of the alert is in.
Carries(line, a) == line.pushed /\ line.number = a

\* How often alert number a is among the lines s.
Times(a, s) == Cardinality({ k \in 1 .. Len(s) : Carries(s[k], a) })

\* Of the lines displayed, "shown" counts the pushed alerts.
Display(s) == shown' = [a \in 1 .. MaxAlerts |-> shown[a] + Times(a, s)]

\* Forgets that a reply may have rows that start with ALERT too.
FaultySkipped(line) == line.word = "ALERT" /\ subscribed

\* A line that send() displays and does not count as part of the reply.
Skipped(line) == line.word = "ALERT" /\ subscribed /\ lines = <<>>

\* The first line says whether more follow; END ends them.
Complete(reply) == Head(reply).word # "OK|ALERTS" \/ reply[Len(reply)].word = "END"

MainLine ==
  /\ pc = "reading" /\ buf # <<>>
  /\ buf' = Tail(buf)
  /\ IF Skipped(Head(buf))
       THEN /\ Display(<< Head(buf) >>)
            /\ UNCHANGED <<pc, lines, lock>>
       ELSE /\ lines' = Append(lines, Head(buf))
            /\ IF Complete(lines')
                 THEN pc' = "showing" /\ lock' = Free
                 ELSE UNCHANGED <<pc, lock>>
            /\ UNCHANGED shown
  /\ UNCHANGED <<exit, single, cmd, asked, subscribed, threadVars, partial, net, serverVars>>

\* recv() times out, finds the end of the stream or fails.
MainFails ==
  /\ pc = "reading" /\ buf = <<>>
  /\ End(1) /\ lock' = Free
  /\ UNCHANGED <<single, cmd, asked, lines, subscribed, threadVars, shown, streamVars,
                 serverVars>>

\* Starts no listener.
FaultyShow ==
  /\ pc = "showing"
  /\ Display(lines)
  /\ subscribed' = (subscribed \/ Head(lines).word = "OK|SUBSCRIBED")
  /\ IF cmd.kind = "QUIT" THEN End(0) ELSE pc' = "menu" /\ UNCHANGED exit
  /\ lines' = <<>>
  /\ UNCHANGED <<single, cmd, asked, threadVars, lock, streamVars, serverVars>>

\* pretty() displays the lines, alerts among them (not those of the last reply of --cmd).
\* In interactive() a confirmed subscription starts one more listener.  A line with
\* fields missing raises IndexError or ValueError, which nothing catches.
Show ==
  /\ pc = "showing"
  /\ Display(IF single /\ asked = 2 THEN <<>> ELSE lines)
  /\ IF ~single /\ cmd.kind = "SUBSCRIBE_ALERTS" /\ Head(lines).word = "OK|SUBSCRIBED"
       THEN /\ subscribed' = TRUE
            /\ listener' = [listener EXCEPT ![asked] = "waiting"]
       ELSE UNCHANGED <<subscribed, listener>>
  /\ \/ IF cmd.kind = "QUIT" /\ (single => asked = 2)
          THEN End(0) ELSE pc' = "menu" /\ UNCHANGED exit
     \/ (\E k \in 1 .. Len(lines) : lines[k].torn) /\ End(1)
  /\ lines' = <<>>
  /\ UNCHANGED <<single, cmd, asked, hand, lock, streamVars, serverVars>>

----------------------------------------------------------------------------
(* Listener threads: daemons, which end with the process. *)

Alive == pc # "ended"

\* Ctrl+C anywhere but at the prompt (130), and the end of the input at the question for
\* a node (1), end the process; so does Ctrl+C there.
Interrupted ==
  /\ Alive
  /\ \/ End(130)
     \/ pc = "menu" /\ ~single /\ End(1)
  /\ lock' = IF lock = Main THEN Free ELSE lock
  /\ UNCHANGED <<single, cmd, asked, lines, subscribed, threadVars, shown, streamVars,
                 serverVars>>

GoTo(i, from, to) == Alive /\ listener[i] = from /\ listener' = [listener EXCEPT ![i] = to]

\* Reads without the lock.
FaultyListenerLocks(i) ==
  /\ GoTo(i, "waiting", "reading") /\ subscribed
  /\ lock' = IF lock = Free THEN i ELSE lock
  /\ UNCHANGED <<mainVars, hand, shown, streamVars, serverVars>>

ListenerLocks(i) ==
  /\ GoTo(i, "waiting", "reading") /\ subscribed /\ lock = Free
  /\ lock' = i
  /\ UNCHANGED <<mainVars, hand, shown, streamVars, serverVars>>

\* Keeps the lock while it prints and afterwards.
FaultyListenerLine(i) ==
  /\ buf # <<>> /\ GoTo(i, "reading", "printing")
  /\ hand' = [hand EXCEPT ![i] = Head(buf)] /\ buf' = Tail(buf)
  /\ UNCHANGED <<mainVars, lock, shown, partial, net, serverVars>>

\* The lock is released before the line is printed.
ListenerLine(i) ==
  /\ buf # <<>> /\ GoTo(i, "reading", "printing")
  /\ hand' = [hand EXCEPT ![i] = Head(buf)] /\ buf' = Tail(buf)
  /\ lock' = Free
  /\ UNCHANGED <<mainVars, shown, partial, net, serverVars>>

ListenerPrints(i) ==
  /\ GoTo(i, "printing", "waiting")
  /\ Display(<< hand[i] >>)
  /\ hand' = [hand EXCEPT ![i] = NoLine]
  /\ UNCHANGED <<mainVars, lock, streamVars, serverVars>>

\* Tries recv() again without releasing the lock.
StubbornListenerTimeout(i) ==
  /\ buf = <<>> /\ GoTo(i, "reading", "reading")
  /\ UNCHANGED <<mainVars, lock, hand, shown, streamVars, serverVars>>

\* Starts with an empty buffer next time.
FaultyListenerTimeout(i) ==
  /\ buf = <<>> /\ GoTo(i, "reading", "waiting")
  /\ lock' = Free
  /\ partial' = FALSE
  /\ net' = IF partial /\ net # <<>> THEN Tail(net) ELSE net
  /\ UNCHANGED <<mainVars, hand, shown, buf, serverVars>>

\* Half a second without a complete line; what was received stays in the buffer.
ListenerTimeout(i) ==
  /\ buf = <<>> /\ GoTo(i, "reading", "waiting")
  /\ lock' = Free
  /\ UNCHANGED <<mainVars, hand, shown, streamVars, serverVars>>

\* The end of the stream, or an error on a closed connection.
ListenerEnds(i) ==
  /\ buf = <<>> /\ closed /\ GoTo(i, "reading", "done")
  /\ lock' = Free
  /\ UNCHANGED <<mainVars, hand, shown, streamVars, serverVars>>

\* recv() in _readline, by whoever holds the lock: n lines, and perhaps a beginning.
Receive ==
  /\ Alive /\ lock # Free /\ buf = <<>>
  /\ \E n \in 0 .. Len(net), p \in BOOLEAN :
       /\ n > 0 \/ (p /\ ~partial)
       /\ p => n < Len(net) \/ begun # "none"
       /\ buf' = SubSeq(net, 1, n) /\ net' = SubSeq(net, n + 1, Len(net))
       /\ partial' = p
  /\ UNCHANGED <<mainVars, threadVars, lock, shown, serverVars>>

----------------------------------------------------------------------------
(* The server: the connection's thread and the one that pushes an alert. *)

\* The connection's thread handles a command, for which it needs the mutex.  A full table
\* leaves it unlisted.
Handle ==
  /\ Alive /\ ~closing /\ ~closed /\ out = <<>> /\ inbox # <<>> /\ pending = <<>>
  /\ served' \in Replies(Head(inbox).kind, Head(inbox).number) /\ out' = served'
  /\ inbox' = Tail(inbox)
  /\ closing' = (Head(inbox).kind = "QUIT")
  /\ listed' \in IF Head(inbox).kind = "SUBSCRIBE_ALERTS" THEN {listed, TRUE} ELSE {listed}
  /\ UNCHANGED <<mainVars, threadVars, lock, shown, streamVars, closed, raised, pending,
                 begun, crossed>>

\* Part of its next line is all that the socket takes of the reply, or of the alert.
\* What state_add_alert sends is one send(), which blocks until all of it is taken.
Begin ==
  /\ SocketFills /\ Alive /\ ~closed /\ begun = "none"
  /\ \/ out # <<>> /\ begun' = "reply"
     \/ pending # <<>> /\ begun' = "alert"
  /\ UNCHANGED <<mainVars, threadVars, lock, shown, streamVars, replyVars, listed, raised,
                 pending, crossed>>

\* The words the client looks for at the beginning of a line.  Where END or OK|SUBSCRIBED
\* is meant the line must be nothing else.
Prefixes == {"ALERT", "OK|ALERTS"}

\* A line that starts with the word w and has an alert, or the rest of one, in it.
Torn(line, w) == [word |-> w, pushed |-> line.pushed, number |-> line.number, torn |-> TRUE]

\* The next line of the reply and the alert, one of them begun, get into one another.  The
\* line that comes of it has the beginnings of both; the newline of one ends it, and the
\* rest of the other is a line of its own, or the beginning of one.
Cross(first) ==
  /\ \E w \in {"?"} \cup (Prefixes \cap {first.word}) :
       net' = Append(net, Torn(Head(pending), w))
  /\ \/ out' = Tail(out) /\ pending' = << RestOfLine >>
     \/ out' = << RestOfLine >> \o Tail(out) /\ pending' = <<>>
  /\ begun' = "none" /\ crossed' = TRUE

\* send() of the next line of the reply, or of what is left of it.
SendReply ==
  /\ Alive /\ ~closed /\ out # <<>>
  /\ \/ /\ begun = "alert" /\ Cross(Head(pending))
     \/ /\ begun # "alert" /\ net' = Append(net, Head(out)) /\ out' = Tail(out)
        /\ begun' = "none" /\ UNCHANGED <<pending, crossed>>
  /\ UNCHANGED <<mainVars, threadVars, lock, shown, buf, partial, inbox, served, closing,
                 closed, listed, raised>>

\* The connection is closed after the reply to QUIT, and taken out of the table.
Close ==
  /\ Alive /\ closing /\ ~closed /\ out = <<>> /\ pending = <<>>
  /\ closed' = TRUE /\ listed' = FALSE
  /\ UNCHANGED <<mainVars, threadVars, lock, shown, streamVars, inbox, out, served, closing,
                 raised, pending, begun, crossed>>

\* state_add_alert, by another thread, which keeps the mutex until the alert is sent.
Push ==
  /\ Alive /\ ~closed /\ listed /\ raised < MaxAlerts /\ pending = <<>>
  /\ raised' = raised + 1 /\ pending' = << Alert(raised') >>
  /\ UNCHANGED <<mainVars, threadVars, lock, shown, streamVars, replyVars, listed, begun,
                 crossed>>

\* send() of the alert, or of what is left of it.
SendAlert ==
  /\ Alive /\ ~closed /\ pending # <<>>
  /\ \/ /\ begun = "reply" /\ Cross(Head(out))
     \/ /\ begun # "reply" /\ net' = Append(net, Head(pending)) /\ pending' = <<>>
        /\ begun' = "none"
        /\ crossed' = \/ crossed
                      \/ ~subscribed /\ out # <<>> /\ Head(out).word = "OK|SUBSCRIBED"
        /\ UNCHANGED out
  /\ UNCHANGED <<mainVars, threadVars, lock, shown, buf, partial, inbox, served, closing,
                 closed, listed, raised>>

\* The server stops.  What it had sent still arrives; what it had not never does.
ServerStops ==
  /\ Alive /\ pc # "connecting" /\ ~closed
  /\ closed' = TRUE /\ listed' = FALSE /\ inbox' = <<>> /\ out' = <<>>
  /\ UNCHANGED <<mainVars, threadVars, lock, shown, streamVars, served, closing, raised,
                 pending, begun, crossed>>

----------------------------------------------------------------------------
MainStep == Connect \/ MainLine \/ MainFails \/ Show

Listener(i) ==
  \/ ListenerLine(i) \/ ListenerPrints(i) \/ ListenerTimeout(i) \/ ListenerEnds(i)

Next ==
  \/ MainStep \/ Ask \/ Send \/ Interrupted
  \/ \E i \in Listeners : Listener(i) \/ ListenerLocks(i)
  \/ Receive
  \/ Handle \/ Begin \/ SendReply \/ Close \/ Push \/ SendAlert \/ ServerStops

Spec == Init /\ [][Next]_vars

\* Threads run, and what is sent arrives at last within a timeout.  A free lock is taken by
\* some thread that waits for it; threading.Lock does not say by which, and a listener that
\* lets go of it asks for it again at once.  The user types when he likes and the server
\* need not stop.
FairSpec ==
  /\ Spec
  /\ WF_vars(MainStep) /\ SF_vars(Receive)
  /\ WF_vars(Send \/ \E i \in Listeners : ListenerLocks(i))
  /\ \A i \in Listeners : WF_vars(Listener(i))
  /\ WF_vars(Handle) /\ WF_vars(SendReply) /\ WF_vars(SendAlert)

----------------------------------------------------------------------------
(* Properties. *)

ReplyLines ==
  [word : {"", "OK|PONG", "OK|BYE", "OK|ALERTS", "OK|SUBSCRIBED", "ALERT", "END"},
   pushed : {FALSE}, number : Nat, torn : {FALSE}]

WholeLines == ReplyLines \cup { Alert(a) : a \in 1 .. MaxAlerts }

Lines ==
  WholeLines \cup
    [word : {"?"} \cup Prefixes, pushed : BOOLEAN, number : 0 .. MaxAlerts, torn : {TRUE}]

\* At most one thread reads the socket, and it is the one that holds the lock: nobody
\* leaves the loop of send() or of listen_alerts without releasing it, and nobody
\* releases that of another.
LockIsTheReaders ==
  Alive => /\ lock = Main <=> pc = "reading"
           /\ \A i \in Listeners : lock = i <=> listener[i] = "reading"

\* Every variable keeps to its type, the process has an exit code when it ends, and a
\* line is half sent only while there is one to send.
TypeOK ==
  /\ pc \in {"connecting", "menu", "locking", "reading", "showing", "ended"}
  /\ exit \in {NoExit, 0, 1, 2, 130} /\ (exit # NoExit <=> pc = "ended")
  /\ {single, subscribed, partial, listed, closing, closed, crossed} \subseteq BOOLEAN
  /\ cmd \in [kind : Commands, number : Nat] /\ asked \in 0 .. MaxCommands
  /\ {lines, buf, net} \subseteq Seq(Lines)
  /\ out \in Seq(ReplyLines \cup {RestOfLine}) /\ served \in Seq(ReplyLines)
  /\ inbox \in Seq([kind : Commands, number : Nat])
  /\ listener \in [Listeners -> {"off", "waiting", "reading", "printing", "done"}]
  /\ hand \in [Listeners -> Lines]
  /\ shown \in [1 .. MaxAlerts -> Nat] /\ raised \in 0 .. MaxAlerts
  /\ pending \in { <<>>, << RestOfLine >> } \cup { << Alert(a) >> : a \in 1 .. raised }
  /\ begun \in {"none", "reply", "alert"}
  /\ partial => net # <<>> \/ begun # "none"
  /\ begun = "reply" => out # <<>> \/ closed
  /\ begun = "alert" => pending # <<>>

\* The reply that is displayed (the last one of --cmd is not).
Displayed == pc = "showing" /\ ~(single /\ asked = 2)

\* r is what is left of s when the pushed alerts are taken out.
WithoutAlerts(s, r) ==
  \E p \in [1 .. Len(r) -> 1 .. Len(s)] :
    /\ \A j, k \in 1 .. Len(r) : j < k => p[j] < p[k]
    /\ \A k \in 1 .. Len(r) : s[p[k]] = r[k]
    /\ \A i \in 1 .. Len(s) : ~s[i].pushed <=> \E k \in 1 .. Len(r) : p[k] = i

\* "Envía un comando y devuelve la respuesta completa" (operator_client.py, 57): the
\* lines that send() returns, but for alerts pushed between them, are all that the server
\* made of this very command.
RepliesMatch ==
  Displayed => served \in Replies(cmd.kind, cmd.number) /\ WithoutAlerts(lines, served)

\* What is true of it: every reply is that to its command, whoever read the socket in
\* between and whatever did not fit the buffer of the server, unless an alert got in front
\* of the OK|SUBSCRIBED or into a line that was half sent.
RepliesMatchUnlessCrossed == ~crossed => RepliesMatch

\* A listener never takes a line of a reply off the stream (same exceptions).
ListenersSeeAlerts ==
  ~crossed => \A i \in Listeners : listener[i] = "printing" => hand[i].pushed

\* How many listeners are about to print alert number a.
InHands(a) ==
  Cardinality({ i \in Listeners : listener[i] = "printing" /\ Carries(hand[i], a) })

\* "Una alerta no se puede perder" (PROTOCOLO.md, 29): while the session lasts, every
\* alert pushed to the operator was displayed, or is about to be, exactly once (when it was
\* cut, its beginning was); two threads reading and two writing, timeouts in the middle of
\* a line and replies lose and repeat none.
AlertsConserved ==
  Alive => \A a \in 1 .. MaxAlerts :
    shown[a] + InHands(a) + Times(a, lines) + Times(a, buf) + Times(a, net)
        + Times(a, pending) =
      IF a <= raised THEN 1 ELSE 0

\* A listener that holds the lock lets go of it, and a command that holds it, or that no
\* listener competes with, gets its reply or ends the session.  (That a command gets the
\* lock is not promised by threading.Lock while listeners take it again and again.)
CommandsReturn ==
  /\ \A i \in Listeners : lock = i ~> (lock # i \/ ~Alive)
  /\ (pc = "reading" \/ (pc = "locking" /\ ~subscribed)) ~> pc \in {"menu", "ended"}

\* An alert that was pushed to a subscribed operator is displayed although the user
\* types nothing, unless the connection or the session ends.
AlertsShown ==
  \A a \in 1 .. MaxAlerts :
    (subscribed /\ raised >= a) ~>
      (closed \/ ~Alive \/ shown[a] > 0)
=============================================================================
