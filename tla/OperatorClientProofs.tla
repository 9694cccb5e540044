------------------------ MODULE OperatorClientProofs ------------------------
(***************************************************************************)
(* Proofs about OperatorClient, for sessions of any length with any number *)
(* of subscriptions and of alerts: the lock, the types, the conservation   *)
(* of the alerts, and the replies.                                         *)
(***************************************************************************)
EXTENDS OperatorClient, SequenceTheorems, FunctionTheorems, FiniteSetTheorems, TLAPS

\* The steps of the threads at the other end.
ServerStep == Handle \/ Begin \/ SendReply \/ Close \/ Push \/ SendAlert \/ ServerStops

\* The listener of a subscription is started when its command has been answered, once.
LockInv ==
  /\ pc \in {"connecting", "menu", "locking", "reading", "showing", "ended"}
  /\ asked \in Nat
  /\ listener \in [Listeners -> {"off", "waiting", "reading", "printing", "done"}]
  /\ \A i \in Listeners : listener[i] # "off" =>
       i <= asked /\ (pc \in {"locking", "reading", "showing"} => i < asked)
  /\ LockIsTheReaders

LEMMA InitOK == Init => LockInv
<1> SUFFICES ASSUME Init PROVE LockInv
  OBVIOUS
<1> QED BY OperatorClientAssumption DEF Init, LockInv, LockIsTheReaders, Listeners, Free, Main

LEMMA NextOK == LockInv /\ [Next]_vars => LockInv'
<1> SUFFICES ASSUME LockInv, [Next]_vars PROVE LockInv'
  OBVIOUS
<1> USE DEF LockInv, LockIsTheReaders, Alive, Free, Main, Listeners, mainVars, threadVars, End
<1>1. CASE Connect
  BY <1>1 DEF Connect
<1>2. CASE Ask
  BY <1>2 DEF Ask
<1>3. CASE Send
  BY <1>3 DEF Send
<1>4. CASE MainLine
  BY <1>4 DEF MainLine
<1>5. CASE MainFails
  BY <1>5 DEF MainFails
<1>6. CASE Show
  <2>1. /\ pc = "showing" /\ pc' \in {"menu", "ended"} /\ UNCHANGED <<asked, lock>>
        /\ listener' = listener \/ listener' = [listener EXCEPT ![asked] = "waiting"]
    BY <1>6 DEF Show
  <2>2. listener' \in [Listeners -> {"off", "waiting", "reading", "printing", "done"}]
    BY <2>1
  <2>3. ASSUME NEW i \in Listeners
        PROVE  /\ listener'[i] # "off" => i <= asked
               /\ listener'[i] = "reading" <=> listener[i] = "reading"
    <3>1. CASE i = asked
      <4>1. listener[i] = "off"
        BY <2>1, <3>1
      <4> QED BY <2>1, <2>2, <3>1, <4>1
    <3>2. CASE i # asked
      BY <2>1, <3>2
    <3> QED BY <3>1, <3>2
  <2> QED BY <2>1, <2>2, <2>3
<1>7. ASSUME NEW i \in Listeners, Listener(i) \/ ListenerLocks(i) PROVE LockInv'
  <2>1. CASE ListenerLine(i)
    BY <1>7, <2>1 DEF ListenerLine, GoTo
  <2>2. CASE ListenerPrints(i)
    BY <1>7, <2>2 DEF ListenerPrints, GoTo
  <2>3. CASE ListenerTimeout(i)
    BY <1>7, <2>3 DEF ListenerTimeout, GoTo
  <2>4. CASE ListenerEnds(i)
    BY <1>7, <2>4 DEF ListenerEnds, GoTo
  <2>5. CASE ListenerLocks(i)
    BY <1>7, <2>5 DEF ListenerLocks, GoTo
  <2> QED BY <1>7, <2>1, <2>2, <2>3, <2>4, <2>5 DEF Listener
<1>8. CASE Receive \/ ServerStep
  BY <1>8 DEF Receive, ServerStep, Handle, Begin, SendReply, Close, Push, SendAlert, ServerStops
<1>9. CASE Interrupted
  BY <1>9 DEF Interrupted
<1>10. CASE UNCHANGED vars
  BY <1>10 DEF vars
<1> QED BY <1>1, <1>2, <1>3, <1>4, <1>5, <1>6, <1>7, <1>8, <1>9, <1>10
        DEF Next, MainStep, ServerStep

\* However the main thread and the listeners take turns, time out and end, never do two
\* of them read the socket, nor is the lock kept by a thread that has stopped reading.
THEOREM OneReader == Spec => []LockIsTheReaders
<1>1. LockInv => LockIsTheReaders
  BY DEF LockInv
<1> QED BY <1>1, InitOK, NextOK, PTL DEF Spec

----------------------------------------------------------------------------
(* Types. *)

\* What the server answers are whole lines without alerts, one unless they are alerts.
LEMMA ReplyTyped ==
  ASSUME NEW c \in Commands, NEW n \in Nat, NEW x \in Replies(c, n)
  PROVE  /\ x \in Seq(ReplyLines) /\ Len(x) \in {1, 2, 3}
         /\ Len(x) = 1 <=> c # "GET_ALERTS"
<1>1. CASE c = "GET_ALERTS"
  <2> DEFINE a == Line("OK|ALERTS", n)
             b == Line("ALERT", n)
             e == Line("END", n)
  <2>1. a \in ReplyLines /\ b \in ReplyLines /\ e \in ReplyLines
    BY DEF Line, ReplyLines
  <2>2. x \in { << a, b, e >>, << a, e >>, << a, b >> }
    BY <1>1 DEF Replies
  <2> HIDE DEF a, b, e
  <2>3. << a, b, e >> \in Seq(ReplyLines) /\ Len(<< a, b, e >>) = 3
    BY <2>1
  <2>4. << a, e >> \in Seq(ReplyLines) /\ Len(<< a, e >>) = 2
    BY <2>1
  <2>5. << a, b >> \in Seq(ReplyLines) /\ Len(<< a, b >>) = 2
    BY <2>1
  <2>6. CASE x = << a, b, e >>
    BY <1>1, <2>3, <2>6
  <2>7. CASE x = << a, e >>
    BY <1>1, <2>4, <2>7
  <2>8. CASE x = << a, b >>
    BY <1>1, <2>5, <2>8
  <2> QED BY <2>2, <2>6, <2>7, <2>8
<1>2. CASE c # "GET_ALERTS"
  <2>1. PICK l \in ReplyLines : x = << l >>
    BY <1>2 DEF Replies, Commands, Line, ReplyLines
  <2> QED BY <1>2, <2>1
<1> QED BY <1>1, <1>2

LEMMA LinesTyped ==
  /\ ReplyLines \subseteq WholeLines /\ WholeLines \subseteq Lines
  /\ NoLine \in ReplyLines /\ RestOfLine \in Lines
  /\ \A a \in 1 .. MaxAlerts : Alert(a) \in WholeLines
<1>1. 0 \in 0 .. MaxAlerts
  BY OperatorClientAssumption
<1>2. RestOfLine \in Lines
  BY <1>1 DEF Lines, RestOfLine, Prefixes
<1>3. NoLine \in ReplyLines
  BY DEF NoLine, Line, ReplyLines
<1> QED BY <1>2, <1>3 DEF Lines, WholeLines

\* The line that comes of two that got into one another.
LEMMA TornTyped ==
  ASSUME TypeOK, pending # <<>>, NEW w \in {"?"} \cup Prefixes
  PROVE  /\ Head(pending) \in Lines /\ Torn(Head(pending), w) \in Lines
         /\ \A a : Carries(Torn(Head(pending), w), a) <=> Carries(Head(pending), a)
<1>1. ASSUME NEW line, line.pushed \in BOOLEAN, line.number \in 0 .. MaxAlerts
      PROVE  /\ Torn(line, w) \in Lines
             /\ \A a : Carries(Torn(line, w), a) <=> Carries(line, a)
  BY <1>1 DEF Torn, Lines, Carries
<1>2. CASE pending = << RestOfLine >>
  <2>1. Head(pending) = RestOfLine
    BY <1>2
  <2>2. 0 \in 0 .. MaxAlerts
    BY OperatorClientAssumption
  <2>3. /\ Torn(RestOfLine, w) \in Lines
        /\ \A a : Carries(Torn(RestOfLine, w), a) <=> Carries(RestOfLine, a)
    <3>1. RestOfLine.pushed \in BOOLEAN /\ RestOfLine.number \in 0 .. MaxAlerts
      BY <2>2 DEF RestOfLine
    <3> QED BY ONLY <1>1, <3>1
  <2> QED BY <2>1, <2>3, LinesTyped
<1>3. ASSUME NEW b \in 1 .. raised, pending = << Alert(b) >>
      PROVE  /\ Head(pending) \in Lines /\ Torn(Head(pending), w) \in Lines
             /\ \A a : Carries(Torn(Head(pending), w), a) <=> Carries(Head(pending), a)
  <2>1. Head(pending) = Alert(b)
    BY <1>3
  <2>2. b \in 0 .. MaxAlerts /\ b \in 1 .. MaxAlerts
    BY OperatorClientAssumption DEF TypeOK
  <2>3. /\ Torn(Alert(b), w) \in Lines
        /\ \A a : Carries(Torn(Alert(b), w), a) <=> Carries(Alert(b), a)
    <3>1. Alert(b).pushed \in BOOLEAN /\ Alert(b).number \in 0 .. MaxAlerts
      BY <2>2 DEF Alert
    <3> QED BY ONLY <1>1, <3>1
  <2>4. Alert(b) \in Lines
    BY <2>2, LinesTyped
  <2> QED BY <2>1, <2>3, <2>4
<1> QED BY <1>2, <1>3 DEF TypeOK

\* Cutting a sequence in two.
LEMMA CutTyped ==
  ASSUME NEW S, NEW s \in Seq(S), NEW n \in 0 .. Len(s)
  PROVE  /\ SubSeq(s, 1, n) \in Seq(S) /\ SubSeq(s, n + 1, Len(s)) \in Seq(S)
         /\ s = SubSeq(s, 1, n) \o SubSeq(s, n + 1, Len(s))
         /\ Len(SubSeq(s, n + 1, Len(s))) = Len(s) - n
<1>1. Len(s) \in Nat /\ \A i \in 1 .. Len(s) : s[i] \in S
  BY LenProperties
<1>2. SubSeq(s, 1, n) \in Seq(S)
  BY <1>1, SubSeqProperties
<1>3. SubSeq(s, n + 1, Len(s)) \in Seq(S) /\ Len(SubSeq(s, n + 1, Len(s))) = Len(s) - n
  <2> DEFINE m == n + 1
             l == Len(s)
  <2>1. m \in Int /\ l \in Int /\ \A i \in m .. l : s[i] \in S
    BY <1>1
  <2>2. (IF m <= l THEN l - m + 1 ELSE 0) = Len(s) - n
    BY <1>1
  <2> HIDE DEF m, l
  <2>3. SubSeq(s, m, l) \in Seq(S) /\ Len(SubSeq(s, m, l)) = IF m <= l THEN l - m + 1 ELSE 0
    BY <2>1, SubSeqProperties
  <2> QED BY <2>2, <2>3 DEF m, l
<1>4. SubSeq(s, 1, n) \o SubSeq(s, n + 1, Len(s)) = SubSeq(s, 1, Len(s))
  <2>1. 1 \in 1 .. Len(s) + 1 /\ n \in 1 - 1 .. Len(s) /\ Len(s) \in n .. Len(s)
    BY <1>1
  <2> QED BY <2>1, ConcatAdjacentSubSeq
<1>5. SubSeq(s, 1, Len(s)) = s
  BY SubSeqFull
<1> QED BY <1>2, <1>3, <1>4, <1>5

LEMMA LineAppended ==
  ASSUME NEW S, NEW s \in Seq(S), NEW x \in S
  PROVE  Append(s, x) \in Seq(S) /\ Append(s, x) # <<>>
BY AppendProperties

\* A larger set.
LEMMA SeqOfSubset ==
  ASSUME NEW S, NEW T, S \subseteq T, NEW s \in Seq(S)
  PROVE  s \in Seq(T)
<1>1. Len(s) \in Nat /\ s \in [1 .. Len(s) -> S]
  BY LenProperties
<1>2. s \in [1 .. Len(s) -> T]
  BY <1>1
<1> QED BY <1>1, <1>2, IsASeq

\* Every line of the client is in L, and what is left of a reply in R.
Holds(L, R) ==
  /\ {lines, buf, net} \subseteq Seq(L) /\ out \in Seq(R)
  /\ hand \in [Listeners -> L]

LEMMA InitHolds ==
  ASSUME NEW L, NEW R, NoLine \in L, Init
  PROVE  Holds(L, R)
BY EmptySeq DEF Holds, Init

\* Only what is sent can be of another kind than the lines there are.
LEMMA HoldsKept ==
  ASSUME NEW L, NEW R, ReplyLines \subseteq R, NoLine \in L, Holds(L, R), TypeOK, [Next]_vars,
         SendReply \/ SendAlert => net' \in Seq(L) /\ out' \in Seq(R)
  PROVE  Holds(L, R)'
<1>0. /\ lines \in Seq(L) /\ buf \in Seq(L) /\ net \in Seq(L) /\ out \in Seq(R)
      /\ hand \in [Listeners -> L] /\ <<>> \in Seq(L) /\ <<>> \in Seq(R)
      /\ buf # <<>> => Head(buf) \in L /\ Tail(buf) \in Seq(L)
  BY HeadTailProperties, EmptySeq DEF Holds
<1> USE DEF mainVars, threadVars, streamVars, serverVars, replyVars, pushVars
<1>1. CASE MainLine
  <2>1. Append(lines, Head(buf)) \in Seq(L)
    BY <1>0, <1>1, LineAppended DEF MainLine
  <2> QED BY <1>0, <1>1, <2>1 DEF MainLine, Holds
<1>2. CASE Ask \/ Show
  BY <1>0, <1>2 DEF Ask, Show, Holds
<1>3. CASE Connect \/ Send \/ MainFails \/ Interrupted
  BY <1>0, <1>3 DEF Connect, Send, MainFails, Interrupted, Holds
<1>4. ASSUME NEW i \in Listeners, Listener(i) \/ ListenerLocks(i) PROVE Holds(L, R)'
  <2>1. CASE ListenerLine(i)
    BY <1>0, <2>1 DEF ListenerLine, Holds
  <2>2. CASE ListenerPrints(i)
    BY <1>0, <2>2 DEF ListenerPrints, Holds
  <2>3. CASE ListenerTimeout(i) \/ ListenerEnds(i) \/ ListenerLocks(i)
    BY <1>0, <2>3 DEF ListenerTimeout, ListenerEnds, ListenerLocks, Holds
  <2> QED BY <1>4, <2>1, <2>2, <2>3 DEF Listener
<1>5. CASE Receive
  <2>1. PICK n \in 0 .. Len(net) : buf' = SubSeq(net, 1, n) /\ net' = SubSeq(net, n + 1, Len(net))
    BY <1>5 DEF Receive
  <2>2. buf' \in Seq(L) /\ net' \in Seq(L)
    BY <1>0, <2>1, CutTyped
  <2> QED BY <1>0, <1>5, <2>2 DEF Receive, Holds
<1>6. CASE Handle
  <2>1. Head(inbox) \in [kind : Commands, number : Nat]
    BY <1>6, HeadTailProperties DEF Handle, TypeOK
  <2>2. out' \in Seq(ReplyLines)
    BY <1>6, <2>1, ReplyTyped DEF Handle
  <2>3. out' \in Seq(R)
    BY <2>2, SeqOfSubset
  <2> QED BY <1>0, <1>6, <2>3 DEF Handle, Holds
<1>7. CASE SendReply \/ SendAlert
  BY <1>0, <1>7 DEF SendReply, SendAlert, Holds
<1>8. CASE Begin \/ Close \/ Push \/ ServerStops
  BY <1>0, <1>8 DEF Begin, Close, Push, ServerStops, Holds
<1>9. CASE UNCHANGED vars
  BY <1>0, <1>9 DEF vars, Holds
<1> QED BY <1>1, <1>2, <1>3, <1>4, <1>5, <1>6, <1>7, <1>8, <1>9 DEF Next, MainStep

LEMMA InitTyped == Init => TypeOK
<1> SUFFICES ASSUME Init PROVE TypeOK
  OBVIOUS
<1>1. MaxCommands \in Nat /\ MaxAlerts \in Nat
  BY OperatorClientAssumption
<1>2. Holds(Lines, ReplyLines \cup {RestOfLine})
  BY InitHolds, LinesTyped
<1> USE DEF Init
<1>3. inbox \in Seq([kind : Commands, number : Nat]) /\ served \in Seq(ReplyLines)
  BY EmptySeq
<1>4. shown \in [1 .. MaxAlerts -> Nat] /\ raised \in 0 .. MaxAlerts
  BY <1>1
<1>5. cmd \in [kind : Commands, number : Nat] /\ asked \in 0 .. MaxCommands
  BY <1>1 DEF Commands
<1> QED BY <1>2, <1>3, <1>4, <1>5 DEF TypeOK, NoExit, Holds

\* How often an alert was displayed stays a number.
LEMMA TimesTyped ==
  ASSUME NEW s \in Seq(Lines), NEW a
  PROVE  /\ IsFiniteSet({ k \in 1 .. Len(s) : Carries(s[k], a) }) /\ Times(a, s) \in Nat
<1>1. IsFiniteSet(1 .. Len(s))
  BY LenProperties, FS_Interval
<1>2. IsFiniteSet({ k \in 1 .. Len(s) : Carries(s[k], a) })
  BY <1>1, FS_Subset
<1> QED BY <1>2, FS_CardinalityType DEF Times

LEMMA DisplayTyped ==
  ASSUME shown \in [1 .. MaxAlerts -> Nat], NEW s \in Seq(Lines), Display(s)
  PROVE  shown' \in [1 .. MaxAlerts -> Nat]
<1>1. ASSUME NEW a \in 1 .. MaxAlerts PROVE shown[a] + Times(a, s) \in Nat
  <2>1. Times(a, s) \in Nat /\ shown[a] \in Nat
    BY TimesTyped
  <2> QED BY <2>1
<1> QED BY <1>1 DEF Display

\* What the two threads of the server send are lines.
LEMMA SentTyped ==
  ASSUME TypeOK, SendReply \/ SendAlert
  PROVE  /\ net' \in Seq(Lines) /\ net' # <<>> /\ out' \in Seq(ReplyLines \cup {RestOfLine})
         /\ begun' = "none"
         /\ pending' \in { <<>>, << RestOfLine >>, pending }
<1> DEFINE R == ReplyLines \cup {RestOfLine}
<1>0. R \subseteq Lines /\ RestOfLine \in R
  BY LinesTyped
<1> HIDE DEF R
<1>1. net \in Seq(Lines) /\ out \in Seq(R) /\ (begun = "reply" => out # <<>> \/ closed)
      /\ (begun = "alert" => pending # <<>>)
  BY DEF TypeOK, R
<1>2. out # <<>> => Head(out) \in R /\ Tail(out) \in Seq(R)
  BY <1>1, HeadTailProperties
<1>3. ASSUME NEW first, Cross(first), pending # <<>>, out # <<>>
      PROVE  /\ net' \in Seq(Lines) /\ net' # <<>> /\ out' \in Seq(R) /\ begun' = "none"
             /\ pending' \in { <<>>, << RestOfLine >> }
  <2>1. PICK w \in {"?"} \cup Prefixes : net' = Append(net, Torn(Head(pending), w))
    BY <1>3 DEF Cross
  <2>2. net' \in Seq(Lines) /\ net' # <<>>
    BY <1>1, <1>3, <2>1, TornTyped, LineAppended
  <2>3. << RestOfLine >> \o Tail(out) \in Seq(R)
    BY <1>0, <1>2, <1>3, ConcatProperties
  <2> QED BY <1>2, <1>3, <2>2, <2>3 DEF Cross
<1>4. CASE SendReply
  <2>1. out # <<>> /\ Head(out) \in Lines
    BY <1>0, <1>2, <1>4 DEF SendReply
  <2>2. Append(net, Head(out)) \in Seq(Lines) /\ Append(net, Head(out)) # <<>>
    BY <1>1, <2>1, LineAppended
  <2> QED BY <1>1, <1>2, <1>3, <1>4, <2>1, <2>2 DEF SendReply, R
<1>5. CASE SendAlert
  <2>1. pending # <<>> /\ Head(pending) \in Lines /\ (begun = "reply" => out # <<>>)
    BY <1>1, <1>5, TornTyped DEF SendAlert
  <2>2. Append(net, Head(pending)) \in Seq(Lines) /\ Append(net, Head(pending)) # <<>>
    BY <1>1, <2>1, LineAppended
  <2> QED BY <1>1, <1>3, <1>5, <2>1, <2>2 DEF SendAlert, R
<1> QED BY <1>4, <1>5

LEMMA NextTyped == TypeOK /\ [Next]_vars => TypeOK'
<1> SUFFICES ASSUME TypeOK, [Next]_vars PROVE TypeOK'
  OBVIOUS
<1> DEFINE Cmds == [kind : Commands, number : Nat]
           R == ReplyLines \cup {RestOfLine}
<1>0. /\ {lines', buf', net'} \subseteq Seq(Lines) /\ out' \in Seq(R)
      /\ hand' \in [Listeners -> Lines]
  <2>1. Holds(Lines, R) /\ NoLine \in Lines /\ ReplyLines \subseteq R
    BY LinesTyped DEF TypeOK, Holds
  <2>2. Holds(Lines, R)'
    BY <2>1, HoldsKept, SentTyped
  <2> QED BY <2>2 DEF Holds
<1>a. /\ lines \in Seq(Lines) /\ buf \in Seq(Lines) /\ inbox \in Seq(Cmds)
      /\ hand \in [Listeners -> Lines] /\ shown \in [1 .. MaxAlerts -> Nat]
      /\ buf # <<>> => Head(buf) \in Lines
  BY HeadTailProperties DEF TypeOK
<1> HIDE DEF R
<1> USE DEF threadVars, streamVars, serverVars, replyVars, pushVars
<1>1. CASE Connect
  BY <1>0, <1>1 DEF TypeOK, Connect, End, NoExit, R
<1>2. CASE Ask
  <2>1. asked' \in 0 .. MaxCommands /\ cmd' \in Cmds /\ pc' = "locking"
    BY <1>2, OperatorClientAssumption DEF TypeOK, Ask, Commands
  <2> QED BY <1>0, <1>2, <2>1 DEF TypeOK, Ask, R
<1>3. CASE Send
  <2>1. inbox' \in Seq(Cmds)
    <3>1. Append(inbox, cmd) \in Seq(Cmds)
      <4>1. cmd \in Cmds /\ inbox \in Seq(Cmds)
        BY DEF TypeOK
      <4> HIDE DEF Cmds
      <4> QED BY ONLY <4>1, AppendProperties
    <3> QED BY <1>a, <1>3, <3>1 DEF Send
  <2> QED BY <1>0, <1>3, <2>1 DEF TypeOK, Send, End, NoExit, R
<1>4. CASE MainLine
  <2>1. shown' \in [1 .. MaxAlerts -> Nat]
    <3>1. << Head(buf) >> \in Seq(Lines)
      BY <1>a, <1>4 DEF MainLine
    <3> QED BY <1>a, <1>4, <3>1, DisplayTyped DEF MainLine
  <2>2. pc' \in {"reading", "showing"} /\ exit = NoExit
    BY <1>4 DEF MainLine, TypeOK
  <2> QED BY <1>0, <1>4, <2>1, <2>2 DEF TypeOK, MainLine, R
<1>5. CASE MainFails
  BY <1>0, <1>5 DEF TypeOK, MainFails, End, NoExit, R
<1>6. CASE Show
  <2>1. shown' \in [1 .. MaxAlerts -> Nat]
    <3>1. <<>> \in Seq(Lines)
      BY EmptySeq
    <3> QED BY <1>a, <1>6, <3>1, DisplayTyped DEF Show
  <2>2. subscribed' \in BOOLEAN
        /\ listener' \in [Listeners -> {"off", "waiting", "reading", "printing", "done"}]
    <3>1. /\ subscribed' = TRUE \/ subscribed' = subscribed
          /\ listener' = listener \/ listener' = [listener EXCEPT ![asked] = "waiting"]
      BY <1>6 DEF Show
    <3>2. /\ subscribed \in BOOLEAN
          /\ listener \in [Listeners -> {"off", "waiting", "reading", "printing", "done"}]
      BY DEF TypeOK
    <3> QED BY <3>1, <3>2
  <2>3. /\ pc' \in {"menu", "ended"} /\ exit' \in {NoExit, 0, 1, 2, 130}
        /\ exit' # NoExit <=> pc' = "ended"
    BY <1>6 DEF Show, End, TypeOK, NoExit
  <2> QED BY <1>0, <1>6, <2>1, <2>2, <2>3 DEF TypeOK, Show, R
<1>7. CASE Interrupted
  BY <1>0, <1>7 DEF TypeOK, Interrupted, End, NoExit, R
<1>8. ASSUME NEW i \in Listeners, Listener(i) \/ ListenerLocks(i) PROVE TypeOK'
  <2> USE DEF mainVars
  <2>1. CASE ListenerLine(i)
    BY <1>0, <2>1 DEF TypeOK, ListenerLine, GoTo, R
  <2>2. CASE ListenerPrints(i)
    <3>1. << hand[i] >> \in Seq(Lines)
      BY <1>a, <1>8
    <3>2. shown' \in [1 .. MaxAlerts -> Nat]
      BY <1>a, <2>2, <3>1, DisplayTyped DEF ListenerPrints
    <3> QED BY <1>0, <2>2, <3>2 DEF TypeOK, ListenerPrints, GoTo, R
  <2>3. CASE ListenerTimeout(i)
    BY <1>0, <2>3 DEF TypeOK, ListenerTimeout, GoTo, R
  <2>4. CASE ListenerEnds(i)
    BY <1>0, <2>4 DEF TypeOK, ListenerEnds, GoTo, R
  <2>5. CASE ListenerLocks(i)
    BY <1>0, <2>5 DEF TypeOK, ListenerLocks, GoTo, R
  <2> QED BY <1>8, <2>1, <2>2, <2>3, <2>4, <2>5 DEF Listener
<1> USE DEF mainVars
<1>9. CASE Receive
  <2>1. partial' \in BOOLEAN /\ (partial' => net' # <<>> \/ begun' # "none")
    <3>1. PICK n \in 0 .. Len(net), p \in BOOLEAN :
            /\ p => n < Len(net) \/ begun # "none"
            /\ partial' = p
            /\ net' = SubSeq(net, n + 1, Len(net))
      BY <1>9 DEF Receive
    <3>2. net \in Seq(Lines)
      BY DEF TypeOK
    <3>3. Len(net') = Len(net) - n /\ Len(net) \in Nat /\ Len(<<>>) = 0
      BY <3>1, <3>2, CutTyped, LenProperties, EmptySeq
    <3>4. n < Len(net) => net' # <<>>
      BY <3>3
    <3> QED BY <1>9, <3>1, <3>4 DEF Receive
  <2> QED BY <1>0, <1>9, <2>1 DEF TypeOK, Receive, R
<1>10. CASE Handle
  <2>1. Head(inbox) \in Cmds /\ inbox' \in Seq(Cmds)
    BY <1>a, <1>10, HeadTailProperties DEF Handle
  <2>2. served' \in Seq(ReplyLines)
    BY <1>10, <2>1, ReplyTyped DEF Handle
  <2>3. listed' \in BOOLEAN /\ closing' \in BOOLEAN
    BY <1>10 DEF Handle, TypeOK
  <2> QED BY <1>0, <1>10, <2>1, <2>2, <2>3 DEF TypeOK, Handle, R
<1>11. CASE SendReply \/ SendAlert
  <2>1. /\ UNCHANGED <<mainVars, threadVars, lock, shown, buf, partial, inbox, served, closing,
                        closed, listed, raised>>
        /\ crossed' \in BOOLEAN
    BY <1>11 DEF SendReply, SendAlert, Cross, TypeOK
  <2> QED BY <1>0, <1>11, <2>1, SentTyped DEF TypeOK, R
<1>12. CASE Push
  <2>1. raised' \in 1 .. MaxAlerts /\ pending' = << Alert(raised') >> /\ raised' \in 1 .. raised'
    BY <1>12, OperatorClientAssumption DEF Push, TypeOK
  <2>2. /\ UNCHANGED <<mainVars, threadVars, lock, shown, streamVars, replyVars, listed, begun,
                        crossed>>
        /\ pending' # <<>> /\ raised' \in 0 .. MaxAlerts
    BY <1>12, <2>1 DEF Push
  <2> QED BY <1>0, <2>1, <2>2 DEF TypeOK, R
<1>13. CASE Begin \/ Close
  <2>1. CASE Begin
    BY <1>0, <2>1 DEF TypeOK, Begin, R
  <2>2. CASE Close
    BY <1>0, <2>2 DEF TypeOK, Close, R
  <2> QED BY <1>13, <2>1, <2>2
<1>14. CASE ServerStops
  <2>1. inbox' \in Seq(Cmds)
    BY <1>14, EmptySeq DEF ServerStops
  <2> QED BY <1>0, <1>14, <2>1 DEF TypeOK, ServerStops, R
<1>15. CASE UNCHANGED vars
  BY <1>0, <1>15 DEF TypeOK, vars, R
<1> QED BY <1>1, <1>2, <1>3, <1>4, <1>5, <1>6, <1>7, <1>8, <1>9, <1>10, <1>11, <1>12, <1>13,
           <1>14, <1>15 DEF Next, MainStep

\* Every variable keeps to its type: what is left of a reply in the server never holds a
\* pushed alert, and half a line is kept only when there is one.
THEOREM TypesKept == Spec => []TypeOK
BY InitTyped, NextTyped, PTL DEF Spec

----------------------------------------------------------------------------
(* Where the alerts are. *)

\* The places of alert a among the lines s; Times counts them.
Places(a, s) == { k \in 1 .. Len(s) : Carries(s[k], a) }

\* Cutting a sequence of lines in two loses and repeats no alert.
LEMMA TimesOfConcat ==
  ASSUME NEW s \in Seq(Lines), NEW t \in Seq(Lines), NEW a
  PROVE  Times(a, s \o t) = Times(a, s) + Times(a, t)
<1> DEFINE m == Len(s)
           S == Places(a, s)
           T == Places(a, t)
           Moved == { k \in m + 1 .. m + Len(t) : Carries(t[k - m], a) }
           move == [k \in T |-> k + m]
<1>1. m \in Nat /\ Len(t) \in Nat
  BY LenProperties
<1>2. /\ Len(s \o t) = m + Len(t)
      /\ \A i \in 1 .. m + Len(t) : (s \o t)[i] = IF i <= m THEN s[i] ELSE t[i - m]
  BY ConcatProperties
<1>3. \A k \in T : k \in Int
  BY DEF Places
<1> HIDE DEF m
<1>4. \A k : k \in Places(a, s \o t) <=> k \in S \/ k \in Moved
  BY <1>1, <1>2 DEF Places, m
<1>5. \A k : ~(k \in S /\ k \in Moved)
  BY <1>1 DEF Places, m
<1>6. move \in [T -> Moved]
  BY <1>1 DEF Places
<1>7. \A j, k \in T : move[j] = move[k] => j = k
  BY <1>1, <1>3
<1>8. \A k \in Moved : k - m \in T /\ move[k - m] = k
  BY <1>1 DEF Places
<1>9. IsFiniteSet(S) /\ IsFiniteSet(T)
  BY TimesTyped DEF Places
<1> HIDE DEF S, T, Moved, move
<1>10. ExistsBijection(T, Moved)
  BY <1>6, <1>7, <1>8, Fun_IsBij DEF ExistsBijection
<1>11. IsFiniteSet(Moved) /\ Cardinality(Moved) = Cardinality(T)
  BY <1>9, <1>10, FS_Bijection
<1>12. Places(a, s \o t) = S \cup Moved /\ S \cap Moved = {}
  BY <1>4, <1>5
<1>13. Cardinality(S \cup Moved) = Cardinality(S) + Cardinality(Moved) - Cardinality(S \cap Moved)
  BY <1>9, <1>11, FS_Union
<1>14. Cardinality(S \cap Moved) = 0 /\ Cardinality(S) \in Nat /\ Cardinality(Moved) \in Nat
  BY <1>9, <1>11, <1>12, FS_EmptySet, FS_CardinalityType
<1>15. /\ Times(a, s \o t) = Cardinality(S \cup Moved)
       /\ Times(a, s) = Cardinality(S) /\ Times(a, t) = Cardinality(T)
  BY <1>12 DEF Times, Places, S, T
<1> QED BY <1>11, <1>12, <1>13, <1>14, <1>15

LEMMA TimesOfNone ==
  ASSUME NEW a
  PROVE  Times(a, <<>>) = 0
<1>1. { k \in 1 .. Len(<<>>) : Carries(<<>>[k], a) } = {}
  OBVIOUS
<1> QED BY <1>1, FS_EmptySet DEF Times

LEMMA TimesOfOne ==
  ASSUME NEW x, NEW a
  PROVE  Times(a, << x >>) = IF Carries(x, a) THEN 1 ELSE 0
<1>1. Len(<< x >>) = 1 /\ << x >>[1] = x
  OBVIOUS
<1>2. CASE Carries(x, a)
  <2>1. { k \in 1 .. Len(<< x >>) : Carries(<< x >>[k], a) } = {1}
    BY <1>1, <1>2
  <2> QED BY <1>2, <2>1, FS_Singleton DEF Times
<1>3. CASE ~Carries(x, a)
  <2>1. { k \in 1 .. Len(<< x >>) : Carries(<< x >>[k], a) } = {}
    BY <1>1, <1>3
  <2> QED BY <1>3, <2>1, FS_EmptySet DEF Times
<1> QED BY <1>2, <1>3

LEMMA TimesOfAppend ==
  ASSUME NEW s \in Seq(Lines), NEW x \in Lines, NEW a
  PROVE  Times(a, Append(s, x)) = Times(a, s) + (IF Carries(x, a) THEN 1 ELSE 0)
<1>1. Append(s, x) = s \o << x >> /\ << x >> \in Seq(Lines)
  BY AppendIsConcat
<1>2. Times(a, s \o << x >>) = Times(a, s) + Times(a, << x >>)
  BY <1>1, TimesOfConcat
<1> QED BY <1>1, <1>2, TimesOfOne

\* Taking the first line of a sequence.
LEMMA TakeFirst ==
  ASSUME NEW S, NEW s \in Seq(S), s # <<>>
  PROVE  /\ Head(s) \in S /\ Tail(s) \in Seq(S) /\ << Head(s) >> \in Seq(S)
         /\ s = << Head(s) >> \o Tail(s) /\ Head(s) = s[1]
<1>1. Len(s) \in Nat \ {0} /\ \A i \in 1 .. Len(s) : s[i] \in S
  BY EmptySeq, LenProperties
<1>2. Head(s) \in S /\ Tail(s) \in Seq(S) /\ Tail(s) = SubSeq(s, 2, Len(s))
  BY HeadTailProperties, TailIsSubSeq
<1>3. Head(s) = s[1]
  OBVIOUS
<1>4. SubSeq(s, 1, Len(s)) = << s[1] >> \o SubSeq(s, 1 + 1, Len(s))
  <2>1. 1 \in 1 .. Len(s) /\ Len(s) \in 1 .. Len(s)
    BY <1>1
  <2> QED BY <2>1, SubSeqRecursiveFirst
<1>5. SubSeq(s, 1, Len(s)) = s
  BY SubSeqFull
<1>6. << Head(s) >> \in Seq(S)
  BY <1>2
<1> QED BY <1>2, <1>3, <1>4, <1>5, <1>6

LEMMA TimesOfTail ==
  ASSUME NEW s \in Seq(Lines), s # <<>>, NEW a
  PROVE  Times(a, s) = Times(a, << Head(s) >>) + Times(a, Tail(s))
<1>1. << Head(s) >> \in Seq(Lines) /\ Tail(s) \in Seq(Lines) /\ s = << Head(s) >> \o Tail(s)
  BY TakeFirst
<1>2. Times(a, << Head(s) >> \o Tail(s)) = Times(a, << Head(s) >>) + Times(a, Tail(s))
  BY <1>1, TimesOfConcat
<1> QED BY <1>1, <1>2

\* No line of a reply is a pushed alert, and alerts are told apart by their number.
LEMMA AlertsDiffer ==
  /\ \A x \in ReplyLines \cup {RestOfLine} : ~x.pushed /\ \A a : ~Carries(x, a)
  /\ \A a, b : Carries(Alert(b), a) <=> a = b
<1>1. \A a : Alert(a).pushed = TRUE /\ Alert(a).number = a
  BY DEF Alert
<1>2. \A x \in ReplyLines \cup {RestOfLine} : x.pushed = FALSE
  <2>1. \A x \in ReplyLines : x.pushed = FALSE
    BY DEF ReplyLines
  <2>2. RestOfLine.pushed = FALSE
    BY DEF RestOfLine
  <2> QED BY <2>1, <2>2
<1> QED BY <1>1, <1>2 DEF Carries

\* What is still to be sent are lines as well.
LEMMA AlertTyped ==
  ASSUME NEW n \in 0 .. MaxAlerts,
         NEW p \in { <<>>, << RestOfLine >> } \cup { << Alert(a) >> : a \in 1 .. n }
  PROVE  p \in Seq(Lines)
<1>1. p = <<>> \/ \E x \in Lines : p = << x >>
  <2>1. \A a \in 1 .. n : a \in 1 .. MaxAlerts
    BY OperatorClientAssumption
  <2> QED BY <2>1, LinesTyped
<1>2. \A x \in Lines : << x >> \in Seq(Lines)
  OBVIOUS
<1> QED BY <1>1, <1>2, EmptySeq

LEMMA PendingTyped ==
  /\ TypeOK => pending \in Seq(Lines)
  /\ TypeOK' => pending' \in Seq(Lines)
BY AlertTyped DEF TypeOK

\* The listeners that hold alert a.
Holders(a) == { i \in Listeners : listener[i] = "printing" /\ Carries(hand[i], a) }

LEMMA HoldersFinite ==
  ASSUME NEW a
  PROVE  /\ IsFiniteSet(Holders(a)) /\ InHands(a) = Cardinality(Holders(a))
         /\ InHands(a) \in Nat
<1>1. IsFiniteSet(Listeners)
  BY OperatorClientAssumption, FS_Interval DEF Listeners
<1>2. IsFiniteSet(Holders(a))
  BY <1>1, FS_Subset DEF Holders
<1> QED BY <1>2, FS_CardinalityType DEF InHands, Holders

\* Between two commands no line is left over, and the one reply that is not displayed is
\* that of the QUIT with which --cmd ends.
Tidy ==
  /\ pc \in {"connecting", "menu"} => lines = <<>>
  /\ single => asked <= 2 /\ (asked = 2 => cmd.kind = "QUIT")

\* AlertsConserved, with what makes the display of a reply complete.
ConservedInv == Tidy /\ AlertsConserved

LEMMA InitConserved == Init => ConservedInv
<1> SUFFICES ASSUME Init PROVE ConservedInv
  OBVIOUS
<1>1. ASSUME NEW a \in 1 .. MaxAlerts
      PROVE  /\ shown[a] = 0 /\ InHands(a) = 0
             /\ Times(a, lines) = 0 /\ Times(a, buf) = 0 /\ Times(a, net) = 0
             /\ Times(a, pending) = 0 /\ ~(a <= raised)
  <2>1. Holders(a) = {}
    BY DEF Init, Holders
  <2>2. InHands(a) = 0
    BY <2>1, HoldersFinite, FS_EmptySet
  <2> QED BY <2>2, TimesOfNone DEF Init
<1> QED BY <1>1 DEF Init, ConservedInv, Tidy, AlertsConserved

\* A step that changes nothing in the hands of a listener.
LEMMA HandsKept ==
  ASSUME \A i \in Listeners : /\ listener'[i] = "printing" <=> listener[i] = "printing"
                              /\ listener[i] = "printing" => hand'[i] = hand[i],
         NEW a
  PROVE  InHands(a)' = InHands(a)
<1> DEFINE before(i) == listener[i] = "printing" /\ Carries(hand[i], a)
           after(i) == listener'[i] = "printing" /\ Carries(hand'[i], a)
<1>1. \A i \in Listeners : after(i) <=> before(i)
  OBVIOUS
<1>2. InHands(a) = Cardinality({ i \in Listeners : before(i) })
      /\ InHands(a)' = Cardinality({ i \in Listeners : after(i) })
  BY DEF InHands, Carries
<1> HIDE DEF before, after
<1>3. { i \in Listeners : before(i) } = { i \in Listeners : after(i) }
  BY <1>1
<1> QED BY <1>2, <1>3

\* A step that moves no alert.
LEMMA NothingMoves ==
  ASSUME TypeOK, ConservedInv, Alive, UNCHANGED <<shown, lines, buf, net, pending, raised>>,
         \A i \in Listeners : /\ listener'[i] = "printing" <=> listener[i] = "printing"
                              /\ listener[i] = "printing" => hand'[i] = hand[i]
  PROVE  AlertsConserved'
<1>1. ASSUME NEW a \in 1 .. MaxAlerts PROVE InHands(a)' = InHands(a)
  BY HandsKept
<1> QED BY <1>1 DEF ConservedInv, AlertsConserved, Times

\* What a line that goes on display adds.
LEMMA DisplayAdds ==
  ASSUME NEW s, Display(s), NEW a \in 1 .. MaxAlerts
  PROVE  shown'[a] = shown[a] + Times(a, s)
BY DEF Display

LEMMA CountsAreNumbers ==
  ASSUME TypeOK, NEW a \in 1 .. MaxAlerts
  PROVE  /\ shown[a] \in Nat /\ InHands(a) \in Nat /\ Times(a, lines) \in Nat
         /\ Times(a, buf) \in Nat /\ Times(a, net) \in Nat /\ Times(a, pending) \in Nat
BY TimesTyped, HoldersFinite, PendingTyped DEF TypeOK

LEMMA MainLineConserves ==
  ASSUME TypeOK, ConservedInv, MainLine
  PROVE  AlertsConserved'
<1> SUFFICES ASSUME NEW a \in 1 .. MaxAlerts
             PROVE  shown'[a] + InHands(a)' + Times(a, lines') + Times(a, buf') + Times(a, net')
                        + Times(a, pending') =
                      IF a <= raised' THEN 1 ELSE 0
  BY DEF AlertsConserved
<1> DEFINE x == Head(buf)
           one == Times(a, << x >>)
<1>1. buf \in Seq(Lines) /\ lines \in Seq(Lines) /\ x \in Lines
  BY HeadTailProperties DEF TypeOK, MainLine
<1>2. one = IF Carries(x, a) THEN 1 ELSE 0
  BY TimesOfOne
<1>3. /\ Times(a, buf) = one + Times(a, buf') /\ Times(a, buf') \in Nat
      /\ UNCHANGED <<net, pending, raised>>
  <2>1. buf # <<>> /\ buf' = Tail(buf) /\ UNCHANGED <<net, pending, raised>>
    BY DEF MainLine, serverVars, pushVars
  <2>2. Times(a, buf) = one + Times(a, Tail(buf)) /\ Tail(buf) \in Seq(Lines)
    BY <1>1, <2>1, TimesOfTail, HeadTailProperties
  <2>3. Times(a, Tail(buf)) \in Nat
    BY <2>2, TimesTyped
  <2> QED BY <2>1, <2>2, <2>3
<1>4. InHands(a)' = InHands(a)
  BY DEF InHands, MainLine, threadVars
<1>5. \/ shown'[a] = shown[a] + one /\ lines' = lines
      \/ shown'[a] = shown[a] /\ Times(a, lines') = Times(a, lines) + one
  <2>1. CASE Skipped(x)
    BY <2>1, DisplayAdds DEF MainLine
  <2>2. CASE ~Skipped(x)
    <3>1. lines' = Append(lines, x) /\ shown' = shown
      BY <2>2 DEF MainLine
    <3>2. Times(a, Append(lines, x)) = Times(a, lines) + one
      BY <1>1, <1>2, TimesOfAppend
    <3> QED BY <3>1, <3>2
  <2> QED BY <2>1, <2>2
<1>6. shown[a] + InHands(a) + Times(a, lines) + Times(a, buf) + Times(a, net)
          + Times(a, pending) =
        IF a <= raised THEN 1 ELSE 0
  BY DEF ConservedInv, AlertsConserved, Alive, MainLine
<1>7. one \in Nat /\ shown[a] \in Nat /\ InHands(a) \in Nat /\ Times(a, lines) \in Nat
      /\ Times(a, net) \in Nat /\ Times(a, pending) \in Nat
  BY <1>2, CountsAreNumbers
<1> HIDE DEF one, x
<1>8. shown'[a] + InHands(a)' + Times(a, lines') + Times(a, buf') =
        shown[a] + InHands(a) + Times(a, lines) + Times(a, buf)
  BY <1>3, <1>4, <1>5, <1>7
<1> QED BY <1>3, <1>6, <1>7, <1>8

LEMMA ShowConserves ==
  ASSUME TypeOK, LockInv, ConservedInv, Show
  PROVE  AlertsConserved'
<1> SUFFICES ASSUME Alive', NEW a \in 1 .. MaxAlerts
             PROVE  shown'[a] + InHands(a)' + Times(a, lines') + Times(a, buf') + Times(a, net')
                        + Times(a, pending') =
                      IF a <= raised' THEN 1 ELSE 0
  BY DEF AlertsConserved
<1>1. ~(single /\ asked = 2)
  BY DEF Show, End, Alive, ConservedInv, Tidy
<1>2. shown'[a] = shown[a] + Times(a, lines)
  BY <1>1, DisplayAdds DEF Show
<1>3. lines' = <<>> /\ UNCHANGED <<buf, net, pending, raised, hand>>
  BY DEF Show, streamVars, serverVars, pushVars
<1>4. InHands(a)' = InHands(a)
  <2>1. \A i \in Listeners : /\ listener'[i] = "printing" <=> listener[i] = "printing"
                             /\ hand'[i] = hand[i]
    <3>1. listener \in [Listeners -> {"off", "waiting", "reading", "printing", "done"}]
      BY DEF TypeOK
    <3>2. listener[asked] # "printing" \/ asked \notin Listeners \/ listener' = listener
      BY DEF Show, LockInv
    <3> QED BY <1>3, <3>1, <3>2 DEF Show
  <2> QED BY <2>1, HandsKept
<1>5. shown[a] + InHands(a) + Times(a, lines) + Times(a, buf) + Times(a, net)
          + Times(a, pending) =
        IF a <= raised THEN 1 ELSE 0
  BY DEF ConservedInv, AlertsConserved, Alive, Show
<1> QED BY <1>2, <1>3, <1>4, <1>5, TimesOfNone, CountsAreNumbers

LEMMA ListenerLineConserves ==
  ASSUME TypeOK, ConservedInv, NEW i \in Listeners, ListenerLine(i)
  PROVE  AlertsConserved'
<1> SUFFICES ASSUME NEW a \in 1 .. MaxAlerts
             PROVE  shown'[a] + InHands(a)' + Times(a, lines') + Times(a, buf') + Times(a, net')
                        + Times(a, pending') =
                      IF a <= raised' THEN 1 ELSE 0
  BY DEF AlertsConserved
<1> DEFINE x == Head(buf)
           one == Times(a, << x >>)
<1>1. /\ buf \in Seq(Lines) /\ buf # <<>> /\ buf' = Tail(buf) /\ hand \in [Listeners -> Lines]
      /\ listener \in [Listeners -> {"off", "waiting", "reading", "printing", "done"}]
      /\ listener[i] = "reading" /\ listener' = [listener EXCEPT ![i] = "printing"]
      /\ hand' = [hand EXCEPT ![i] = x]
      /\ UNCHANGED <<shown, lines, net, pending, raised>>
  BY DEF TypeOK, ListenerLine, GoTo, mainVars, serverVars, pushVars
<1>2. one = IF Carries(x, a) THEN 1 ELSE 0
  BY TimesOfOne
<1>3. Times(a, buf) = one + Times(a, buf') /\ Times(a, buf') \in Nat
  BY <1>1, TimesOfTail, TimesTyped, HeadTailProperties
<1>4. InHands(a)' = InHands(a) + one
  <2> DEFINE after(k) == listener'[k] = "printing" /\ Carries(hand'[k], a)
             H == Holders(a)
             new == IF Carries(x, a) THEN H \cup {i} ELSE H
  <2>1. i \notin H
    BY <1>1 DEF Holders
  <2>2. \A k \in Listeners : after(k) <=> k \in new
    BY <1>1 DEF Holders
  <2>3. H \subseteq Listeners
    BY DEF Holders
  <2>4. InHands(a)' = Cardinality({ k \in Listeners : after(k) })
    BY DEF InHands, Carries
  <2>5. IsFiniteSet(H) /\ InHands(a) = Cardinality(H) /\ InHands(a) \in Nat
    BY HoldersFinite
  <2> HIDE DEF after, H, x
  <2>6. { k \in Listeners : after(k) } = new
    BY <2>2, <2>3
  <2>7. Cardinality(H \cup {i}) = Cardinality(H) + 1
    BY <2>1, <2>5, FS_AddElement
  <2> QED BY <1>2, <2>4, <2>5, <2>6, <2>7
<1>5. shown[a] + InHands(a) + Times(a, lines) + Times(a, buf) + Times(a, net)
          + Times(a, pending) =
        IF a <= raised THEN 1 ELSE 0
  BY DEF ConservedInv, AlertsConserved, Alive, ListenerLine, GoTo
<1>6. one \in Nat /\ shown[a] \in Nat /\ InHands(a) \in Nat /\ Times(a, lines) \in Nat
      /\ Times(a, net) \in Nat /\ Times(a, pending) \in Nat
  BY <1>2, CountsAreNumbers
<1> HIDE DEF one, x
<1> QED BY <1>1, <1>3, <1>4, <1>5, <1>6

LEMMA ListenerPrintsConserves ==
  ASSUME TypeOK, ConservedInv, NEW i \in Listeners, ListenerPrints(i)
  PROVE  AlertsConserved'
<1> SUFFICES ASSUME NEW a \in 1 .. MaxAlerts
             PROVE  shown'[a] + InHands(a)' + Times(a, lines') + Times(a, buf') + Times(a, net')
                        + Times(a, pending') =
                      IF a <= raised' THEN 1 ELSE 0
  BY DEF AlertsConserved
<1> DEFINE x == hand[i]
           one == Times(a, << x >>)
<1>1. /\ hand \in [Listeners -> Lines]
      /\ listener \in [Listeners -> {"off", "waiting", "reading", "printing", "done"}]
      /\ listener[i] = "printing" /\ listener' = [listener EXCEPT ![i] = "waiting"]
      /\ hand' = [hand EXCEPT ![i] = NoLine]
      /\ UNCHANGED <<lines, buf, net, pending, raised>>
  BY DEF TypeOK, ListenerPrints, GoTo, mainVars, streamVars, serverVars, pushVars
<1>2. one = IF Carries(x, a) THEN 1 ELSE 0
  BY TimesOfOne
<1>3. shown'[a] = shown[a] + one
  BY DisplayAdds DEF ListenerPrints
<1>4. InHands(a) = InHands(a)' + one /\ InHands(a)' \in Nat
  <2> DEFINE after(k) == listener'[k] = "printing" /\ Carries(hand'[k], a)
             H == Holders(a)
             new == H \ {i}
  <2>1. i \in H <=> Carries(x, a)
    BY <1>1 DEF Holders
  <2>2. \A k \in Listeners : after(k) <=> k \in new
    BY <1>1 DEF Holders
  <2>3. H \subseteq Listeners
    BY DEF Holders
  <2>4. InHands(a)' = Cardinality({ k \in Listeners : after(k) })
    BY DEF InHands, Carries
  <2>5. IsFiniteSet(H) /\ InHands(a) = Cardinality(H) /\ InHands(a) \in Nat
    BY HoldersFinite
  <2> HIDE DEF after, H, x
  <2>6. { k \in Listeners : after(k) } = new
    BY <2>2, <2>3
  <2>7. IsFiniteSet(new) /\ Cardinality(new) = IF i \in H THEN Cardinality(H) - 1 ELSE Cardinality(H)
    BY <2>5, FS_RemoveElement
  <2>8. Cardinality(new) \in Nat
    BY <2>7, FS_CardinalityType
  <2>9. Cardinality(H) = Cardinality(new) + one
    BY <1>2, <2>1, <2>5, <2>7
  <2> QED BY <2>4, <2>5, <2>6, <2>8, <2>9
<1>5. shown[a] + InHands(a) + Times(a, lines) + Times(a, buf) + Times(a, net)
          + Times(a, pending) =
        IF a <= raised THEN 1 ELSE 0
  BY DEF ConservedInv, AlertsConserved, Alive, ListenerPrints, GoTo
<1>6. one \in Nat /\ shown[a] \in Nat /\ InHands(a) \in Nat /\ Times(a, lines) \in Nat
      /\ Times(a, net) \in Nat /\ Times(a, buf) \in Nat
      /\ Times(a, pending) \in Nat
  BY <1>2, CountsAreNumbers
<1> HIDE DEF one, x
<1> QED BY <1>1, <1>3, <1>4, <1>5, <1>6

\* A step at which alerts only move between the server, the network and the buffer, and
\* one more may be raised.
LEMMA StreamConserves ==
  ASSUME TypeOK, TypeOK', ConservedInv, Alive, UNCHANGED <<shown, listener, hand, lines>>,
         \A a \in 1 .. MaxAlerts :
           Times(a, buf') + Times(a, net') + Times(a, pending') =
             Times(a, buf) + Times(a, net) + Times(a, pending)
               + (IF a = raised' /\ raised' # raised THEN 1 ELSE 0),
         raised' \in {raised, raised + 1}
  PROVE  AlertsConserved'
<1> SUFFICES ASSUME NEW a \in 1 .. MaxAlerts
             PROVE  shown'[a] + InHands(a)' + Times(a, lines') + Times(a, buf') + Times(a, net')
                        + Times(a, pending') =
                      IF a <= raised' THEN 1 ELSE 0
  BY DEF AlertsConserved
<1>1. shown[a] + InHands(a) + Times(a, lines) + Times(a, buf) + Times(a, net)
          + Times(a, pending) =
        IF a <= raised THEN 1 ELSE 0
  BY DEF ConservedInv, Tidy, AlertsConserved
<1>2. InHands(a)' = InHands(a)
  BY HandsKept
<1>3. /\ shown[a] \in Nat /\ InHands(a) \in Nat /\ Times(a, lines) \in Nat
      /\ Times(a, buf) \in Nat /\ Times(a, net) \in Nat /\ Times(a, pending) \in Nat
  BY CountsAreNumbers
<1>4. Times(a, buf') \in Nat /\ Times(a, net') \in Nat /\ Times(a, pending') \in Nat
  <2>1. buf' \in Seq(Lines) /\ net' \in Seq(Lines) /\ pending' \in Seq(Lines)
    BY PendingTyped DEF TypeOK
  <2> QED BY <2>1, TimesTyped
<1>5. raised \in Nat /\ a \in Nat
  BY OperatorClientAssumption DEF TypeOK
<1>6. /\ Times(a, buf') + Times(a, net') + Times(a, pending') =
            Times(a, buf) + Times(a, net) + Times(a, pending)
              + (IF a = raised' /\ raised' # raised THEN 1 ELSE 0)
      /\ shown'[a] = shown[a] /\ Times(a, lines') = Times(a, lines)
  OBVIOUS
<1> QED BY <1>1, <1>2, <1>3, <1>4, <1>5, <1>6

LEMMA ReceiveConserves ==
  ASSUME TypeOK, TypeOK', ConservedInv, Receive
  PROVE  AlertsConserved'
<1>1. /\ Alive /\ buf = <<>> /\ net \in Seq(Lines)
      /\ UNCHANGED <<shown, listener, hand, lines, pending, raised>>
  BY DEF TypeOK, Receive, mainVars, threadVars, serverVars, pushVars
<1>2. PICK n \in 0 .. Len(net) : buf' = SubSeq(net, 1, n) /\ net' = SubSeq(net, n + 1, Len(net))
  BY DEF Receive
<1>3. buf' \in Seq(Lines) /\ net' \in Seq(Lines) /\ net = buf' \o net'
  BY <1>1, <1>2, CutTyped
<1>4. ASSUME NEW a \in 1 .. MaxAlerts
      PROVE  Times(a, buf') + Times(a, net') + Times(a, pending') =
               Times(a, buf) + Times(a, net) + Times(a, pending) + 0
  <2>1. Times(a, buf' \o net') = Times(a, buf') + Times(a, net')
    BY <1>3, TimesOfConcat
  <2>2. Times(a, buf) = 0 /\ Times(a, net) \in Nat /\ Times(a, pending) \in Nat
    BY <1>1, TimesOfNone, CountsAreNumbers
  <2> QED BY <1>1, <1>3, <2>1, <2>2
<1> QED BY <1>1, <1>4, StreamConserves

\* A line is sent at the server's end; the alert it carries was still to be sent.
LEMMA SentConserves ==
  ASSUME TypeOK, TypeOK', ConservedInv, Alive, NEW x \in Lines, net' = Append(net, x),
         UNCHANGED <<shown, listener, hand, lines, buf, raised>>,
         \A a \in 1 .. MaxAlerts :
           Times(a, pending) = Times(a, pending') + (IF Carries(x, a) THEN 1 ELSE 0)
  PROVE  AlertsConserved'
<1>1. ASSUME NEW a \in 1 .. MaxAlerts
      PROVE  Times(a, buf') + Times(a, net') + Times(a, pending') =
               Times(a, buf) + Times(a, net) + Times(a, pending) + 0
  <2>1. Times(a, net') = Times(a, net) + (IF Carries(x, a) THEN 1 ELSE 0)
    BY TimesOfAppend DEF TypeOK
  <2>2. Times(a, net) \in Nat /\ Times(a, buf) \in Nat /\ buf' = buf
    BY CountsAreNumbers
  <2>3. Times(a, pending') \in Nat
    BY PendingTyped, TimesTyped
  <2> QED BY <2>1, <2>2, <2>3
<1> QED BY <1>1, StreamConserves

\* What is still to be sent is one line at most.
LEMMA PendingTimes ==
  ASSUME TypeOK, pending # <<>>, NEW a
  PROVE  Times(a, pending) = IF Carries(Head(pending), a) THEN 1 ELSE 0
<1>1. PICK x : pending = << x >>
  BY DEF TypeOK
<1> QED BY <1>1, TimesOfOne

LEMMA CrossConserves ==
  ASSUME TypeOK, TypeOK', ConservedInv, Alive, pending # <<>>, NEW first, Cross(first),
         UNCHANGED <<shown, listener, hand, lines, buf, raised>>
  PROVE  AlertsConserved'
<1>1. PICK w \in {"?"} \cup Prefixes : net' = Append(net, Torn(Head(pending), w))
  BY DEF Cross
<1> DEFINE x == Torn(Head(pending), w)
<1>2. x \in Lines /\ \A a : Carries(x, a) <=> Carries(Head(pending), a)
  BY TornTyped
<1>3. pending' = <<>> \/ pending' = << RestOfLine >>
  BY DEF Cross
<1>4. ASSUME NEW a \in 1 .. MaxAlerts PROVE Times(a, pending') = 0
  <2>1. Times(a, << RestOfLine >>) = 0
    BY TimesOfOne, AlertsDiffer
  <2> QED BY <1>3, <2>1, TimesOfNone
<1> HIDE DEF x
<1>5. \A a \in 1 .. MaxAlerts :
        Times(a, pending) = Times(a, pending') + (IF Carries(x, a) THEN 1 ELSE 0)
  BY <1>2, <1>4, PendingTimes
<1>6. net' = Append(net, x)
  BY <1>1 DEF x
<1> QED BY <1>2, <1>5, <1>6, SentConserves

LEMMA SendReplyConserves ==
  ASSUME TypeOK, TypeOK', ConservedInv, SendReply
  PROVE  AlertsConserved'
<1>1. Alive /\ UNCHANGED <<shown, listener, hand, lines, buf, raised>>
  BY DEF SendReply, mainVars, threadVars
<1>2. CASE begun = "alert"
  <2>1. pending # <<>> /\ Cross(Head(pending))
    BY <1>2 DEF SendReply, TypeOK
  <2> QED BY <1>1, <2>1, CrossConserves
<1>3. CASE begun # "alert"
  <2>1. out # <<>> /\ net' = Append(net, Head(out)) /\ pending' = pending
    BY <1>3 DEF SendReply
  <2>2. Head(out) \in ReplyLines \cup {RestOfLine}
    BY <2>1, HeadTailProperties DEF TypeOK
  <2>3. Head(out) \in Lines
    BY <2>2, LinesTyped
  <2>4. ASSUME NEW a \in 1 .. MaxAlerts
        PROVE  Times(a, pending) = Times(a, pending') + (IF Carries(Head(out), a) THEN 1 ELSE 0)
    <3>1. ~Carries(Head(out), a) /\ Times(a, pending) \in Nat
      BY <2>2, AlertsDiffer, CountsAreNumbers
    <3> QED BY <2>1, <3>1
  <2> QED BY <1>1, <2>1, <2>3, <2>4, SentConserves
<1> QED BY <1>2, <1>3

LEMMA SendAlertConserves ==
  ASSUME TypeOK, TypeOK', ConservedInv, SendAlert
  PROVE  AlertsConserved'
<1>1. Alive /\ pending # <<>> /\ UNCHANGED <<shown, listener, hand, lines, buf, raised>>
  BY DEF SendAlert, mainVars, threadVars
<1>2. CASE begun = "reply"
  <2>1. Cross(Head(out))
    BY <1>2 DEF SendAlert
  <2> QED BY <1>1, <2>1, CrossConserves
<1>3. CASE begun # "reply"
  <2>1. net' = Append(net, Head(pending)) /\ pending' = <<>>
    BY <1>3 DEF SendAlert
  <2>2. Head(pending) \in Lines
    BY <1>1, TornTyped
  <2>3. ASSUME NEW a \in 1 .. MaxAlerts
        PROVE  Times(a, pending) =
                 Times(a, pending') + (IF Carries(Head(pending), a) THEN 1 ELSE 0)
    BY <1>1, <2>1, PendingTimes, TimesOfNone
  <2> QED BY <1>1, <2>1, <2>2, <2>3, SentConserves
<1> QED BY <1>2, <1>3

\* An alert is raised, and is then still to be sent.
LEMMA PushConserves ==
  ASSUME TypeOK, TypeOK', ConservedInv, Push
  PROVE  AlertsConserved'
<1>1. /\ Alive /\ pending = <<>> /\ pending' = << Alert(raised') >> /\ raised' = raised + 1
      /\ UNCHANGED <<shown, listener, hand, lines, buf, net>>
  BY DEF Push, mainVars, threadVars, streamVars
<1>2. raised \in Nat
  BY OperatorClientAssumption DEF TypeOK
<1>3. ASSUME NEW a \in 1 .. MaxAlerts
      PROVE  Times(a, buf') + Times(a, net') + Times(a, pending') =
               Times(a, buf) + Times(a, net) + Times(a, pending)
                 + (IF a = raised' /\ raised' # raised THEN 1 ELSE 0)
  <2>1. Times(a, pending) = 0 /\ Times(a, pending') = IF a = raised' THEN 1 ELSE 0
    BY <1>1, TimesOfNone, TimesOfOne, AlertsDiffer
  <2>2. Times(a, net) \in Nat /\ Times(a, buf) \in Nat
    BY CountsAreNumbers
  <2> QED BY <1>1, <1>2, <2>1, <2>2
<1> QED BY <1>1, <1>3, StreamConserves

LEMMA NextTidy == TypeOK /\ Tidy /\ [Next]_vars => Tidy'
<1> SUFFICES ASSUME TypeOK, Tidy, [Next]_vars PROVE Tidy'
  OBVIOUS
<1> USE DEF Tidy, mainVars, End
<1>1. CASE Connect
  BY <1>1 DEF Connect
<1>2. CASE Ask
  <2>1. asked \in Nat
    BY OperatorClientAssumption DEF TypeOK
  <2> QED BY <1>2, <2>1 DEF Ask
<1>3. CASE Send
  BY <1>3 DEF Send
<1>4. CASE MainLine
  BY <1>4 DEF MainLine
<1>5. CASE MainFails
  BY <1>5 DEF MainFails
<1>6. CASE Show
  BY <1>6 DEF Show
<1>7. CASE UNCHANGED mainVars
  BY <1>7
<1>8. ASSUME NEW i \in Listeners, Listener(i) \/ ListenerLocks(i) PROVE UNCHANGED mainVars
  BY <1>8 DEF Listener, ListenerLine, ListenerPrints, ListenerTimeout, ListenerEnds, ListenerLocks
<1>9. Receive \/ ServerStep \/ UNCHANGED vars => UNCHANGED mainVars
  BY DEF Receive, ServerStep, Handle, Begin, SendReply, Close, Push, SendAlert, ServerStops, vars
<1>10. CASE Interrupted
  BY <1>10 DEF Interrupted
<1> QED BY <1>1, <1>2, <1>3, <1>4, <1>5, <1>6, <1>7, <1>8, <1>9, <1>10
        DEF Next, MainStep, ServerStep

LEMMA NextConserved ==
  TypeOK /\ TypeOK' /\ LockInv /\ ConservedInv /\ [Next]_vars => ConservedInv'
<1> SUFFICES ASSUME TypeOK, TypeOK', LockInv, ConservedInv, [Next]_vars PROVE AlertsConserved'
  BY NextTidy DEF ConservedInv
<1> USE DEF mainVars, threadVars, streamVars, serverVars, replyVars, pushVars
<1>1. CASE Connect
  BY <1>1, NothingMoves DEF Connect, Alive
<1>2. CASE Ask
  BY <1>2, NothingMoves DEF Ask, Alive, ConservedInv, Tidy
<1>3. CASE Send
  BY <1>3, NothingMoves DEF Send, Alive
<1>4. CASE MainLine
  BY <1>4, MainLineConserves
<1>5. CASE MainFails
  BY <1>5 DEF MainFails, End, AlertsConserved, Alive
<1>6. CASE Show
  BY <1>6, ShowConserves
<1>7. ASSUME NEW i \in Listeners, Listener(i) \/ ListenerLocks(i) PROVE AlertsConserved'
  <2>1. CASE ListenerLine(i)
    BY <2>1, ListenerLineConserves
  <2>2. CASE ListenerPrints(i)
    BY <2>2, ListenerPrintsConserves
  <2>3. CASE ListenerTimeout(i) \/ ListenerEnds(i) \/ ListenerLocks(i)
    <3>1. /\ Alive /\ UNCHANGED <<shown, lines, buf, net, pending, raised, hand>>
          /\ listener[i] # "printing"
          /\ \E to \in {"reading", "waiting", "done"} : listener' = [listener EXCEPT ![i] = to]
      BY <2>3 DEF ListenerTimeout, ListenerEnds, ListenerLocks, GoTo
    <3>2. \A k \in Listeners : listener'[k] = "printing" <=> listener[k] = "printing"
      BY <3>1 DEF TypeOK
    <3> QED BY <3>1, <3>2, NothingMoves
  <2> QED BY <1>7, <2>1, <2>2, <2>3 DEF Listener
<1>8. CASE Receive
  BY <1>8, ReceiveConserves
<1>9. CASE Handle \/ Begin \/ Close \/ ServerStops
  BY <1>9, NothingMoves DEF Handle, Begin, Close, ServerStops
<1>10. CASE SendReply
  BY <1>10, SendReplyConserves
<1>11. CASE SendAlert
  BY <1>11, SendAlertConserves
<1>12. CASE Push
  BY <1>12, PushConserves
<1>13. CASE Interrupted
  BY <1>13 DEF Interrupted, End, AlertsConserved, Alive
<1>14. CASE UNCHANGED vars
  <2>1. UNCHANGED <<pc, shown, lines, buf, net, pending, raised, listener, hand>>
    BY <1>14 DEF vars
  <2> QED BY <2>1, NothingMoves DEF AlertsConserved, Alive
<1> QED BY <1>1, <1>2, <1>3, <1>4, <1>5, <1>6, <1>7, <1>8, <1>9, <1>10, <1>11, <1>12, <1>13,
           <1>14 DEF Next, MainStep

\* However replies, alerts, timeouts and the threads interleave, every alert that was
\* pushed is displayed, in a thread's hands, in the stream or about to be sent, and only
\* once; when it got into another line, its beginning is.
THEOREM AlertsAreConserved == Spec => []AlertsConserved
<1>1. Init => TypeOK /\ LockInv /\ ConservedInv
  BY InitTyped, InitOK, InitConserved
<1>2. (TypeOK /\ LockInv /\ ConservedInv) /\ [Next]_vars => (TypeOK /\ LockInv /\ ConservedInv)'
  BY NextTyped, NextOK, NextConserved
<1>3. ConservedInv => AlertsConserved
  BY DEF ConservedInv
<1> QED BY <1>1, <1>2, <1>3, PTL DEF Spec

----------------------------------------------------------------------------
(* Replies among alerts. *)

AllPushed(s) == \A k \in 1 .. Len(s) : s[k].pushed

AllReplies(s) == \A k \in 1 .. Len(s) : ~s[k].pushed

\* p says where in s the lines of r are.
Finds(p, s, r) ==
  /\ p \in [1 .. Len(r) -> 1 .. Len(s)]
  /\ \A j, k \in 1 .. Len(r) : j < k => p[j] < p[k]
  /\ \A k \in 1 .. Len(r) : s[p[k]] = r[k]
  /\ \A i \in 1 .. Len(s) : ~s[i].pushed <=> \E k \in 1 .. Len(r) : p[k] = i

LEMMA Found == \A s, r : WithoutAlerts(s, r) <=> \E p : Finds(p, s, r)
BY DEF WithoutAlerts, Finds

\* The two kinds of lines.
LEMMA LineKinds ==
  ASSUME NEW x \in WholeLines
  PROVE  /\ x.pushed => x.word = "ALERT"
         /\ ~x.pushed <=> x \in ReplyLines
<1>1. \A a : Alert(a).pushed = TRUE /\ Alert(a).word = "ALERT"
  BY DEF Alert
<1>2. \A y \in ReplyLines : y.pushed = FALSE
  BY DEF ReplyLines
<1> QED BY <1>1, <1>2 DEF WholeLines

\* Nothing but alerts.
LEMMA OnlyAlerts ==
  ASSUME NEW s \in Seq(WholeLines)
  PROVE  WithoutAlerts(s, <<>>) <=> AllPushed(s)
<1>1. Len(<<>>) = 0 /\ 1 .. 0 = {}
  OBVIOUS
<1>2. ASSUME AllPushed(s) PROVE WithoutAlerts(s, <<>>)
  <2>1. Finds([k \in 1 .. Len(<<>>) |-> k], s, <<>>)
    BY <1>1, <1>2 DEF Finds, AllPushed
  <2> QED BY <2>1, Found
<1>3. ASSUME WithoutAlerts(s, <<>>) PROVE AllPushed(s)
  BY <1>1, <1>3 DEF WithoutAlerts, AllPushed
<1> QED BY <1>2, <1>3

LEMMA NothingFound ==
  ASSUME NEW r \in Seq(ReplyLines), WithoutAlerts(<<>>, r)
  PROVE  r = <<>>
<1>1. PICK p \in [1 .. Len(r) -> 1 .. Len(<<>>)] : TRUE
  BY DEF WithoutAlerts
<1>2. Len(<<>>) = 0 /\ Len(r) \in Nat
  BY LenProperties
<1>3. ~(1 \in 1 .. Len(r))
  BY <1>1, <1>2
<1>4. Len(r) = 0
  BY <1>2, <1>3
<1> QED BY <1>4, EmptySeq

\* An alert at the end.
LEMMA AlertAtEnd ==
  ASSUME NEW s \in Seq(WholeLines), NEW r \in Seq(ReplyLines), NEW x \in WholeLines, x.pushed,
         WithoutAlerts(s, r)
  PROVE  WithoutAlerts(Append(s, x), r)
<1>1. PICK p : Finds(p, s, r)
  BY Found
<1>2. Len(s) \in Nat /\ Len(r) \in Nat
  BY LenProperties
<1> DEFINE t == Append(s, x)
<1>3. /\ Len(t) = Len(s) + 1 /\ t[Len(s) + 1] = x
      /\ \A i \in 1 .. Len(s) : t[i] = s[i]
  BY AppendProperties
<1> HIDE DEF t
<1>4. \A i \in 1 .. Len(t) : i \in 1 .. Len(s) \/ i = Len(s) + 1
  BY <1>2, <1>3
<1>5. p \in [1 .. Len(r) -> 1 .. Len(t)]
  BY <1>1, <1>2, <1>3 DEF Finds
<1>6. \A k \in 1 .. Len(r) : p[k] \in 1 .. Len(s) /\ t[p[k]] = r[k]
  BY <1>1, <1>3 DEF Finds
<1>7. \A k \in 1 .. Len(r) : p[k] # Len(s) + 1
  BY <1>2, <1>6
<1>8. \A i \in 1 .. Len(t) : ~t[i].pushed <=> \E k \in 1 .. Len(r) : p[k] = i
  BY <1>1, <1>3, <1>4, <1>7 DEF Finds
<1>9. Finds(p, t, r)
  BY <1>1, <1>5, <1>6, <1>8 DEF Finds
<1> QED BY <1>9, Found DEF t

\* A line of the reply at the end.
LEMMA ReplyAtEnd ==
  ASSUME NEW s \in Seq(WholeLines), NEW r \in Seq(ReplyLines), NEW x \in ReplyLines,
         WithoutAlerts(s, r)
  PROVE  WithoutAlerts(Append(s, x), Append(r, x))
<1>1. PICK p : Finds(p, s, r)
  BY Found
<1>2. Len(s) \in Nat /\ Len(r) \in Nat /\ x \in WholeLines /\ ~x.pushed
  BY LenProperties, LinesTyped, LineKinds
<1> DEFINE t == Append(s, x)
           u == Append(r, x)
           q == [k \in 1 .. Len(r) + 1 |-> IF k = Len(r) + 1 THEN Len(s) + 1 ELSE p[k]]
<1>3. /\ Len(t) = Len(s) + 1 /\ t[Len(s) + 1] = x
      /\ \A i \in 1 .. Len(s) : t[i] = s[i]
  BY <1>2, AppendProperties
<1>4. /\ Len(u) = Len(r) + 1 /\ u[Len(r) + 1] = x
      /\ \A i \in 1 .. Len(r) : u[i] = r[i]
  BY AppendProperties
<1> HIDE DEF t, u
<1>5. /\ \A i \in 1 .. Len(t) : i \in 1 .. Len(s) \/ i = Len(s) + 1
      /\ \A k \in 1 .. Len(u) : k \in 1 .. Len(r) \/ k = Len(r) + 1
      /\ \A k \in 1 .. Len(r) : k # Len(r) + 1 /\ k \in 1 .. Len(u)
      /\ Len(r) + 1 \in 1 .. Len(u) /\ Len(s) + 1 \in 1 .. Len(t)
  BY <1>2, <1>3, <1>4
<1>6. \A k \in 1 .. Len(r) : p[k] \in 1 .. Len(s) /\ p[k] \in Int /\ p[k] < Len(s) + 1
  BY <1>1, <1>2 DEF Finds
<1>7. /\ q[Len(r) + 1] = Len(s) + 1
      /\ \A k \in 1 .. Len(r) : q[k] = p[k]
  BY <1>4, <1>5
<1>8. q \in [1 .. Len(u) -> 1 .. Len(t)]
  BY <1>2, <1>3, <1>4, <1>5, <1>6
<1> HIDE DEF q
<1>9. \A j, k \in 1 .. Len(u) : j < k => q[j] < q[k]
  <2>1. \A j, k \in 1 .. Len(r) : j < k => q[j] < q[k]
    BY <1>1, <1>7 DEF Finds
  <2>2. \A j \in 1 .. Len(r) : q[j] < q[Len(r) + 1]
    BY <1>6, <1>7
  <2>3. \A j \in 1 .. Len(u) : ~(Len(r) + 1 < j)
    BY <1>2, <1>4
  <2> QED BY <1>5, <2>1, <2>2, <2>3
<1>10. \A k \in 1 .. Len(u) : t[q[k]] = u[k]
  BY <1>1, <1>3, <1>4, <1>5, <1>6, <1>7 DEF Finds
<1>11. \A i \in 1 .. Len(t) : ~t[i].pushed <=> \E k \in 1 .. Len(u) : q[k] = i
  <2>1. ASSUME NEW i \in 1 .. Len(s)
        PROVE  ~t[i].pushed <=> \E k \in 1 .. Len(u) : q[k] = i
    <3>1. i # Len(s) + 1
      BY <1>2
    <3>2. ~t[i].pushed <=> \E k \in 1 .. Len(r) : p[k] = i
      BY <1>1, <1>3 DEF Finds
    <3> QED BY <1>5, <1>7, <3>1, <3>2
  <2>2. ~t[Len(s) + 1].pushed /\ \E k \in 1 .. Len(u) : q[k] = Len(s) + 1
    BY <1>2, <1>3, <1>5, <1>7
  <2> QED BY <1>5, <2>1, <2>2
<1>12. Finds(q, t, u)
  BY <1>8, <1>9, <1>10, <1>11 DEF Finds
<1> QED BY <1>12, Found DEF t, u

\* An alert taken from the front.
LEMMA AlertTaken ==
  ASSUME NEW s \in Seq(WholeLines), s # <<>>, s[1].pushed, NEW r \in Seq(ReplyLines),
         WithoutAlerts(s, r)
  PROVE  WithoutAlerts(Tail(s), r)
<1>1. PICK p : Finds(p, s, r)
  BY Found
<1>2. Len(s) \in Nat \ {0} /\ Len(r) \in Nat
  BY LenProperties, EmptySeq
<1> DEFINE t == Tail(s)
           q == [k \in 1 .. Len(r) |-> p[k] - 1]
<1>3. Len(t) = Len(s) - 1 /\ \A i \in 1 .. Len(t) : t[i] = s[i + 1]
  BY HeadTailProperties
<1> HIDE DEF t
<1>4. \A k \in 1 .. Len(r) : p[k] \in 1 .. Len(s) /\ p[k] \in Int /\ p[k] # 1
  BY <1>1, <1>2 DEF Finds
<1>5. \A k \in 1 .. Len(r) : p[k] - 1 \in 1 .. Len(t) /\ (p[k] - 1) + 1 = p[k] /\ q[k] = p[k] - 1
  BY <1>2, <1>3, <1>4
<1>6. q \in [1 .. Len(r) -> 1 .. Len(t)]
  BY <1>5
<1> HIDE DEF q
<1>7. \A j, k \in 1 .. Len(r) : j < k => q[j] < q[k]
  <2>1. \A j, k \in 1 .. Len(r) : j < k => p[j] < p[k]
    BY <1>1 DEF Finds
  <2> QED BY <1>4, <1>5, <2>1
<1>8. \A k \in 1 .. Len(r) : t[q[k]] = r[k]
  BY <1>1, <1>3, <1>5 DEF Finds
<1>9. ASSUME NEW i \in 1 .. Len(t)
      PROVE  ~t[i].pushed <=> \E k \in 1 .. Len(r) : q[k] = i
  <2>1. i + 1 \in 1 .. Len(s) /\ t[i] = s[i + 1] /\ i \in Int
    BY <1>2, <1>3
  <2>2. ~s[i + 1].pushed <=> \E k \in 1 .. Len(r) : p[k] = i + 1
    BY <1>1, <2>1 DEF Finds
  <2>3. \A k \in 1 .. Len(r) : p[k] = i + 1 <=> q[k] = i
    BY <1>4, <1>5, <2>1
  <2> QED BY <2>1, <2>2, <2>3
<1>10. Finds(q, t, r)
  BY <1>6, <1>7, <1>8, <1>9 DEF Finds
<1> QED BY <1>10, Found DEF t

\* The first line that is no alert is the first of the reply.
LEMMA FirstOfReply ==
  ASSUME NEW s \in Seq(WholeLines), s # <<>>, ~s[1].pushed, NEW r \in Seq(ReplyLines),
         WithoutAlerts(s, r)
  PROVE  Len(r) > 0 /\ r[1] = s[1]
<1>1. PICK p : Finds(p, s, r)
  BY Found
<1>2. Len(s) \in Nat \ {0} /\ Len(r) \in Nat
  BY LenProperties, EmptySeq
<1>3. PICK k \in 1 .. Len(r) : p[k] = 1
  BY <1>1, <1>2 DEF Finds
<1>4. 1 \in 1 .. Len(r) /\ p[1] \in 1 .. Len(s)
  BY <1>1, <1>2 DEF Finds
<1>5. ~(1 < k)
  BY <1>1, <1>2, <1>3, <1>4 DEF Finds
<1>6. k = 1
  BY <1>2, <1>5
<1> QED BY <1>1, <1>2, <1>3, <1>4, <1>6 DEF Finds

\* When s ends with a line that only the end of r can be, r is all in s and only alerts follow.
LEMMA LastOfReply ==
  ASSUME NEW s \in Seq(WholeLines), NEW t \in Seq(WholeLines), NEW r \in Seq(ReplyLines),
         s # <<>>, ~s[Len(s)].pushed, WithoutAlerts(s \o t, r),
         \A k \in 1 .. Len(r) : r[k] = s[Len(s)] => k = Len(r)
  PROVE  /\ WithoutAlerts(s, r) /\ AllPushed(t)
         /\ Len(r) > 0 /\ r[Len(r)] = s[Len(s)]
<1> DEFINE u == s \o t
           m == Len(s)
           l == Len(r)
<1>1. PICK p : Finds(p, u, r)
  BY Found
<1>2. m \in Nat \ {0} /\ l \in Nat /\ Len(t) \in Nat
  BY LenProperties, EmptySeq
<1>3. Len(u) = m + Len(t) /\ \A i \in 1 .. m + Len(t) : u[i] = IF i <= m THEN s[i] ELSE t[i - m]
  BY ConcatProperties
<1> HIDE DEF u, m, l
<1>4. /\ \A i \in 1 .. m : i \in 1 .. Len(u) /\ u[i] = s[i]
      /\ \A i \in 1 .. Len(t) : i + m \in 1 .. Len(u) /\ u[i + m] = t[i]
      /\ m \in 1 .. m
  BY <1>2, <1>3
<1>5. /\ p \in [1 .. l -> 1 .. Len(u)]
      /\ \A j, k \in 1 .. l : j < k => p[j] < p[k]
      /\ \A k \in 1 .. l : u[p[k]] = r[k]
      /\ \A i \in 1 .. Len(u) : ~u[i].pushed <=> \E k \in 1 .. l : p[k] = i
  BY <1>1 DEF Finds, l
<1>6. ~u[m].pushed /\ u[m] = s[m]
  BY <1>4 DEF m
<1>7. PICK k \in 1 .. l : p[k] = m
  BY <1>4, <1>5, <1>6
<1>8. r[k] = s[m]
  BY <1>5, <1>6, <1>7
<1>9. k = l /\ l > 0
  BY <1>2, <1>8 DEF l, m
<1>10. ASSUME NEW j \in 1 .. l PROVE p[j] \in 1 .. m
  <2>1. p[j] \in 1 .. Len(u) /\ p[j] \in Int
    BY <1>2, <1>3, <1>5
  <2>2. j = l \/ j < l
    BY <1>2
  <2>3. p[j] <= m
    BY <1>2, <1>5, <1>7, <1>9, <2>1, <2>2
  <2> QED BY <1>2, <1>3, <2>1, <2>3
<1>11. WithoutAlerts(s, r)
  <2>1. p \in [1 .. l -> 1 .. m]
    BY <1>5, <1>10
  <2>2. \A j \in 1 .. l : s[p[j]] = r[j]
    BY <1>4, <1>5, <1>10
  <2>3. \A i \in 1 .. m : ~s[i].pushed <=> \E j \in 1 .. l : p[j] = i
    BY <1>4, <1>5
  <2>4. Finds(p, s, r)
    BY <1>5, <2>1, <2>2, <2>3 DEF Finds, m, l
  <2> QED BY <2>4, Found
<1>12. ASSUME NEW i \in 1 .. Len(t) PROVE t[i].pushed
  <2>1. \A j \in 1 .. l : p[j] # i + m
    BY <1>2, <1>10
  <2> QED BY <1>4, <1>5, <2>1
<1> QED BY <1>8, <1>9, <1>11, <1>12 DEF AllPushed, m, l

----------------------------------------------------------------------------
(* The conversation with the server. *)

\* The replies the main thread may get, the line they all begin with, what it has still
\* to read, and all it gets to see.
Answers == Replies(cmd.kind, cmd.number)
First == Line(CASE cmd.kind = "GET_ALERTS" -> "OK|ALERTS"
                [] cmd.kind = "SUBSCRIBE_ALERTS" -> "OK|SUBSCRIBED"
                [] cmd.kind = "PING" -> "OK|PONG"
                [] cmd.kind = "QUIT" -> "OK|BYE", cmd.number)
Rest == buf \o net
Stream == lines \o Rest

\* No line is torn.
WholeOK ==
  /\ Holds(WholeLines, ReplyLines)
  /\ pending = <<>> \/ \E a \in 1 .. MaxAlerts : pending = << Alert(a) >>

\* The conversation is in step: no alert overtook an OK|SUBSCRIBED or crossed a line and,
\* with --cmd (which never sets self.subscribed), the QUIT at the end has not been reached.
InStep == ~crossed /\ (single => asked # 2 /\ (asked = 1 => pc # "menu"))

\* Between two commands: only alerts, and those only for a subscriber.
Idle ==
  /\ lines = <<>> /\ inbox = <<>> /\ out = <<>> /\ AllPushed(Rest) /\ ~closing
  /\ ~subscribed => ~listed /\ Rest = <<>>

\* A reply is complete: only alerts follow it.
Replied ==
  /\ inbox = <<>> /\ out = <<>> /\ AllPushed(Rest) /\ (closing => cmd.kind = "QUIT")
  /\ served \in Answers /\ WithoutAlerts(lines, served) /\ lines # <<>> /\ lines[1] = First
  /\ ~subscribed => cmd.kind = "SUBSCRIBE_ALERTS" \/ (~listed /\ Rest = <<>>)

\* The server is to take the command yet; or the part r of what it made of it is in the
\* stream, among alerts, and the part q is still to come.
Underway ==
  \E x \in Answers : \E r, q \in Seq(ReplyLines) :
    /\ r \o q = x /\ WithoutAlerts(Stream, r)
    /\ \/ inbox = << cmd >> /\ out = <<>> /\ r = <<>> /\ ~closed /\ ~closing
       \/ inbox = <<>> /\ out = q /\ ~closed /\ x = served
       \/ inbox = <<>> /\ out = <<>> /\ closed /\ (r = <<>> \/ x = served)

\* A reply is being read: nothing read so far completes it.
Reading ==
  /\ lines # <<>> => lines[1] = First /\ cmd.kind = "GET_ALERTS"
  /\ \A k \in 1 .. Len(lines) : lines[k].word # "END"
  /\ Underway /\ (closing => cmd.kind = "QUIT")
  /\ ~subscribed => /\ Stream # <<>> => ~Stream[1].pushed
                    /\ \/ cmd.kind = "SUBSCRIBE_ALERTS" /\ (listed => inbox = <<>>)
                       \/ ~listed /\ AllReplies(Stream)

Conversation ==
  /\ pc \in {"connecting", "menu", "locking"} => Idle
  /\ pc = "showing" => Replied
  /\ pc = "reading" => Reading

\* Who follows whom.
Followed ==
  /\ pc \in {"locking", "reading", "showing"} => asked # 0
  /\ closed => ~listed
  /\ pending # <<>> /\ ~closed => listed
  /\ \A i \in Listeners : listener[i] # "off" => subscribed /\ ~single

ReplyInv ==
  /\ Followed
  /\ ~crossed => WholeOK
  /\ InStep => Conversation
  /\ ListenersSeeAlerts

LEMMA SequencesTyped ==
  ASSUME WholeOK
  PROVE  /\ buf \in Seq(WholeLines) /\ net \in Seq(WholeLines) /\ lines \in Seq(WholeLines)
         /\ out \in Seq(ReplyLines)
         /\ Rest \in Seq(WholeLines) /\ Stream \in Seq(WholeLines)
<1>1. buf \in Seq(WholeLines) /\ net \in Seq(WholeLines) /\ lines \in Seq(WholeLines)
      /\ out \in Seq(ReplyLines)
  BY DEF WholeOK, Holds
<1>2. Rest \in Seq(WholeLines)
  BY <1>1, ConcatProperties DEF Rest
<1>3. Stream \in Seq(WholeLines)
  BY <1>1, <1>2, ConcatProperties DEF Stream
<1> QED BY <1>1, <1>2, <1>3

\* What tells the replies apart.
LEMMA FirstShape ==
  ASSUME TypeOK
  PROVE  /\ First.word = "OK|ALERTS" <=> cmd.kind = "GET_ALERTS"
         /\ First.word = "OK|SUBSCRIBED" <=> cmd.kind = "SUBSCRIBE_ALERTS"
         /\ First.word # "ALERT"
<1>1. cmd.kind \in Commands
  BY DEF TypeOK
<1>2. PICK w \in {"OK|ALERTS", "OK|SUBSCRIBED", "OK|PONG", "OK|BYE"} :
        /\ First = Line(w, cmd.number)
        /\ w = "OK|ALERTS" <=> cmd.kind = "GET_ALERTS"
        /\ w = "OK|SUBSCRIBED" <=> cmd.kind = "SUBSCRIBE_ALERTS"
  BY <1>1 DEF First, Commands
<1>3. First.word = w
  BY <1>2 DEF Line
<1> QED BY <1>2, <1>3

LEMMA AnswerShape ==
  ASSUME TypeOK, NEW x \in Answers
  PROVE  /\ x \in Seq(ReplyLines) /\ Len(x) \in {1, 2, 3} /\ x[1] = First
         /\ cmd.kind # "GET_ALERTS" => Len(x) = 1
         /\ \A k \in 1 .. Len(x) : x[k].word = "END" => k = Len(x)
<1>1. cmd.kind \in Commands /\ cmd.number \in Nat
  BY DEF TypeOK
<1>2. x \in Seq(ReplyLines) /\ Len(x) \in {1, 2, 3} /\ (cmd.kind # "GET_ALERTS" => Len(x) = 1)
  BY <1>1, ReplyTyped DEF Answers
<1>3. CASE cmd.kind = "GET_ALERTS"
  <2> DEFINE a == Line("OK|ALERTS", cmd.number)
             b == Line("ALERT", cmd.number)
             c == Line("END", cmd.number)
  <2>1. x \in { << a, b, c >>, << a, c >>, << a, b >> } /\ First = a
    BY <1>3 DEF Answers, Replies, First
  <2>2. a.word = "OK|ALERTS" /\ b.word = "ALERT" /\ c.word = "END"
    BY DEF Line
  <2> HIDE DEF a, b, c
  <2>3. CASE x = << a, b, c >>
    <3>1. Len(x) = 3 /\ x[1] = a /\ x[2] = b /\ x[3] = c
      BY <2>3
    <3> QED BY <1>2, <2>1, <2>2, <3>1
  <2>4. CASE x = << a, c >>
    <3>1. Len(x) = 2 /\ x[1] = a /\ x[2] = c
      BY <2>4
    <3> QED BY <1>2, <2>1, <2>2, <3>1
  <2>5. CASE x = << a, b >>
    <3>1. Len(x) = 2 /\ x[1] = a /\ x[2] = b
      BY <2>5
    <3> QED BY <1>2, <2>1, <2>2, <3>1
  <2> QED BY <2>1, <2>3, <2>4, <2>5
<1>4. CASE cmd.kind # "GET_ALERTS"
  <2>1. x = << First >>
    BY <1>1, <1>4 DEF Answers, Replies, First, Commands
  <2> QED BY <1>2, <1>4, <2>1
<1> QED BY <1>3, <1>4

LEMMA AnswerExists == TypeOK => \E x : x \in Answers
<1> SUFFICES ASSUME TypeOK PROVE \E x : x \in Answers
  OBVIOUS
<1>1. CASE cmd.kind = "GET_ALERTS"
  BY <1>1 DEF Answers, Replies
<1>2. CASE cmd.kind # "GET_ALERTS"
  <2>1. \E x : Answers = { x }
    BY <1>2 DEF Answers, Replies
  <2> QED BY <2>1
<1> QED BY <1>1, <1>2

\* A line is taken from the buffer.
LEMMA RestTaken ==
  ASSUME WholeOK, buf # <<>>, buf' = Tail(buf), net' = net
  PROVE  /\ Rest # <<>> /\ Rest[1] = Head(buf) /\ Rest' = Tail(Rest)
         /\ Rest = << Head(buf) >> \o Rest' /\ Rest' \in Seq(WholeLines) /\ Head(buf) \in WholeLines
<1>1. /\ buf \in Seq(WholeLines) /\ net \in Seq(WholeLines) /\ Head(buf) \in WholeLines /\ Tail(buf) \in Seq(WholeLines)
      /\ << Head(buf) >> \in Seq(WholeLines) /\ buf = << Head(buf) >> \o Tail(buf)
  BY SequencesTyped, TakeFirst
<1>2. (<< Head(buf) >> \o Tail(buf)) \o net = << Head(buf) >> \o (Tail(buf) \o net)
  BY <1>1, ConcatAssociative
<1>3. Rest' = Tail(buf) \o net /\ Rest' \in Seq(WholeLines)
  BY <1>1, ConcatProperties DEF Rest
<1>4. Rest = << Head(buf) >> \o Rest'
  BY <1>1, <1>2, <1>3 DEF Rest
<1> DEFINE x == Head(buf)
           t == Rest'
<1>5. << x >> \o t # <<>> /\ (<< x >> \o t)[1] = x /\ Tail(<< x >> \o t) = t
  <2>1. x \in WholeLines /\ t \in Seq(WholeLines) /\ << x >> \in Seq(WholeLines) /\ Len(<< x >>) = 1
    BY <1>1, <1>3
  <2> HIDE DEF x, t
  <2> DEFINE u == << x >> \o t
  <2>2. /\ u \in Seq(WholeLines) /\ Len(u) = 1 + Len(t) /\ Len(t) \in Nat
        /\ \A i \in 1 .. 1 + Len(t) : u[i] = IF i <= 1 THEN << x >>[i] ELSE t[i - 1]
    BY <2>1, ConcatProperties, LenProperties
  <2> HIDE DEF u
  <2>3. u # <<>> /\ u[1] = x
    BY <2>2, EmptySeq
  <2>4. /\ Tail(u) \in Seq(WholeLines) /\ Len(Tail(u)) = Len(u) - 1
        /\ \A i \in 1 .. Len(Tail(u)) : Tail(u)[i] = u[i + 1]
    BY <2>2, <2>3, HeadTailProperties
  <2>5. \A i \in 1 .. Len(t) : u[i + 1] = t[i]
    BY <2>2
  <2>6. Len(Tail(u)) = Len(t)
    BY <2>2, <2>4
  <2>7. Tail(u) = t
    BY <2>1, <2>4, <2>5, <2>6, SeqEqual
  <2> QED BY <2>3, <2>7 DEF u
<1> QED BY <1>1, <1>3, <1>4, <1>5

\* recv() moves lines from the network into the buffer and changes nothing else.
LEMMA RestReceived ==
  ASSUME WholeOK, Receive
  PROVE  Rest' = Rest
<1>1. PICK n \in 0 .. Len(net) : buf' = SubSeq(net, 1, n) /\ net' = SubSeq(net, n + 1, Len(net))
  BY DEF Receive
<1>2. net \in Seq(WholeLines) /\ buf = <<>>
  BY SequencesTyped DEF Receive
<1>3. net = buf' \o net'
  <2>1. net = SubSeq(net, 1, n) \o SubSeq(net, n + 1, Len(net))
    BY <1>2, CutTyped
  <2> QED BY <1>1, <2>1
<1> QED BY <1>2, <1>3, ConcatEmptySeq DEF Rest

\* A line at the end of two parts of a stream.
LEMMA AppendBehind ==
  ASSUME NEW s \in Seq(WholeLines), NEW t \in Seq(WholeLines), NEW x \in WholeLines
  PROVE  s \o Append(t, x) = Append(s \o t, x)
<1>1. << x >> \in Seq(WholeLines) /\ s \o t \in Seq(WholeLines)
  BY ConcatProperties
<1>2. (s \o t) \o << x >> = s \o (t \o << x >>)
  BY <1>1, ConcatAssociative
<1> QED BY <1>1, <1>2, AppendIsConcat

\* A line is sent at the other end.
LEMMA RestSent ==
  ASSUME WholeOK, NEW x \in WholeLines, net' = Append(net, x), buf' = buf, lines' = lines
  PROVE  Rest' = Append(Rest, x) /\ Stream' = Append(Stream, x)
<1>1. /\ buf \in Seq(WholeLines) /\ net \in Seq(WholeLines) /\ lines \in Seq(WholeLines) /\ Rest \in Seq(WholeLines)
  BY SequencesTyped
<1>2. Rest' = Append(Rest, x)
  BY <1>1, AppendBehind DEF Rest
<1>3. lines \o Append(Rest, x) = Append(lines \o Rest, x)
  BY <1>1, AppendBehind
<1> QED BY <1>2, <1>3 DEF Stream

\* The line taken joins the lines of the reply.
LEMMA StreamKept ==
  ASSUME WholeOK, buf # <<>>, buf' = Tail(buf), net' = net, lines' = Append(lines, Head(buf))
  PROVE  Stream' = Stream
<1>1. /\ lines \in Seq(WholeLines) /\ Rest' \in Seq(WholeLines) /\ Head(buf) \in WholeLines
      /\ << Head(buf) >> \in Seq(WholeLines) /\ Rest = << Head(buf) >> \o Rest'
  BY SequencesTyped, RestTaken
<1>2. lines' = lines \o << Head(buf) >>
  BY <1>1, AppendIsConcat
<1>3. (lines \o << Head(buf) >>) \o Rest' = lines \o (<< Head(buf) >> \o Rest')
  BY <1>1, ConcatAssociative
<1> QED BY <1>1, <1>2, <1>3 DEF Stream

\* Alerts stay alerts.
LEMMA PushedTail ==
  ASSUME NEW s \in Seq(WholeLines), s # <<>>, AllPushed(s)
  PROVE  s[1].pushed /\ AllPushed(Tail(s))
<1>1. Len(s) \in Nat \ {0}
  BY EmptySeq
<1>2. Len(Tail(s)) = Len(s) - 1 /\ \A i \in 1 .. Len(Tail(s)) : Tail(s)[i] = s[i + 1]
  BY HeadTailProperties
<1> QED BY <1>1, <1>2 DEF AllPushed

LEMMA PushedAppend ==
  ASSUME NEW s \in Seq(WholeLines), NEW x \in WholeLines, x.pushed, AllPushed(s)
  PROVE  AllPushed(Append(s, x))
<1>1. Len(s) \in Nat /\ Len(Append(s, x)) = Len(s) + 1
  BY LenProperties, AppendProperties
<1>2. /\ \A i \in 1 .. Len(s) : Append(s, x)[i] = s[i]
      /\ Append(s, x)[Len(s) + 1] = x
  BY AppendProperties
<1> QED BY <1>1, <1>2 DEF AllPushed

\* The first line of a stream that grows or is cut.
LEMMA ReplyAppend ==
  ASSUME NEW s \in Seq(WholeLines), NEW x \in WholeLines
  PROVE  /\ s # <<>> => Append(s, x)[1] = s[1]
         /\ s = <<>> => Append(s, x)[1] = x
         /\ ~x.pushed /\ AllReplies(s) => AllReplies(Append(s, x))
<1>1. Len(s) \in Nat /\ Len(Append(s, x)) = Len(s) + 1
  BY LenProperties, AppendProperties
<1>2. /\ \A i \in 1 .. Len(s) : Append(s, x)[i] = s[i]
      /\ Append(s, x)[Len(s) + 1] = x
  BY AppendProperties
<1>3. s # <<>> <=> Len(s) # 0
  BY EmptySeq
<1> QED BY <1>1, <1>2, <1>3 DEF AllReplies

LEMMA RepliesBehind ==
  ASSUME NEW s \in Seq(WholeLines), NEW t \in Seq(WholeLines), AllReplies(s \o t), AllPushed(t)
  PROVE  t = <<>>
<1>1. Len(s) \in Nat /\ Len(t) \in Nat
  BY LenProperties
<1>2. /\ Len(s \o t) = Len(s) + Len(t)
      /\ \A i \in 1 .. Len(s) + Len(t) : (s \o t)[i] = IF i <= Len(s) THEN s[i] ELSE t[i - Len(s)]
  BY ConcatProperties
<1>3. ASSUME Len(t) # 0 PROVE FALSE
  <2>1. 1 \in 1 .. Len(t) /\ Len(s) + 1 \in 1 .. Len(s) + Len(t)
    BY <1>1, <1>3
  <2>2. (s \o t)[Len(s) + 1] = t[1]
    BY <1>1, <1>2, <2>1
  <2> QED BY <1>2, <2>1, <2>2 DEF AllReplies, AllPushed
<1> QED BY <1>3, EmptySeq

\* The two parts of a reply.
LEMMA Parts ==
  ASSUME NEW x, NEW r \in Seq(ReplyLines), NEW q \in Seq(ReplyLines), r \o q = x
  PROVE  /\ Len(r) \in Nat /\ Len(q) \in Nat /\ Len(x) = Len(r) + Len(q)
         /\ \A k \in 1 .. Len(r) : k \in 1 .. Len(x) /\ r[k] = x[k]
         /\ q # <<>> => Len(r) + 1 \in 1 .. Len(x) /\ Head(q) = x[Len(r) + 1]
         /\ q = <<>> => r = x
         /\ r = <<>> => q = x
<1>1. Len(r) \in Nat /\ Len(q) \in Nat
  BY LenProperties
<1>2. /\ Len(r \o q) = Len(r) + Len(q)
      /\ \A i \in 1 .. Len(r) + Len(q) : (r \o q)[i] = IF i <= Len(r) THEN r[i] ELSE q[i - Len(r)]
  BY ConcatProperties
<1>3. \A k \in 1 .. Len(r) : k \in 1 .. Len(x) /\ r[k] = x[k]
  BY <1>1, <1>2
<1>4. ASSUME q # <<>>
      PROVE  Len(r) + 1 \in 1 .. Len(x) /\ Head(q) = x[Len(r) + 1]
  <2>1. Len(q) # 0 /\ Head(q) = q[1]
    BY <1>4, EmptySeq
  <2> QED BY <1>1, <1>2, <2>1
<1>5. r \o <<>> = r /\ <<>> \o q = q
  BY ConcatEmptySeq
<1> QED BY <1>1, <1>2, <1>3, <1>4, <1>5

----------------------------------------------------------------------------
(* Each step and the conversation. *)

LEMMA InitReply == Init => ReplyInv
<1> SUFFICES ASSUME Init PROVE ReplyInv
  OBVIOUS
<1>1. Followed /\ ListenersSeeAlerts
  BY DEF Init, Followed, ListenersSeeAlerts
<1>2. WholeOK /\ Rest = <<>>
  BY InitHolds, LinesTyped, ConcatEmptySeq, EmptySeq DEF Init, WholeOK, Rest
<1>3. AllPushed(<<>>)
  BY DEF AllPushed
<1>4. Conversation
  BY <1>2, <1>3 DEF Init, Conversation, Idle
<1> QED BY <1>1, <1>2, <1>4 DEF ReplyInv

\* What crossed stays so.
LEMMA CrossedStays == TypeOK /\ [Next]_vars /\ crossed => crossed'
<1> SUFFICES ASSUME TypeOK, [Next]_vars, crossed PROVE crossed'
  OBVIOUS
<1> USE DEF serverVars, pushVars
<1>1. CASE Connect \/ Ask \/ Send \/ MainLine \/ MainFails \/ Show \/ Interrupted \/ Receive
  BY <1>1 DEF Connect, Ask, Send, MainLine, MainFails, Show, Interrupted, Receive
<1>2. CASE \E i \in Listeners : Listener(i) \/ ListenerLocks(i)
  BY <1>2 DEF Listener, ListenerLine, ListenerPrints, ListenerTimeout, ListenerEnds, ListenerLocks
<1>3. CASE Handle \/ Begin \/ Close \/ Push \/ ServerStops
  BY <1>3 DEF Handle, Begin, Close, Push, ServerStops
<1>4. CASE SendReply \/ SendAlert
  BY <1>4 DEF SendReply, SendAlert, Cross, TypeOK
<1>5. CASE UNCHANGED vars
  BY <1>5 DEF vars
<1> QED BY <1>1, <1>2, <1>3, <1>4, <1>5 DEF Next, MainStep

\* What is sent without crossing is whole.
LEMMA NextWhole ==
  TypeOK /\ TypeOK' /\ (~crossed => WholeOK) /\ [Next]_vars => (~crossed' => WholeOK')
<1> SUFFICES ASSUME TypeOK, TypeOK', ~crossed => WholeOK, [Next]_vars, ~crossed' PROVE WholeOK'
  OBVIOUS
<1>1. WholeOK
  BY CrossedStays
<1>2. net \in Seq(WholeLines) /\ out \in Seq(ReplyLines)
  BY <1>1, SequencesTyped
<1>3. ASSUME SendReply
      PROVE  net' \in Seq(WholeLines) /\ out' \in Seq(ReplyLines) /\ pending' = pending
  <2>1. out # <<>> /\ net' = Append(net, Head(out)) /\ out' = Tail(out) /\ pending' = pending
    BY <1>3 DEF SendReply, Cross
  <2>2. Head(out) \in WholeLines /\ out' \in Seq(ReplyLines)
    BY <1>2, <2>1, HeadTailProperties, LinesTyped
  <2> QED BY <1>2, <2>1, <2>2, LineAppended
<1>4. ASSUME SendAlert
      PROVE  net' \in Seq(WholeLines) /\ out' \in Seq(ReplyLines) /\ pending' = <<>>
  <2>1. pending # <<>> /\ net' = Append(net, Head(pending)) /\ out' = out /\ pending' = <<>>
    BY <1>4 DEF SendAlert, Cross
  <2>2. PICK a \in 1 .. MaxAlerts : pending = << Alert(a) >>
    BY <1>1, <2>1 DEF WholeOK
  <2>3. Head(pending) \in WholeLines
    BY <2>2, LinesTyped
  <2> QED BY <1>2, <2>1, <2>3, LineAppended
<1>5. Holds(WholeLines, ReplyLines)'
  BY <1>1, <1>3, <1>4, HoldsKept, LinesTyped DEF WholeOK
<1>6. pending' = <<>> \/ \E a \in 1 .. MaxAlerts : pending' = << Alert(a) >>
  <2> USE DEF serverVars, pushVars
  <2>1. CASE Push
    <3>1. raised' \in 1 .. MaxAlerts
      BY <2>1, OperatorClientAssumption DEF Push, TypeOK
    <3> QED BY <2>1, <3>1 DEF Push
  <2>2. CASE SendReply \/ SendAlert
    BY <1>1, <1>3, <1>4, <2>2 DEF WholeOK
  <2>3. ASSUME ~Push, ~SendReply, ~SendAlert PROVE pending' = pending
    <3>1. CASE Connect \/ Ask \/ Send \/ MainLine \/ MainFails \/ Show \/ Interrupted \/ Receive
      BY <3>1 DEF Connect, Ask, Send, MainLine, MainFails, Show, Interrupted, Receive
    <3>2. CASE \E i \in Listeners : Listener(i) \/ ListenerLocks(i)
      BY <3>2 DEF Listener, ListenerLine, ListenerPrints, ListenerTimeout, ListenerEnds, ListenerLocks
    <3>3. CASE Handle \/ Begin \/ Close \/ ServerStops
      BY <3>3 DEF Handle, Begin, Close, ServerStops
    <3>4. CASE UNCHANGED vars
      BY <3>4 DEF vars
    <3> QED BY <2>3, <3>1, <3>2, <3>3, <3>4 DEF Next, MainStep
  <2> QED BY <1>1, <2>1, <2>2, <2>3 DEF WholeOK
<1> QED BY <1>5, <1>6 DEF WholeOK

\* What is out of step stays so.
LEMMA InStepBefore == TypeOK /\ Tidy /\ [Next]_vars /\ InStep' /\ Alive' => InStep
<1> SUFFICES ASSUME TypeOK, Tidy, [Next]_vars, InStep', Alive' PROVE InStep
  OBVIOUS
<1> USE DEF InStep, mainVars, serverVars, replyVars, pushVars
<1>1. asked \in Nat
  BY OperatorClientAssumption DEF TypeOK
<1>2. CASE Ask
  BY <1>1, <1>2 DEF Ask, Tidy
<1>3. CASE ~Ask
  <2>1. UNCHANGED <<single, asked>> /\ (pc = "menu" => pc' \in {"menu", "ended"})
    <3>1. CASE Connect
      BY <3>1 DEF Connect
    <3>2. CASE Send
      BY <3>2 DEF Send
    <3>3. CASE MainLine
      BY <3>3 DEF MainLine
    <3>4. CASE MainFails
      BY <3>4 DEF MainFails
    <3>5. CASE Show
      BY <3>5 DEF Show
    <3>6. CASE \E i \in Listeners : Listener(i) \/ ListenerLocks(i)
      BY <3>6 DEF Listener, ListenerLine, ListenerPrints, ListenerTimeout, ListenerEnds, ListenerLocks
    <3>7. CASE Receive \/ ServerStep
      <4>1. UNCHANGED mainVars
        BY <3>7 DEF Receive, ServerStep, Handle, Begin, SendReply, Close, Push, SendAlert, ServerStops
      <4> QED BY <4>1
    <3>8. CASE Interrupted
      BY <3>8 DEF Interrupted, End
    <3>9. CASE UNCHANGED vars
      BY <3>9 DEF vars
    <3> QED BY <1>3, <3>1, <3>2, <3>3, <3>4, <3>5, <3>6, <3>7, <3>8, <3>9
            DEF Next, MainStep, ServerStep
  <2> QED BY <2>1, CrossedStays DEF Alive
<1> QED BY <1>2, <1>3

LEMMA NextFollowed == TypeOK /\ Followed /\ [Next]_vars => Followed'
<1> SUFFICES ASSUME TypeOK, Followed, [Next]_vars PROVE Followed'
  OBVIOUS
<1> USE DEF Followed, mainVars, threadVars, serverVars, replyVars, pushVars, End
<1>1. CASE Connect
  BY <1>1 DEF Connect
<1>2. CASE Ask
  <2>1. asked' # 0
    BY <1>2, OperatorClientAssumption DEF Ask, TypeOK
  <2> QED BY <1>2, <2>1 DEF Ask
<1>3. CASE Send
  BY <1>3 DEF Send
<1>4. CASE MainLine
  BY <1>4 DEF MainLine
<1>5. CASE MainFails
  BY <1>5 DEF MainFails
<1>6. CASE Show
  <2>1. /\ pc' \in {"menu", "ended"} /\ UNCHANGED <<single, closed, listed, pending>>
        /\ subscribed => subscribed'
        /\ \/ listener' = listener
           \/ subscribed' /\ ~single'
    BY <1>6 DEF Show
  <2> QED BY <2>1
<1>7. ASSUME NEW i \in Listeners, Listener(i) \/ ListenerLocks(i) PROVE Followed'
  <2>1. /\ UNCHANGED mainVars /\ UNCHANGED serverVars /\ listener[i] # "off"
        /\ \E to : listener' = [listener EXCEPT ![i] = to]
    BY <1>7 DEF Listener, ListenerLine, ListenerPrints, ListenerTimeout, ListenerEnds,
                ListenerLocks, GoTo
  <2> QED BY <2>1
<1>8. CASE Receive \/ Interrupted \/ UNCHANGED vars
  BY <1>8 DEF Receive, Interrupted, vars
<1>9. CASE Handle \/ Begin \/ Push
  <2>1. UNCHANGED <<pc, asked, single, subscribed, listener, closed>> /\ ~closed
    BY <1>9 DEF Handle, Begin, Push
  <2>2. listed => listed'
    BY <1>9 DEF Handle, Begin, Push
  <2>3. pending' # <<>> => pending # <<>> \/ listed
    BY <1>9 DEF Handle, Begin, Push
  <2> QED BY <2>1, <2>2, <2>3
<1>10. CASE SendReply \/ SendAlert
  <2>1. pending' # <<>> => pending # <<>>
    <3>1. CASE begun = "alert"
      BY <3>1 DEF TypeOK
    <3>2. CASE begun # "alert"
      BY <1>10, <3>2 DEF SendReply, SendAlert
    <3> QED BY <3>1, <3>2
  <2>2. UNCHANGED <<pc, asked, single, subscribed, listener, closed, listed>>
    BY <1>10 DEF SendReply, SendAlert
  <2> QED BY <2>1, <2>2
<1>11. CASE Close \/ ServerStops
  BY <1>11 DEF Close, ServerStops
<1> QED BY <1>1, <1>2, <1>3, <1>4, <1>5, <1>6, <1>7, <1>8, <1>9, <1>10, <1>11
        DEF Next, MainStep

\* A step that touches neither the stream nor the two ends of the conversation.
LEMMA ConversationKept ==
  ASSUME Conversation, Rest' = Rest,
         UNCHANGED <<pc, cmd, lines, subscribed, inbox, out, served, listed, closing, closed>>
  PROVE  Conversation'
<1>1. Answers' = Answers /\ First' = First /\ Stream' = Stream
  BY DEF Answers, First, Stream
<1>2. Underway' <=> Underway
  BY <1>1 DEF Underway
<1>3. (Reading' <=> Reading) /\ (Replied' <=> Replied) /\ (Idle' <=> Idle)
  BY <1>1, <1>2 DEF Reading, Replied, Idle
<1> QED BY <1>3 DEF Conversation

LEMMA StreamIsRest == WholeOK /\ lines = <<>> => Stream = Rest
BY SequencesTyped, ConcatEmptySeq DEF Stream

\* send() puts its command on the way.
LEMMA SendConverses ==
  ASSUME TypeOK, WholeOK, WholeOK', Conversation, Send
  PROVE  Conversation'
<1>1. CASE pc' = "ended"
  BY <1>1 DEF Conversation
<1>2. CASE pc' # "ended"
  <2>1. /\ pc = "locking" /\ pc' = "reading" /\ Idle
        /\ UNCHANGED <<cmd, lines, subscribed, buf, net, out, listed, closing, closed>>
        /\ \/ ~closed /\ inbox' = Append(inbox, cmd)
           \/ closed /\ inbox' = inbox
    BY <1>2 DEF Send, End, Conversation, streamVars, pushVars
  <2>2. lines = <<>> /\ inbox = <<>> /\ out = <<>> /\ AllPushed(Rest)
    BY <2>1 DEF Idle
  <2>3. Stream' = Rest /\ Answers' = Answers /\ Rest \in Seq(WholeLines)
    <3>1. Rest' = Rest /\ Stream' = Stream /\ Stream = Rest /\ Answers' = Answers
      BY <2>1, <2>2, StreamIsRest DEF Rest, Stream, Answers
    <3> QED BY <3>1, SequencesTyped
  <2>4. WithoutAlerts(Rest, <<>>)
    BY <2>2, <2>3, OnlyAlerts
  <2>5. \/ inbox' = << cmd >> /\ ~closed
        \/ inbox' = <<>> /\ closed
    BY <2>1, <2>2
  <2>6. Underway'
    <3>1. PICK x \in Answers : TRUE
      BY AnswerExists
    <3>2. x \in Seq(ReplyLines)
      BY AnswerShape
    <3>3. <<>> \in Seq(ReplyLines) /\ <<>> \o x = x
      BY <3>2, ConcatEmptySeq, EmptySeq
    <3>4. UNCHANGED <<cmd, out, closing, closed>>
      BY <2>1
    <3>5. ~closing
      BY <2>1 DEF Idle
    <3> QED BY <2>2, <2>3, <2>4, <2>5, <3>1, <3>2, <3>3, <3>4, <3>5 DEF Underway
  <2>7. ~subscribed => ~listed /\ Rest = <<>>
    BY <2>1 DEF Idle
  <2>8. AllReplies(<<>>) /\ Len(<<>>) = 0
    BY DEF AllReplies
  <2>9. Reading'
    BY <2>1, <2>2, <2>3, <2>6, <2>7, <2>8 DEF Reading, Idle
  <2> QED BY <2>1, <2>9 DEF Conversation
<1> QED BY <1>1, <1>2

\* A line that send() does not count: a pushed alert in front of the reply.
LEMMA SkippedLineConverses ==
  ASSUME TypeOK, WholeOK, WholeOK', Conversation, MainLine, Skipped(Head(buf))
  PROVE  Conversation'
<1> DEFINE x == Head(buf)
<1>1. /\ pc = "reading" /\ buf # <<>> /\ buf' = Tail(buf) /\ Reading
      /\ UNCHANGED <<pc, cmd, lines, subscribed, net, inbox, out, served, closing, closed, listed>>
      /\ lines = <<>> /\ subscribed /\ x.word = "ALERT"
  BY DEF MainLine, Skipped, Conversation, serverVars, replyVars, pushVars
<1>2. /\ Rest # <<>> /\ Rest[1] = x /\ Rest' = Tail(Rest) /\ Stream = Rest /\ Stream' = Rest'
      /\ Answers' = Answers /\ First' = First /\ Rest \in Seq(WholeLines) /\ x \in WholeLines
  <2>1. Rest # <<>> /\ Rest[1] = x /\ Rest' = Tail(Rest) /\ Rest' \in Seq(WholeLines)
        /\ x \in WholeLines
    BY <1>1, RestTaken
  <2>2. Stream = Rest /\ Answers' = Answers /\ First' = First /\ Rest \in Seq(WholeLines)
    BY <1>1, StreamIsRest, SequencesTyped DEF Answers, First
  <2>3. Stream' = Rest'
    BY <1>1, <2>1, ConcatEmptySeq DEF Stream
  <2> QED BY <2>1, <2>2, <2>3
<1>3. PICK z \in Answers, r \in Seq(ReplyLines), q \in Seq(ReplyLines) :
        /\ r \o q = z /\ WithoutAlerts(Stream, r)
        /\ \/ inbox = << cmd >> /\ out = <<>> /\ r = <<>> /\ ~closed /\ ~closing
           \/ inbox = <<>> /\ out = q /\ ~closed /\ z = served
           \/ inbox = <<>> /\ out = <<>> /\ closed /\ (r = <<>> \/ z = served)
  BY <1>1 DEF Reading, Underway
<1> HIDE DEF x
<1>4. x.pushed
  <2>1. SUFFICES ASSUME ~x.pushed PROVE FALSE
    OBVIOUS
  <2>2. Len(r) > 0 /\ r[1] = x
    BY <1>2, <1>3, <2>1, FirstOfReply
  <2>3. Len(r) \in Nat /\ \A k \in 1 .. Len(r) : r[k] = z[k]
    BY <1>3, Parts
  <2>4. z[1] = x
    BY <2>2, <2>3
  <2> QED BY <1>1, <2>4, AnswerShape, FirstShape DEF x
<1>5. WithoutAlerts(Stream', r)
  BY <1>2, <1>3, <1>4, AlertTaken
<1>6. UNCHANGED <<inbox, out, served, closing, closed, cmd>>
  BY <1>1
<1>7. Underway'
  BY <1>2, <1>3, <1>5, <1>6 DEF Underway
<1>8. Reading'
  BY <1>1, <1>2, <1>7 DEF Reading
<1> QED BY <1>1, <1>8 DEF Conversation

\* A line that send() counts, the last one perhaps.
LEMMA ReplyLineConverses ==
  ASSUME TypeOK, WholeOK, WholeOK', Conversation, MainLine, ~Skipped(Head(buf))
  PROVE  Conversation'
<1> DEFINE x == Head(buf)
<1>1. /\ pc = "reading" /\ buf # <<>> /\ buf' = Tail(buf) /\ Reading
      /\ UNCHANGED <<cmd, subscribed, net, inbox, out, served, closing, closed, listed>>
      /\ lines' = Append(lines, x)
      /\ IF Complete(lines') THEN pc' = "showing" ELSE pc' = pc
  BY DEF MainLine, Conversation, serverVars, replyVars, pushVars
<1>2. /\ Rest # <<>> /\ Rest[1] = x /\ Stream' = Stream /\ Answers' = Answers /\ First' = First
      /\ Stream' = lines' \o Rest' /\ Rest' \in Seq(WholeLines) /\ x \in WholeLines
      /\ lines \in Seq(WholeLines) /\ lines' \in Seq(WholeLines) /\ Stream \in Seq(WholeLines)
  <2>1. lines' \in Seq(WholeLines) /\ Stream' = lines' \o Rest'
        /\ Answers' = Answers /\ First' = First
    BY <1>1 DEF WholeOK, Holds, Stream, Answers, First
  <2> QED BY <1>1, <2>1, RestTaken, StreamKept, SequencesTyped
<1>3. PICK z \in Answers, r \in Seq(ReplyLines), q \in Seq(ReplyLines) :
        /\ r \o q = z /\ WithoutAlerts(Stream, r)
        /\ \/ inbox = << cmd >> /\ out = <<>> /\ r = <<>> /\ ~closed /\ ~closing
           \/ inbox = <<>> /\ out = q /\ ~closed /\ z = served
           \/ inbox = <<>> /\ out = <<>> /\ closed /\ (r = <<>> \/ z = served)
  BY <1>1 DEF Reading, Underway
<1>4. /\ Len(r) \in Nat /\ Len(q) \in Nat /\ Len(z) = Len(r) + Len(q)
      /\ \A k \in 1 .. Len(r) : k \in 1 .. Len(z) /\ r[k] = z[k]
      /\ q = <<>> => r = z
  BY <1>3, Parts
<1>5. /\ Len(lines) \in Nat /\ Len(lines') = Len(lines) + 1 /\ lines' # <<>>
      /\ lines'[Len(lines')] = x
      /\ \A k \in 1 .. Len(lines') : k \in 1 .. Len(lines) \/ lines'[k] = x
      /\ \A k \in 1 .. Len(lines) : lines'[k] = lines[k]
      /\ lines = <<>> <=> Len(lines) = 0
  <2>1. Len(lines) \in Nat /\ (lines = <<>> <=> Len(lines) = 0)
    BY <1>2, LenProperties, EmptySeq
  <2>2. /\ Len(lines') = Len(lines) + 1 /\ lines'[Len(lines) + 1] = x
        /\ \A k \in 1 .. Len(lines) : lines'[k] = lines[k]
    BY <1>1, <1>2, AppendProperties
  <2>3. lines' # <<>>
    BY <2>1, <2>2, EmptySeq
  <2> QED BY <2>1, <2>2, <2>3
<1> HIDE DEF x
<1>6. ASSUME lines = <<>> PROVE ~x.pushed /\ x = First
  <2>1. Stream = Rest /\ Stream # <<>> /\ Stream[1] = x
    BY <1>2, <1>6, StreamIsRest
  <2>2. ~x.pushed
    <3>1. SUFFICES ASSUME x.pushed PROVE FALSE
      OBVIOUS
    <3>2. x.word = "ALERT"
      BY <1>2, <3>1, LineKinds
    <3>3. ~subscribed
      BY <1>6, <3>2 DEF Skipped, x
    <3> QED BY <1>1, <2>1, <3>1, <3>3 DEF Reading
  <2>3. Len(r) > 0 /\ r[1] = x
    BY <1>2, <1>3, <2>1, <2>2, FirstOfReply
  <2>4. 1 \in 1 .. Len(r)
    BY <1>4, <2>3
  <2> QED BY <1>4, <2>2, <2>3, <2>4, AnswerShape
<1>7. lines # <<>> => lines[1] = First /\ cmd.kind = "GET_ALERTS"
  BY <1>1 DEF Reading
<1>8. lines'[1] = First /\ Head(lines') = lines'[1]
  <2>1. CASE lines = <<>>
    BY <1>5, <1>6, <2>1
  <2>2. CASE lines # <<>>
    <3>1. 1 \in 1 .. Len(lines)
      BY <1>5, <2>2
    <3> QED BY <1>5, <1>7, <2>2, <3>1
  <2> QED BY <2>1, <2>2
<1>9. Complete(lines') <=> cmd.kind # "GET_ALERTS" \/ x.word = "END"
  BY <1>5, <1>8, FirstShape DEF Complete
<1>10. CASE ~Complete(lines')
  <2>1. cmd.kind = "GET_ALERTS" /\ x.word # "END" /\ pc' = "reading"
    BY <1>1, <1>9, <1>10
  <2>2. \A k \in 1 .. Len(lines') : lines'[k].word # "END"
    BY <1>1, <1>5, <2>1 DEF Reading
  <2>3. Underway'
    <3>1. UNCHANGED <<inbox, out, served, closing, closed, cmd>>
      BY <1>1
    <3> QED BY <1>2, <1>3, <3>1 DEF Underway
  <2>4. Reading'
    BY <1>1, <1>2, <1>8, <2>1, <2>2, <2>3 DEF Reading
  <2> QED BY <2>1, <2>4 DEF Conversation
<1>11. CASE Complete(lines')
  <2>1. pc' = "showing" /\ (cmd.kind # "GET_ALERTS" \/ x.word = "END")
    BY <1>1, <1>9, <1>11
  <2>2. ~x.pushed
    <3>1. x.word = "END" => ~x.pushed
      BY <1>2, LineKinds
    <3> QED BY <1>6, <1>7, <2>1, <3>1
  <2>3. ASSUME NEW k \in 1 .. Len(r), r[k] = x PROVE k = Len(r) /\ Len(r) = Len(z)
    <3>1. k \in 1 .. Len(z) /\ z[k] = x
      BY <1>4, <2>3
    <3>2. cmd.kind # "GET_ALERTS" => Len(z) = 1
      BY AnswerShape
    <3>3. x.word = "END" => k = Len(z)
      BY <3>1, AnswerShape
    <3>4. k = Len(z)
      <4>1. CASE x.word = "END"
        BY <3>3, <4>1
      <4>2. CASE cmd.kind # "GET_ALERTS"
        <5>1. Len(z) = 1 /\ k \in 1 .. Len(z)
          BY <3>1, <3>2, <4>2
        <5> HIDE DEF Answers
        <5> QED BY ONLY <5>1
      <4> QED BY <2>1, <4>1, <4>2
    <3> QED BY <1>4, <3>4
  <2>4. \A k \in 1 .. Len(r) : r[k] = lines'[Len(lines')] => k = Len(r)
    BY <1>5, <2>3
  <2>5. /\ WithoutAlerts(lines', r) /\ AllPushed(Rest')
        /\ Len(r) > 0 /\ r[Len(r)] = x
    <3>1. WithoutAlerts(lines' \o Rest', r) /\ ~lines'[Len(lines')].pushed
      BY <1>2, <1>3, <1>5, <2>2
    <3>2. /\ WithoutAlerts(lines', r) /\ AllPushed(Rest')
          /\ Len(r) > 0 /\ r[Len(r)] = lines'[Len(lines')]
      BY <1>2, <1>5, <2>4, <3>1, LastOfReply
    <3> QED BY <1>5, <3>2
  <2>6. q = <<>> /\ r = z /\ r # <<>>
    <3>1. Len(r) \in 1 .. Len(r)
      BY <1>4, <2>5
    <3>2. Len(r) = Len(z)
      BY <2>3, <2>5, <3>1
    <3>3. Len(q) = 0
      BY <1>4, <3>2
    <3> QED BY <1>4, <2>5, <3>3, EmptySeq
  <2>7. inbox' = <<>> /\ out' = <<>> /\ served' = r /\ served' \in Answers'
    BY <1>1, <1>2, <1>3, <2>6
  <2>8. ~subscribed => cmd.kind = "SUBSCRIBE_ALERTS" \/ (~listed /\ Rest' = <<>>)
    <3>1. SUFFICES ASSUME ~listed, AllReplies(Stream) PROVE Rest' = <<>>
      BY <1>1 DEF Reading
    <3> QED BY <1>2, <2>5, <3>1, RepliesBehind
  <2>9. Replied'
    <3>1. WithoutAlerts(lines', served')
      BY <2>5, <2>7
    <3>2. closing => cmd.kind = "QUIT"
      BY <1>1 DEF Reading
    <3> QED BY <1>1, <1>2, <1>5, <1>8, <2>5, <2>7, <2>8, <3>1, <3>2 DEF Replied
  <2> QED BY <2>1, <2>9 DEF Conversation
<1> QED BY <1>10, <1>11

\* The reply is shown: a confirmed subscription is noted before the next command.
LEMMA ShowConverses ==
  ASSUME TypeOK, WholeOK, Tidy, Followed, Conversation, InStep', Show
  PROVE  Conversation'
<1>1. /\ pc = "showing" /\ pc' \in {"menu", "ended"} /\ Replied
      /\ lines' = <<>> /\ UNCHANGED <<single, asked, buf, net, inbox, out, listed, closing>>
      /\ asked # 0 /\ single => asked <= 2 /\ asked \in Nat
  <2>1. asked \in Nat
    BY OperatorClientAssumption DEF TypeOK
  <2> QED BY <2>1 DEF Show, End, Conversation, streamVars, serverVars, replyVars, pushVars,
              Followed, Tidy
<1>2. CASE pc' = "ended"
  BY <1>2 DEF Conversation
<1>3. CASE pc' = "menu"
  <2>1. ~single
    <3>1. single => asked # 2 /\ asked # 1
      BY <1>1, <1>3 DEF InStep
    <3> QED BY <1>1, <3>1 DEF Followed
  <2>2. ASSUME ~subscribed' PROVE ~listed' /\ Rest = <<>>
    <3>1. ~subscribed /\ ~(cmd.kind = "SUBSCRIBE_ALERTS" /\ Head(lines).word = "OK|SUBSCRIBED")
      BY <2>1, <2>2 DEF Show
    <3>2. lines # <<>> /\ lines[1] = First /\ Head(lines) = lines[1]
      BY <1>1 DEF Replied
    <3>3. cmd.kind = "SUBSCRIBE_ALERTS" => First.word = "OK|SUBSCRIBED"
      BY FirstShape
    <3> QED BY <1>1, <3>1, <3>2, <3>3 DEF Replied
  <2>3. Rest' = Rest
    BY <1>1 DEF Rest
  <2>4. ~closing
    <3>1. cmd.kind # "QUIT"
      BY <1>3, <2>1 DEF Show, End
    <3> QED BY <1>1, <3>1 DEF Replied
  <2>5. Idle'
    BY <1>1, <2>2, <2>3, <2>4 DEF Idle, Replied
  <2> QED BY <1>3, <2>5 DEF Conversation
<1> QED BY <1>1, <1>2, <1>3

\* A listener reads while no reply is expected, so it gets an alert.
LEMMA ListenerLineConverses ==
  ASSUME TypeOK, WholeOK, LockInv, Followed, Conversation, NEW i \in Listeners, ListenerLine(i)
  PROVE  Conversation' /\ Head(buf).pushed
<1>1. /\ Alive /\ listener[i] = "reading" /\ buf # <<>> /\ buf' = Tail(buf)
      /\ UNCHANGED <<pc, cmd, lines, subscribed, net, inbox, out, served, listed, closing, closed>>
      /\ subscribed
  BY DEF ListenerLine, GoTo, mainVars, serverVars, replyVars, pushVars, Followed
<1>2. pc # "reading" /\ pc # "ended"
  BY <1>1 DEF LockInv, LockIsTheReaders, Alive, Main, Listeners
<1>3. AllPushed(Rest) /\ Rest \in Seq(WholeLines)
  BY <1>2, SequencesTyped DEF Conversation, Idle, Replied, TypeOK
<1>4. Rest # <<>> /\ Rest[1] = Head(buf) /\ Rest' = Tail(Rest)
  BY <1>1, RestTaken
<1>5. Head(buf).pushed /\ AllPushed(Rest')
  BY <1>3, <1>4, PushedTail
<1>6. Answers' = Answers /\ First' = First
  BY <1>1 DEF Answers, First
<1>7. Conversation'
  BY <1>1, <1>2, <1>5, <1>6 DEF Conversation, Idle, Replied
<1> QED BY <1>5, <1>7

\* The server takes the command and has the whole reply to send.
LEMMA HandleConverses ==
  ASSUME TypeOK, WholeOK, WholeOK', Conversation, Handle
  PROVE  Conversation'
<1>1. /\ pc # "ended" /\ inbox # <<>> /\ ~closed
      /\ served' \in Replies(Head(inbox).kind, Head(inbox).number) /\ out' = served'
      /\ inbox' = Tail(inbox) /\ closing' = (Head(inbox).kind = "QUIT")
      /\ Head(inbox).kind # "SUBSCRIBE_ALERTS" => listed' = listed
      /\ UNCHANGED <<pc, cmd, lines, subscribed, buf, net, closed>>
  BY DEF Handle, Alive, mainVars, streamVars
<1>2. pc = "reading" /\ Reading
  BY <1>1 DEF Conversation, Idle, Replied, TypeOK
<1>3. inbox = << cmd >> /\ WithoutAlerts(Stream, <<>>)
  BY <1>1, <1>2 DEF Reading, Underway
<1>4. Head(inbox) = cmd /\ inbox' = <<>>
  BY <1>3, <1>1
<1>5. Rest' = Rest /\ Stream' = Stream /\ Answers' = Answers /\ First' = First
  BY <1>1 DEF Rest, Stream, Answers, First
<1>6. served' \in Answers
  BY <1>1, <1>4 DEF Answers
<1>7. served' \in Seq(ReplyLines) /\ <<>> \in Seq(ReplyLines) /\ <<>> \o served' = served'
  <2>1. served' \in Seq(ReplyLines)
    BY <1>6, AnswerShape
  <2> QED BY <2>1, ConcatEmptySeq, EmptySeq
<1>8. Underway'
  BY <1>1, <1>3, <1>4, <1>5, <1>6, <1>7 DEF Underway
<1>9. closing' => cmd.kind = "QUIT"
  BY <1>1, <1>4
<1>10. ~subscribed => /\ Stream # <<>> => ~Stream[1].pushed
                      /\ \/ cmd.kind = "SUBSCRIBE_ALERTS"
                         \/ ~listed' /\ AllReplies(Stream)
  <2>1. cmd.kind # "SUBSCRIBE_ALERTS" => listed' = listed
    BY <1>1, <1>4
  <2> QED BY <1>2, <2>1 DEF Reading
<1>11. Reading'
  BY <1>1, <1>2, <1>4, <1>5, <1>8, <1>9, <1>10 DEF Reading
<1> QED BY <1>1, <1>2, <1>11 DEF Conversation

\* A line of the reply gets on its way.
LEMMA SendReplyConverses ==
  ASSUME TypeOK, WholeOK, WholeOK', Conversation, ~crossed', SendReply
  PROVE  Conversation'
<1> DEFINE x == Head(out)
<1>1. /\ pc # "ended" /\ out # <<>> /\ ~closed
      /\ net' = Append(net, x) /\ out' = Tail(out)
      /\ UNCHANGED <<pc, cmd, lines, subscribed, buf, inbox, served, listed, closing, closed>>
  BY DEF SendReply, Cross, Alive, mainVars
<1>2. pc = "reading" /\ Reading
  BY <1>1 DEF Conversation, Idle, Replied, TypeOK
<1>3. PICK r \in Seq(ReplyLines), q \in Seq(ReplyLines) :
        /\ served \in Answers /\ r \o q = served /\ WithoutAlerts(Stream, r)
        /\ inbox = <<>> /\ out = q
  BY <1>1, <1>2 DEF Reading, Underway
<1>4. /\ x \in ReplyLines /\ Tail(q) \in Seq(ReplyLines) /\ << x >> \in Seq(ReplyLines)
      /\ q = << x >> \o Tail(q)
  BY <1>1, <1>3, TakeFirst
<1>5. x \in WholeLines /\ ~x.pushed /\ Rest \in Seq(WholeLines) /\ Stream \in Seq(WholeLines)
  BY <1>4, LinesTyped, LineKinds, SequencesTyped
<1>6. Stream' = Append(Stream, x) /\ Answers' = Answers /\ First' = First
  BY <1>1, <1>5, RestSent DEF Answers, First
<1>7. (r \o << x >>) \o Tail(q) = r \o (<< x >> \o Tail(q))
  BY <1>4, ConcatAssociative
<1>8. Append(r, x) = r \o << x >> /\ Append(r, x) \in Seq(ReplyLines)
  BY <1>4, AppendIsConcat, AppendProperties
<1>9. WithoutAlerts(Stream', Append(r, x))
  BY <1>3, <1>4, <1>5, <1>6, ReplyAtEnd
<1>10. Underway'
  <2>1. /\ Append(r, x) \o Tail(q) = served' /\ served' \in Answers' /\ ~closed'
        /\ inbox' = <<>> /\ out' = Tail(q)
    BY <1>1, <1>3, <1>4, <1>6, <1>7, <1>8
  <2> QED BY <1>4, <1>8, <1>9, <2>1 DEF Underway
<1>11. /\ Stream # <<>> => Stream'[1] = Stream[1]
       /\ Stream = <<>> => Stream'[1] = x
       /\ AllReplies(Stream) => AllReplies(Stream')
  BY <1>5, <1>6, ReplyAppend
<1> HIDE DEF x
<1>12. Reading'
  BY <1>1, <1>2, <1>3, <1>5, <1>6, <1>10, <1>11 DEF Reading
<1> QED BY <1>1, <1>2, <1>12 DEF Conversation

\* An alert is sent: unless it overtakes the OK|SUBSCRIBED, it comes after a line of the
\* reply or to an operator that expects it.
LEMMA SendAlertConverses ==
  ASSUME TypeOK, WholeOK, WholeOK', Followed, Conversation, ~crossed', SendAlert
  PROVE  Conversation'
<1> DEFINE x == Head(pending)
<1>1. /\ pc # "ended" /\ listed /\ net' = Append(net, x) /\ ~closed
      /\ UNCHANGED <<pc, cmd, lines, subscribed, buf, inbox, out, served, listed, closing, closed>>
      /\ ~(~subscribed /\ out # <<>> /\ Head(out).word = "OK|SUBSCRIBED")
  BY DEF SendAlert, Cross, Alive, mainVars, Followed
<1>2. x \in WholeLines /\ x.pushed
  <2>1. PICK a \in 1 .. MaxAlerts : pending = << Alert(a) >>
    BY DEF SendAlert, WholeOK
  <2>2. x = Alert(a)
    BY <2>1
  <2> QED BY <2>2, LinesTyped DEF Alert
<1>3. /\ Rest \in Seq(WholeLines) /\ Stream \in Seq(WholeLines)
      /\ Answers' = Answers /\ First' = First
      /\ Rest' = Append(Rest, x) /\ Stream' = Append(Stream, x)
  BY <1>1, <1>2, SequencesTyped, RestSent DEF Answers, First
<1> HIDE DEF x
<1>4. CASE pc # "reading"
  <2>1. AllPushed(Rest) => AllPushed(Rest')
    BY <1>2, <1>3, PushedAppend
  <2>2. CASE pc = "showing"
    BY <1>1, <1>3, <2>1, <2>2 DEF Conversation, Replied
  <2>3. CASE pc \in {"connecting", "menu", "locking"}
    BY <1>1, <1>3, <2>1, <2>3 DEF Conversation, Idle
  <2> QED BY <1>1, <1>4, <2>2, <2>3 DEF TypeOK
<1>5. CASE pc = "reading"
  <2>1. Reading
    BY <1>5 DEF Conversation
  <2>2. PICK z \in Answers, r \in Seq(ReplyLines), q \in Seq(ReplyLines) :
          /\ r \o q = z /\ WithoutAlerts(Stream, r)
          /\ \/ inbox = << cmd >> /\ out = <<>> /\ r = <<>> /\ ~closing
             \/ inbox = <<>> /\ out = q /\ z = served
    BY <1>1, <2>1 DEF Reading, Underway
  <2>3. WithoutAlerts(Stream', r)
    BY <1>2, <1>3, <2>2, AlertAtEnd
  <2>4. Underway'
    <3>1. UNCHANGED <<inbox, out, served, closing, closed, cmd>> /\ ~closed
      BY <1>1
    <3> QED BY <1>3, <2>2, <2>3, <3>1 DEF Underway
  <2>5. ASSUME ~subscribed
        PROVE  /\ cmd.kind = "SUBSCRIBE_ALERTS" /\ inbox = <<>>
               /\ Stream # <<>> /\ ~Stream[1].pushed
    <3>1. cmd.kind = "SUBSCRIBE_ALERTS" /\ inbox = <<>>
      BY <1>1, <2>1, <2>5 DEF Reading
    <3>2. ASSUME Stream = <<>> PROVE FALSE
      <4>1. r = <<>>
        BY <2>2, <3>2, NothingFound
      <4>2. q = z /\ out = q
        BY <2>2, <3>1, <4>1, Parts
      <4>3. Len(z) # 0 /\ z[1] = First
        BY AnswerShape
      <4>4. z # <<>> /\ Head(z) = First
        BY <4>3, EmptySeq
      <4>5. First.word = "OK|SUBSCRIBED"
        BY <3>1, FirstShape
      <4> QED BY <1>1, <2>5, <4>2, <4>4, <4>5
    <3> QED BY <2>1, <2>5, <3>1, <3>2 DEF Reading
  <2>6. Stream # <<>> => Stream'[1] = Stream[1]
    BY <1>2, <1>3, ReplyAppend
  <2>7. Reading'
    BY <1>1, <1>3, <2>1, <2>4, <2>5, <2>6 DEF Reading
  <2> QED BY <1>1, <1>5, <2>7 DEF Conversation
<1> QED BY <1>4, <1>5

\* The connection is closed after the reply to QUIT.
LEMMA CloseConverses ==
  ASSUME Conversation, Close
  PROVE  Conversation'
<1>1. /\ closing /\ ~closed /\ out = <<>> /\ closed' /\ ~listed'
      /\ UNCHANGED <<pc, cmd, lines, subscribed, buf, net, inbox, out, served, closing>>
  BY DEF Close, mainVars, streamVars
<1>2. Rest' = Rest /\ Stream' = Stream /\ Answers' = Answers /\ First' = First
  BY <1>1 DEF Rest, Stream, Answers, First
<1>3. Underway => Underway'
  BY <1>1, <1>2 DEF Underway
<1>4. Reading => Reading'
  BY <1>1, <1>2, <1>3 DEF Reading
<1>5. (Idle => Idle') /\ (Replied => Replied')
  BY <1>1, <1>2 DEF Idle, Replied
<1> QED BY <1>1, <1>4, <1>5 DEF Conversation

\* The server stops: what it had not sent yet never comes.
LEMMA ServerStopsConverses ==
  ASSUME Conversation, ServerStops
  PROVE  Conversation'
<1>1. /\ closed' /\ ~listed' /\ inbox' = <<>> /\ out' = <<>>
      /\ UNCHANGED <<pc, cmd, lines, subscribed, buf, net, served, closing>>
  BY DEF ServerStops, mainVars, streamVars
<1>2. Rest' = Rest /\ Stream' = Stream /\ Answers' = Answers /\ First' = First
  BY <1>1 DEF Rest, Stream, Answers, First
<1>3. Underway => Underway'
  BY <1>1, <1>2 DEF Underway
<1>4. Reading => Reading'
  BY <1>1, <1>2, <1>3 DEF Reading
<1>5. (Idle => Idle') /\ (Replied => Replied')
  BY <1>1, <1>2 DEF Idle, Replied
<1> QED BY <1>1, <1>4, <1>5 DEF Conversation

LEMMA NextConversation ==
  ASSUME TypeOK, WholeOK, WholeOK', LockInv, Tidy, Followed, Conversation, InStep', [Next]_vars
  PROVE  Conversation'
<1> USE DEF mainVars, threadVars, streamVars, serverVars, replyVars, pushVars
<1>0. ~crossed'
  BY DEF InStep
<1>1. CASE Connect
  <2>1. /\ pc = "connecting" /\ pc' \in {"menu", "ended"}
        /\ UNCHANGED <<lines, subscribed, buf, net, inbox, out, listed, closing>>
    BY <1>1 DEF Connect, End
  <2>2. Rest' = Rest
    BY <2>1 DEF Rest
  <2> QED BY <2>1, <2>2 DEF Conversation, Idle
<1>2. CASE Ask
  <2>1. /\ pc = "menu" /\ pc' = "locking" /\ lines' = <<>>
        /\ UNCHANGED <<subscribed, buf, net, inbox, out, listed, closing>>
    BY <1>2 DEF Ask
  <2>2. Rest' = Rest
    BY <2>1 DEF Rest
  <2> QED BY <2>1, <2>2 DEF Conversation, Idle
<1>3. CASE Send
  BY <1>3, SendConverses
<1>4. CASE MainLine
  BY <1>4, SkippedLineConverses, ReplyLineConverses
<1>5. CASE MainFails \/ Interrupted
  BY <1>5 DEF MainFails, Interrupted, End, Conversation
<1>6. CASE Show
  BY <1>6, ShowConverses
<1>7. ASSUME NEW i \in Listeners, Listener(i) \/ ListenerLocks(i) PROVE Conversation'
  <2>1. CASE ListenerLine(i)
    BY <2>1, ListenerLineConverses
  <2>2. CASE ListenerPrints(i) \/ ListenerTimeout(i) \/ ListenerEnds(i) \/ ListenerLocks(i)
    <3>1. UNCHANGED <<pc, cmd, lines, subscribed, buf, net, inbox, out, served, listed, closing, closed>>
      BY <2>2 DEF ListenerPrints, ListenerTimeout, ListenerEnds, ListenerLocks
    <3>2. Rest' = Rest
      BY <3>1 DEF Rest
    <3> QED BY <3>1, <3>2, ConversationKept
  <2> QED BY <1>7, <2>1, <2>2 DEF Listener
<1>8. CASE Receive
  <2>1. UNCHANGED <<pc, cmd, lines, subscribed, inbox, out, served, listed, closing, closed>>
    BY <1>8 DEF Receive
  <2> QED BY <1>8, <2>1, RestReceived, ConversationKept
<1>9. CASE Handle
  BY <1>9, HandleConverses
<1>10. CASE SendReply
  BY <1>0, <1>10, SendReplyConverses
<1>11. CASE SendAlert
  BY <1>0, <1>11, SendAlertConverses
<1>12. CASE Close
  BY <1>12, CloseConverses
<1>13. CASE ServerStops
  BY <1>13, ServerStopsConverses
<1>14. CASE Begin \/ Push \/ UNCHANGED vars
  <2>1. UNCHANGED <<pc, cmd, lines, subscribed, buf, net, inbox, out, served, listed, closing, closed>>
    BY <1>14 DEF Begin, Push, vars
  <2>2. Rest' = Rest
    BY <2>1 DEF Rest
  <2> QED BY <2>1, <2>2, ConversationKept
<1> QED BY <1>1, <1>2, <1>3, <1>4, <1>5, <1>6, <1>7, <1>8, <1>9, <1>10, <1>11, <1>12, <1>13,
           <1>14 DEF Next, MainStep

LEMMA NextListenersSee ==
  TypeOK /\ LockInv /\ Tidy /\ ReplyInv /\ [Next]_vars => ListenersSeeAlerts'
<1> SUFFICES ASSUME TypeOK, LockInv, Tidy, ReplyInv, [Next]_vars, ~crossed',
                    NEW k \in Listeners, listener'[k] = "printing"
             PROVE  hand'[k].pushed
  BY DEF ListenersSeeAlerts
<1>1. ~crossed
  BY CrossedStays
<1>2. CASE listener[k] = "printing" /\ hand'[k] = hand[k]
  BY <1>1, <1>2 DEF ReplyInv, ListenersSeeAlerts
<1>3. CASE ListenerLine(k)
  <2>1. InStep /\ WholeOK
    BY <1>1, <1>3 DEF InStep, ListenerLine, GoTo, ReplyInv, Followed
  <2>2. Head(buf).pushed
    BY <1>3, <2>1, ListenerLineConverses DEF ReplyInv
  <2> QED BY <1>3, <2>2 DEF ListenerLine, TypeOK
<1>4. ASSUME ~ListenerLine(k) PROVE listener[k] = "printing" /\ hand'[k] = hand[k]
  <2> USE DEF threadVars
  <2>1. CASE Show
    BY <2>1 DEF Show, TypeOK
  <2>2. ASSUME NEW i \in Listeners, Listener(i) \/ ListenerLocks(i)
        PROVE  listener[k] = "printing" /\ hand'[k] = hand[k]
    <3>1. CASE ListenerLine(i)
      <4>1. i # k
        BY <1>4, <3>1
      <4> QED BY <3>1, <4>1 DEF ListenerLine, GoTo, TypeOK
    <3>2. CASE ListenerPrints(i)
      BY <3>2 DEF ListenerPrints, GoTo, TypeOK
    <3>3. CASE ListenerTimeout(i) \/ ListenerEnds(i) \/ ListenerLocks(i)
      BY <3>3 DEF ListenerTimeout, ListenerEnds, ListenerLocks, GoTo, TypeOK
    <3> QED BY <2>2, <3>1, <3>2, <3>3 DEF Listener
  <2>3. CASE UNCHANGED threadVars
    BY <2>3
  <2>4. ASSUME ~Show, ~(\E i \in Listeners : Listener(i) \/ ListenerLocks(i))
        PROVE  UNCHANGED threadVars
    <3>1. CASE Connect \/ Ask \/ Send \/ MainLine \/ MainFails \/ Interrupted \/ Receive
      BY <3>1 DEF Connect, Ask, Send, MainLine, MainFails, Interrupted, Receive
    <3>2. CASE ServerStep
      BY <3>2 DEF ServerStep, Handle, Begin, SendReply, Close, Push, SendAlert, ServerStops
    <3>3. CASE UNCHANGED vars
      BY <3>3 DEF vars
    <3> QED BY <2>4, <3>1, <3>2, <3>3 DEF Next, MainStep, ServerStep
  <2> QED BY <2>1, <2>2, <2>3, <2>4
<1> QED BY <1>2, <1>3, <1>4

LEMMA NextReply ==
  TypeOK /\ TypeOK' /\ LockInv /\ Tidy /\ ReplyInv /\ [Next]_vars => ReplyInv'
<1> SUFFICES ASSUME TypeOK, TypeOK', LockInv, Tidy, ReplyInv, [Next]_vars PROVE ReplyInv'
  OBVIOUS
<1>1. Followed' /\ (~crossed' => WholeOK') /\ ListenersSeeAlerts'
  BY NextFollowed, NextWhole, NextListenersSee DEF ReplyInv
<1>2. ASSUME InStep' PROVE Conversation'
  <2>1. CASE Alive'
    <3>1. InStep /\ ~crossed /\ ~crossed'
      BY <1>2, <2>1, InStepBefore DEF InStep
    <3>2. WholeOK /\ WholeOK' /\ Followed /\ Conversation
      BY <1>1, <3>1 DEF ReplyInv
    <3> QED BY <1>2, <3>2, NextConversation
  <2>2. CASE ~Alive'
    BY <2>2 DEF Alive, Conversation
  <2> QED BY <2>1, <2>2
<1> QED BY <1>1, <1>2 DEF ReplyInv

\* With --cmd only the reply to QUIT may be out of step, and it is not displayed.
LEMMA DisplayedMatches == TypeOK /\ ReplyInv => RepliesMatchUnlessCrossed
<1> SUFFICES ASSUME TypeOK, ReplyInv, ~crossed, Displayed
             PROVE  served \in Replies(cmd.kind, cmd.number) /\ WithoutAlerts(lines, served)
  BY DEF RepliesMatchUnlessCrossed, RepliesMatch
<1>1. pc = "showing" /\ InStep
  BY DEF Displayed, InStep
<1>2. Replied
  BY <1>1 DEF ReplyInv, Conversation
<1> QED BY <1>2 DEF Replied, Answers

LEMMA ReplyInvariant == Spec => [](TypeOK /\ ReplyInv)
<1>1. Init => TypeOK /\ LockInv /\ Tidy /\ ReplyInv
  BY InitTyped, InitOK, InitConserved, InitReply DEF ConservedInv
<1>2. (TypeOK /\ LockInv /\ Tidy /\ ReplyInv) /\ [Next]_vars
        => (TypeOK /\ LockInv /\ Tidy /\ ReplyInv)'
  BY NextTyped, NextOK, NextTidy, NextReply
<1> QED BY <1>1, <1>2, PTL DEF Spec

\* Whatever the listeners read in between, wherever alerts fall and however much of a
\* reply fitted the server's buffer, the lines of every reply displayed are all that the
\* server made of that command, in order, unless an alert overtook an OK|SUBSCRIBED or got
\* into a line that was half sent.
THEOREM RepliesAreRight == Spec => []RepliesMatchUnlessCrossed
<1>1. TypeOK /\ ReplyInv => RepliesMatchUnlessCrossed
  BY DisplayedMatches
<1> QED BY <1>1, ReplyInvariant, PTL

\* With the same exceptions a listener only ever takes pushed alerts off the stream.
THEOREM ListenersGetAlerts == Spec => []ListenersSeeAlerts
<1>1. TypeOK /\ ReplyInv => ListenersSeeAlerts
  BY DEF ReplyInv
<1> QED BY <1>1, ReplyInvariant, PTL
=============================================================================
