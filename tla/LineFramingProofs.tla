-------------------------- MODULE LineFramingProofs --------------------------
(***************************************************************************)
(* Proofs about LineFraming, for every MAX_LINE above 0, every stream and  *)
(* every way to cut it into segments.                                      *)
(***************************************************************************)
EXTENDS LineFraming, TLAPS

Answer == [nl : Nat, too_long : BOOLEAN, text : SUBSET Nat]

Typed ==
  /\ pc \in {"recv", "scan", "closed"}
  /\ received \in Nat /\ start \in Nat /\ start <= received
  /\ overflow \in BOOLEAN
  /\ answers \in Seq(Answer)

\* With the flag down, the buffer begins with the first unanswered line; with it up, the
\* line began at least MAX_LINE bytes before and has not ended.
BufferHoldsLine ==
  /\ ~overflow => start = Promise!LineStart
  /\ overflow => /\ start - Promise!LineStart >= MaxLine
                 /\ \A k \in Promise!LineStart .. start - 1 : k \notin Newlines

\* recv() is called with less than a full line in the buffer, and no newline.
ScannedBeforeRecv ==
  pc = "recv" =>
    received - start < MaxLine /\ \A k \in start .. received - 1 : k \notin Newlines

IInv == Typed /\ BufferHoldsLine /\ ScannedBeforeRecv

\* The first unanswered line begins at 0 or after a newline answered.
LEMMA LineStartIsNat ==
  ASSUME answers \in Seq(Answer)
  PROVE  Promise!LineStart \in Nat
<1>1. CASE answers = <<>>
  BY <1>1 DEF Promise!LineStart
<1>2. CASE answers # <<>>
  <2>1. Len(answers) \in 1 .. Len(answers)
    BY <1>2
  <2>2. answers[Len(answers)] \in Answer
    BY <2>1
  <2> QED BY <1>2, <2>2 DEF Promise!LineStart, Answer
<1> QED BY <1>1, <1>2

\* An answer appended moves the next line to behind its newline.
LEMMA LineStartAfter ==
  ASSUME answers \in Seq(Answer), NEW a \in Answer, answers' = Append(answers, a)
  PROVE  answers' \in Seq(Answer) /\ Promise!LineStart' = a.nl + 1
<1>1. answers' \in Seq(Answer) /\ answers' # <<>> /\ answers'[Len(answers')] = a
  OBVIOUS
<1> QED BY <1>1 DEF Promise!LineStart

LEMMA InitHolds ==
  ASSUME MaxLine \in Nat \ {0}, Init
  PROVE  IInv
<1>1. answers \in Seq(Answer)
  BY DEF Init
<1>2. Typed
  <2>1. pc = "recv" /\ received = 0 /\ start = 0 /\ overflow = FALSE
    BY DEF Init
  <2>2. received \in Nat /\ start \in Nat /\ start <= received
    BY <2>1
  <2> QED BY <1>1, <2>1, <2>2, Zenon DEF Typed
<1>3. BufferHoldsLine
  BY DEF Init, BufferHoldsLine, Promise!LineStart
<1>4. ScannedBeforeRecv
  BY DEF Init, ScannedBeforeRecv
<1> QED BY <1>2, <1>3, <1>4 DEF IInv

\* The answer that the code gives is one of the type.
LEMMA AnswerTyped ==
  ASSUME Newlines \subseteq Nat, NEW from \in Nat, NEW nl \in Newlines
  PROVE  /\ Promise!TooLong(nl) \in Answer /\ Promise!TooLong(nl).nl = nl
         /\ Promise!Handled(from, nl) \in Answer /\ Promise!Handled(from, nl).nl = nl
<1>1. nl \in Nat /\ from .. nl - 1 \subseteq Nat
  OBVIOUS
<1> QED BY <1>1 DEF Promise!TooLong, Promise!Handled, Answer

LEMMA RecvKeeps ==
  ASSUME MaxLine \in Nat \ {0}, IInv, Recv
  PROVE  IInv'
<1>1. Promise!LineStart' = Promise!LineStart
  BY DEF Recv, Promise!LineStart
<1>2. PICK n \in 1 .. Room : received' = received + n
  BY DEF Recv
<1>3. Room \in Int
  BY DEF IInv, Typed, Room
<1> QED BY <1>1, <1>2, <1>3 DEF Recv, IInv, Typed, BufferHoldsLine, ScannedBeforeRecv

LEMMA RecvEndsKeeps ==
  ASSUME IInv, RecvEnds
  PROVE  IInv'
<1>1. Promise!LineStart' = Promise!LineStart
  BY DEF RecvEnds, Promise!LineStart
<1> QED BY <1>1 DEF RecvEnds, IInv, Typed, BufferHoldsLine, ScannedBeforeRecv

\* Emptying the buffer only ever makes the line it interrupts longer.
LEMMA KeepRestKeeps ==
  ASSUME MaxLine \in Nat \ {0}, IInv, KeepRest
  PROVE  IInv'
<1>1. Promise!LineStart' = Promise!LineStart /\ Promise!LineStart \in Nat
  BY LineStartIsNat DEF KeepRest, Promise!LineStart, IInv, Typed
<1>2. \A k \in start .. received - 1 : k \notin Newlines
  BY DEF KeepRest
<1>3. start - Promise!LineStart >= 0
      /\ \A k \in Promise!LineStart .. start - 1 : k \notin Newlines
  BY <1>1 DEF IInv, Typed, BufferHoldsLine
<1>4. CASE received - start >= MaxLine
  <2>1. start' = received /\ overflow' = TRUE /\ received' = received /\ pc' = "recv"
        /\ answers' = answers
    BY <1>4 DEF KeepRest
  <2>2. Typed'
    BY <2>1 DEF IInv, Typed
  <2>3. \A k \in Promise!LineStart .. received - 1 : k \notin Newlines
    BY <1>1, <1>2, <1>3 DEF IInv, Typed
  <2>4. BufferHoldsLine'
    BY <1>1, <1>3, <1>4, <2>1, <2>3 DEF BufferHoldsLine, IInv, Typed
  <2>5. ScannedBeforeRecv'
    BY <2>1 DEF ScannedBeforeRecv, IInv, Typed
  <2> QED BY <2>2, <2>4, <2>5 DEF IInv
<1>5. CASE ~(received - start >= MaxLine)
  BY <1>1, <1>2, <1>5 DEF KeepRest, IInv, Typed, BufferHoldsLine, ScannedBeforeRecv
<1> QED BY <1>4, <1>5

\* One turn of the inner loop answers the first unanswered line as promised.
LEMMA AnswerFoundKeeps ==
  ASSUME MaxLine \in Nat \ {0}, Newlines \subseteq Nat, IInv, AnswerFound
  PROVE  IInv' /\ Promise!AnswerLine
<1> DEFINE line == Promise!LineStart
<1>1. PICK nl \in Newlines :
        /\ nl \in start .. received - 1
        /\ \A k \in start .. nl - 1 : k \notin Newlines
        /\ answers' = Append(answers, IF overflow \/ nl - start >= MaxLine
                                        THEN Promise!TooLong(nl)
                                        ELSE Promise!Handled(start, nl))
        /\ start' = nl + 1
  BY DEF AnswerFound
<1>2. nl \in Nat /\ start \in Nat /\ received \in Nat /\ overflow \in BOOLEAN
      /\ answers \in Seq(Answer)
  BY DEF IInv, Typed
<1>3. line \in Nat
  BY <1>2, LineStartIsNat
<1>4. start >= line /\ \A k \in line .. start - 1 : k \notin Newlines
  BY <1>2, <1>3 DEF IInv, BufferHoldsLine
<1>5. nl >= line /\ \A k \in line .. nl - 1 : k \notin Newlines
  BY <1>1, <1>2, <1>3, <1>4
<1>6. (overflow \/ nl - start >= MaxLine) <=> nl - line >= MaxLine
  BY <1>1, <1>2, <1>3 DEF IInv, BufferHoldsLine
<1>7. (IF overflow \/ nl - start >= MaxLine
         THEN Promise!TooLong(nl) ELSE Promise!Handled(start, nl))
      = (IF nl - line >= MaxLine THEN Promise!TooLong(nl) ELSE Promise!Handled(line, nl))
  <2>1. ~overflow => start = line
    BY DEF IInv, BufferHoldsLine
  <2> QED BY <1>6, <2>1
<1>8. Promise!AnswerLine
  BY <1>1, <1>5, <1>7 DEF Promise!AnswerLine
<1>9. PICK a \in Answer : a.nl = nl /\ answers' = Append(answers, a)
  BY <1>1, <1>2, AnswerTyped
<1>10. answers' \in Seq(Answer) /\ line' = nl + 1
  BY <1>2, <1>9, LineStartAfter
<1>11. overflow' = FALSE /\ pc' \in {"scan", "closed"} /\ received' = received
       /\ start' = nl + 1
  BY <1>1 DEF AnswerFound
<1>12. Typed'
  <2>1. start' \in Nat /\ start' <= received'
    BY <1>1, <1>2, <1>11
  <2> HIDE DEF line
  <2> QED BY <1>2, <1>10, <1>11, <2>1 DEF Typed
<1>13. BufferHoldsLine' /\ ScannedBeforeRecv'
  BY <1>10, <1>11 DEF BufferHoldsLine, ScannedBeforeRecv
<1> QED BY <1>8, <1>12, <1>13 DEF IInv

\* The inductive step, with what it means for the promise.
LEMMA StepKeeps ==
  ASSUME MaxLine \in Nat \ {0}, Newlines \subseteq Nat, IInv, [Next]_vars
  PROVE  IInv' /\ [Promise!AnswerLine]_answers
<1>1. CASE Recv
  BY <1>1, RecvKeeps DEF Recv
<1>2. CASE RecvEnds
  BY <1>2, RecvEndsKeeps DEF RecvEnds
<1>3. CASE AnswerFound
  BY <1>3, AnswerFoundKeeps
<1>4. CASE KeepRest
  BY <1>4, KeepRestKeeps DEF KeepRest
<1>5. CASE UNCHANGED vars
  <2>1. Promise!LineStart' = Promise!LineStart
    BY <1>5 DEF vars, Promise!LineStart
  <2> QED BY <1>5, <2>1 DEF vars, IInv, Typed, BufferHoldsLine, ScannedBeforeRecv
<1> QED BY <1>1, <1>2, <1>3, <1>4, <1>5 DEF Next

LEMMA Inductive ==
  ASSUME MaxLine \in Nat \ {0}, Newlines \subseteq Nat
  PROVE  Spec => []IInv
<1>1. Init => IInv
  BY InitHolds
<1>2. IInv /\ [Next]_vars => IInv'
  BY StepKeeps
<1> QED BY <1>1, <1>2, PTL DEF Spec

\* recv() is never called with a full buffer, however long the lines are and wherever
\* they are cut.
THEOREM NeverFull ==
  ASSUME MaxLine \in Nat \ {0}, Newlines \subseteq Nat
  PROVE  Spec => []RoomToReceive
<1>1. IInv => RoomToReceive
  BY DEF IInv, Typed, ScannedBeforeRecv, RoomToReceive, Room
<1> QED BY <1>1, Inductive, PTL

\* A connection thread waits for more only when every complete line is answered.
THEOREM LinesAnsweredFirst ==
  ASSUME MaxLine \in Nat \ {0}, Newlines \subseteq Nat
  PROVE  Spec => []NoLineWaits
<1>1. IInv => NoLineWaits
  <2> SUFFICES ASSUME IInv, pc = "recv", NEW nl \in Newlines, nl < received
               PROVE  nl < Promise!LineStart
    BY DEF NoLineWaits
  <2>1. Promise!LineStart \in Nat /\ nl \in Nat
    BY LineStartIsNat DEF IInv, Typed
  <2>2. \A k \in Promise!LineStart .. received - 1 : k \notin Newlines
    BY <2>1 DEF IInv, Typed, BufferHoldsLine, ScannedBeforeRecv
  <2> QED BY <2>1, <2>2 DEF IInv, Typed
<1> QED BY <1>1, Inductive, PTL

\* client_thread implements LineAnswers: one answer per line, in order, TOO_LONG exactly
\* for lines of MAX_LINE bytes or more, whatever recv() returns at a time.
THEOREM ImplementsLineAnswers ==
  ASSUME MaxLine \in Nat \ {0}, Newlines \subseteq Nat
  PROVE  Spec => AnswersEveryLine
<1>1. Init => Promise!Init
  BY DEF Init, Promise!Init
<1>2. IInv /\ [Next]_vars => [Promise!AnswerLine]_answers
  BY StepKeeps
<1> QED BY <1>1, <1>2, Inductive, PTL DEF Spec, AnswersEveryLine, Promise!Spec
=============================================================================
