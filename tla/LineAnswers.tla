----------------------------- MODULE LineAnswers -----------------------------
(***************************************************************************)
(* What the server promises to whoever writes to its TCP port              *)
(* (docs/PROTOCOLO.md, 1 and 6): every line gets one answer, in order, and *)
(* a line is refused exactly when it is too long.  How TCP cuts the stream *)
(* into segments plays no part.                                            *)
(*                                                                         *)
(* A byte is its position in the stream; the lines are given by the        *)
(* positions of their newlines.                                            *)
(***************************************************************************)
EXTENDS Integers, Sequences

CONSTANTS
  MaxLine,       \* MAX_LINE: the length from which a line is too long
  Newlines       \* the positions of '\n' in what the peer writes

VARIABLE answers \* the answers given: to which newline, and to what text

TooLong(nl) == [nl |-> nl, too_long |-> TRUE, text |-> {}]
Handled(from, nl) == [nl |-> nl, too_long |-> FALSE, text |-> from .. nl - 1]

\* Where the first line without an answer begins.
LineStart == IF answers = <<>> THEN 0 ELSE answers[Len(answers)].nl + 1

Init == answers = <<>>

AnswerLine ==
  \E nl \in Newlines :
    /\ nl >= LineStart
    /\ \A k \in LineStart .. nl - 1 : k \notin Newlines
    /\ answers' = Append(answers, IF nl - LineStart >= MaxLine
                                    THEN TooLong(nl) ELSE Handled(LineStart, nl))

Spec == Init /\ [][AnswerLine]_answers
=============================================================================
