----------------------------- MODULE LineFraming -----------------------------
(***************************************************************************)
(* How client_thread (server/src/tcp_operator.c) makes lines out of what   *)
(* recv() returns.  The buffer of 2 * MAX_LINE bytes keeps what follows    *)
(* the last newline; when that reaches MAX_LINE it is emptied, and a flag  *)
(* says that the next newline ends a line that was too long.               *)
(*                                                                         *)
(* A byte is its position in the stream, as in LineAnswers: the buffer     *)
(* holds the bytes from start to received - 1.                             *)
(***************************************************************************)
EXTENDS Integers, Sequences

CONSTANTS
  MaxLine,       \* MAX_LINE
  Newlines       \* the positions of '\n' in what the peer writes

VARIABLES
  pc,            \* "recv", "scan" (the inner loop) or "closed"
  received,      \* how many bytes recv() has returned
  start,         \* the byte at start, or at inbuf[0] while in recv()
  overflow,      \* a line was already too long when the buffer was emptied
  answers        \* the answers given, as in LineAnswers

vars == <<pc, received, start, overflow, answers>>

Promise == INSTANCE LineAnswers

Init ==
  /\ pc = "recv" /\ received = 0 /\ start = 0
  /\ overflow = FALSE /\ answers = <<>>

\* The length given to recv(): one byte is kept for the final '\0'.
Room == 2 * MaxLine - (received - start) - 1

Recv ==
  /\ pc = "recv"
  /\ \E n \in 1 .. Room : received' = received + n
  /\ pc' = "scan"
  /\ UNCHANGED <<start, overflow, answers>>

\* The peer closes, or recv() fails.
RecvEnds ==
  /\ pc = "recv" /\ pc' = "closed"
  /\ UNCHANGED <<received, start, overflow, answers>>

\* One turn of the inner loop.  It ends the connection after a QUIT or a failed send().
AnswerFound ==
  /\ pc = "scan"
  /\ \E nl \in Newlines :
       /\ nl \in start .. received - 1
       /\ \A k \in start .. nl - 1 : k \notin Newlines
       /\ answers' = Append(answers, IF overflow \/ nl - start >= MaxLine
                                       THEN Promise!TooLong(nl)
                                       ELSE Promise!Handled(start, nl))
       /\ start' = nl + 1
  /\ overflow' = FALSE
  /\ pc' \in {"scan", "closed"}
  /\ UNCHANGED received

\* No newline is left: the rest moves to the front, or is dropped if it is too long.
KeepRest ==
  /\ pc = "scan"
  /\ \A k \in start .. received - 1 : k \notin Newlines
  /\ IF received - start >= MaxLine
       THEN start' = received /\ overflow' = TRUE
       ELSE UNCHANGED <<start, overflow>>
  /\ pc' = "recv"
  /\ UNCHANGED <<received, answers>>

Next == Recv \/ RecvEnds \/ AnswerFound \/ KeepRest

Spec == Init /\ [][Next]_vars

----------------------------------------------------------------------------
(* Properties. *)

\* recv() is always asked for at least one byte.  For none it would return 0, which the
\* code takes for a peer that closed.
RoomToReceive == pc = "recv" => Room \in 1 .. 2 * MaxLine - 1

\* When the thread waits for more, no complete line that has arrived is still without
\* its answer: an operator need not write again to get the answer to its last command.
NoLineWaits ==
  pc = "recv" => \A nl \in Newlines : nl < received => nl < Promise!LineStart

\* Whatever the segments, each line gets its one answer, in order; ERR|105|TOO_LONG
\* exactly if it has MAX_LINE bytes or more; and any other line is handled whole.
AnswersEveryLine == Promise!Spec
=============================================================================
