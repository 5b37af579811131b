----------------------------- MODULE ControlPipe -----------------------------
(***************************************************************************)
(* ControlClient.transact of tools/tcpcc_control.py, which the Python      *)
(* supervisor and the capacity driver use to talk to the hosted kernel.    *)
(* One request, one response of fixed size over a pair of pipes.  The      *)
(* response names its operation and carries no sequence number, and a read *)
(* that times out leaves the answer in the pipe for the next transact.     *)
(*                                                                         *)
(* A message is a record with the operation op, a handle h and the status  *)
(* st with which the hosted kernel answers it.                             *)
(***************************************************************************)
EXTENDS Integers, Sequences

\* What transact gives its caller, what it leaves in the pipe, and whether the
\* answer was that of an earlier request.
Outcome(kind, h, left, stale) ==
  [kind |-> kind, h |-> h, late |-> left, stale |-> stale]

\* Slip: the operation of the answer is not compared with the request's.
AnswersUnchecked(m, alive, late, max) ==
  IF ~alive THEN {Outcome("broken", 0, late, FALSE)}
  ELSE {Outcome("timeout", 0, Append(late, m), FALSE) :
          i \in {1} \cap 1..(max - Len(late))}
    \cup {IF late = <<>>
            THEN Outcome(m.st, m.h, <<>>, FALSE)
            ELSE Outcome(Head(late).st, Head(late).h, Append(Tail(late), m),
                         TRUE)}

\* Slip: a request that timed out is sent a second time at once.
AnswersResent(m, alive, late, max) ==
  IF ~alive THEN {Outcome("broken", 0, late, FALSE)}
  ELSE {Outcome("timeout", 0, late \o <<m, m>>, FALSE) :
          i \in {1} \cap 1..(max - Len(late))}
    \cup {IF late = <<>> THEN Outcome(m.st, m.h, <<>>, FALSE)
          ELSE Outcome("protocol", 0, Append(Tail(late), m), FALSE)}

\* How transact can come back with request m when the pipe holds the answers
\* late: the pipe is broken because the hosted process is gone; the read times
\* out and the answer will be late (at most max of them are considered); or the
\* first answer in the pipe is read.  decode_response refuses an answer to
\* another operation; an answer to an earlier request of the same operation
\* passes.  An answer is one write of less than PIPE_BUF bytes, so a timeout
\* never cuts one in two.
Answers(m, alive, late, max) ==
  IF ~alive THEN {Outcome("broken", 0, late, FALSE)}
  ELSE {Outcome("timeout", 0, Append(late, m), FALSE) :
          i \in {1} \cap 1..(max - Len(late))}
    \cup {IF late = <<>>
            THEN Outcome(m.st, m.h, <<>>, FALSE)
          ELSE IF Head(late).op = m.op
            THEN Outcome(Head(late).st, Head(late).h, Append(Tail(late), m),
                         TRUE)
          ELSE Outcome("protocol", 0, Append(Tail(late), m), FALSE)}

\* A status other than the allowed ones raises ControlOperationError.
OperationError(r) == r.kind \in {"again", "etimedout", "error"}
==============================================================================
