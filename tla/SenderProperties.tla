-------------------------- MODULE SenderProperties --------------------------
(***************************************************************************)
(* What src/src/sending.c has to guarantee, stated over the model in       *)
(* module Sender.                                                          *)
(***************************************************************************)
EXTENDS Sender

\* What follows piece p in a stream of whole messages: the next piece of the
\* same message, or the first of any.
Follows(p, q) == IF p.part < p.len THEN q = [p EXCEPT !.part = @ + 1] ELSE q.part = 1

\* The server receives whole messages, one after the other: write may wait for
\* room in the middle of a message, while other threads send, the timer's
\* threads send KEEP_ALIVE, and stop_sending closes.
MessagesWhole ==
    \A i \in 1..Len(wire) :
        Follows(IF i = 1 THEN last ELSE wire[i - 1], wire[i])

\* A thread that is about to write has a descriptor of the sender, never one
\* that the application opened when stop_sending had closed it.
WritesOwnSocket == \A x \in Senders : pc[x] = "write" => sock[arg[x]] # "other"

\* fd_mux is not destroyed in the middle of a write, and afterwards nothing can
\* be written any more, by a late thread of the timer either.
SilentAfterStop ==
    destroyed => sending_fd = NoFd /\ \A x \in Senders : pc[x] # "write"

-----------------------------------------------------------------------------
(* Liveness, under FairSpec.                                               *)

Over == fate # "ok"

\* Every send_message and stop_sending returns, on every path that a write can
\* take, or the process has ended.
CallsReturn ==
    /\ \A x \in App : pc[x] # "idle" ~> (pc[x] = "idle" \/ Over)
    /\ call = "stop_lock" ~> (call = "idle" \/ Over)

\* While the connection lasts and the timer is armed the server again and again
\* reads a piece of a KEEP_ALIVE, however busy fd_mux is.
KeepAlivesGoOn ==
    <>[](timer /\ ~Over /\ call = "idle" /\ sending_fd # NoFd /\ sock[sending_fd] = "conn")
        => []<><<Read /\ last'.by \in Ticks>>_vars

=============================================================================
