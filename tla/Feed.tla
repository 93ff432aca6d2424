--------------------------------- MODULE Feed ---------------------------------
(***************************************************************************)
(* What an application can rely on that calls read_message, without the    *)
(* signals, threads, mutexes, descriptors and allocations behind it: the   *)
(* objects of every connection are read once and in order, error messages  *)
(* and objects that do not decode are reported, and after the report that  *)
(* a connection is closed nothing more of it is read.  Module              *)
(* ServerProperties shows that src/src/server.c implements it.             *)
(***************************************************************************)
EXTENDS Naturals, Sequences

CONSTANTS
    Conns,      \* connections
    AllocFails  \* may an allocation fail

VARIABLES
    stream,  \* what each peer has sent
    read,    \* how much of it has been read
    phase,   \* "open", "closed" when nothing more is read, then "gone"
    feed     \* what read_message has yet to return

vars == <<stream, read, phase, feed>>

Init == /\ stream = [c \in Conns |-> <<>>]
        /\ read = [c \in Conns |-> 0]
        /\ phase = [c \in Conns |-> "open"]
        /\ feed = <<>>

Report(c, what) == feed' = Append(feed, [from |-> c, what |-> what, pos |-> read'[c]])
Become(c, p) == phase' = [phase EXCEPT ![c] = p]

\* The peer sends something.
Send(c) ==
    /\ Len(stream'[c]) > Len(stream[c])
    /\ SubSeq(stream'[c], 1, Len(stream[c])) = stream[c]
    /\ stream' = [stream EXCEPT ![c] = stream'[c]]
    /\ UNCHANGED <<read, phase, feed>>

\* The next object of an open connection is read, and reported if it is for
\* the application.  Without memory no object decodes, not even one that is not.
Read(c) ==
    /\ phase[c] = "open" /\ read[c] < Len(stream[c])
    /\ read' = [read EXCEPT ![c] = @ + 1]
    /\ LET kind == stream[c][read'[c]] IN
         \/ kind \in {"msg", "bad"} /\ Report(c, kind)
         \/ kind \notin {"msg", "bad"} /\ UNCHANGED feed
         \/ AllocFails /\ kind \in {"msg", "ka"} /\ Report(c, "bad")
    /\ UNCHANGED <<stream, phase>>

\* "Connection closed".
ReportClosed(c) ==
    /\ phase[c] = "open" /\ Become(c, "closed")
    /\ UNCHANGED <<stream, read>>
    /\ Report(c, "closed")

\* A connection is given up without a report, at what is no object if at all.
Drop(c) ==
    /\ phase[c] = "open" /\ Become(c, "closed")
    /\ \/ UNCHANGED read
       \/ /\ read[c] < Len(stream[c]) /\ stream[c][read[c] + 1] = "frag"
          /\ read' = [read EXCEPT ![c] = @ + 1]
    /\ UNCHANGED <<stream, feed>>

\* The connection is no longer known, nor watched by the keep-alive check.
Forget(c) ==
    /\ phase[c] # "gone" /\ Become(c, "gone")
    /\ UNCHANGED <<stream, read, feed>>

\* A connection that is still known has been silent for too long.
ReportTimeout(c) ==
    /\ phase[c] # "gone"
    /\ UNCHANGED <<stream, read, phase>>
    /\ Report(c, "timeout")

\* read_message returns the oldest report.
Return ==
    /\ feed # <<>> /\ feed' = Tail(feed)
    /\ UNCHANGED <<stream, read, phase>>

\* Reports are only discarded with the server, when of no connection that is
\* still known anything has been read.
Discard ==
    /\ \A c \in Conns : phase[c] # "gone" => read[c] = 0
    /\ feed' = <<>>
    /\ UNCHANGED <<stream, read, phase>>

Next == \/ \E c \in Conns : \/ Send(c) \/ Read(c) \/ ReportClosed(c) \/ Drop(c)
                            \/ Forget(c) \/ ReportTimeout(c)
        \/ Return \/ Discard

Spec == Init /\ [][Next]_vars
=============================================================================
