------------------------------- MODULE Server -------------------------------
(***************************************************************************)
(* The message server of libedsacnetworking (src/src/server.c).            *)
(*                                                                         *)
(* The library has no thread of its own for I/O: the kernel raises a       *)
(* realtime signal for every connection request and for every arrival of   *)
(* data, and the handlers do all the work on whichever thread the signal   *)
(* interrupts.  A thread is therefore modelled as up to three frames, the  *)
(* library call it makes itself ("api") and one frame per handler ("io",   *)
(* "conn"); only the frame on top of the thread's stack takes steps, and   *)
(* a handler's own signal is masked while its frame exists (no SA_NODEFER, *)
(* an empty sa_mask).  One step of the model is one access to state that   *)
(* frames share: taking a mutex, or what is done while it is held.         *)
(***************************************************************************)
EXTENDS Naturals, Sequences, FiniteSets

CONSTANTS
    Threads,      \* the threads of the process
    Main,         \* the thread that starts and stops the server
    Ticker,       \* the thread on which the timer runs iter_keep_alives
    SigThreads,   \* the threads that do not block the two realtime signals
    Preempt,      \* may a signal interrupt a library call, or are both blocked then
    Conns,        \* connections, each with its ConnectionData
    NoConn,       \* the NULL ConnectionData
    NoFrame,      \* the owner of an unlocked mutex
    Fds,          \* descriptor numbers accept can return
    Segments,     \* what one TCP segment can carry: sequences of Kinds
    FinSignals,   \* the most READ signals that one FIN raises
    EarlyData,    \* may a peer send before its socket is set to O_ASYNC
    AllocFails,   \* may malloc return NULL
    Retries,      \* may start_server follow one that failed, without stop_server
    StartFails,   \* the calls in start_server that may fail, by their labels
    MaxStream,    \* bound: how much one peer sends
    MaxQueue      \* bound: connections expire and the timer fires
                  \* only while the queue is shorter

Levels == {"api", "io", "conn"}
Frames == Threads \X Levels
connections_mux == "connections_mux"
read_buff_mux == "read_buff_mux"
Mutexes == {connections_mux, read_buff_mux} \cup Conns

\* What read_json_object can find next in a stream: an object that decodes to
\* an error message, a KEEP_ALIVE, an object that does not decode, a newline,
\* or bytes that are no complete object (not all of it arrived, no brace).
Kinds == {"msg", "ka", "bad", "nl", "frag"}
\* What a BufferItem reports.  pos is the place in the stream it was read from.
Reports == [from : Conns, what : {"msg", "bad", "closed", "timeout"}, pos : Nat]

ASSUME ServerAssumption ==
    /\ Main \in Threads /\ Ticker \in Threads /\ Main # Ticker
    /\ SigThreads \subseteq Threads
    /\ Preempt \in BOOLEAN /\ EarlyData \in BOOLEAN /\ AllocFails \in BOOLEAN
    /\ Retries \in BOOLEAN /\ StartFails \subseteq {"st_signals", "st_timer", "st_listen"}
    /\ NoConn \notin Conns /\ NoFrame \notin Frames
    /\ connections_mux \notin Conns /\ read_buff_mux \notin Conns
    /\ Fds \subseteq Nat \ {0}
    /\ Segments \subseteq Seq(Kinds)
    /\ FinSignals \in Nat /\ MaxStream \in Nat /\ MaxQueue \in Nat

VARIABLES
    pc,        \* pc[x]: the next step of frame x, "idle" when it has none
    top,       \* top[t]: the frame that runs on thread t
    con,       \* con[x]: the frame's condata
    sifd,      \* sifd[t]: si_fd of the signal an "io" frame handles
    todo,      \* the entries g_hash_table_foreach has yet to visit
    owner,     \* owner[m]: the frame that locked mutex m
    up,        \* the parts of the server that are set up
    table,     \* connections_table, by descriptor
    queue,     \* read_buff
    cdata,     \* life of each ConnectionData
    cfd,       \* condata->fd
    overdue,   \* connections with last_keep_alive over KEEP_ALIVE_PROD ago
    backlog,   \* kernel: connections not yet accepted
    sockOf,    \* kernel: the connection behind an open descriptor
    stream,    \* kernel: all that a peer has sent
    rd,        \* kernel: how much of the stream has been read
    eof,       \* kernel: connections the peer has closed
    async,     \* kernel: connections whose socket has O_ASYNC
    connSig,   \* kernel: number of pending CONNECT signals
    readSig,   \* kernel: pending READ signals, by si_fd
    fate       \* "ok", or how the process came to an end

frm == <<pc, top, con, sifd>>
srv == <<up, table, queue, cdata, cfd, overdue>>
net == <<backlog, sockOf, stream, rd, eof, async>>
sig == <<connSig, readSig>>
vars == <<frm, todo, owner, srv, net, sig, fate>>

Parts == {"listen", "table", "queue", "io", "conn", "timer", "lost timer"}
Labels == {"idle", "rm_pop", "gl_list", "ka_try", "ka_scan",
           "st_queue", "st_table", "st_signals", "st_timer", "st_listen",
           "undo_listen", "undo_queue", "undo_free", "undo_close",
           "stop_conn", "stop_lock", "stop_free", "stop_close", "stop_qlock",
           "stop_qfree",
           "io_lock", "io_lookup", "io_mutex", "io_check", "rc_lock", "rc_push",
           "rd_lock", "fetch", "dc_lock", "dc_free", "dc_again", "dc_close",
           "cn_accept", "cn_lock", "cn_insert", "cn_free", "cn_setup"}

TypeOK ==
    /\ pc \in [Frames -> Labels]
    /\ top \in [Threads -> Levels]
    /\ con \in [Frames -> Conns \cup {NoConn}]
    /\ sifd \in [Threads -> Fds \cup {0}]
    /\ todo \in SUBSET Fds
    /\ owner \in [Mutexes -> Frames \cup {NoFrame}]
    /\ up \in SUBSET Parts
    /\ table \in [Fds -> Conns \cup {NoConn}]
    /\ queue \in Seq(Reports)
    /\ cdata \in [Conns -> {"none", "live", "destroyed", "freed"}]
    /\ cfd \in [Conns -> Fds \cup {0}]
    /\ overdue \in SUBSET Conns
    /\ backlog \in Seq(Conns)
    /\ sockOf \in [Fds -> Conns \cup {NoConn}]
    /\ stream \in [Conns -> Seq(Kinds)]
    /\ rd \in [Conns -> Nat]
    /\ eof \in SUBSET Conns
    /\ async \in SUBSET Conns
    /\ connSig \in Nat
    /\ readSig \in Seq(Fds)
    /\ fate \in {"ok", "use after free", "race", "exit", "abort"}

Init ==
    /\ pc = [x \in Frames |-> "idle"]
    /\ top = [t \in Threads |-> "api"]
    /\ con = [x \in Frames |-> NoConn]
    /\ sifd = [t \in Threads |-> 0]
    /\ todo = {}
    /\ owner = [m \in Mutexes |-> NoFrame]
    /\ up = {}
    /\ table = [fd \in Fds |-> NoConn]
    /\ queue = <<>>
    /\ cdata = [c \in Conns |-> "none"]
    /\ cfd = [c \in Conns |-> 0]
    /\ overdue = {}
    /\ backlog = <<>>
    /\ sockOf = [fd \in Fds |-> NoConn]
    /\ stream = [c \in Conns |-> <<>>]
    /\ rd = [c \in Conns |-> 0]
    /\ eof = {}
    /\ async = {}
    /\ connSig = 0
    /\ readSig = <<>>
    /\ fate = "ok"

-----------------------------------------------------------------------------
(* Frames and mutexes.                                                     *)

\* The process runs, frame x is the one its thread executes, and is about to do l.
At(x, l) == fate = "ok" /\ pc[x] = l /\ top[x[1]] = x[2]

Goto(x, l) == pc' = [pc EXCEPT ![x] = l]

Other(l) == IF l = "io" THEN "conn" ELSE "io"

\* Frame x returns to what it interrupted.
Return(x) ==
    /\ Goto(x, "idle")
    /\ con' = [con EXCEPT ![x] = NoConn]
    /\ top' = [top EXCEPT ![x[1]] =
                 IF x[2] # "api" /\ pc[<<x[1], Other(x[2])>>] # "idle"
                 THEN Other(x[2]) ELSE "api"]

\* pthread_mutex_lock on a default mutex: not recursive, no owner check.
Lock(x, m) == owner[m] = NoFrame /\ owner' = [owner EXCEPT ![m] = x]
Unlock(m) == owner' = [owner EXCEPT ![m] = NoFrame]

\* The mutex a frame waits for, and where it goes on once it has it.
WaitLabels == {"io_lock", "io_mutex", "rc_lock", "rd_lock", "dc_lock", "cn_lock",
               "stop_lock", "stop_qlock"}
Wants(x) == CASE pc[x] = "io_mutex" -> con[x]
              [] pc[x] \in {"rc_lock", "rd_lock", "stop_qlock"} -> read_buff_mux
              [] OTHER -> connections_mux
After(l) == CASE l = "io_lock" -> "io_lookup" [] l = "io_mutex" -> "io_check"
              [] l = "rc_lock" -> "rc_push"   [] l = "rd_lock" -> "fetch"
              [] l = "dc_lock" -> "dc_free"   [] l = "cn_lock" -> "cn_insert"
              [] l = "stop_lock" -> "stop_free" [] l = "stop_qlock" -> "stop_qfree"

\* g_queue_push_tail, which ignores a NULL queue.
Push(c, what, pos) ==
    queue' = IF "queue" \in up
             THEN Append(queue, [from |-> c, what |-> what, pos |-> pos])
             ELSE queue

\* close(condata->fd): the descriptor number is free again at once, while
\* signals already raised for it stay pending.
Close(c) ==
    /\ sockOf' = [sockOf EXCEPT ![cfd[c]] = NoConn]
    /\ async' = async \ {sockOf[cfd[c]]}

\* free_connectiondata sets destroyed and unlocks the mutex, whoever holds it
\* ("destroyed"), then closes the descriptor and frees the memory ("freed").
Life(c, l) == cdata' = [cdata EXCEPT ![c] = l]

-----------------------------------------------------------------------------
(* The kernel and the peers.                                               *)

Connected(c) == \/ \E fd \in Fds : sockOf[fd] = c
                \/ \E i \in DOMAIN backlog : backlog[i] = c

MaySend(c) == fate = "ok" /\ Connected(c) /\ c \notin eof /\ (EarlyData \/ c \in async)

\* Signal driven I/O raises nothing on a socket without O_ASYNC.
Raise(c, n) == readSig' = IF c \in async
                          THEN readSig \o [i \in 1..n |-> cfd[c]] ELSE readSig

\* A peer connects.  The listening socket has O_ASYNC before it listens.
Connect(c) ==
    /\ fate = "ok" /\ "listen" \in up
    /\ cdata[c] = "none" /\ ~Connected(c) /\ c \notin eof
    /\ backlog' = Append(backlog, c)
    /\ connSig' = connSig + 1
    /\ UNCHANGED <<frm, todo, owner, srv, sockOf, stream, rd, eof, async, readSig, fate>>

\* A segment arrives: one signal, however many objects it carries.
Arrive(c, seg) ==
    /\ MaySend(c)
    /\ Len(stream[c]) + Len(seg) <= MaxStream
    /\ stream' = [stream EXCEPT ![c] = @ \o seg]
    /\ Raise(c, 1)
    /\ UNCHANGED <<frm, todo, owner, srv, backlog, sockOf, rd, eof, async, connSig, fate>>

\* The peer closes: tcp_fin and the data path behind it may both signal.
Fin(c, n) ==
    /\ MaySend(c)
    /\ eof' = eof \cup {c}
    /\ Raise(c, n)
    /\ UNCHANGED <<frm, todo, owner, srv, backlog, sockOf, stream, rd, async, connSig, fate>>

\* KEEP_ALIVE_PROD seconds pass without a KEEP_ALIVE on c.  Only the timer's
\* thread looks, so this has the same bound as Tick.
Expire(c) ==
    /\ fate = "ok" /\ cdata[c] = "live" /\ c \notin overdue /\ Len(queue) < MaxQueue
    /\ overdue' = overdue \cup {c}
    /\ UNCHANGED <<frm, todo, owner, up, table, queue, cdata, cfd, net, sig, fate>>

\* Thread t can take the signal of handler l.  The timer's thread exists only
\* while it runs.  A handler can always be interrupted by the other one: an
\* application that blocks the signals in library calls has no part in it.
Deliverable(t, l) ==
    /\ fate = "ok" /\ t \in SigThreads
    /\ pc[<<t, l>>] = "idle"
    /\ t = Ticker => pc[<<t, "api">>] # "idle"
    /\ Preempt \/ pc[<<t, "api">>] = "idle"

Enter(t, l, first) ==
    /\ Goto(<<t, l>>, first)
    /\ top' = [top EXCEPT ![t] = l]

TakeConnect(t) ==
    /\ connSig > 0 /\ Deliverable(t, "conn")
    /\ connSig' = connSig - 1
    /\ IF "conn" \in up THEN Enter(t, "conn", "cn_accept") ELSE UNCHANGED <<pc, top>>
    /\ UNCHANGED <<con, sifd, todo, owner, srv, net, readSig, fate>>

\* Pending realtime signals are taken in the order of their numbers, so a
\* CONNECT that the thread can take comes first, and in order for one number.
TakeRead(t) ==
    /\ readSig # <<>> /\ Deliverable(t, "io")
    /\ ~(connSig > 0 /\ Deliverable(t, "conn"))
    /\ readSig' = Tail(readSig)
    /\ IF "io" \in up
       THEN /\ Enter(t, "io", "io_lock")
            /\ sifd' = [sifd EXCEPT ![t] = Head(readSig)]
       ELSE UNCHANGED <<pc, top, sifd>>
    /\ UNCHANGED <<con, todo, owner, srv, net, connSig, fate>>

-----------------------------------------------------------------------------
(* io_handler and the functions it calls.                                  *)

Waiting(x) == \E l \in WaitLabels : At(x, l)

\* Every blocking pthread_mutex_lock.  Two of them follow an access to condata.
Acquire(x) ==
    /\ Waiting(x)
    /\ pc[x] \in {"io_mutex", "rc_lock"} => cdata[con[x]] # "freed"
    /\ Lock(x, Wants(x)) /\ Goto(x, After(pc[x]))
    /\ UNCHANGED <<top, con, sifd, todo, srv, net, sig, fate>>

\* g_hash_table_lookup finds nothing in a NULL table either.
IoLookup(x) ==
    /\ At(x, "io_lookup")
    /\ Unlock(connections_mux)
    /\ sifd' = [sifd EXCEPT ![x[1]] = 0]
    /\ LET c == table[sifd[x[1]]] IN
         IF c = NoConn
         THEN Return(x)
         ELSE /\ Goto(x, "io_mutex")
              /\ con' = [con EXCEPT ![x] = c]
              /\ UNCHANGED top
    /\ UNCHANGED <<todo, srv, net, sig, fate>>

\* The destroyed flag is set: return, leaving the mutex locked.
IoDestroyed(x) ==
    /\ At(x, "io_check") /\ cdata[con[x]] = "destroyed"
    /\ Return(x)
    /\ UNCHANGED <<sifd, todo, owner, srv, net, sig, fate>>

Unread(c) == rd[c] < Len(stream[c])
NextKind(c) == stream[c][rd[c] + 1]

\* recv with MSG_PEEK: end of file and "nothing there" are not told apart.
IoPeek_NoFlag(x) == \* mutant: the destroyed flag is not looked at
    /\ At(x, "io_check") /\ cdata[con[x]] # "freed"
    /\ Goto(x, IF Unread(con[x]) THEN "rd_lock" ELSE "rc_lock")
    /\ UNCHANGED <<top, con, sifd, todo, owner, srv, net, sig, fate>>
IoPeek_Silent(x) == \* mutant: a closed connection is destroyed at once
    /\ At(x, "io_check") /\ cdata[con[x]] = "live"
    /\ Goto(x, IF Unread(con[x]) THEN "rd_lock" ELSE "dc_lock")
    /\ UNCHANGED <<top, con, sifd, todo, owner, srv, net, sig, fate>>
IoPeek(x) ==
    /\ At(x, "io_check") /\ cdata[con[x]] = "live"
    /\ Goto(x, IF Unread(con[x]) THEN "rd_lock" ELSE "rc_lock")
    /\ UNCHANGED <<top, con, sifd, todo, owner, srv, net, sig, fate>>

\* report_close without memory for the item returns with the mutex locked.
ReportFails(x) ==
    /\ AllocFails /\ At(x, "rc_lock") /\ cdata[con[x]] # "freed"
    /\ Return(x)
    /\ UNCHANGED <<sifd, todo, owner, srv, net, sig, fate>>

ReportPush_Close(x) == \* mutant: the descriptor is closed as soon as possible
    /\ At(x, "rc_push") /\ cfd[con[x]] # 0
    /\ Push(con[x], "closed", rd[con[x]]) /\ Close(con[x])
    /\ Unlock(read_buff_mux) /\ Goto(x, "dc_lock")
    /\ UNCHANGED <<top, con, sifd, todo, up, table, cdata, cfd, overdue,
                   backlog, stream, rd, eof, sig, fate>>
ReportPush_Only(x) == \* mutant: the connection is reported, not destroyed
    /\ At(x, "rc_push")
    /\ Push(con[x], "closed", rd[con[x]])
    /\ owner' = [owner EXCEPT ![read_buff_mux] = NoFrame, ![con[x]] = NoFrame] /\ Return(x)
    /\ UNCHANGED <<sifd, todo, up, table, cdata, cfd, overdue, net, sig, fate>>
ReportPush(x) ==
    /\ At(x, "rc_push")
    /\ Push(con[x], "closed", rd[con[x]])
    /\ Unlock(read_buff_mux) /\ Goto(x, "dc_lock")
    /\ UNCHANGED <<top, con, sifd, todo, up, table, cdata, cfd, overdue, net, sig, fate>>

Fetching(x, kinds) ==
    /\ At(x, "fetch") /\ cdata[con[x]] # "freed"
    /\ Unread(con[x]) /\ NextKind(con[x]) \in kinds
    /\ rd' = [rd EXCEPT ![con[x]] = @ + 1]

\* object_reader after a SUCCESS or END: both mutexes go, the handler returns.
ReadDone_KeepsLock(x) == \* mutant: the condata mutex is not unlocked
    owner' = [owner EXCEPT ![read_buff_mux] = NoFrame] /\ Return(x)
ReadDone(x) ==
    /\ owner' = [owner EXCEPT ![read_buff_mux] = NoFrame, ![con[x]] = NoFrame]
    /\ Return(x)

\* A newline is skipped and read_json_object starts over.
FetchNewline(x) ==
    /\ Fetching(x, {"nl"})
    /\ UNCHANGED <<frm, todo, owner, srv, backlog, sockOf, stream, eof, async, sig, fate>>

FetchEnd(x) ==
    /\ At(x, "fetch") /\ cdata[con[x]] # "freed" /\ ~Unread(con[x])
    /\ ReadDone(x)
    /\ UNCHANGED <<sifd, todo, srv, net, sig, fate>>

\* What decode_message makes of the next object: it fails without memory too.
Decoded(c) == {NextKind(c)} \cup (IF AllocFails THEN {"bad"} ELSE {})

\* One object is read per signal; what does not decode is queued as an error,
\* even if it is a KEEP_ALIVE.
FetchObject_Loop(x) == \* mutant: object_reader goes on until END
    /\ Fetching(x, {"msg", "bad", "ka"})
    /\ \E what \in Decoded(con[x]) \ {"ka"} : Push(con[x], what, rd'[con[x]])
    /\ UNCHANGED <<frm, todo, owner, up, table, cdata, cfd, overdue,
                   backlog, sockOf, stream, eof, async, sig, fate>>
FetchObject(x) ==
    /\ Fetching(x, {"msg", "bad", "ka"})
    /\ \E what \in Decoded(con[x]) \ {"ka"} : Push(con[x], what, rd'[con[x]])
    /\ ReadDone(x)
    /\ UNCHANGED <<sifd, todo, up, table, cdata, cfd, overdue,
                   backlog, sockOf, stream, eof, async, sig, fate>>

FetchKeepAlive_Queued(x) == \* mutant: a KEEP_ALIVE is queued like a message
    /\ Fetching(x, {"ka"}) /\ Push(con[x], "ka", rd'[con[x]]) /\ ReadDone(x)
    /\ UNCHANGED <<sifd, todo, up, table, cdata, cfd, overdue,
                   backlog, sockOf, stream, eof, async, sig, fate>>
FetchKeepAlive(x) ==
    /\ Fetching(x, {"ka"})
    /\ overdue' = overdue \ {con[x]}
    /\ ReadDone(x)
    /\ UNCHANGED <<sifd, todo, up, table, queue, cdata, cfd,
                   backlog, sockOf, stream, eof, async, sig, fate>>

\* ERROR: the connection is destroyed with read_buff_mux still held.
FetchError(x) ==
    /\ \/ Fetching(x, {"frag"})
       \/ AllocFails /\ At(x, "fetch") /\ cdata[con[x]] # "freed" /\ UNCHANGED rd
    /\ Goto(x, "dc_lock")
    /\ UNCHANGED <<top, con, sifd, todo, owner, srv,
                   backlog, sockOf, stream, eof, async, sig, fate>>

\* object_reader also holds read_buff_mux here, report_close does not.
DestroyUnlock_Both(x) == \* mutant: read_buff_mux is unlocked, held or not
    owner' = [owner EXCEPT ![connections_mux] = NoFrame, ![read_buff_mux] = NoFrame]
DestroyUnlock(x) ==
    owner' = [owner EXCEPT ![connections_mux] = NoFrame,
                           ![read_buff_mux] = IF @ = x THEN NoFrame ELSE @]

\* g_hash_table_remove frees whatever connections_table has under the key.
DestroyFree_Keeps(x) == \* mutant: freed without g_hash_table_remove
    /\ At(x, "dc_free") /\ cdata[con[x]] # "freed" /\ table[cfd[con[x]]] # NoConn
    /\ Life(con[x], "destroyed") /\ Unlock(con[x]) /\ Goto(x, "dc_close")
    /\ UNCHANGED <<top, con, sifd, todo, up, table, queue, cfd, overdue, net, sig, fate>>
DestroyFree_Closes(x) == \* mutant: destroy_connection closes the descriptor as well
    /\ At(x, "dc_free") /\ cdata[con[x]] # "freed" /\ table[cfd[con[x]]] = con[x]
    /\ table' = [table EXCEPT ![cfd[con[x]]] = NoConn] /\ Close(con[x])
    /\ Life(con[x], "destroyed") /\ Unlock(con[x]) /\ Goto(x, "dc_close")
    /\ UNCHANGED <<top, con, sifd, todo, up, queue, cfd, overdue,
                   backlog, stream, rd, eof, sig, fate>>
DestroyFree(x) ==
    /\ At(x, "dc_free") /\ cdata[con[x]] # "freed"
    /\ LET fd == cfd[con[x]]
           c == table[fd] IN
         /\ c # NoConn
         /\ table' = [table EXCEPT ![fd] = NoConn]
         /\ Life(c, "destroyed") /\ Unlock(c)
         /\ con' = [con EXCEPT ![x] = c]
    /\ Goto(x, "dc_close")
    /\ UNCHANGED <<top, sifd, todo, up, queue, cfd, overdue, net, sig, fate>>

\* The entry is gone: connections_mux is unlocked, and then, whoever has locked
\* it meanwhile, unlocked again.  condata stays locked.
DestroyMisses(x) ==
    /\ At(x, "dc_free") /\ cdata[con[x]] # "freed"
    /\ table[cfd[con[x]]] = NoConn
    /\ Unlock(connections_mux) /\ Goto(x, "dc_again")
    /\ UNCHANGED <<top, con, sifd, todo, srv, net, sig, fate>>

DestroyAgain(x) ==
    /\ At(x, "dc_again")
    /\ DestroyUnlock(x)
    /\ Return(x)
    /\ UNCHANGED <<sifd, todo, srv, net, sig, fate>>

DestroyClose_GoesOn(x) == \* mutant: no return after destroy_connection
    /\ At(x, "dc_close")
    /\ Close(con[x]) /\ Life(con[x], "freed") /\ DestroyUnlock(x) /\ Goto(x, "io_check")
    /\ UNCHANGED <<top, con, sifd, todo, up, table, queue, cfd, overdue,
                   backlog, stream, rd, eof, sig, fate>>
DestroyClose(x) ==
    /\ At(x, "dc_close")
    /\ Close(con[x]) /\ Life(con[x], "freed")
    /\ DestroyUnlock(x)
    /\ Return(x)
    /\ UNCHANGED <<sifd, todo, up, table, queue, cfd, overdue,
                   backlog, stream, rd, eof, sig, fate>>

\* Any access to a freed ConnectionData: the model makes no claim beyond it.
UseAfterFree(x) ==
    /\ \E l \in {"io_mutex", "io_check", "rc_lock", "fetch", "dc_free"} : At(x, l)
    /\ cdata[con[x]] = "freed"
    /\ fate' = "use after free"
    /\ UNCHANGED <<frm, todo, owner, srv, net, sig>>

-----------------------------------------------------------------------------
(* connect_handler.                                                        *)

\* accept returns the lowest descriptor that is not open.
FreeFd(fd) == /\ sockOf[fd] = NoConn
              /\ \A g \in Fds : sockOf[g] = NoConn => fd <= g

CanAccept == "listen" \in up /\ backlog # <<>> /\ \E fd \in Fds : FreeFd(fd)

AcceptFails(x) ==
    /\ At(x, "cn_accept") /\ ~CanAccept
    /\ Return(x)
    /\ UNCHANGED <<sifd, todo, owner, srv, net, sig, fate>>

\* getpeername fails because the peer is gone (or malloc fails): close(fd).
AcceptAborts_Leaks(x) == \* mutant: the accepted descriptor is not closed
    /\ At(x, "cn_accept") /\ CanAccept
    /\ AllocFails \/ Head(backlog) \in eof
    /\ backlog' = Tail(backlog)
    /\ eof' = eof \cup {Head(backlog)}
    /\ \E fd \in Fds : FreeFd(fd) /\ sockOf' = [sockOf EXCEPT ![fd] = Head(backlog)]
    /\ Return(x)
    /\ UNCHANGED <<sifd, todo, owner, srv, stream, rd, async, sig, fate>>
AcceptAborts(x) ==
    /\ At(x, "cn_accept") /\ CanAccept
    /\ AllocFails \/ Head(backlog) \in eof
    /\ backlog' = Tail(backlog)
    /\ eof' = eof \cup {Head(backlog)}
    /\ Return(x)
    /\ UNCHANGED <<sifd, todo, owner, srv, sockOf, stream, rd, async, sig, fate>>

Accept(x) ==
    /\ At(x, "cn_accept") /\ CanAccept
    /\ LET c == Head(backlog) IN
         /\ \E fd \in Fds : /\ FreeFd(fd)
                            /\ sockOf' = [sockOf EXCEPT ![fd] = c]
                            /\ cfd' = [cfd EXCEPT ![c] = fd]
         /\ Life(c, "live")
         /\ overdue' = overdue \ {c}
         /\ con' = [con EXCEPT ![x] = c]
    /\ backlog' = Tail(backlog)
    /\ Goto(x, "cn_lock")
    /\ UNCHANGED <<top, sifd, todo, owner, up, table, queue,
                   stream, rd, eof, async, sig, fate>>

\* g_hash_table_insert is FALSE for a key that is there and for a NULL table.
Insertable(x) == "table" \in up /\ table[cfd[con[x]]] = NoConn

Insert(x) ==
    /\ At(x, "cn_insert") /\ Insertable(x)
    /\ table' = [table EXCEPT ![cfd[con[x]]] = con[x]]
    /\ Unlock(connections_mux) /\ Goto(x, "cn_setup")
    /\ UNCHANGED <<top, con, sifd, todo, up, queue, cdata, cfd, overdue, net, sig, fate>>

\* "ERROR: duplicate entry in connections table!" and exit(EXIT_FAILURE).
InsertExits(x) ==
    /\ At(x, "cn_insert") /\ ~Insertable(x)
    /\ fate' = "exit"
    /\ UNCHANGED <<frm, todo, owner, srv, net, sig>>

\* No memory for the key: close(fd), free_connectiondata closes it again, and
\* connections_mux is never unlocked.
InsertFails(x) ==
    /\ AllocFails /\ At(x, "cn_insert")
    /\ Close(con[x]) /\ Goto(x, "cn_free")
    /\ UNCHANGED <<top, con, sifd, todo, owner, srv, backlog, stream, rd, eof, sig, fate>>

InsertFree(x) ==
    /\ At(x, "cn_free")
    /\ Close(con[x]) /\ Life(con[x], "freed")
    /\ Return(x)
    /\ UNCHANGED <<sifd, todo, owner, up, table, queue, cfd, overdue,
                   backlog, stream, rd, eof, sig, fate>>

\* setup_rt_signal_io installs io_handler again for every connection, then
\* sets O_ASYNC on whatever the descriptor now refers to.
Setup(x) ==
    /\ At(x, "cn_setup")
    /\ up' = up \cup {"io"}
    /\ async' = async \cup ({sockOf[cfd[con[x]]]} \ {NoConn})
    /\ Return(x)
    /\ UNCHANGED <<sifd, todo, owner, table, queue, cdata, cfd, overdue,
                   backlog, sockOf, stream, rd, eof, sig, fate>>

-----------------------------------------------------------------------------
(* iter_keep_alives, on the timer's thread.                                *)

\* The timer fires: a thread is created, and may run after stop_timer.
Tick(x) ==
    /\ x = <<Ticker, "api">> /\ At(x, "idle")
    /\ up \cap {"timer", "lost timer"} # {}
    /\ Len(queue) < MaxQueue
    /\ Goto(x, "ka_try")
    /\ UNCHANGED <<top, con, sifd, todo, owner, srv, net, sig, fate>>

\* Both locks are only tried; when connections_mux is not free all is skipped.
iter_keep_alives(x) ==
    /\ At(x, "ka_try")
    /\ \/ /\ Lock(x, connections_mux) /\ Goto(x, "ka_scan")
          /\ todo' = {fd \in Fds : table[fd] # NoConn}
       \/ /\ owner[connections_mux] # NoFrame /\ Goto(x, "idle")
          /\ UNCHANGED <<todo, owner>>
    /\ UNCHANGED <<top, con, sifd, srv, net, sig, fate>>

check_keep_alive_Drops(x, fd) == \* mutant: a silent connection leaves the table
    /\ At(x, "ka_scan") /\ fd \in todo
    /\ todo' = todo \ {fd}
    /\ IF table[fd] \notin overdue \/ owner[read_buff_mux] # NoFrame
       THEN UNCHANGED <<queue, table>>
       ELSE /\ Push(table[fd], "timeout", rd[table[fd]])
            /\ table' = [table EXCEPT ![fd] = NoConn]
    /\ UNCHANGED <<frm, owner, up, cdata, cfd, overdue, net, sig, fate>>
check_keep_alive(x, fd) ==
    /\ At(x, "ka_scan") /\ fd \in todo
    /\ todo' = todo \ {fd}
    /\ IF table[fd] \notin overdue \/ owner[read_buff_mux] # NoFrame
       THEN UNCHANGED queue
       ELSE \/ Push(table[fd], "timeout", rd[table[fd]])
            \/ AllocFails /\ UNCHANGED queue
    /\ UNCHANGED <<frm, owner, up, table, cdata, cfd, overdue, net, sig, fate>>

TickDone(x) ==
    /\ At(x, "ka_scan") /\ todo = {}
    /\ Unlock(connections_mux) /\ Goto(x, "idle")
    /\ UNCHANGED <<top, con, sifd, todo, srv, net, sig, fate>>

-----------------------------------------------------------------------------
(* The library calls of the application's threads.                         *)

IsCall(x) == x[2] = "api" /\ x[1] # Ticker /\ At(x, "idle")

\* read_message and get_connected_list begin with their lock.
CallLock(x, m) ==
    /\ IsCall(x) /\ Lock(x, m)
    /\ Goto(x, IF m = read_buff_mux THEN "rm_pop" ELSE "gl_list")
    /\ UNCHANGED <<top, con, sifd, todo, srv, net, sig, fate>>

read_message_Newest(x) == \* mutant: g_queue_pop_tail
    /\ At(x, "rm_pop")
    /\ queue' = IF queue = <<>> THEN queue ELSE SubSeq(queue, 1, Len(queue) - 1)
    /\ Unlock(read_buff_mux) /\ Goto(x, "idle")
    /\ UNCHANGED <<top, con, sifd, todo, up, table, cdata, cfd, overdue, net, sig, fate>>
read_message(x) ==
    /\ At(x, "rm_pop")
    /\ queue' = IF queue = <<>> THEN queue ELSE Tail(queue)
    /\ Unlock(read_buff_mux) /\ Goto(x, "idle")
    /\ UNCHANGED <<top, con, sifd, todo, up, table, cdata, cfd, overdue, net, sig, fate>>

get_connected_list(x) ==
    /\ At(x, "gl_list")
    /\ Unlock(connections_mux) /\ Goto(x, "idle")
    /\ UNCHANGED <<top, con, sifd, todo, srv, net, sig, fate>>

\* The assert on list_ip_addrs' malloc.
ListAborts(x) ==
    /\ AllocFails /\ At(x, "gl_list") /\ \E fd \in Fds : table[fd] # NoConn
    /\ fate' = "abort"
    /\ UNCHANGED <<frm, todo, owner, srv, net, sig>>

\* One thread starts and stops the server, and stops it before it starts again.
MainIdle(x) == x = <<Main, "api">> /\ IsCall(x)

\* start_server locks no mutex at all, whatever handlers and timer threads of an
\* earlier start still do.  A socket or bind that fails changes nothing.
start_server(x) ==
    /\ MainIdle(x) /\ "listen" \notin up
    /\ Retries \/ "table" \notin up
    /\ Goto(x, "st_queue")
    /\ UNCHANGED <<top, con, sifd, todo, owner, srv, net, sig, fate>>

StartQueue(x) ==
    /\ At(x, "st_queue")
    /\ queue' = <<>> /\ up' = up \cup {"queue"}
    /\ Goto(x, "st_table")
    /\ UNCHANGED <<top, con, sifd, todo, owner, table, cdata, cfd, overdue, net, sig, fate>>

\* The table that a failed listen has left is forgotten.
StartTable(x) ==
    /\ At(x, "st_table")
    /\ table' = [fd \in Fds |-> NoConn] /\ up' = up \cup {"table"}
    /\ Goto(x, "st_signals")
    /\ UNCHANGED <<top, con, sifd, todo, owner, queue, cdata, cfd, overdue, net, sig, fate>>

\* setup_rt_signal_io installs connect_handler before a fcntl can fail.
StartSignals(x) ==
    /\ At(x, "st_signals")
    /\ \/ up' = up \cup {"conn"} /\ Goto(x, "st_timer")
       \/ /\ "st_signals" \in StartFails
          /\ up' \in {up, up \cup {"conn"}} /\ Goto(x, "undo_queue")
    /\ UNCHANGED <<top, con, sifd, todo, owner, table, queue, cdata, cfd, overdue, net, sig, fate>>

\* timer_create overwrites the id of a timer that a failed listen has left
\* running, even if timer_settime then fails.
StartTimer(x) ==
    /\ At(x, "st_timer")
    /\ LET lost == IF "timer" \in up THEN (up \ {"timer"}) \cup {"lost timer"} ELSE up IN
         \/ up' = lost \cup {"timer"} /\ Goto(x, "st_listen")
         \/ "st_timer" \in StartFails /\ up' \in {up, lost} /\ Goto(x, "undo_queue")
    /\ UNCHANGED <<top, con, sifd, todo, owner, table, queue, cdata, cfd, overdue, net, sig, fate>>

\* The socket listens last, so that no CONNECT signal can be missed.
StartListen(x) ==
    /\ At(x, "st_listen")
    /\ \/ up' = up \cup {"listen"} /\ Goto(x, "idle")
       \/ "st_listen" \in StartFails /\ Goto(x, "undo_listen") /\ UNCHANGED up
    /\ UNCHANGED <<top, con, sifd, todo, owner, table, queue, cdata, cfd, overdue, net, sig, fate>>

\* A failed listen leaves the table and the timer as they are.
UndoQueue(x) ==
    /\ \/ At(x, "undo_queue") /\ Goto(x, "undo_free")
       \/ At(x, "undo_listen") /\ Goto(x, "idle")
    /\ queue' = <<>> /\ up' = up \ {"queue"}
    /\ UNCHANGED <<top, con, sifd, todo, owner, table, cdata, cfd, overdue, net, sig, fate>>

\* g_hash_table_destroy calls free_connectiondata for one entry after another.
FreeEntry(x, fd, from, to) ==
    /\ At(x, from) /\ table[fd] # NoConn
    /\ table' = [table EXCEPT ![fd] = NoConn]
    /\ Life(table[fd], "destroyed") /\ Unlock(table[fd])
    /\ con' = [con EXCEPT ![x] = table[fd]]
    /\ Goto(x, to)
    /\ UNCHANGED <<top, sifd, todo, up, queue, cfd, overdue, net, sig, fate>>
CloseEntry(x, from, to) ==
    /\ At(x, from)
    /\ Close(con[x]) /\ Life(con[x], "freed")
    /\ con' = [con EXCEPT ![x] = NoConn]
    /\ Goto(x, to)
    /\ UNCHANGED <<top, sifd, todo, owner, up, table, queue, cfd, overdue,
                   backlog, stream, rd, eof, sig, fate>>

UndoFree(x, fd) == FreeEntry(x, fd, "undo_free", "undo_close")
UndoClose(x) == CloseEntry(x, "undo_close", "undo_free")
UndoTable(x) ==
    /\ At(x, "undo_free") /\ \A fd \in Fds : table[fd] = NoConn
    /\ up' = up \ {"table"}
    /\ Goto(x, "idle")
    /\ UNCHANGED <<top, con, sifd, todo, owner, table, queue, cdata, cfd, overdue, net, sig, fate>>

\* The labels between the lock and the unlock of connections_mux, read_buff_mux.
HoldsTable == {"io_lookup", "dc_free", "dc_close", "cn_insert", "cn_free",
               "ka_scan", "gl_list", "stop_free", "stop_close"}
HoldsQueue == {"rc_push", "fetch", "rm_pop", "stop_qfree"}

\* start_server assigns or frees the queue or the table while a frame on another
\* thread uses it: the steps above are what can happen if no harm is done, and
\* of what else can happen the model makes no claim.
Race(x) ==
    /\ \/ /\ \E l \in {"st_queue", "undo_queue", "undo_listen"} : At(x, l)
          /\ \E y \in Frames : pc[y] \in HoldsQueue \cup {"ka_scan"}
       \/ /\ \E l \in {"st_table", "undo_free", "undo_close"} : At(x, l)
          /\ \E y \in Frames : pc[y] \in HoldsTable
    /\ fate' = "race"
    /\ UNCHANGED <<frm, todo, owner, srv, net, sig>>

\* DISABLE_SIGNAL(READ_SIG) comes before anything else.  stop_server may also
\* follow a start that failed, or no start at all.
stop_server(x) ==
    /\ MainIdle(x)
    /\ up' = up \ {"io"} /\ Goto(x, "stop_conn")
    /\ UNCHANGED <<top, con, sifd, todo, owner, table, queue, cdata, cfd, overdue, net, sig, fate>>

\* DISABLE_SIGNAL(CONNECT_SIG), stop_timer, close(listen_socket).  read_buff is
\* NULL whenever connections_table is.
StopSignals_Queue(x) == \* mutant: read_buff is freed before the connections
    /\ At(x, "stop_conn")
    /\ up' = up \ {"conn", "timer", "listen", "queue"} /\ queue' = <<>>
    /\ eof' = eof \cup {backlog[i] : i \in DOMAIN backlog}
    /\ backlog' = <<>>
    /\ Goto(x, IF "table" \in up THEN "stop_lock" ELSE "idle")
    /\ UNCHANGED <<top, con, sifd, todo, owner, table, cdata, cfd, overdue,
                   sockOf, stream, rd, async, sig, fate>>
StopSignals(x) ==
    /\ At(x, "stop_conn")
    /\ up' = up \ {"conn", "timer", "listen"}
    /\ eof' = eof \cup {backlog[i] : i \in DOMAIN backlog}
    /\ backlog' = <<>>
    /\ Goto(x, IF "table" \in up THEN "stop_lock" ELSE "idle")
    /\ UNCHANGED <<top, con, sifd, todo, owner, table, queue, cdata, cfd, overdue,
                   sockOf, stream, rd, async, sig, fate>>

\* The same g_hash_table_destroy, under connections_mux.
StopFree(x, fd) == FreeEntry(x, fd, "stop_free", "stop_close")
StopClose(x) == CloseEntry(x, "stop_close", "stop_free")
StopTable(x) ==
    /\ At(x, "stop_free") /\ \A fd \in Fds : table[fd] = NoConn
    /\ up' = up \ {"table"}
    /\ Unlock(connections_mux)
    /\ Goto(x, IF "queue" \in up THEN "stop_qlock" ELSE "idle")
    /\ UNCHANGED <<top, con, sifd, todo, table, queue, cdata, cfd, overdue, net, sig, fate>>

StopQueue(x) ==
    /\ At(x, "stop_qfree")
    /\ queue' = <<>> /\ up' = up \ {"queue"}
    /\ Unlock(read_buff_mux) /\ Goto(x, "idle")
    /\ UNCHANGED <<top, con, sifd, todo, table, cdata, cfd, overdue, net, sig, fate>>

-----------------------------------------------------------------------------
Peer == \E c \in Conns : \/ Connect(c)
                         \/ \E seg \in Segments : Arrive(c, seg)
                         \/ \E n \in 1..FinSignals : Fin(c, n)
                         \/ Expire(c)

IoHandler(x) == \/ IoLookup(x) \/ IoDestroyed(x) \/ IoPeek(x)
                \/ ReportFails(x) \/ ReportPush(x)
                \/ FetchNewline(x) \/ FetchEnd(x) \/ FetchObject(x)
                \/ FetchKeepAlive(x) \/ FetchError(x)
                \/ DestroyFree(x) \/ DestroyMisses(x) \/ DestroyAgain(x)
                \/ DestroyClose(x) \/ UseAfterFree(x)

ConnectHandler(x) == \/ AcceptFails(x) \/ AcceptAborts(x) \/ Accept(x)
                     \/ Insert(x) \/ InsertExits(x) \/ InsertFails(x) \/ InsertFree(x)
                     \/ Setup(x)

KeepAliveCheck(x) == \/ iter_keep_alives(x) \/ TickDone(x)
                     \/ \E fd \in Fds : check_keep_alive(x, fd)

\* The calls an application makes, and the rest of a call once it is made.
Call(x) == \/ \E m \in {read_buff_mux, connections_mux} : CallLock(x, m)
           \/ stop_server(x) \/ start_server(x)
Start(x) == \/ StartQueue(x) \/ StartTable(x) \/ StartSignals(x) \/ StartTimer(x)
            \/ StartListen(x) \/ UndoQueue(x)
            \/ \E fd \in Fds : UndoFree(x, fd)
            \/ UndoClose(x) \/ UndoTable(x) \/ Race(x)
Finish(x) == \/ read_message(x) \/ get_connected_list(x) \/ ListAborts(x)
             \/ StopSignals(x)
             \/ \E fd \in Fds : StopFree(x, fd)
             \/ StopClose(x) \/ StopTable(x) \/ StopQueue(x)

\* What frame x does once it is entered.
Step(x) == \/ Acquire(x) \/ IoHandler(x) \/ ConnectHandler(x)
           \/ KeepAliveCheck(x) \/ Start(x) \/ Finish(x)

Next == \/ Peer
        \/ \E t \in Threads : TakeConnect(t) \/ TakeRead(t)
        \/ \E x \in Frames : Step(x) \/ Call(x) \/ Tick(x)

Spec == Init /\ [][Next]_vars

\* The scheduler runs every thread, a mutex that is released again and again is
\* obtained in the end (its critical sections last microseconds and the timer
\* fires every KEEP_ALIVE_CHECK_PERIOD * KEEP_ALIVE_INTERVAL seconds), and the
\* kernel delivers a pending signal whenever the thread lets it.
Fairness == /\ \A x \in Frames : SF_vars(Step(x))
            /\ \A t \in SigThreads : SF_vars(TakeConnect(t)) /\ SF_vars(TakeRead(t))
FairSpec == Spec /\ Fairness
=============================================================================
