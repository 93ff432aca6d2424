------------------------------- MODULE Sender -------------------------------
(***************************************************************************)
(* The sender of libedsacnetworking, src/src/sending.c with the timer of   *)
(* src/src/timer.c: application threads in send_message and the threads    *)
(* that the timer makes in send_keep_alive share sending_fd under fd_mux,  *)
(* while start_sending and stop_sending replace and close sending_fd.      *)
(*                                                                         *)
(* An encoded message is a number of pieces, which the kernel takes one by *)
(* one: write is not atomic when the send buffer is full.  MaxEncoded      *)
(* pieces stand for MAX_ENCODED_LEN bytes.                                 *)
(***************************************************************************)
EXTENDS Integers, Sequences

CONSTANTS
    App,          \* threads of the application that call send_message
    Main,         \* the one that also calls start_sending and stop_sending
    Ticks,        \* threads the timer makes, one for each expiry
    Stopper,      \* stop_sending as the owner of fd_mux
    Nobody,       \* no owner
    Fds,          \* descriptor numbers of the process
    Lengths,      \* pieces an encoded message may have
    KeepAliveLen, \* pieces of the KEEP_ALIVE message
    MaxEncoded,   \* MAX_ENCODED_LEN
    Room,         \* pieces that fit into the socket's buffers
    Signals,      \* may a signal interrupt write (no SA_RESTART in server.c)
    PipeIgnored,  \* does the application ignore SIGPIPE
    FromHandler,  \* may a signal handler call stop_sending (sending_demo.c)
    Reconnects,   \* start_sending again once the connection is dead
    Restarts      \* start_sending again after stop_sending

Senders == App \cup Ticks
NoFd == -1
\* What the server has read before the first piece of a connection.
Start == [by |-> Nobody, part |-> 1, len |-> 1]
Pieces == [by : Senders, part : Nat, len : Nat]

ASSUME SenderAssumption ==
    /\ Main \in App
    /\ App \cap Ticks = {}
    /\ Stopper \notin Senders /\ Nobody \notin Senders /\ Stopper # Nobody
    /\ Fds \subseteq Nat
    /\ Lengths \subseteq Nat \ {0} /\ MaxEncoded \in Nat \ {0}
    /\ KeepAliveLen \in 1..MaxEncoded
    /\ Room \in Nat
    /\ {Signals, PipeIgnored, FromHandler, Reconnects, Restarts} \subseteq BOOLEAN

VARIABLES
    pc,         \* where each sender is in send_encoded_message
    arg,        \* the descriptor that it passed to write
    len,        \* pieces of its message
    done,       \* pieces that write has taken
    call,       \* where Main is in start_sending or stop_sending
    sending_fd,
    mux,        \* the owner of fd_mux
    destroyed,  \* whether fd_mux has been destroyed
    timer,      \* whether the timer with the id in "timer" is armed
    lost,       \* whether a timer is armed whose id has been overwritten
    sock,       \* what each descriptor of the process is
    wire,       \* pieces on their way to the server
    last,       \* the last piece that the server has read
    fate        \* "ok", or how the process ended

snd == <<pc, arg, len, done>>
ids == <<sending_fd, timer, lost>>
lock == <<mux, destroyed>>
line == <<wire, last>>
vars == <<snd, call, ids, lock, sock, line, fate>>

TypeOK ==
    /\ pc \in [Senders -> {"idle", "lock", "call", "write", "unlock"}]
    /\ arg \in [Senders -> Fds \cup {NoFd}]
    /\ len \in [Senders -> Nat \ {0}]
    /\ done \in [Senders -> Nat]
    /\ call \in {"idle", "connect", "stop_lock", "stop_close", "stop_destroy"}
    /\ sending_fd \in Fds \cup {NoFd}
    /\ mux \in Senders \cup {Stopper, Nobody}
    /\ destroyed \in BOOLEAN /\ timer \in BOOLEAN /\ lost \in BOOLEAN
    /\ sock \in [Fds -> {"none", "new", "conn", "dead", "other"}]
    /\ wire \in Seq(Pieces)
    /\ last \in Pieces \cup {Start}
    /\ fate \in {"ok", "exit", "abort", "killed", "done"}

Init ==
    /\ pc = [x \in Senders |-> "idle"]
    /\ arg = [x \in Senders |-> NoFd]
    /\ len = [x \in Senders |-> 1]
    /\ done = [x \in Senders |-> 0]
    /\ call = "idle" /\ sending_fd = NoFd
    /\ mux = Nobody /\ destroyed = FALSE /\ timer = FALSE /\ lost = FALSE
    /\ sock = [fd \in Fds |-> "none"]
    /\ wire = <<>> /\ last = Start
    /\ fate = "ok"

-----------------------------------------------------------------------------
(* send_message, send_keep_alive and send_encoded_message.                 *)

\* A signal handler that calls stop_sending suspends the call below it.
At(x, l) == fate = "ok" /\ pc[x] = l /\ (x = Main => call = "idle")
Goto(x, l) == pc' = [pc EXCEPT ![x] = l]

\* send_encoded_message returns and its variables are gone.
Return(x) ==
    /\ Goto(x, "idle")
    /\ arg' = [arg EXCEPT ![x] = NoFd]
    /\ len' = [len EXCEPT ![x] = 1]
    /\ done' = [done EXCEPT ![x] = 0]

\* The application sends between a successful start_sending and stop_sending.
send_message(x, n) ==
    /\ x \in App /\ At(x, "idle") /\ timer
    /\ len' = [len EXCEPT ![x] = n]
    /\ Goto(x, "lock")
    /\ UNCHANGED <<arg, done, call, ids, lock, sock, line, fate>>

\* The timer expires and a new thread begins.
send_keep_alive(x) ==
    /\ x \in Ticks /\ At(x, "idle") /\ (timer \/ lost)
    /\ len' = [len EXCEPT ![x] = KeepAliveLen]
    /\ Goto(x, "lock")
    /\ UNCHANGED <<arg, done, call, ids, lock, sock, line, fate>>

Lock_Never(x) == \* mutant: fd_mux is not locked
    /\ At(x, "lock") /\ ~destroyed /\ mux' = x
    /\ Goto(x, "call")
    /\ UNCHANGED <<arg, len, done, call, ids, destroyed, sock, line, fate>>
Lock_Try(x) == \* mutant: pthread_mutex_trylock, as in check_keep_alive
    /\ At(x, "lock") /\ ~destroyed
    /\ \/ mux = Nobody /\ mux' = x /\ Goto(x, "call") /\ UNCHANGED <<arg, len, done>>
       \/ mux # Nobody /\ mux' = mux /\ Return(x)
    /\ UNCHANGED <<call, ids, destroyed, sock, line, fate>>
Lock(x) ==
    /\ At(x, "lock") /\ ~destroyed
    /\ mux = Nobody /\ mux' = x
    /\ Goto(x, "call")
    /\ UNCHANGED <<arg, len, done, call, ids, destroyed, sock, line, fate>>

\* pthread_mutex_lock of a destroyed mutex returns EINVAL, which is not -1.
LockFails(x) ==
    /\ At(x, "lock") /\ destroyed
    /\ Goto(x, "call")
    /\ UNCHANGED <<arg, len, done, call, ids, lock, sock, line, fate>>

\* strnlen(encoded, MAX_ENCODED_LEN)
Expected(x) == IF len[x] <= MaxEncoded THEN len[x] ELSE MaxEncoded

\* write is called with the value of sending_fd; -1 is a bad descriptor.
BeginWrite(x) ==
    /\ At(x, "call")
    /\ arg' = [arg EXCEPT ![x] = sending_fd]
    /\ done' = [done EXCEPT ![x] = 0]
    /\ Goto(x, IF sending_fd = NoFd THEN "unlock" ELSE "write")
    /\ UNCHANGED <<len, call, ids, lock, sock, line, fate>>

\* The kernel takes a piece, and write returns after the last.
Taken(x) ==
    /\ done' = [done EXCEPT ![x] = @ + 1]
    /\ IF done'[x] = Expected(x) THEN Goto(x, "unlock") ELSE UNCHANGED pc

WritePiece(x) ==
    /\ At(x, "write") /\ sock[arg[x]] = "conn" /\ Len(wire) < Room
    /\ wire' = Append(wire, [by |-> x, part |-> done[x] + 1, len |-> len[x]])
    /\ Taken(x)
    /\ UNCHANGED <<arg, len, call, ids, lock, sock, last, fate>>

\* The peer has closed, but its RST has not come yet; or the descriptor is one
\* that the application opened.
WriteElsewhere(x) ==
    /\ At(x, "write") /\ sock[arg[x]] \in {"dead", "other"}
    /\ Taken(x)
    /\ UNCHANGED <<arg, len, call, ids, lock, sock, line, fate>>

\* write fails (a socket that is not connected, closed or reset).
WriteFails(x) ==
    /\ At(x, "write") /\ sock[arg[x]] \in {"none", "new", "dead"}
    /\ Goto(x, "unlock")
    /\ UNCHANGED <<arg, len, done, call, ids, lock, sock, line, fate>>

\* EPIPE comes with SIGPIPE, unless write has already taken something.
PipeKills(x) ==
    /\ At(x, "write") /\ sock[arg[x]] \in {"new", "dead"}
    /\ ~PipeIgnored /\ done[x] = 0
    /\ fate' = "killed"
    /\ UNCHANGED <<snd, call, ids, lock, sock, line>>

\* A signal interrupts a write that waits for room: EINTR, or what it has taken.
WriteInterrupted(x) ==
    /\ Signals /\ At(x, "write") /\ sock[arg[x]] = "conn" /\ Len(wire) >= Room
    /\ Goto(x, "unlock")
    /\ UNCHANGED <<arg, len, done, call, ids, lock, sock, line, fate>>

Unlock_Success(x) == \* mutant: a failed write returns with fd_mux locked
    /\ At(x, "unlock") /\ ~destroyed
    /\ mux' = IF done[x] = Expected(x) THEN Nobody ELSE mux
    /\ Return(x)
    /\ UNCHANGED <<call, ids, destroyed, sock, line, fate>>
Unlock(x) ==
    /\ At(x, "unlock") /\ ~destroyed
    /\ mux' = Nobody
    /\ Return(x)
    /\ UNCHANGED <<call, ids, destroyed, sock, line, fate>>

\* The unlock of a destroyed mutex returns EINVAL too: exit(EXIT_FAILURE).
UnlockExits(x) ==
    /\ At(x, "unlock") /\ destroyed
    /\ fate' = "exit"
    /\ UNCHANGED <<snd, call, ids, lock, sock, line>>

\* What send_encoded_message returns.
Succeeds(x) == done[x] = Expected(x)

SenderStep(x) ==
    \/ Lock(x) \/ LockFails(x) \/ BeginWrite(x)
    \/ WritePiece(x) \/ WriteElsewhere(x) \/ WriteFails(x) \/ PipeKills(x)
    \/ WriteInterrupted(x) \/ Unlock(x) \/ UnlockExits(x)

-----------------------------------------------------------------------------
(* start_sending, with create_timer.                                       *)

\* timer_create fails, or a new timer is armed and the id of the one before is
\* overwritten.  timer_settime does not fail for a timer just created.
create_timer(armed) == timer' = (timer \/ armed) /\ lost' = (lost \/ (timer /\ armed))

\* Descriptors are given out lowest first.
Lowest(fd) == sock[fd] = "none" /\ \A g \in Fds : g < fd => sock[g] # "none"

\* The application starts once; again, when the connection is dead or the last
\* start failed (Reconnects), or after stop_sending (Restarts).
CanStart ==
    /\ At(Main, "idle")
    /\ \/ ~timer /\ ~destroyed /\ sending_fd = NoFd
       \/ Reconnects /\ ~destroyed
          /\ (sending_fd # NoFd => sock[sending_fd] \in {"new", "dead"})
       \/ Restarts /\ destroyed /\ ~timer /\ (sending_fd # NoFd => sock[sending_fd] = "new")

\* socket fails.
StartFails ==
    /\ CanStart
    /\ sending_fd' = NoFd
    /\ UNCHANGED <<snd, call, timer, lost, lock, sock, line, fate>>

\* socket succeeds; sending_fd is assigned without fd_mux, and what it held is
\* not closed.
start_sending(fd) ==
    /\ CanStart /\ Lowest(fd)
    /\ sock' = [sock EXCEPT ![fd] = "new"]
    /\ sending_fd' = fd
    /\ call' = "connect"
    /\ UNCHANGED <<snd, timer, lost, lock, line, fate>>

\* connect fails: start_sending returns, sending_fd stays.
ConnectFails ==
    /\ fate = "ok" /\ call = "connect" /\ call' = "idle"
    /\ UNCHANGED <<snd, ids, lock, sock, line, fate>>

\* connect succeeds, and create_timer too (armed) or not.
Connected(armed) ==
    /\ fate = "ok" /\ call = "connect" /\ call' = "idle"
    /\ sock' = [sock EXCEPT ![sending_fd] = "conn"]
    /\ wire' = <<>> /\ last' = Start
    /\ create_timer(armed)
    /\ UNCHANGED <<snd, sending_fd, lock, fate>>

-----------------------------------------------------------------------------
(* stop_sending, with stop_timer.                                          *)

\* The timer is disarmed; threads it has made go on, and so does a lost timer.
stop_timer == timer' = FALSE /\ UNCHANGED lost

stop_sending ==
    /\ fate = "ok" /\ call = "idle" /\ timer
    /\ pc[Main] = "idle" \/ FromHandler
    /\ stop_timer
    /\ call' = "stop_lock"
    /\ UNCHANGED <<snd, sending_fd, lock, sock, line, fate>>

\* assert(0 == pthread_mutex_lock(&fd_mux))
StopLock ==
    /\ fate = "ok" /\ call = "stop_lock" /\ ~destroyed
    /\ mux = Nobody /\ mux' = Stopper
    /\ call' = "stop_close"
    /\ UNCHANGED <<snd, ids, destroyed, sock, line, fate>>

\* close, sending_fd = -1, unlock.
StopClose_Zero == \* mutant: 0 for a closed descriptor
    /\ fate = "ok" /\ call = "stop_close" /\ call' = "stop_destroy"
    /\ sock' = [fd \in Fds |-> IF fd = sending_fd THEN "none" ELSE sock[fd]]
    /\ sending_fd' = 0
    /\ mux' = Nobody
    /\ UNCHANGED <<snd, timer, lost, destroyed, line, fate>>
StopClose_KeepsFd == \* mutant: sending_fd is not set to -1
    /\ fate = "ok" /\ call = "stop_close" /\ call' = "stop_destroy"
    /\ sock' = [fd \in Fds |-> IF fd = sending_fd THEN "none" ELSE sock[fd]]
    /\ mux' = Nobody
    /\ UNCHANGED <<snd, ids, destroyed, line, fate>>
StopClose ==
    /\ fate = "ok" /\ call = "stop_close" /\ call' = "stop_destroy"
    /\ sock' = [fd \in Fds |-> IF fd = sending_fd THEN "none" ELSE sock[fd]]
    /\ sending_fd' = NoFd
    /\ mux' = Nobody
    /\ UNCHANGED <<snd, timer, lost, destroyed, line, fate>>

\* assert(0 == pthread_mutex_destroy(&fd_mux)).  The signal handler of
\* sending_demo.c then exits.
StopDestroy ==
    /\ fate = "ok" /\ call = "stop_destroy" /\ mux = Nobody
    /\ destroyed' = TRUE
    /\ call' = "idle"
    /\ fate' = IF pc[Main] = "idle" THEN "ok" ELSE "done"
    /\ UNCHANGED <<snd, ids, mux, sock, line>>

\* The two asserts that can fail: EINVAL for a destroyed mutex, EBUSY.
AssertFails ==
    /\ fate = "ok"
    /\ \/ call = "stop_lock" /\ destroyed
       \/ call = "stop_destroy" /\ mux # Nobody
    /\ fate' = "abort"
    /\ UNCHANGED <<snd, call, ids, lock, sock, line>>

MainStep ==
    \/ ConnectFails \/ \E armed \in BOOLEAN : Connected(armed)
    \/ StopLock \/ StopClose \/ StopDestroy \/ AssertFails

-----------------------------------------------------------------------------
(* The server at the other end, and the rest of the process.               *)

\* The server reads.
Read ==
    /\ fate = "ok" /\ wire # <<>>
    /\ last' = Head(wire) /\ wire' = Tail(wire)
    /\ UNCHANGED <<snd, call, ids, lock, sock, fate>>

\* The server closes the connection or dies.
PeerCloses(fd) ==
    /\ fate = "ok" /\ sock[fd] = "conn"
    /\ sock' = [sock EXCEPT ![fd] = "dead"]
    /\ wire' = <<>> /\ last' = Start
    /\ UNCHANGED <<snd, call, ids, lock, fate>>

\* The application opens and closes descriptors of its own.
OtherOpens(fd) ==
    /\ fate = "ok" /\ Lowest(fd)
    /\ sock' = [sock EXCEPT ![fd] = "other"]
    /\ UNCHANGED <<snd, call, ids, lock, line, fate>>
OtherCloses(fd) ==
    /\ fate = "ok" /\ sock[fd] = "other"
    /\ sock' = [sock EXCEPT ![fd] = "none"]
    /\ UNCHANGED <<snd, call, ids, lock, line, fate>>

Calls ==
    \/ \E x \in App, n \in Lengths : send_message(x, n)
    \/ StartFails \/ (\E fd \in Fds : start_sending(fd)) \/ stop_sending
World == Read \/ \E fd \in Fds : PeerCloses(fd) \/ OtherOpens(fd) \/ OtherCloses(fd)

Next ==
    \/ Calls \/ MainStep \/ World
    \/ \E x \in Ticks : send_keep_alive(x)
    \/ \E x \in Senders : SenderStep(x)

Spec == Init /\ [][Next]_vars

\* A thread that can run runs, a waiter for fd_mux gets it in the end, the timer
\* expires for as long as it is armed, and the server reads.
Fairness == /\ \A x \in Senders : SF_vars(SenderStep(x))
            /\ \A x \in Ticks : WF_vars(send_keep_alive(x))
            /\ WF_vars(MainStep) /\ SF_vars(StopLock)
            /\ SF_vars(Read)
FairSpec == Spec /\ Fairness
=============================================================================
