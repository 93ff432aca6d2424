---------------------------- MODULE SenderProofs ----------------------------
(***************************************************************************)
(* Theorems about module Sender, for every value of its constants, some    *)
(* with a condition on one of them as a hypothesis.                        *)
(***************************************************************************)
EXTENDS SenderProperties, SequenceTheorems, TLAPS

\* The constants, for the steps that need them.
LEMMA Constants ==
    /\ Main \in Senders /\ App \subseteq Senders /\ Ticks \subseteq Senders
    /\ Stopper \notin Senders /\ Nobody \notin Senders /\ Stopper # Nobody
    /\ NoFd \notin Fds /\ Lengths \subseteq Nat \ {0} /\ MaxEncoded \in Nat \ {0}
    /\ KeepAliveLen \in 1..MaxEncoded
BY SenderAssumption DEF Senders, NoFd

\* The three groups of variables, typed.
SenderTypes ==
    /\ pc \in [Senders -> {"idle", "lock", "call", "write", "unlock"}]
    /\ arg \in [Senders -> Fds \cup {NoFd}]
    /\ len \in [Senders -> Nat \ {0}]
    /\ done \in [Senders -> Nat]
MainTypes ==
    /\ call \in {"idle", "connect", "stop_lock", "stop_close", "stop_destroy"}
    /\ sending_fd \in Fds \cup {NoFd}
    /\ mux \in Senders \cup {Stopper, Nobody}
    /\ destroyed \in BOOLEAN /\ timer \in BOOLEAN /\ lost \in BOOLEAN
    /\ fate \in {"ok", "exit", "abort", "killed", "done"}
LineTypes ==
    /\ sock \in [Fds -> {"none", "new", "conn", "dead", "other"}]
    /\ wire \in Seq(Pieces)
    /\ last \in Pieces \cup {Start}

\* start_sending connects the descriptor that it has just opened.
Connecting == call = "connect" => sending_fd \in Fds /\ sock[sending_fd] = "new"
\* A descriptor passed to write is one.
Written == \A x \in Senders : pc[x] = "write" => arg[x] \in Fds
\* The types, with what they need to be inductive.
TypeInv == SenderTypes /\ MainTypes /\ LineTypes /\ Connecting /\ Written

\* Steps of send_encoded_message keep the types.
LEMMA SenderStepTypes ==
    ASSUME TypeInv, NEW x \in Senders, SenderStep(x)
    PROVE  TypeInv'
<1> USE Constants DEF TypeInv
<1>1. CASE Lock(x)
  <2>1. SenderTypes' BY <1>1 DEF Lock, Goto, SenderTypes
  <2>2. MainTypes' BY <1>1 DEF Lock, MainTypes, ids
  <2>3. LineTypes' /\ Connecting' BY <1>1 DEF Lock, LineTypes, line, ids, Connecting
  <2>4. Written' BY <1>1 DEF Lock, Goto, Written, SenderTypes
  <2> QED BY <2>1, <2>2, <2>3, <2>4
<1>2. CASE LockFails(x)
  <2>1. SenderTypes' BY <1>2 DEF LockFails, Goto, SenderTypes
  <2>2. MainTypes' BY <1>2 DEF LockFails, MainTypes, ids, lock
  <2>3. LineTypes' /\ Connecting' BY <1>2 DEF LockFails, LineTypes, line, ids, Connecting
  <2>4. Written' BY <1>2 DEF LockFails, Goto, Written, SenderTypes
  <2> QED BY <2>1, <2>2, <2>3, <2>4
<1>3. CASE BeginWrite(x)
  <2>1. SenderTypes' BY <1>3 DEF BeginWrite, Goto, SenderTypes, MainTypes
  <2>2. MainTypes' BY <1>3 DEF BeginWrite, MainTypes, ids, lock
  <2>3. LineTypes' /\ Connecting' BY <1>3 DEF BeginWrite, LineTypes, line, ids, Connecting
  <2>4. Written' BY <1>3 DEF BeginWrite, Goto, Written, SenderTypes, MainTypes
  <2> QED BY <2>1, <2>2, <2>3, <2>4
<1>4. CASE WritePiece(x)
  <2>1. SenderTypes' BY <1>4 DEF WritePiece, Taken, Goto, SenderTypes
  <2>2. MainTypes' BY <1>4 DEF WritePiece, MainTypes, ids, lock
  <2>3. [by |-> x, part |-> done[x] + 1, len |-> len[x]] \in Pieces
    BY DEF SenderTypes, Pieces
  <2>4. wire' \in Seq(Pieces) BY <1>4, <2>3, AppendProperties DEF WritePiece, LineTypes
  <2>5. LineTypes' /\ Connecting' BY <1>4, <2>4 DEF WritePiece, LineTypes, ids, Connecting
  <2>6. Written' BY <1>4 DEF WritePiece, Taken, Goto, Written, SenderTypes
  <2> QED BY <2>1, <2>2, <2>5, <2>6
<1>5. CASE WriteElsewhere(x)
  <2>1. SenderTypes' BY <1>5 DEF WriteElsewhere, Taken, Goto, SenderTypes
  <2>2. MainTypes' BY <1>5 DEF WriteElsewhere, MainTypes, ids, lock
  <2>3. LineTypes' /\ Connecting' BY <1>5 DEF WriteElsewhere, LineTypes, line, ids, Connecting
  <2>4. Written' BY <1>5 DEF WriteElsewhere, Taken, Goto, Written, SenderTypes
  <2> QED BY <2>1, <2>2, <2>3, <2>4
<1>6. CASE WriteFails(x) \/ WriteInterrupted(x)
  <2>1. /\ Goto(x, "unlock")
        /\ UNCHANGED <<arg, len, done, call, ids, lock, sock, line, fate>>
    BY <1>6 DEF WriteFails, WriteInterrupted
  <2>2. SenderTypes' BY <2>1 DEF Goto, SenderTypes
  <2>3. MainTypes' BY <2>1 DEF MainTypes, ids, lock
  <2>4. LineTypes' /\ Connecting' BY <2>1 DEF LineTypes, line, ids, Connecting
  <2>5. Written' BY <2>1 DEF Goto, Written, SenderTypes
  <2> QED BY <2>2, <2>3, <2>4, <2>5
<1>7. CASE PipeKills(x) \/ UnlockExits(x)
  <2>1. fate' \in {"killed", "exit"} /\ UNCHANGED <<snd, call, ids, lock, sock, line>>
    BY <1>7 DEF PipeKills, UnlockExits
  <2> QED BY <2>1 DEF SenderTypes, MainTypes, LineTypes, Connecting, Written, snd, ids, lock, line
<1>8. CASE Unlock(x)
  <2>1. SenderTypes' BY <1>8 DEF Unlock, Return, Goto, SenderTypes
  <2>2. MainTypes' BY <1>8 DEF Unlock, MainTypes, ids
  <2>3. LineTypes' /\ Connecting' BY <1>8 DEF Unlock, LineTypes, line, ids, Connecting
  <2>4. Written' BY <1>8 DEF Unlock, Return, Goto, Written, SenderTypes
  <2> QED BY <2>1, <2>2, <2>3, <2>4
<1> QED BY <1>1, <1>2, <1>3, <1>4, <1>5, <1>6, <1>7, <1>8 DEF SenderStep

\* Steps of start_sending and stop_sending keep the types.
LEMMA MainStepTypes == ASSUME TypeInv, MainStep PROVE TypeInv'
<1> USE Constants DEF TypeInv
<1>1. CASE ConnectFails
  BY <1>1 DEF ConnectFails, SenderTypes, MainTypes, LineTypes, Connecting, Written, snd, ids, lock, line
<1>2. CASE \E armed \in BOOLEAN : Connected(armed)
  <2>1. SenderTypes' /\ MainTypes' /\ Connecting' /\ Written'
    BY <1>2 DEF Connected, create_timer, SenderTypes, MainTypes, Connecting, Written, snd, lock
  <2>2. LineTypes' BY <1>2, EmptySeq DEF Connected, create_timer, LineTypes
  <2> QED BY <2>1, <2>2
<1>3. CASE StopLock
  BY <1>3 DEF StopLock, SenderTypes, MainTypes, LineTypes, Connecting, Written, snd, ids, line
<1>4. CASE StopClose
  BY <1>4 DEF StopClose, SenderTypes, MainTypes, LineTypes, Connecting, Written, snd, line
<1>5. CASE StopDestroy \/ AssertFails
  BY <1>5 DEF StopDestroy, AssertFails, SenderTypes, MainTypes, LineTypes, Connecting, Written,
              snd, ids, lock, line
<1> QED BY <1>1, <1>2, <1>3, <1>4, <1>5 DEF MainStep

\* The beginning of a call, and of a thread of the timer, keep the types.
LEMMA CallsTypes ==
    ASSUME TypeInv, Calls \/ \E x \in Ticks : send_keep_alive(x)
    PROVE  TypeInv'
<1> USE Constants DEF TypeInv
<1>1. CASE \/ \E x \in App, n \in Lengths : send_message(x, n)
           \/ \E x \in Ticks : send_keep_alive(x)
  <2>1. PICK x \in Senders, n \in Nat \ {0} :
           /\ len' = [len EXCEPT ![x] = n] /\ Goto(x, "lock")
           /\ UNCHANGED <<arg, done, call, ids, lock, sock, line, fate>>
    BY <1>1 DEF send_message, send_keep_alive
  <2>2. SenderTypes' BY <2>1 DEF Goto, SenderTypes
  <2>3. MainTypes' BY <2>1 DEF MainTypes, ids, lock
  <2>4. LineTypes' /\ Connecting' BY <2>1 DEF LineTypes, line, ids, Connecting
  <2>5. Written' BY <2>1 DEF Goto, Written, SenderTypes
  <2> QED BY <2>2, <2>3, <2>4, <2>5
<1>2. CASE StartFails
  BY <1>2 DEF StartFails, CanStart, At, SenderTypes, MainTypes, LineTypes, Connecting, Written,
              snd, lock, line
<1>3. CASE \E fd \in Fds : start_sending(fd)
  BY <1>3 DEF start_sending, SenderTypes, MainTypes, LineTypes, Connecting, Written, snd, lock, line
<1>4. CASE stop_sending
  BY <1>4 DEF stop_sending, stop_timer, SenderTypes, MainTypes, LineTypes, Connecting, Written, snd, lock, line
<1> QED BY <1>1, <1>2, <1>3, <1>4 DEF Calls

\* The server and the rest of the process keep the types.
LEMMA WorldTypes == ASSUME TypeInv, World PROVE TypeInv'
<1> USE Constants DEF TypeInv
<1>1. CASE Read
  <2>1. /\ wire \in Seq(Pieces) /\ wire # <<>> BY <1>1 DEF Read, LineTypes
  <2>2. wire' \in Seq(Pieces) /\ last' \in Pieces
    BY <1>1, <2>1, HeadTailProperties DEF Read
  <2> QED BY <1>1, <2>2 DEF Read, SenderTypes, MainTypes, LineTypes, Connecting, Written, snd, ids, lock
<1>2. CASE \E fd \in Fds : PeerCloses(fd)
  <2>1. SenderTypes' /\ MainTypes' /\ Connecting' /\ Written'
    BY <1>2 DEF PeerCloses, SenderTypes, MainTypes, LineTypes, Connecting, Written, snd, ids, lock
  <2>2. LineTypes' BY <1>2, EmptySeq DEF PeerCloses, LineTypes
  <2> QED BY <2>1, <2>2
<1>3. CASE \E fd \in Fds : OtherOpens(fd) \/ OtherCloses(fd)
  <2>1. PICK fd \in Fds : /\ sock[fd] \in {"none", "other"}
                          /\ \E s \in {"none", "other"} : sock' = [sock EXCEPT ![fd] = s]
                          /\ UNCHANGED <<snd, call, ids, lock, line, fate>>
    BY <1>3 DEF OtherOpens, OtherCloses, Lowest
  <2> QED BY <2>1 DEF SenderTypes, MainTypes, LineTypes, Connecting, Written, snd, ids, lock, line
<1> QED BY <1>1, <1>2, <1>3 DEF World

LEMMA TypeInit == Init => TypeInv
<1> SUFFICES ASSUME Init PROVE TypeInv OBVIOUS
<1>1. SenderTypes /\ Written BY DEF Init, SenderTypes, Written
<1>2. MainTypes /\ Connecting BY DEF Init, MainTypes, Connecting
<1>3. LineTypes BY EmptySeq DEF Init, LineTypes
<1> QED BY <1>1, <1>2, <1>3 DEF TypeInv

LEMMA TypeStep == TypeInv /\ [Next]_vars => TypeInv'
<1> SUFFICES ASSUME TypeInv, [Next]_vars PROVE TypeInv' OBVIOUS
<1>1. CASE UNCHANGED vars
  BY <1>1 DEF TypeInv, SenderTypes, MainTypes, LineTypes, Connecting, Written, vars,
              snd, ids, lock, line
<1> QED BY <1>1, SenderStepTypes, MainStepTypes, CallsTypes, WorldTypes DEF Next

\* The variables of the sender keep their types, whatever interrupts, kills,
\* stops and restarts it.
THEOREM SenderTypeCorrect == Spec => []TypeOK
<1>1. TypeInv => TypeOK BY DEF TypeInv, TypeOK, SenderTypes, MainTypes, LineTypes
<1> QED BY TypeInit, TypeStep, <1>1, PTL DEF Spec

-----------------------------------------------------------------------------
(* fd_mux and the stream of messages, while start_sending does not follow  *)
(* a stop_sending (~Restarts).                                             *)

\* A thread between lock and unlock owns fd_mux, unless it was destroyed.
Owned == \A x \in Senders : pc[x] \in {"call", "write", "unlock"} => mux = x \/ destroyed
StopOwns == call = "stop_close" => mux = Stopper
\* stop_sending has disarmed the timer, and later closed sending_fd.
Stopping ==
    /\ call \in {"stop_lock", "stop_close", "stop_destroy"} => ~timer /\ ~destroyed
    /\ call = "stop_destroy" => sending_fd = NoFd
\* Once fd_mux is destroyed nothing starts, stops or writes.
Stopped ==
    destroyed => /\ sending_fd = NoFd /\ ~timer /\ call = "idle"
                 /\ \A x \in Senders : pc[x] # "write"
\* sending_fd and the descriptor of every write are sockets of the sender.
OwnSockets ==
    /\ sending_fd # NoFd => sock[sending_fd] \in {"new", "conn", "dead"}
    /\ \A x \in Senders : pc[x] = "write" => sock[arg[x]] \in {"new", "conn", "dead"}
\* The inductive invariant of the first theorems.
MuxInv == TypeInv /\ Owned /\ StopOwns /\ Stopping /\ Stopped /\ OwnSockets

\* fd_mux excludes two writes at once, and a write while stop_sending closes.
LEMMA OneWriter ==
    ASSUME MuxInv
    PROVE  /\ \A x, y \in Senders : pc[x] = "write" /\ pc[y] = "write" => x = y
           /\ call = "stop_close" => \A x \in Senders : pc[x] # "write"
BY Constants DEF MuxInv, Owned, StopOwns, Stopped

\* Steps of send_encoded_message keep the ownership of fd_mux.
LEMMA SenderStepMux ==
    ASSUME MuxInv, NEW x \in Senders, SenderStep(x)
    PROVE  MuxInv'
<1> USE Constants DEF MuxInv, SenderTypes, MainTypes, LineTypes
<1>1. TypeInv' BY SenderStepTypes
<1>2. CASE Lock(x)
  BY <1>1, <1>2 DEF Lock, Goto, TypeInv, Owned, StopOwns, Stopping, Stopped, OwnSockets, ids
<1>3. CASE LockFails(x)
  BY <1>1, <1>3 DEF LockFails, Goto, TypeInv, Owned, StopOwns, Stopping, Stopped, OwnSockets, ids, lock
<1>4. CASE BeginWrite(x)
  <2>1. Owned' BY <1>4 DEF BeginWrite, At, Goto, TypeInv, Owned, lock
  <2>2. StopOwns' /\ Stopping' /\ Stopped' BY <1>4 DEF BeginWrite, Goto, TypeInv, StopOwns, Stopping, Stopped, ids, lock
  <2>3. OwnSockets' BY <1>4 DEF BeginWrite, Goto, TypeInv, OwnSockets, ids
  <2> QED BY <1>1, <2>1, <2>2, <2>3
<1>5. CASE WritePiece(x) \/ WriteElsewhere(x) \/ WriteFails(x) \/ WriteInterrupted(x)
  <2>1. /\ pc[x] = "write" /\ (pc' = pc \/ Goto(x, "unlock"))
        /\ UNCHANGED <<arg, call, ids, lock, sock>>
    BY <1>5 DEF WritePiece, WriteElsewhere, WriteFails, WriteInterrupted, Taken, At
  <2>2. Owned' BY <2>1 DEF Goto, TypeInv, Owned, lock
  <2>3. StopOwns' /\ Stopping' /\ Stopped' /\ OwnSockets'
    BY <2>1 DEF Goto, TypeInv, StopOwns, Stopping, Stopped, OwnSockets, ids, lock
  <2> QED BY <1>1, <2>2, <2>3
<1>6. CASE PipeKills(x) \/ UnlockExits(x)
  <2>1. UNCHANGED <<snd, call, ids, lock, sock>> BY <1>6 DEF PipeKills, UnlockExits
  <2> QED BY <1>1, <2>1 DEF Owned, StopOwns, Stopping, Stopped, OwnSockets, snd, ids, lock
<1>7. CASE Unlock(x)
  <2>1. mux = x BY <1>7 DEF Unlock, At, Owned
  <2>2. Owned' /\ StopOwns' BY <1>7, <2>1 DEF Unlock, Return, Goto, TypeInv, Owned, StopOwns
  <2>3. Stopping' /\ Stopped' /\ OwnSockets'
    BY <1>7 DEF Unlock, Return, Goto, TypeInv, Stopping, Stopped, OwnSockets, ids
  <2> QED BY <1>1, <2>2, <2>3
<1> QED BY <1>2, <1>3, <1>4, <1>5, <1>6, <1>7 DEF SenderStep

\* So do the steps of start_sending and stop_sending.
LEMMA MainStepMux == ASSUME MuxInv, MainStep PROVE MuxInv'
<1> USE Constants DEF MuxInv, SenderTypes, MainTypes, LineTypes
<1>1. TypeInv' BY MainStepTypes
<1>2. CASE ConnectFails \/ AssertFails
  BY <1>1, <1>2 DEF ConnectFails, AssertFails, Owned, StopOwns, Stopping, Stopped, OwnSockets, snd, ids, lock
<1>3. CASE \E armed \in BOOLEAN : Connected(armed)
  <2>1. PICK armed \in BOOLEAN : Connected(armed) BY <1>3
  <2>2. Owned' /\ StopOwns' /\ Stopping' /\ Stopped'
    BY <2>1 DEF Connected, create_timer, TypeInv, Owned, StopOwns, Stopping, Stopped, snd, lock
  <2>3. OwnSockets' BY <2>1 DEF Connected, create_timer, TypeInv, Connecting, Written, OwnSockets, snd
  <2> QED BY <1>1, <2>2, <2>3
<1>4. CASE StopLock
  BY <1>1, <1>4 DEF StopLock, Owned, StopOwns, Stopping, Stopped, OwnSockets, snd, ids
<1>5. CASE StopClose
  <2>1. /\ mux = Stopper /\ ~destroyed /\ \A x \in Senders : pc[x] \notin {"call", "write", "unlock"}
    BY <1>5 DEF StopClose, Owned, StopOwns, Stopping
  <2> QED BY <1>1, <1>5, <2>1 DEF StopClose, Owned, StopOwns, Stopping, Stopped, OwnSockets, snd
<1>6. CASE StopDestroy
  <2>1. ~destroyed /\ sending_fd = NoFd /\ ~timer BY <1>6 DEF StopDestroy, Stopping
  <2>2. \A x \in Senders : pc[x] # "write" BY <1>6, <2>1 DEF StopDestroy, Owned
  <2> QED BY <1>1, <1>6, <2>1, <2>2 DEF StopDestroy, Owned, StopOwns, Stopping, Stopped, OwnSockets, snd, ids
<1> QED BY <1>2, <1>3, <1>4, <1>5, <1>6 DEF MainStep

\* So does the beginning of a call, as long as no session follows another.
LEMMA CallsMux ==
    ASSUME ~Restarts, MuxInv, Calls \/ \E x \in Ticks : send_keep_alive(x)
    PROVE  MuxInv'
<1> USE Constants DEF MuxInv, SenderTypes, MainTypes, LineTypes
<1>1. TypeInv' BY CallsTypes
<1>2. CASE \/ \E x \in App, n \in Lengths : send_message(x, n)
           \/ \E x \in Ticks : send_keep_alive(x)
  <2>1. PICK x \in Senders : pc[x] = "idle" /\ Goto(x, "lock") /\ UNCHANGED <<arg, call, ids, lock, sock>>
    BY <1>2 DEF send_message, send_keep_alive, At
  <2> QED BY <1>1, <2>1 DEF Goto, TypeInv, Owned, StopOwns, Stopping, Stopped, OwnSockets, ids, lock
<1>3. CASE StartFails
  BY <1>1, <1>3 DEF StartFails, CanStart, At, Owned, StopOwns, Stopping, Stopped, OwnSockets, snd, lock
<1>4. CASE \E fd \in Fds : start_sending(fd)
  <2>1. PICK fd \in Fds : start_sending(fd) BY <1>4
  <2>2. ~destroyed BY <2>1 DEF start_sending, CanStart
  <2>3. Owned' /\ StopOwns' /\ Stopping' /\ Stopped'
    BY <2>1, <2>2 DEF start_sending, Owned, StopOwns, Stopping, Stopped, snd, lock
  <2>4. OwnSockets' BY <2>1 DEF start_sending, Lowest, TypeInv, Written, OwnSockets, snd
  <2> QED BY <1>1, <2>3, <2>4
<1>5. CASE stop_sending
  BY <1>1, <1>5 DEF stop_sending, stop_timer, Owned, StopOwns, Stopping, Stopped, OwnSockets, snd, lock
<1> QED BY <1>2, <1>3, <1>4, <1>5 DEF Calls

\* The rest of the process closes only what it has opened.
LEMMA WorldMux == ASSUME MuxInv, World PROVE MuxInv'
<1> USE Constants DEF MuxInv, SenderTypes, MainTypes, LineTypes
<1>1. TypeInv' BY WorldTypes
<1>2. UNCHANGED <<snd, call, ids, lock>>
  BY DEF World, Read, PeerCloses, OtherOpens, OtherCloses
<1>3. \A fd \in Fds : sock[fd] \in {"new", "conn", "dead"} => sock'[fd] \in {"new", "conn", "dead"}
  BY DEF World, Read, PeerCloses, OtherOpens, OtherCloses, Lowest, TypeInv
<1>4. Owned' /\ StopOwns' /\ Stopping' /\ Stopped'
  BY <1>2 DEF Owned, StopOwns, Stopping, Stopped, snd, ids, lock
<1>5. OwnSockets' BY <1>2, <1>3 DEF OwnSockets, TypeInv, Written, snd, ids
<1> QED BY <1>1, <1>4, <1>5

LEMMA MuxInit == Init => MuxInv
<1> SUFFICES ASSUME Init PROVE MuxInv OBVIOUS
<1>1. Owned /\ StopOwns /\ Stopping /\ Stopped /\ OwnSockets
  BY DEF Init, Owned, StopOwns, Stopping, Stopped, OwnSockets
<1> QED BY <1>1, TypeInit DEF MuxInv

LEMMA MuxStep == ~Restarts /\ MuxInv /\ [Next]_vars => MuxInv'
<1> SUFFICES ASSUME ~Restarts, MuxInv, [Next]_vars PROVE MuxInv' OBVIOUS
<1>1. CASE UNCHANGED vars
  <2>1. TypeInv' BY TypeStep DEF MuxInv
  <2> QED BY <1>1, <2>1 DEF MuxInv, Owned, StopOwns, Stopping, Stopped, OwnSockets, vars, snd, ids, lock
<1> QED BY <1>1, SenderStepMux, MainStepMux, CallsMux, WorldMux DEF Next

\* While start_sending does not follow a stop_sending: fd_mux is never destroyed
\* in the middle of a write, and once it is destroyed nothing is written, by the
\* threads that the timer has already made either.
THEOREM SilenceAfterStop == ~Restarts => (Spec => []SilentAfterStop)
<1> SUFFICES ASSUME ~Restarts PROVE Spec => []SilentAfterStop OBVIOUS
<1>1. MuxInv /\ [Next]_vars => MuxInv' BY MuxStep
<1>2. MuxInv => SilentAfterStop BY DEF MuxInv, Stopped, SilentAfterStop
<1> QED BY MuxInit, <1>1, <1>2, PTL DEF Spec

\* While start_sending does not follow a stop_sending: no message goes to a
\* descriptor that the application has opened, although descriptor numbers are
\* reused and threads of the timer outlive stop_timer.
THEOREM OwnSocketsOnly == ~Restarts => (Spec => []WritesOwnSocket)
<1> SUFFICES ASSUME ~Restarts PROVE Spec => []WritesOwnSocket OBVIOUS
<1>1. MuxInv /\ [Next]_vars => MuxInv' BY MuxStep
<1>2. MuxInv => WritesOwnSocket BY DEF MuxInv, OwnSockets, WritesOwnSocket
<1> QED BY MuxInit, <1>1, <1>2, PTL DEF Spec

-----------------------------------------------------------------------------
(* The stream.  Short: no encoded message exceeds MAX_ENCODED_LEN.         *)

Short == \A n \in Lengths : n <= MaxEncoded

\* The last piece that has been written or, if all are read, read.
End == IF wire = <<>> THEN last ELSE wire[Len(wire)]
\* x has written a part of its message to the connection.
Midway(x) == pc[x] = "write" /\ sock[arg[x]] = "conn" /\ done[x] > 0

\* Messages fit, and a write goes on until the last piece.
Fits == \A x \in Senders : len[x] <= MaxEncoded /\ (pc[x] = "write" => done[x] < len[x])
\* Only sending_fd is connected,
OneConnection == \A fd \in Fds : sock[fd] = "conn" => fd = sending_fd
\* and nothing has been written to a socket before connect.
NotBefore == \A x \in Senders : pc[x] = "write" /\ done[x] > 0 => sock[arg[x]] # "new"
\* The stream ends in the part that somebody has written,
EndsMidway ==
    \A x \in Senders : Midway(x) => End.by = x /\ End.part = done[x] /\ End.len = len[x]
\* or with a whole message.
EndsWhole == (\A x \in Senders : ~Midway(x)) => End.part >= End.len
\* The inductive invariant of the last theorem.
StreamInv ==
    MuxInv /\ Fits /\ OneConnection /\ NotBefore /\ EndsMidway /\ EndsWhole /\ MessagesWhole

\* A step that leaves the stream, and who is midway, alone.
Aside ==
    /\ UNCHANGED line
    /\ \A x \in Senders : /\ Midway(x)' <=> Midway(x)
                          /\ Midway(x) => UNCHANGED <<done[x], len[x]>>

LEMMA AsideStep ==
    ASSUME StreamInv, Aside
    PROVE  EndsMidway' /\ EndsWhole' /\ MessagesWhole'
<1>1. End' = End BY DEF Aside, line, End
<1>2. EndsMidway' /\ EndsWhole' BY <1>1 DEF Aside, StreamInv, EndsMidway, EndsWhole
<1>3. MessagesWhole' BY DEF Aside, line, StreamInv, MessagesWhole
<1> QED BY <1>2, <1>3

\* A message is taken piece by piece, each after the one before.
LEMMA PieceFollows ==
    ASSUME StreamInv, NEW x \in Senders, WritePiece(x)
    PROVE  /\ Follows(End, [by |-> x, part |-> done[x] + 1, len |-> len[x]])
           /\ done[x] < len[x]
<1> USE DEF StreamInv
<1>1. pc[x] = "write" /\ sock[arg[x]] = "conn" BY DEF WritePiece, At
<1>2. done[x] \in Nat /\ len[x] \in Nat /\ done[x] < len[x]
  BY <1>1 DEF Fits, MuxInv, TypeInv, SenderTypes
<1>3. End \in [by : Senders \cup {Nobody}, part : Nat, len : Nat]
  <2>1. last \in [by : Senders \cup {Nobody}, part : Nat, len : Nat]
    BY DEF MuxInv, TypeInv, LineTypes, Pieces, Start
  <2>2. wire # <<>> => wire[Len(wire)] \in Pieces
    BY LenProperties, EmptySeq, ElementOfSeq DEF MuxInv, TypeInv, LineTypes
  <2> QED BY <2>1, <2>2 DEF End, Pieces
<1>4. CASE done[x] > 0
  <2>1. End.by = x /\ End.part = done[x] /\ End.len = len[x] BY <1>1, <1>4 DEF EndsMidway, Midway
  <2> QED BY <1>2, <1>3, <2>1 DEF Follows
<1>5. CASE done[x] = 0
  <2>1. \A y \in Senders : ~Midway(y) BY <1>1, <1>5, OneWriter DEF Midway
  <2>2. ~(End.part < End.len) BY <1>3, <2>1 DEF EndsWhole
  <2> QED BY <1>2, <1>5, <2>2 DEF Follows
<1> QED BY <1>2, <1>4, <1>5

\* The stream after one more piece.
LEMMA PieceStep ==
    ASSUME StreamInv, NEW x \in Senders, WritePiece(x)
    PROVE  EndsMidway' /\ EndsWhole' /\ MessagesWhole'
<1> DEFINE p == [by |-> x, part |-> done[x] + 1, len |-> len[x]]
<1>1. /\ wire' = Append(wire, p) /\ last' = last /\ UNCHANGED <<arg, len, sock>>
      /\ pc[x] = "write" /\ sock[arg[x]] = "conn"
  BY DEF WritePiece, At
<1>2. /\ len[x] \in Nat /\ done[x] \in Nat /\ done[x] < len[x] /\ len[x] <= MaxEncoded
      /\ Follows(End, p)
  BY PieceFollows DEF StreamInv, Fits, MuxInv, TypeInv, SenderTypes
<1>3. /\ done'[x] = done[x] + 1
      /\ pc'[x] = IF done[x] + 1 = len[x] THEN "unlock" ELSE "write"
      /\ \A y \in Senders : y # x => pc'[y] # "write"
  <2>1. \A y \in Senders : y # x => pc[y] # "write" BY <1>1, OneWriter DEF StreamInv
  <2> QED BY <1>1, <1>2, <2>1 DEF WritePiece, Taken, Expected, Goto, StreamInv, MuxInv, TypeInv, SenderTypes
<1>4. wire \in Seq(Pieces) BY DEF StreamInv, MuxInv, TypeInv, LineTypes
<1>5. p \in Pieces BY <1>2 DEF Pieces
<1> HIDE DEF p
<1>6. /\ Len(wire) \in Nat /\ Len(wire') = Len(wire) + 1 /\ wire'[Len(wire) + 1] = p
      /\ \A i \in 1..Len(wire) : wire'[i] = wire[i]
  BY <1>1, <1>4, <1>5, AppendProperties, LenProperties
<1>7. End' = p
  <2>1. wire' # <<>> BY <1>6, EmptySeq
  <2> QED BY <1>6, <2>1 DEF End
<1>8. EndsMidway' /\ EndsWhole'
  <2>1. p.by = x /\ p.part = done'[x] /\ p.len = len'[x] BY <1>1, <1>3 DEF p
  <2>2. EndsMidway' BY <1>3, <1>7, <2>1 DEF EndsMidway, Midway
  <2>3. ~Midway(x)' => done'[x] = len'[x] BY <1>1, <1>2, <1>3 DEF Midway
  <2>4. EndsWhole' BY <1>1, <1>2, <1>7, <2>1, <2>3 DEF EndsWhole
  <2> QED BY <2>2, <2>4
<1>9. ASSUME NEW i \in 1..Len(wire')
      PROVE  Follows(IF i = 1 THEN last' ELSE wire'[i - 1], wire'[i])
  <2>1. CASE i \in 1..Len(wire)
    BY <1>1, <1>6, <2>1 DEF StreamInv, MessagesWhole
  <2>2. CASE i = Len(wire) + 1
    <3>1. CASE wire = <<>> BY <1>1, <1>2, <1>6, <2>2, <3>1, EmptySeq DEF End
    <3>2. CASE wire # <<>>
      <4>1. Len(wire) >= 1 BY <1>4, <3>2, EmptySeq
      <4> QED BY <1>2, <1>6, <2>2, <3>2, <4>1 DEF End
    <3> QED BY <3>1, <3>2
  <2> QED BY <1>6, <2>1, <2>2
<1>10. MessagesWhole' BY <1>9 DEF MessagesWhole
<1> QED BY <1>8, <1>10

\* The stream after the server has read a piece.
LEMMA ReadStep ==
    ASSUME StreamInv, Read
    PROVE  EndsMidway' /\ EndsWhole' /\ MessagesWhole'
<1>1. /\ wire \in Seq(Pieces) /\ wire # <<>> /\ last' = Head(wire) /\ wire' = Tail(wire)
      /\ UNCHANGED <<snd, sock>>
  BY DEF Read, StreamInv, MuxInv, TypeInv, LineTypes
<1>2. /\ Len(wire) \in Nat \ {0} /\ Len(wire') = Len(wire) - 1 /\ last' = wire[1]
      /\ \A i \in 1..Len(wire') : wire'[i] = wire[i + 1]
  BY <1>1, HeadTailProperties, EmptySeq
<1>3. End' = End
  <2>1. CASE wire' = <<>>
    <3>1. Len(wire) = 1 BY <1>2, <2>1, EmptySeq
    <3> QED BY <1>1, <1>2, <2>1, <3>1 DEF End
  <2>2. CASE wire' # <<>>
    <3>1. wire' \in Seq(Pieces) BY <1>1, HeadTailProperties
    <3>2. Len(wire') >= 1 BY <2>2, <3>1, EmptySeq
    <3> QED BY <1>1, <1>2, <2>2, <3>2 DEF End
  <2> QED BY <2>1, <2>2
<1>4. EndsMidway' /\ EndsWhole' BY <1>1, <1>3 DEF StreamInv, EndsMidway, EndsWhole, Midway, snd
<1>5. MessagesWhole'
  <2>1. ASSUME NEW i \in 1..Len(wire')
        PROVE  Follows(IF i = 1 THEN last' ELSE wire'[i - 1], wire'[i])
    <3>1. Follows(wire[i], wire[i + 1]) BY <1>2 DEF StreamInv, MessagesWhole
    <3>2. wire'[i] = wire[i + 1] /\ (IF i = 1 THEN last' ELSE wire'[i - 1]) = wire[i] BY <1>2
    <3> QED BY <3>1, <3>2
  <2> QED BY <2>1 DEF MessagesWhole
<1> QED BY <1>4, <1>5

\* A new or a dead connection has nothing in its stream, and nobody midway.
LEMMA EmptyStream ==
    ASSUME wire' = <<>>, last' = Start, \A x \in Senders : ~Midway(x)'
    PROVE  EndsMidway' /\ EndsWhole' /\ MessagesWhole'
<1>1. End' = Start BY DEF End
<1>2. EndsMidway' /\ EndsWhole' BY <1>1 DEF EndsMidway, EndsWhole, Start
<1>3. Len(wire') = 0 BY EmptySeq
<1>4. MessagesWhole' BY <1>3 DEF MessagesWhole
<1> QED BY <1>2, <1>4

\* Steps of send_encoded_message keep the stream, as long as no signal
\* interrupts them and no message is cut.
LEMMA SenderStepStream ==
    ASSUME ~Signals, StreamInv, NEW x \in Senders, SenderStep(x), MuxInv'
    PROVE  StreamInv'
<1> USE Constants DEF StreamInv, MuxInv, TypeInv, SenderTypes, MainTypes, LineTypes
<1>1. CASE Lock(x) \/ LockFails(x)
  <2>1. /\ pc[x] = "lock" /\ Goto(x, "call") /\ UNCHANGED <<arg, len, done, sending_fd, sock, line>>
    BY <1>1 DEF Lock, LockFails, At, ids
  <2>2. Aside BY <2>1 DEF Aside, Midway, Goto
  <2>3. Fits' /\ OneConnection' /\ NotBefore' BY <2>1 DEF Goto, Fits, OneConnection, NotBefore
  <2> QED BY <2>2, <2>3, AsideStep
<1>2. CASE BeginWrite(x)
  <2>1. /\ pc[x] = "call" /\ Goto(x, IF sending_fd = NoFd THEN "unlock" ELSE "write")
        /\ done' = [done EXCEPT ![x] = 0] /\ arg' = [arg EXCEPT ![x] = sending_fd]
        /\ UNCHANGED <<len, sending_fd, sock, line>>
    BY <1>2 DEF BeginWrite, At, ids
  <2>2. Aside BY <2>1 DEF Aside, Midway, Goto
  <2>3. Fits' BY <2>1 DEF Goto, Fits
  <2>4. OneConnection' /\ NotBefore' BY <2>1 DEF Goto, OneConnection, NotBefore
  <2> QED BY <2>2, <2>3, <2>4, AsideStep
<1>3. CASE WritePiece(x) \/ WriteElsewhere(x)
  <2>1. /\ pc[x] = "write" /\ sock[arg[x]] # "new" /\ Taken(x)
        /\ UNCHANGED <<arg, len, sending_fd, sock>>
    BY <1>3 DEF WritePiece, WriteElsewhere, At, ids
  <2>2. done[x] < len[x] /\ Expected(x) = len[x] BY <2>1 DEF Fits, Expected
  <2>3. Fits' BY <2>1, <2>2 DEF Taken, Goto, Fits
  <2>4. OneConnection' /\ NotBefore' BY <2>1 DEF Taken, Goto, OneConnection, NotBefore
  <2>5. CASE WritePiece(x) BY <2>3, <2>4, <2>5, PieceStep
  <2>6. CASE WriteElsewhere(x)
    <3>1. Aside BY <2>1, <2>6 DEF Aside, Midway, Taken, Goto, WriteElsewhere
    <3> QED BY <2>3, <2>4, <3>1, AsideStep
  <2> QED BY <1>3, <2>5, <2>6
<1>4. CASE WriteFails(x)
  <2>1. /\ sock[arg[x]] # "conn" /\ Goto(x, "unlock") /\ UNCHANGED <<arg, len, done, sending_fd, sock, line>>
    BY <1>4 DEF WriteFails, ids
  <2>2. Aside BY <2>1 DEF Aside, Midway, Goto
  <2>3. Fits' /\ OneConnection' /\ NotBefore' BY <2>1 DEF Goto, Fits, OneConnection, NotBefore
  <2> QED BY <2>2, <2>3, AsideStep
<1>5. CASE PipeKills(x) \/ UnlockExits(x)
  <2>1. UNCHANGED <<snd, sending_fd, sock, line>> BY <1>5 DEF PipeKills, UnlockExits, ids
  <2>2. Aside BY <2>1 DEF Aside, Midway, snd
  <2>3. Fits' /\ OneConnection' /\ NotBefore' BY <2>1 DEF snd, Fits, OneConnection, NotBefore
  <2> QED BY <2>2, <2>3, AsideStep
<1>6. CASE Unlock(x)
  <2>1. pc[x] = "unlock" /\ Return(x) /\ UNCHANGED <<sending_fd, sock, line>>
    BY <1>6 DEF Unlock, At, ids
  <2>2. Aside BY <2>1 DEF Aside, Midway, Return, Goto
  <2>3. Fits' BY <2>1 DEF Return, Goto, Fits
  <2>4. OneConnection' /\ NotBefore' BY <2>1 DEF Return, Goto, OneConnection, NotBefore
  <2> QED BY <2>2, <2>3, <2>4, AsideStep
<1> QED BY <1>1, <1>2, <1>3, <1>4, <1>5, <1>6 DEF SenderStep, WriteInterrupted

\* Steps of start_sending and stop_sending keep the stream: connect begins a new
\* one, and nobody writes while stop_sending closes.
LEMMA MainStepStream ==
    ASSUME StreamInv, MainStep, MuxInv'
    PROVE  StreamInv'
<1> USE Constants DEF StreamInv, MuxInv, TypeInv, SenderTypes, MainTypes, LineTypes
<1>1. CASE ConnectFails \/ StopLock \/ StopDestroy \/ AssertFails
  <2>1. UNCHANGED <<snd, sending_fd, sock, line>>
    BY <1>1 DEF ConnectFails, StopLock, StopDestroy, AssertFails, ids
  <2>2. Aside BY <2>1 DEF Aside, Midway, snd
  <2>3. Fits' /\ OneConnection' /\ NotBefore' BY <2>1 DEF snd, Fits, OneConnection, NotBefore
  <2> QED BY <2>2, <2>3, AsideStep
<1>2. CASE \E armed \in BOOLEAN : Connected(armed)
  <2>1. /\ sending_fd \in Fds /\ sock[sending_fd] = "new"
        /\ sock' = [sock EXCEPT ![sending_fd] = "conn"] /\ wire' = <<>> /\ last' = Start
        /\ UNCHANGED <<snd, sending_fd>>
    BY <1>2 DEF Connected, create_timer, Connecting
  <2>2. Fits' BY <2>1 DEF snd, Fits
  <2>3. OneConnection' BY <2>1 DEF OneConnection
  <2>4. NotBefore' BY <2>1 DEF snd, NotBefore, Written
  <2>5. \A x \in Senders : ~Midway(x)'
    BY <2>1 DEF snd, Midway, NotBefore, OneConnection, Written
  <2> QED BY <2>1, <2>2, <2>3, <2>4, <2>5, EmptyStream
<1>3. CASE StopClose
  <2>1. /\ call = "stop_close" /\ sock' = [fd \in Fds |-> IF fd = sending_fd THEN "none" ELSE sock[fd]]
        /\ UNCHANGED <<snd, line>>
    BY <1>3 DEF StopClose
  <2>2. \A x \in Senders : pc[x] # "write" BY <2>1, OneWriter
  <2>3. Aside BY <2>1, <2>2 DEF Aside, Midway, snd
  <2>4. Fits' /\ NotBefore' BY <2>1, <2>2 DEF snd, Fits, NotBefore
  <2>5. OneConnection' BY <2>1 DEF OneConnection
  <2> QED BY <2>3, <2>4, <2>5, AsideStep
<1> QED BY <1>1, <1>2, <1>3 DEF MainStep

\* The beginning of a call keeps the stream: start_sending replaces only a
\* descriptor that is not connected.
LEMMA CallsStream ==
    ASSUME ~Restarts, Short, StreamInv, Calls \/ \E x \in Ticks : send_keep_alive(x), MuxInv'
    PROVE  StreamInv'
<1> USE Constants DEF StreamInv, MuxInv, TypeInv, SenderTypes, MainTypes, LineTypes
<1>1. CASE \/ \E x \in App, n \in Lengths : send_message(x, n)
           \/ \E x \in Ticks : send_keep_alive(x)
  <2>1. PICK x \in Senders, n \in 1..MaxEncoded :
           /\ pc[x] = "idle" /\ Goto(x, "lock") /\ len' = [len EXCEPT ![x] = n]
           /\ UNCHANGED <<arg, done, sending_fd, sock, line>>
    BY <1>1 DEF send_message, send_keep_alive, At, ids, Short
  <2>2. Aside BY <2>1 DEF Aside, Midway, Goto
  <2>3. Fits' BY <2>1 DEF Goto, Fits
  <2>4. OneConnection' /\ NotBefore' BY <2>1 DEF Goto, OneConnection, NotBefore
  <2> QED BY <2>2, <2>3, <2>4, AsideStep
<1>2. CASE StartFails
  <2>1. /\ sending_fd # NoFd => sock[sending_fd] # "conn"
        /\ UNCHANGED <<snd, sock, line>>
    BY <1>2 DEF StartFails, CanStart
  <2>2. Aside BY <2>1 DEF Aside, Midway, snd
  <2>3. Fits' /\ OneConnection' /\ NotBefore' BY <2>1 DEF snd, Fits, OneConnection, NotBefore
  <2> QED BY <2>2, <2>3, AsideStep
<1>3. CASE \E fd \in Fds : start_sending(fd)
  <2>1. PICK fd \in Fds : start_sending(fd) BY <1>3
  <2>2. /\ sock[fd] = "none" /\ sock' = [sock EXCEPT ![fd] = "new"]
        /\ sending_fd # NoFd => sock[sending_fd] # "conn"
        /\ UNCHANGED <<snd, line>>
    BY <2>1 DEF start_sending, CanStart, Lowest
  <2>3. \A x \in Senders : pc[x] = "write" => arg[x] # fd BY <2>2 DEF OwnSockets
  <2>4. Aside BY <2>2, <2>3 DEF Aside, Midway, snd, Written
  <2>5. Fits' BY <2>2 DEF snd, Fits
  <2>6. OneConnection' BY <2>2 DEF OneConnection
  <2>7. NotBefore' BY <2>2, <2>3 DEF snd, NotBefore, Written
  <2> QED BY <2>4, <2>5, <2>6, <2>7, AsideStep
<1>4. CASE stop_sending
  <2>1. UNCHANGED <<snd, sending_fd, sock, line>> BY <1>4 DEF stop_sending
  <2>2. Aside BY <2>1 DEF Aside, Midway, snd
  <2>3. Fits' /\ OneConnection' /\ NotBefore' BY <2>1 DEF snd, Fits, OneConnection, NotBefore
  <2> QED BY <2>2, <2>3, AsideStep
<1> QED BY <1>1, <1>2, <1>3, <1>4 DEF Calls

\* The server and the rest of the process keep the stream.
LEMMA WorldStream ==
    ASSUME StreamInv, World, MuxInv'
    PROVE  StreamInv'
<1> USE Constants DEF StreamInv, MuxInv, TypeInv, SenderTypes, MainTypes, LineTypes
<1>1. CASE Read
  <2>1. UNCHANGED <<snd, sending_fd, sock>> BY <1>1 DEF Read, ids
  <2>2. Fits' /\ OneConnection' /\ NotBefore' BY <2>1 DEF snd, Fits, OneConnection, NotBefore
  <2> QED BY <1>1, <2>2, ReadStep
<1>2. CASE \E fd \in Fds : PeerCloses(fd)
  <2>1. PICK fd \in Fds : PeerCloses(fd) BY <1>2
  <2>2. /\ sock[fd] = "conn" /\ sock' = [sock EXCEPT ![fd] = "dead"]
        /\ wire' = <<>> /\ last' = Start /\ UNCHANGED <<snd, sending_fd>>
    BY <2>1 DEF PeerCloses, ids
  <2>3. Fits' /\ OneConnection' BY <2>2 DEF snd, Fits, OneConnection
  <2>4. NotBefore' BY <2>2 DEF snd, NotBefore, Written
  <2>5. \A x \in Senders : ~Midway(x)' BY <2>2 DEF snd, Midway, OneConnection, Written
  <2> QED BY <2>2, <2>3, <2>4, <2>5, EmptyStream
<1>3. CASE \E fd \in Fds : OtherOpens(fd) \/ OtherCloses(fd)
  <2>1. PICK fd \in Fds : /\ sock[fd] \in {"none", "other"}
                          /\ \E s \in {"none", "other"} : sock' = [sock EXCEPT ![fd] = s]
                          /\ UNCHANGED <<snd, sending_fd, line>>
    BY <1>3 DEF OtherOpens, OtherCloses, Lowest, ids
  <2>2. Aside BY <2>1 DEF Aside, Midway, snd, Written
  <2>3. Fits' /\ OneConnection' BY <2>1 DEF snd, Fits, OneConnection
  <2>4. NotBefore' BY <2>1 DEF snd, NotBefore, Written
  <2> QED BY <2>2, <2>3, <2>4, AsideStep
<1> QED BY <1>1, <1>2, <1>3 DEF World

LEMMA StreamInit == Init => StreamInv
<1> SUFFICES ASSUME Init PROVE StreamInv OBVIOUS
<1>1. Fits /\ OneConnection /\ NotBefore /\ EndsMidway
  BY Constants DEF Init, Fits, OneConnection, NotBefore, EndsMidway, Midway
<1>2. EndsWhole BY DEF Init, EndsWhole, End, Start
<1>3. MessagesWhole BY EmptySeq DEF Init, MessagesWhole
<1> QED BY <1>1, <1>2, <1>3, MuxInit DEF StreamInv

LEMMA StreamStep == ~Restarts /\ ~Signals /\ Short /\ StreamInv /\ [Next]_vars => StreamInv'
<1> SUFFICES ASSUME ~Restarts, ~Signals, Short, StreamInv, [Next]_vars PROVE StreamInv' OBVIOUS
<1>1. MuxInv' BY MuxStep DEF StreamInv
<1>2. CASE UNCHANGED vars
  <2>1. UNCHANGED <<snd, sending_fd, sock, line>> BY <1>2 DEF vars, ids
  <2>2. Aside BY <2>1 DEF Aside, Midway, snd
  <2>3. Fits' /\ OneConnection' /\ NotBefore'
    BY <2>1 DEF snd, StreamInv, Fits, OneConnection, NotBefore
  <2> QED BY <1>1, <2>2, <2>3, AsideStep DEF StreamInv
<1> QED BY <1>1, <1>2, SenderStepStream, MainStepStream, CallsStream, WorldStream DEF Next

\* While start_sending does not follow a stop_sending, no signal interrupts a
\* write, and no encoded message exceeds MAX_ENCODED_LEN: the server receives
\* whole messages, whichever threads send, whenever the timer expires, the
\* connection dies and is replaced, or stop_sending closes it.
THEOREM StreamOfMessages == ~Restarts /\ ~Signals /\ Short => (Spec => []MessagesWhole)
<1> SUFFICES ASSUME ~Restarts, ~Signals, Short PROVE Spec => []MessagesWhole OBVIOUS
<1>1. StreamInv /\ [Next]_vars => StreamInv' BY StreamStep
<1>2. StreamInv => MessagesWhole BY DEF StreamInv
<1> QED BY StreamInit, <1>1, <1>2, PTL DEF Spec
=============================================================================
