---------------------------- MODULE ServerProofs ----------------------------
(***************************************************************************)
(* Theorems about module Server, for every value of its constants: types,  *)
(* and that the two mutexes protect what they are there to protect. There  *)
(* is one lemma for each part of the invariant and each family of steps;   *)
(* under it there is one case per action.                                  *)
(***************************************************************************)
EXTENDS ServerProperties, TLAPS, SequenceTheorems

\* TypeOK in three parts: the frames of server.c's calls and handlers,
FrameTypes ==
    /\ pc \in [Frames -> Labels]
    /\ top \in [Threads -> Levels]
    /\ con \in [Frames -> Conns \cup {NoConn}]
    /\ sifd \in [Threads -> Fds \cup {0}]
    /\ todo \in SUBSET Fds
    /\ owner \in [Mutexes -> Frames \cup {NoFrame}]
    /\ fate \in {"ok", "use after free", "race", "exit", "abort"}
\* the static variables of server.c,
DataTypes ==
    /\ up \in SUBSET Parts
    /\ table \in [Fds -> Conns \cup {NoConn}]
    /\ queue \in Seq(Reports)
    /\ cdata \in [Conns -> {"none", "live", "destroyed", "freed"}]
    /\ cfd \in [Conns -> Fds \cup {0}]
    /\ overdue \in SUBSET Conns
\* and what the kernel keeps.
KernelTypes ==
    /\ backlog \in Seq(Conns)
    /\ sockOf \in [Fds -> Conns \cup {NoConn}]
    /\ stream \in [Conns -> Seq(Kinds)]
    /\ rd \in [Conns -> Nat]
    /\ eof \in SUBSET Conns
    /\ async \in SUBSET Conns
    /\ connSig \in Nat
    /\ readSig \in Seq(Fds)

\* The labels at which a frame uses its condata.
ConLabels == {"io_mutex", "io_check", "rc_lock", "rc_push", "rd_lock", "fetch",
              "dc_lock", "dc_free", "dc_close",
              "cn_lock", "cn_insert", "cn_free", "cn_setup", "stop_close", "undo_close"}
\* A frame that uses its condata has one, with a descriptor, and an io_handler
\* that is to look up a descriptor has one to look up.
FramesKnow ==
    \A x \in Frames :
        /\ pc[x] \in ConLabels => con[x] \in Conns /\ cfd[con[x]] \in Fds
        /\ pc[x] \in {"io_lock", "io_lookup"} => x[2] = "io" /\ sifd[x[1]] \in Fds
\* A connection with a socket, an entry or O_ASYNC has been given a
\* descriptor.
Placed ==
    \A c \in Conns :
        (c \in async \/ \E fd \in Fds : sockOf[fd] = c \/ table[fd] = c) => cfd[c] \in Fds
\* The inductive invariant behind the theorems of this module.
Inv == FrameTypes /\ DataTypes /\ KernelTypes /\ FramesKnow /\ Placed

OwnSteps(x) == \/ Acquire(x) \/ KeepAliveCheck(x) \/ Tick(x) \/ Call(x) \/ Finish(x)
KernelSteps == Peer \/ \E t \in Threads : TakeConnect(t) \/ TakeRead(t)

\* The three parts are TypeOK.
LEMMA Types == TypeOK <=> FrameTypes /\ DataTypes /\ KernelTypes
  BY DEF TypeOK, FrameTypes, DataTypes, KernelTypes

\* A frame is a thread and a level.
LEMMA FrameParts ==
    ASSUME NEW x \in Frames
    PROVE  x[1] \in Threads /\ x[2] \in Levels /\ x = <<x[1], x[2]>>
  BY DEF Frames

\* A signal raised n times is a sequence of n copies of si_fd.
LEMMA Fill == ASSUME NEW S, NEW e \in S, NEW n \in Nat PROVE [i \in 1..n |-> e] \in Seq(S)
  OBVIOUS

\* g_queue_push_tail leaves a queue of reports.
LEMMA PushType ==
    ASSUME queue \in Seq(Reports), NEW c \in Conns, NEW w \in {"msg", "bad", "closed", "timeout"},
           NEW p \in Nat, Push(c, w, p)
    PROVE  queue' \in Seq(Reports)
<1>1. [from |-> c, what |-> w, pos |-> p] \in Reports BY DEF Reports
<1> QED BY <1>1 DEF Push

\* Steps of io_handler and what it calls keep the types of the frames, the
\* mutexes and fate.
LEMMA IoHandlerFrames == ASSUME Inv, NEW x \in Frames, IoHandler(x) PROVE FrameTypes'
<1>0. /\ cfd \in [Conns -> Fds \cup {0}]
      /\ table \in [Fds -> Conns \cup {NoConn}]
      /\ readSig \in Seq(Fds)
      /\ backlog \in Seq(Conns)
      /\ FrameTypes /\ FramesKnow /\ Placed
  BY DEF Inv, FrameTypes, DataTypes, KernelTypes
<1> USE <1>0, ServerAssumption, FrameParts
    DEF FrameTypes, FramesKnow, Placed, ConLabels, Labels, Mutexes, Levels, Other, Lock, Unlock,
        DestroyUnlock, At, Goto, Return, ReadDone, Fetching, frm, srv, net, sig
<1>1. CASE IoLookup(x)
  <2> DEFINE c == table[sifd[x[1]]]
  <2>1. c \in Conns \cup {NoConn} BY <1>1 DEF IoLookup
  <2>2. con' \in [Frames -> Conns \cup {NoConn}]
    <3>1. \E k \in Conns \cup {NoConn} : con' = [con EXCEPT ![x] = k]
      BY <1>1, <2>1 DEF IoLookup
    <3> QED BY ONLY <3>1, con \in [Frames -> Conns \cup {NoConn}]
  <2>3. \E l \in Labels : pc' = [pc EXCEPT ![x] = l] BY <1>1 DEF IoLookup
  <2>4. pc' \in [Frames -> Labels] BY ONLY <2>3, pc \in [Frames -> Labels]
  <2>5. \E l \in Levels : top' = [top EXCEPT ![x[1]] = l] \/ top' = top
    BY <1>1 DEF IoLookup
  <2>6. top' \in [Threads -> Levels] BY <2>5
  <2>7. UNCHANGED <<todo, fate>> /\ sifd' \in [Threads -> Fds \cup {0}]
        /\ owner' = [owner EXCEPT ![connections_mux] = NoFrame] BY <1>1 DEF IoLookup
  <2> QED BY <2>2, <2>4, <2>6, <2>7
<1>2. CASE IoDestroyed(x) BY <1>2 DEF IoDestroyed
<1>3. CASE IoPeek(x) BY <1>3 DEF IoPeek
<1>4. CASE ReportFails(x) BY <1>4 DEF ReportFails
<1>5. CASE ReportPush(x) BY <1>5 DEF ReportPush
<1>6. CASE FetchNewline(x) BY <1>6 DEF FetchNewline
<1>7. CASE FetchEnd(x) BY <1>7 DEF FetchEnd
<1>8. CASE FetchObject(x) BY <1>8 DEF FetchObject
<1>9. CASE FetchKeepAlive(x) BY <1>9 DEF FetchKeepAlive
<1>10. CASE FetchError(x) BY <1>10 DEF FetchError
<1>11. CASE DestroyFree(x) BY <1>11 DEF DestroyFree
<1>12. CASE DestroyMisses(x) BY <1>12 DEF DestroyMisses
<1>13. CASE DestroyClose(x) BY <1>13 DEF DestroyClose
<1>14. CASE UseAfterFree(x) BY <1>14 DEF UseAfterFree
<1>15. CASE DestroyAgain(x) BY <1>15 DEF DestroyAgain
<1> QED BY <1>1, <1>2, <1>3, <1>4, <1>5, <1>6, <1>7, <1>8, <1>9, <1>10, <1>11, <1>12, <1>13,
           <1>14, <1>15 DEF IoHandler

\* Steps of io_handler and what it calls keep the types of the server's data.
LEMMA IoHandlerData == ASSUME Inv, NEW x \in Frames, IoHandler(x) PROVE DataTypes'
<1>0. /\ con \in [Frames -> Conns \cup {NoConn}]
      /\ sockOf \in [Fds -> Conns \cup {NoConn}]
      /\ backlog \in Seq(Conns)
      /\ KernelTypes /\ DataTypes /\ FramesKnow /\ Placed
  BY DEF Inv, FrameTypes, DataTypes, KernelTypes
<1> USE <1>0, ServerAssumption, FrameParts
    DEF DataTypes, FramesKnow, Placed, ConLabels, Life, Parts, At, Goto, Return, ReadDone,
        Fetching, frm, srv, net, sig
<1>1. CASE IoLookup(x) BY <1>1 DEF IoLookup
<1>2. CASE IoDestroyed(x) BY <1>2 DEF IoDestroyed
<1>3. CASE IoPeek(x) BY <1>3 DEF IoPeek
<1>4. CASE ReportFails(x) BY <1>4 DEF ReportFails
<1>5. CASE ReportPush(x)
  <2>1. con[x] \in Conns /\ rd[con[x]] \in Nat /\ Push(con[x], "closed", rd[con[x]])
    BY <1>5 DEF ReportPush, KernelTypes
  <2>2. queue' \in Seq(Reports) BY ONLY <2>1, PushType, queue \in Seq(Reports)
  <2> QED BY <1>5, <2>2 DEF ReportPush
<1>6. CASE FetchNewline(x) BY <1>6 DEF FetchNewline
<1>7. CASE FetchEnd(x) BY <1>7 DEF FetchEnd
<1>8. CASE FetchObject(x)
  <2>1. con[x] \in Conns BY <1>8 DEF FetchObject
  <2>2. rd' = [rd EXCEPT ![con[x]] = @ + 1] /\ rd \in [Conns -> Nat]
    BY <1>8 DEF FetchObject, KernelTypes
  <2>3. rd'[con[x]] \in Nat BY ONLY <2>1, <2>2
  <2>4. Decoded(con[x]) \ {"ka"} \subseteq {"msg", "bad"}
    BY <1>8 DEF FetchObject, Decoded
  <2>5. PICK w \in {"msg", "bad", "closed", "timeout"} : Push(con[x], w, rd'[con[x]])
    BY <1>8, <2>4 DEF FetchObject
  <2>6. queue' \in Seq(Reports)
    BY ONLY <2>1, <2>3, <2>5, PushType, queue \in Seq(Reports)
  <2> QED BY <1>8, <2>6 DEF FetchObject
<1>9. CASE FetchKeepAlive(x) BY <1>9 DEF FetchKeepAlive
<1>10. CASE FetchError(x) BY <1>10 DEF FetchError
<1>11. CASE DestroyFree(x) BY <1>11 DEF DestroyFree
<1>12. CASE DestroyMisses(x) BY <1>12 DEF DestroyMisses
<1>13. CASE DestroyClose(x) BY <1>13 DEF DestroyClose
<1>14. CASE UseAfterFree(x) BY <1>14 DEF UseAfterFree
<1>15. CASE DestroyAgain(x) BY <1>15 DEF DestroyAgain, DestroyUnlock
<1> QED BY <1>1, <1>2, <1>3, <1>4, <1>5, <1>6, <1>7, <1>8, <1>9, <1>10, <1>11, <1>12, <1>13,
           <1>14, <1>15 DEF IoHandler

\* Steps of io_handler and what it calls keep the types of the kernel's
\* variables.
LEMMA IoHandlerKernel == ASSUME Inv, NEW x \in Frames, IoHandler(x) PROVE KernelTypes'
<1>0. /\ con \in [Frames -> Conns \cup {NoConn}]
      /\ cfd \in [Conns -> Fds \cup {0}]
      /\ KernelTypes /\ FramesKnow /\ Placed
  BY DEF Inv, FrameTypes, DataTypes, KernelTypes
<1> USE <1>0, ServerAssumption, FrameParts
    DEF KernelTypes, FramesKnow, Placed, ConLabels, Close, At, Goto, Return, ReadDone, Fetching,
        frm, srv, net, sig
<1>1. CASE IoLookup(x) BY <1>1 DEF IoLookup
<1>2. CASE IoDestroyed(x) BY <1>2 DEF IoDestroyed
<1>3. CASE IoPeek(x) BY <1>3 DEF IoPeek
<1>4. CASE ReportFails(x) BY <1>4 DEF ReportFails
<1>5. CASE ReportPush(x) BY <1>5 DEF ReportPush
<1>6. CASE FetchNewline(x) BY <1>6 DEF FetchNewline
<1>7. CASE FetchEnd(x) BY <1>7 DEF FetchEnd
<1>8. CASE FetchObject(x)
  <2>1. con[x] \in Conns /\ rd \in [Conns -> Nat] BY <1>8 DEF FetchObject
  <2>2. /\ rd' = [rd EXCEPT ![con[x]] = @ + 1]
        /\ UNCHANGED <<backlog, sockOf, stream, eof, async, sig>>
    BY <1>8 DEF FetchObject
  <2>3. rd' \in [Conns -> Nat] BY ONLY <2>1, <2>2
  <2> QED BY <2>2, <2>3
<1>9. CASE FetchKeepAlive(x) BY <1>9 DEF FetchKeepAlive
<1>10. CASE FetchError(x)
  <2>1. con[x] \in Conns /\ rd \in [Conns -> Nat] BY <1>10 DEF FetchError
  <2>2. rd' = rd \/ rd' = [rd EXCEPT ![con[x]] = @ + 1] BY <1>10 DEF FetchError
  <2>3. rd' \in [Conns -> Nat] BY ONLY <2>1, <2>2
  <2> QED BY <1>10, <2>3 DEF FetchError
<1>11. CASE DestroyFree(x) BY <1>11 DEF DestroyFree
<1>12. CASE DestroyMisses(x) BY <1>12 DEF DestroyMisses
<1>13. CASE DestroyClose(x) BY <1>13 DEF DestroyClose
<1>14. CASE UseAfterFree(x) BY <1>14 DEF UseAfterFree
<1>15. CASE DestroyAgain(x) BY <1>15 DEF DestroyAgain, DestroyUnlock
<1> QED BY <1>1, <1>2, <1>3, <1>4, <1>5, <1>6, <1>7, <1>8, <1>9, <1>10, <1>11, <1>12, <1>13,
           <1>14, <1>15 DEF IoHandler

\* Steps of io_handler and what it calls keep FramesKnow: no frame goes on
\* with a NULL condata.
LEMMA IoHandlerKnow == ASSUME Inv, NEW x \in Frames, IoHandler(x) PROVE FramesKnow'
<1>0. /\ pc \in [Frames -> Labels]
      /\ con \in [Frames -> Conns \cup {NoConn}]
      /\ sifd \in [Threads -> Fds \cup {0}]
      /\ cfd \in [Conns -> Fds \cup {0}]
      /\ table \in [Fds -> Conns \cup {NoConn}]
      /\ backlog \in Seq(Conns)
      /\ readSig \in Seq(Fds)
      /\ FramesKnow /\ Placed
  BY DEF Inv, FrameTypes, DataTypes, KernelTypes
<1> USE <1>0, ServerAssumption, FrameParts
    DEF FramesKnow, Placed, ConLabels, At, Goto, Return, ReadDone, Fetching, frm, srv, net, sig
<1>1. CASE IoLookup(x)
  <2>1. x[2] = "io" /\ sifd[x[1]] \in Fds /\ table[sifd[x[1]]] \in Conns \cup {NoConn}
    BY <1>1 DEF IoLookup
  <2>2. ASSUME NEW y \in Frames, pc'[y] \in {"io_lock", "io_lookup"}
        PROVE  y[2] = "io" /\ sifd'[y[1]] \in Fds
    <3>1. y # x /\ pc'[y] = pc[y] BY <1>1, <2>1, <2>2 DEF IoLookup
    <3>2. y[2] = "io" BY <2>2, <3>1
    <3>3. y[1] # x[1] BY <2>1, <3>1, <3>2
    <3> QED BY <1>1, <2>2, <3>1, <3>2, <3>3 DEF IoLookup
  <2>3. ASSUME NEW y \in Frames, pc'[y] \in ConLabels
        PROVE  con'[y] \in Conns /\ cfd'[con'[y]] \in Fds
    <3>1. CASE y = x BY <1>1, <2>1, <2>3, <3>1 DEF IoLookup
    <3>2. CASE y # x BY <1>1, <2>1, <2>3, <3>2 DEF IoLookup
    <3> QED BY <3>1, <3>2
  <2> QED BY <2>2, <2>3 DEF FramesKnow
<1>2. CASE IoDestroyed(x) BY <1>2 DEF IoDestroyed
<1>3. CASE IoPeek(x) BY <1>3 DEF IoPeek
<1>4. CASE ReportFails(x) BY <1>4 DEF ReportFails
<1>5. CASE ReportPush(x) BY <1>5 DEF ReportPush
<1>6. CASE FetchNewline(x) BY <1>6 DEF FetchNewline
<1>7. CASE FetchEnd(x) BY <1>7 DEF FetchEnd
<1>8. CASE FetchObject(x) BY <1>8 DEF FetchObject
<1>9. CASE FetchKeepAlive(x) BY <1>9 DEF FetchKeepAlive
<1>10. CASE FetchError(x) BY <1>10 DEF FetchError
<1>11. CASE DestroyFree(x) BY <1>11 DEF DestroyFree
<1>12. CASE DestroyMisses(x) BY <1>12 DEF DestroyMisses
<1>13. CASE DestroyClose(x) BY <1>13 DEF DestroyClose
<1>14. CASE UseAfterFree(x) BY <1>14 DEF UseAfterFree
<1>15. CASE DestroyAgain(x) BY <1>15 DEF DestroyAgain, DestroyUnlock
<1> QED BY <1>1, <1>2, <1>3, <1>4, <1>5, <1>6, <1>7, <1>8, <1>9, <1>10, <1>11, <1>12, <1>13,
           <1>14, <1>15 DEF IoHandler

\* Steps of io_handler and what it calls keep Placed: no descriptor without
\* its connection.
LEMMA IoHandlerPlaced == ASSUME Inv, NEW x \in Frames, IoHandler(x) PROVE Placed'
<1>0. /\ con \in [Frames -> Conns \cup {NoConn}]
      /\ cfd \in [Conns -> Fds \cup {0}]
      /\ table \in [Fds -> Conns \cup {NoConn}]
      /\ sockOf \in [Fds -> Conns \cup {NoConn}]
      /\ async \in SUBSET Conns
      /\ backlog \in Seq(Conns)
      /\ FramesKnow /\ Placed
  BY DEF Inv, FrameTypes, DataTypes, KernelTypes
<1> USE <1>0, ServerAssumption, FrameParts
    DEF FramesKnow, Placed, ConLabels, Close, At, Goto, Return, ReadDone, Fetching, frm, srv,
        net, sig
<1>1. CASE IoLookup(x) BY <1>1 DEF IoLookup
<1>2. CASE IoDestroyed(x) BY <1>2 DEF IoDestroyed
<1>3. CASE IoPeek(x) BY <1>3 DEF IoPeek
<1>4. CASE ReportFails(x) BY <1>4 DEF ReportFails
<1>5. CASE ReportPush(x) BY <1>5 DEF ReportPush
<1>6. CASE FetchNewline(x) BY <1>6 DEF FetchNewline
<1>7. CASE FetchEnd(x) BY <1>7 DEF FetchEnd
<1>8. CASE FetchObject(x) BY <1>8 DEF FetchObject
<1>9. CASE FetchKeepAlive(x) BY <1>9 DEF FetchKeepAlive
<1>10. CASE FetchError(x) BY <1>10 DEF FetchError
<1>11. CASE DestroyFree(x) BY <1>11 DEF DestroyFree
<1>12. CASE DestroyMisses(x) BY <1>12 DEF DestroyMisses
<1>13. CASE DestroyClose(x) BY <1>13 DEF DestroyClose
<1>14. CASE UseAfterFree(x) BY <1>14 DEF UseAfterFree
<1>15. CASE DestroyAgain(x) BY <1>15 DEF DestroyAgain, DestroyUnlock
<1> QED BY <1>1, <1>2, <1>3, <1>4, <1>5, <1>6, <1>7, <1>8, <1>9, <1>10, <1>11, <1>12, <1>13,
           <1>14, <1>15 DEF IoHandler

\* Steps of io_handler and what it calls keep LocksHeld: no frame loses a
\* mutex inside a critical section.
LEMMA IoHandlerLocks == ASSUME Inv, LocksHeld, NEW x \in Frames, IoHandler(x), ~DestroyAgain(x) PROVE LocksHeld'
<1>0. /\ pc \in [Frames -> Labels]
      /\ con \in [Frames -> Conns \cup {NoConn}]
      /\ owner \in [Mutexes -> Frames \cup {NoFrame}]
      /\ table \in [Fds -> Conns \cup {NoConn}]
      /\ FramesKnow /\ LocksHeld
  BY DEF Inv, FrameTypes, DataTypes, KernelTypes
<1> USE <1>0, ServerAssumption, FrameParts
    DEF FramesKnow, ConLabels, Mutexes, LocksHeld, HoldsTable, HoldsQueue, connections_mux,
        read_buff_mux, Lock, Unlock, DestroyUnlock, At, Goto, Return, ReadDone, Fetching, frm,
        srv, net, sig
<1>1. CASE IoLookup(x) BY <1>1 DEF IoLookup
<1>2. CASE IoDestroyed(x) BY <1>2 DEF IoDestroyed
<1>3. CASE IoPeek(x) BY <1>3 DEF IoPeek
<1>4. CASE ReportFails(x) BY <1>4 DEF ReportFails
<1>5. CASE ReportPush(x) BY <1>5 DEF ReportPush
<1>6. CASE FetchNewline(x) BY <1>6 DEF FetchNewline
<1>7. CASE FetchEnd(x) BY <1>7 DEF FetchEnd
<1>8. CASE FetchObject(x) BY <1>8 DEF FetchObject
<1>9. CASE FetchKeepAlive(x) BY <1>9 DEF FetchKeepAlive
<1>10. CASE FetchError(x) BY <1>10 DEF FetchError
<1>11. CASE DestroyFree(x) BY <1>11 DEF DestroyFree
<1>12. CASE DestroyMisses(x) BY <1>12 DEF DestroyMisses
<1>13. CASE DestroyClose(x) BY <1>13 DEF DestroyClose
<1>14. CASE UseAfterFree(x) BY <1>14 DEF UseAfterFree
<1> QED BY <1>1, <1>2, <1>3, <1>4, <1>5, <1>6, <1>7, <1>8, <1>9, <1>10, <1>11, <1>12, <1>13,
           <1>14 DEF IoHandler

\* Steps of connect_handler keep the types of the frames, the mutexes and
\* fate.
LEMMA ConnectHandlerFrames == ASSUME Inv, NEW x \in Frames, ConnectHandler(x) PROVE FrameTypes'
<1>0. /\ cfd \in [Conns -> Fds \cup {0}]
      /\ table \in [Fds -> Conns \cup {NoConn}]
      /\ readSig \in Seq(Fds)
      /\ backlog \in Seq(Conns)
      /\ FrameTypes /\ FramesKnow /\ Placed
  BY DEF Inv, FrameTypes, DataTypes, KernelTypes
<1> USE <1>0, ServerAssumption, FrameParts
    DEF FrameTypes, FramesKnow, Placed, ConLabels, Labels, Mutexes, Levels, Other, Lock, Unlock,
        DestroyUnlock, At, Goto, Return, ReadDone, Fetching, frm, srv, net, sig
<1>1. CASE AcceptFails(x) BY <1>1 DEF AcceptFails
<1>2. CASE AcceptAborts(x) BY <1>2 DEF AcceptAborts, CanAccept
<1>3. CASE Accept(x)
  <2>1. backlog # <<>> BY <1>3 DEF Accept, CanAccept
  <2>2. Head(backlog) \in Conns BY <2>1, HeadTailProperties
  <2> QED BY <1>3, <2>2 DEF Accept
<1>4. CASE Insert(x) BY <1>4 DEF Insert
<1>5. CASE InsertExits(x) BY <1>5 DEF InsertExits
<1>6. CASE InsertFails(x) BY <1>6 DEF InsertFails
<1>7. CASE InsertFree(x) BY <1>7 DEF InsertFree
<1>8. CASE Setup(x) BY <1>8 DEF Setup
<1> QED BY <1>1, <1>2, <1>3, <1>4, <1>5, <1>6, <1>7, <1>8 DEF ConnectHandler

\* Steps of connect_handler keep the types of the server's data.
LEMMA ConnectHandlerData == ASSUME Inv, NEW x \in Frames, ConnectHandler(x) PROVE DataTypes'
<1>0. /\ con \in [Frames -> Conns \cup {NoConn}]
      /\ sockOf \in [Fds -> Conns \cup {NoConn}]
      /\ backlog \in Seq(Conns)
      /\ KernelTypes /\ DataTypes /\ FramesKnow /\ Placed
  BY DEF Inv, FrameTypes, DataTypes, KernelTypes
<1> USE <1>0, ServerAssumption, FrameParts
    DEF DataTypes, FramesKnow, Placed, ConLabels, Life, Parts, At, Goto, Return, ReadDone,
        Fetching, frm, srv, net, sig
<1>1. CASE AcceptFails(x) BY <1>1 DEF AcceptFails
<1>2. CASE AcceptAborts(x) BY <1>2 DEF AcceptAborts, CanAccept
<1>3. CASE Accept(x)
  <2>1. backlog # <<>> BY <1>3 DEF Accept, CanAccept
  <2>2. Head(backlog) \in Conns BY <2>1, HeadTailProperties
  <2>3. cfd' \in [Conns -> Fds \cup {0}]
    <3>1. \E fd \in Fds : cfd' = [cfd EXCEPT ![Head(backlog)] = fd] BY <1>3 DEF Accept
    <3> QED BY ONLY <2>2, <3>1, cfd \in [Conns -> Fds \cup {0}]
  <2>4. cdata' = [cdata EXCEPT ![Head(backlog)] = "live"]
        /\ overdue' = overdue \ {Head(backlog)} /\ UNCHANGED <<up, table, queue>>
    BY <1>3 DEF Accept
  <2> QED BY <2>2, <2>3, <2>4
<1>4. CASE Insert(x) BY <1>4 DEF Insert
<1>5. CASE InsertExits(x) BY <1>5 DEF InsertExits
<1>6. CASE InsertFails(x) BY <1>6 DEF InsertFails
<1>7. CASE InsertFree(x) BY <1>7 DEF InsertFree
<1>8. CASE Setup(x) BY <1>8 DEF Setup
<1> QED BY <1>1, <1>2, <1>3, <1>4, <1>5, <1>6, <1>7, <1>8 DEF ConnectHandler

\* Steps of connect_handler keep the types of the kernel's variables.
LEMMA ConnectHandlerKernel == ASSUME Inv, NEW x \in Frames, ConnectHandler(x) PROVE KernelTypes'
<1>0. /\ con \in [Frames -> Conns \cup {NoConn}]
      /\ cfd \in [Conns -> Fds \cup {0}]
      /\ KernelTypes /\ FramesKnow /\ Placed
  BY DEF Inv, FrameTypes, DataTypes, KernelTypes
<1> USE <1>0, ServerAssumption, FrameParts
    DEF KernelTypes, FramesKnow, Placed, ConLabels, Close, At, Goto, Return, ReadDone, Fetching,
        frm, srv, net, sig
<1>1. CASE AcceptFails(x) BY <1>1 DEF AcceptFails
<1>2. CASE AcceptAborts(x) BY <1>2 DEF AcceptAborts, CanAccept
<1>3. CASE Accept(x) BY <1>3 DEF Accept, FreeFd, CanAccept
<1>4. CASE Insert(x) BY <1>4 DEF Insert
<1>5. CASE InsertExits(x) BY <1>5 DEF InsertExits
<1>6. CASE InsertFails(x) BY <1>6 DEF InsertFails
<1>7. CASE InsertFree(x) BY <1>7 DEF InsertFree
<1>8. CASE Setup(x) BY <1>8 DEF Setup
<1> QED BY <1>1, <1>2, <1>3, <1>4, <1>5, <1>6, <1>7, <1>8 DEF ConnectHandler

\* Steps of connect_handler keep FramesKnow: no frame goes on with a NULL
\* condata.
LEMMA ConnectHandlerKnow == ASSUME Inv, NEW x \in Frames, ConnectHandler(x) PROVE FramesKnow'
<1>0. /\ pc \in [Frames -> Labels]
      /\ con \in [Frames -> Conns \cup {NoConn}]
      /\ sifd \in [Threads -> Fds \cup {0}]
      /\ cfd \in [Conns -> Fds \cup {0}]
      /\ table \in [Fds -> Conns \cup {NoConn}]
      /\ backlog \in Seq(Conns)
      /\ readSig \in Seq(Fds)
      /\ FramesKnow /\ Placed
  BY DEF Inv, FrameTypes, DataTypes, KernelTypes
<1> USE <1>0, ServerAssumption, FrameParts
    DEF FramesKnow, Placed, ConLabels, At, Goto, Return, ReadDone, Fetching, frm, srv, net, sig
<1>1. CASE AcceptFails(x) BY <1>1 DEF AcceptFails
<1>2. CASE AcceptAborts(x) BY <1>2 DEF AcceptAborts, CanAccept
<1>3. CASE Accept(x) BY <1>3 DEF Accept, FreeFd, CanAccept
<1>4. CASE Insert(x) BY <1>4 DEF Insert
<1>5. CASE InsertExits(x) BY <1>5 DEF InsertExits
<1>6. CASE InsertFails(x) BY <1>6 DEF InsertFails
<1>7. CASE InsertFree(x) BY <1>7 DEF InsertFree
<1>8. CASE Setup(x) BY <1>8 DEF Setup
<1> QED BY <1>1, <1>2, <1>3, <1>4, <1>5, <1>6, <1>7, <1>8 DEF ConnectHandler

\* Steps of connect_handler keep Placed: no descriptor without its connection.
LEMMA ConnectHandlerPlaced == ASSUME Inv, NEW x \in Frames, ConnectHandler(x) PROVE Placed'
<1>0. /\ con \in [Frames -> Conns \cup {NoConn}]
      /\ cfd \in [Conns -> Fds \cup {0}]
      /\ table \in [Fds -> Conns \cup {NoConn}]
      /\ sockOf \in [Fds -> Conns \cup {NoConn}]
      /\ async \in SUBSET Conns
      /\ backlog \in Seq(Conns)
      /\ FramesKnow /\ Placed
  BY DEF Inv, FrameTypes, DataTypes, KernelTypes
<1> USE <1>0, ServerAssumption, FrameParts
    DEF FramesKnow, Placed, ConLabels, Close, At, Goto, Return, ReadDone, Fetching, frm, srv,
        net, sig
<1>1. CASE AcceptFails(x) BY <1>1 DEF AcceptFails
<1>2. CASE AcceptAborts(x) BY <1>2 DEF AcceptAborts, CanAccept
<1>3. CASE Accept(x) BY <1>3 DEF Accept, FreeFd, CanAccept
<1>4. CASE Insert(x) BY <1>4 DEF Insert
<1>5. CASE InsertExits(x) BY <1>5 DEF InsertExits
<1>6. CASE InsertFails(x) BY <1>6 DEF InsertFails
<1>7. CASE InsertFree(x) BY <1>7 DEF InsertFree
<1>8. CASE Setup(x) BY <1>8 DEF Setup
<1> QED BY <1>1, <1>2, <1>3, <1>4, <1>5, <1>6, <1>7, <1>8 DEF ConnectHandler

\* Steps of connect_handler keep LocksHeld: no frame loses a mutex inside a
\* critical section.
LEMMA ConnectHandlerLocks == ASSUME Inv, LocksHeld, NEW x \in Frames, ConnectHandler(x) PROVE LocksHeld'
<1>0. /\ pc \in [Frames -> Labels]
      /\ con \in [Frames -> Conns \cup {NoConn}]
      /\ owner \in [Mutexes -> Frames \cup {NoFrame}]
      /\ table \in [Fds -> Conns \cup {NoConn}]
      /\ FramesKnow /\ LocksHeld
  BY DEF Inv, FrameTypes, DataTypes, KernelTypes
<1> USE <1>0, ServerAssumption, FrameParts
    DEF FramesKnow, ConLabels, Mutexes, LocksHeld, HoldsTable, HoldsQueue, connections_mux,
        read_buff_mux, Lock, Unlock, DestroyUnlock, At, Goto, Return, ReadDone, Fetching, frm,
        srv, net, sig
<1>1. CASE AcceptFails(x) BY <1>1 DEF AcceptFails
<1>2. CASE AcceptAborts(x) BY <1>2 DEF AcceptAborts, CanAccept
<1>3. CASE Accept(x) BY <1>3 DEF Accept, FreeFd, CanAccept
<1>4. CASE Insert(x) BY <1>4 DEF Insert
<1>5. CASE InsertExits(x) BY <1>5 DEF InsertExits
<1>6. CASE InsertFails(x) BY <1>6 DEF InsertFails
<1>7. CASE InsertFree(x) BY <1>7 DEF InsertFree
<1>8. CASE Setup(x) BY <1>8 DEF Setup
<1> QED BY <1>1, <1>2, <1>3, <1>4, <1>5, <1>6, <1>7, <1>8 DEF ConnectHandler

\* Steps of the timer's check and the library calls keep the types of the
\* frames, the mutexes and fate.
LEMMA OwnStepsFrames == ASSUME Inv, NEW x \in Frames, OwnSteps(x) PROVE FrameTypes'
<1>0. /\ cfd \in [Conns -> Fds \cup {0}]
      /\ table \in [Fds -> Conns \cup {NoConn}]
      /\ readSig \in Seq(Fds)
      /\ backlog \in Seq(Conns)
      /\ FrameTypes /\ FramesKnow /\ Placed
  BY DEF Inv, FrameTypes, DataTypes, KernelTypes
<1> USE <1>0, ServerAssumption, FrameParts
    DEF FrameTypes, FramesKnow, Placed, ConLabels, Labels, Mutexes, Levels, Other, Lock, Unlock,
        DestroyUnlock, At, Goto, Return, ReadDone, Fetching, frm, srv, net, sig
<1>1. CASE Acquire(x) BY <1>1 DEF Acquire, Waiting, WaitLabels, Wants, After
<1>2. CASE iter_keep_alives(x)
  <2>1. todo' \in SUBSET Fds BY <1>2 DEF iter_keep_alives
  <2>2. owner' \in [Mutexes -> Frames \cup {NoFrame}] BY <1>2 DEF iter_keep_alives
  <2>3. pc' \in [Frames -> Labels]
    <3>1. pc' = [pc EXCEPT ![x] = "ka_scan"] \/ pc' = [pc EXCEPT ![x] = "idle"]
      BY ONLY <1>2 DEF iter_keep_alives, Goto
    <3>2. pc \in [Frames -> Labels] BY <1>0
    <3> QED BY ONLY <3>1, <3>2 DEF Labels
  <2> QED BY <1>2, <2>1, <2>2, <2>3 DEF iter_keep_alives
<1>3. CASE TickDone(x) BY <1>3 DEF TickDone
<1>4. CASE \E fd \in Fds : check_keep_alive(x, fd) BY <1>4 DEF check_keep_alive
<1>5. CASE Tick(x) BY <1>5 DEF Tick
<1>6. CASE \E m \in {read_buff_mux, connections_mux} : CallLock(x, m)
  <2>1. PICK m \in {read_buff_mux, connections_mux} : CallLock(x, m) BY <1>6
  <2> QED BY <2>1 DEF CallLock
<1>7. CASE read_message(x) BY <1>7 DEF read_message
<1>8. CASE get_connected_list(x) BY <1>8 DEF get_connected_list
<1>9. CASE ListAborts(x) BY <1>9 DEF ListAborts
<1>10. CASE start_server(x) BY <1>10 DEF start_server, IsCall, MainIdle
<1>11. CASE stop_server(x) BY <1>11 DEF stop_server, IsCall, MainIdle
<1>12. CASE StopSignals(x) BY <1>12 DEF StopSignals
<1>13. CASE \E fd \in Fds : StopFree(x, fd)
  <2>1. PICK fd \in Fds : StopFree(x, fd) BY <1>13
  <2> QED BY <2>1 DEF StopFree, FreeEntry
<1>14. CASE StopClose(x) BY <1>14 DEF StopClose, CloseEntry
<1>15. CASE StopTable(x) BY <1>15 DEF StopTable
<1>16. CASE StopQueue(x) BY <1>16 DEF StopQueue
<1> QED BY <1>1, <1>2, <1>3, <1>4, <1>5, <1>6, <1>7, <1>8, <1>9, <1>10, <1>11, <1>12, <1>13,
           <1>14, <1>15, <1>16 DEF OwnSteps, KeepAliveCheck, Call, Finish

\* Steps of the timer's check and the library calls keep the types of the
\* server's data.
LEMMA OwnStepsData == ASSUME Inv, NEW x \in Frames, OwnSteps(x) PROVE DataTypes'
<1>0. /\ con \in [Frames -> Conns \cup {NoConn}]
      /\ sockOf \in [Fds -> Conns \cup {NoConn}]
      /\ backlog \in Seq(Conns)
      /\ KernelTypes /\ DataTypes /\ FramesKnow /\ Placed
  BY DEF Inv, FrameTypes, DataTypes, KernelTypes
<1> USE <1>0, ServerAssumption, FrameParts
    DEF DataTypes, FramesKnow, Placed, ConLabels, Life, Parts, At, Goto, Return, ReadDone,
        Fetching, frm, srv, net, sig
<1>1. CASE Acquire(x) BY <1>1 DEF Acquire, Waiting, WaitLabels, Wants, After
<1>2. CASE iter_keep_alives(x) BY <1>2 DEF iter_keep_alives
<1>3. CASE TickDone(x) BY <1>3 DEF TickDone
<1>4. CASE \E fd \in Fds : check_keep_alive(x, fd)
  <2>1. PICK fd \in Fds : check_keep_alive(x, fd) BY <1>4
  <2>2. ASSUME table[fd] \in Conns, Push(table[fd], "timeout", rd[table[fd]])
        PROVE  queue' \in Seq(Reports)
    <3>1. rd[table[fd]] \in Nat BY <2>2 DEF KernelTypes
    <3> QED BY ONLY <2>2, <3>1, PushType, DataTypes DEF DataTypes
  <2>3. queue' \in Seq(Reports) BY <2>1, <2>2 DEF check_keep_alive
  <2> QED BY <2>1, <2>3 DEF check_keep_alive
<1>5. CASE Tick(x) BY <1>5 DEF Tick
<1>6. CASE \E m \in {read_buff_mux, connections_mux} : CallLock(x, m)
  BY <1>6 DEF CallLock, IsCall
<1>7. CASE read_message(x)
  <2>1. queue' \in Seq(Reports) BY <1>7, HeadTailProperties DEF read_message
  <2> QED BY <1>7, <2>1 DEF read_message
<1>8. CASE get_connected_list(x) BY <1>8 DEF get_connected_list
<1>9. CASE ListAborts(x) BY <1>9 DEF ListAborts
<1>10. CASE start_server(x) BY <1>10 DEF start_server, IsCall, MainIdle
<1>11. CASE stop_server(x) BY <1>11 DEF stop_server, IsCall, MainIdle
<1>12. CASE StopSignals(x) BY <1>12 DEF StopSignals
<1>13. CASE \E fd \in Fds : StopFree(x, fd)
  <2>1. PICK fd \in Fds : StopFree(x, fd) BY <1>13
  <2> QED BY <2>1 DEF StopFree, FreeEntry
<1>14. CASE StopClose(x) BY <1>14 DEF StopClose, CloseEntry
<1>15. CASE StopTable(x) BY <1>15 DEF StopTable
<1>16. CASE StopQueue(x)
  <2>1. queue' \in Seq(Reports) BY <1>16, EmptySeq DEF StopQueue
  <2> QED BY <1>16, <2>1 DEF StopQueue
<1> QED BY <1>1, <1>2, <1>3, <1>4, <1>5, <1>6, <1>7, <1>8, <1>9, <1>10, <1>11, <1>12, <1>13,
           <1>14, <1>15, <1>16 DEF OwnSteps, KeepAliveCheck, Call, Finish

\* Steps of the timer's check and the library calls keep the types of the
\* kernel's variables.
LEMMA OwnStepsKernel == ASSUME Inv, NEW x \in Frames, OwnSteps(x) PROVE KernelTypes'
<1>0. /\ con \in [Frames -> Conns \cup {NoConn}]
      /\ cfd \in [Conns -> Fds \cup {0}]
      /\ KernelTypes /\ FramesKnow /\ Placed
  BY DEF Inv, FrameTypes, DataTypes, KernelTypes
<1> USE <1>0, ServerAssumption, FrameParts
    DEF KernelTypes, FramesKnow, Placed, ConLabels, Close, At, Goto, Return, ReadDone, Fetching,
        frm, srv, net, sig
<1>1. CASE Acquire(x) BY <1>1 DEF Acquire, Waiting, WaitLabels, Wants, After
<1>2. CASE iter_keep_alives(x) BY <1>2 DEF iter_keep_alives
<1>3. CASE TickDone(x) BY <1>3 DEF TickDone
<1>4. CASE \E fd \in Fds : check_keep_alive(x, fd) BY <1>4 DEF check_keep_alive
<1>5. CASE Tick(x) BY <1>5 DEF Tick
<1>6. CASE \E m \in {read_buff_mux, connections_mux} : CallLock(x, m)
  BY <1>6 DEF CallLock, IsCall
<1>7. CASE read_message(x) BY <1>7 DEF read_message
<1>8. CASE get_connected_list(x) BY <1>8 DEF get_connected_list
<1>9. CASE ListAborts(x) BY <1>9 DEF ListAborts
<1>10. CASE start_server(x) BY <1>10 DEF start_server, IsCall, MainIdle
<1>11. CASE stop_server(x) BY <1>11 DEF stop_server, IsCall, MainIdle
<1>12. CASE StopSignals(x) BY <1>12 DEF StopSignals
<1>13. CASE \E fd \in Fds : StopFree(x, fd) BY <1>13 DEF StopFree, FreeEntry
<1>14. CASE StopClose(x) BY <1>14 DEF StopClose, CloseEntry
<1>15. CASE StopTable(x) BY <1>15 DEF StopTable
<1>16. CASE StopQueue(x) BY <1>16 DEF StopQueue
<1> QED BY <1>1, <1>2, <1>3, <1>4, <1>5, <1>6, <1>7, <1>8, <1>9, <1>10, <1>11, <1>12, <1>13,
           <1>14, <1>15, <1>16 DEF OwnSteps, KeepAliveCheck, Call, Finish

\* Steps of the timer's check and the library calls keep FramesKnow: no frame
\* goes on with a NULL condata.
LEMMA OwnStepsKnow == ASSUME Inv, NEW x \in Frames, OwnSteps(x) PROVE FramesKnow'
<1>0. /\ pc \in [Frames -> Labels]
      /\ con \in [Frames -> Conns \cup {NoConn}]
      /\ sifd \in [Threads -> Fds \cup {0}]
      /\ cfd \in [Conns -> Fds \cup {0}]
      /\ table \in [Fds -> Conns \cup {NoConn}]
      /\ backlog \in Seq(Conns)
      /\ readSig \in Seq(Fds)
      /\ FramesKnow /\ Placed
  BY DEF Inv, FrameTypes, DataTypes, KernelTypes
<1> USE <1>0, ServerAssumption, FrameParts
    DEF FramesKnow, Placed, ConLabels, At, Goto, Return, ReadDone, Fetching, frm, srv, net, sig
<1>1. CASE Acquire(x) BY <1>1 DEF Acquire, Waiting, WaitLabels, Wants, After
<1>2. CASE iter_keep_alives(x) BY <1>2 DEF iter_keep_alives
<1>3. CASE TickDone(x) BY <1>3 DEF TickDone
<1>4. CASE \E fd \in Fds : check_keep_alive(x, fd) BY <1>4 DEF check_keep_alive
<1>5. CASE Tick(x) BY <1>5 DEF Tick
<1>6. CASE \E m \in {read_buff_mux, connections_mux} : CallLock(x, m)
  BY <1>6 DEF CallLock, IsCall
<1>7. CASE read_message(x) BY <1>7 DEF read_message
<1>8. CASE get_connected_list(x) BY <1>8 DEF get_connected_list
<1>9. CASE ListAborts(x) BY <1>9 DEF ListAborts
<1>10. CASE start_server(x) BY <1>10 DEF start_server, IsCall, MainIdle
<1>11. CASE stop_server(x) BY <1>11 DEF stop_server, IsCall, MainIdle
<1>12. CASE StopSignals(x) BY <1>12 DEF StopSignals
<1>13. CASE \E fd \in Fds : StopFree(x, fd) BY <1>13 DEF StopFree, FreeEntry
<1>14. CASE StopClose(x) BY <1>14 DEF StopClose, CloseEntry
<1>15. CASE StopTable(x) BY <1>15 DEF StopTable
<1>16. CASE StopQueue(x) BY <1>16 DEF StopQueue
<1> QED BY <1>1, <1>2, <1>3, <1>4, <1>5, <1>6, <1>7, <1>8, <1>9, <1>10, <1>11, <1>12, <1>13,
           <1>14, <1>15, <1>16 DEF OwnSteps, KeepAliveCheck, Call, Finish

\* Steps of the timer's check and the library calls keep Placed: no descriptor
\* without its connection.
LEMMA OwnStepsPlaced == ASSUME Inv, NEW x \in Frames, OwnSteps(x) PROVE Placed'
<1>0. /\ con \in [Frames -> Conns \cup {NoConn}]
      /\ cfd \in [Conns -> Fds \cup {0}]
      /\ table \in [Fds -> Conns \cup {NoConn}]
      /\ sockOf \in [Fds -> Conns \cup {NoConn}]
      /\ async \in SUBSET Conns
      /\ backlog \in Seq(Conns)
      /\ FramesKnow /\ Placed
  BY DEF Inv, FrameTypes, DataTypes, KernelTypes
<1> USE <1>0, ServerAssumption, FrameParts
    DEF FramesKnow, Placed, ConLabels, Close, At, Goto, Return, ReadDone, Fetching, frm, srv,
        net, sig
<1>1. CASE Acquire(x) BY <1>1 DEF Acquire, Waiting, WaitLabels, Wants, After
<1>2. CASE iter_keep_alives(x) BY <1>2 DEF iter_keep_alives
<1>3. CASE TickDone(x) BY <1>3 DEF TickDone
<1>4. CASE \E fd \in Fds : check_keep_alive(x, fd) BY <1>4 DEF check_keep_alive
<1>5. CASE Tick(x) BY <1>5 DEF Tick
<1>6. CASE \E m \in {read_buff_mux, connections_mux} : CallLock(x, m)
  BY <1>6 DEF CallLock, IsCall
<1>7. CASE read_message(x) BY <1>7 DEF read_message
<1>8. CASE get_connected_list(x) BY <1>8 DEF get_connected_list
<1>9. CASE ListAborts(x) BY <1>9 DEF ListAborts
<1>10. CASE start_server(x) BY <1>10 DEF start_server, IsCall, MainIdle
<1>11. CASE stop_server(x) BY <1>11 DEF stop_server, IsCall, MainIdle
<1>12. CASE StopSignals(x) BY <1>12 DEF StopSignals
<1>13. CASE \E fd \in Fds : StopFree(x, fd) BY <1>13 DEF StopFree, FreeEntry
<1>14. CASE StopClose(x) BY <1>14 DEF StopClose, CloseEntry
<1>15. CASE StopTable(x) BY <1>15 DEF StopTable
<1>16. CASE StopQueue(x) BY <1>16 DEF StopQueue
<1> QED BY <1>1, <1>2, <1>3, <1>4, <1>5, <1>6, <1>7, <1>8, <1>9, <1>10, <1>11, <1>12, <1>13,
           <1>14, <1>15, <1>16 DEF OwnSteps, KeepAliveCheck, Call, Finish

\* Steps of the timer's check and the library calls keep LocksHeld: no frame
\* loses a mutex inside a critical section.
LEMMA OwnStepsLocks == ASSUME Inv, LocksHeld, NEW x \in Frames, OwnSteps(x) PROVE LocksHeld'
<1>0. /\ pc \in [Frames -> Labels]
      /\ con \in [Frames -> Conns \cup {NoConn}]
      /\ owner \in [Mutexes -> Frames \cup {NoFrame}]
      /\ table \in [Fds -> Conns \cup {NoConn}]
      /\ FramesKnow /\ LocksHeld
  BY DEF Inv, FrameTypes, DataTypes, KernelTypes
<1> USE <1>0, ServerAssumption, FrameParts
    DEF FramesKnow, ConLabels, Mutexes, LocksHeld, HoldsTable, HoldsQueue, connections_mux,
        read_buff_mux, Lock, Unlock, DestroyUnlock, At, Goto, Return, ReadDone, Fetching, frm,
        srv, net, sig
<1>1. CASE Acquire(x) BY <1>1 DEF Acquire, Waiting, WaitLabels, Wants, After
<1>2. CASE iter_keep_alives(x) BY <1>2 DEF iter_keep_alives
<1>3. CASE TickDone(x) BY <1>3 DEF TickDone
<1>4. CASE \E fd \in Fds : check_keep_alive(x, fd) BY <1>4 DEF check_keep_alive
<1>5. CASE Tick(x) BY <1>5 DEF Tick
<1>6. CASE \E m \in {read_buff_mux, connections_mux} : CallLock(x, m)
  BY <1>6 DEF CallLock, IsCall
<1>7. CASE read_message(x) BY <1>7 DEF read_message
<1>8. CASE get_connected_list(x) BY <1>8 DEF get_connected_list
<1>9. CASE ListAborts(x) BY <1>9 DEF ListAborts
<1>10. CASE start_server(x) BY <1>10 DEF start_server, IsCall, MainIdle
<1>11. CASE stop_server(x) BY <1>11 DEF stop_server, IsCall, MainIdle
<1>12. CASE StopSignals(x) BY <1>12 DEF StopSignals
<1>13. CASE \E fd \in Fds : StopFree(x, fd) BY <1>13 DEF StopFree, FreeEntry
<1>14. CASE StopClose(x) BY <1>14 DEF StopClose, CloseEntry
<1>15. CASE StopTable(x) BY <1>15 DEF StopTable
<1>16. CASE StopQueue(x) BY <1>16 DEF StopQueue
<1> QED BY <1>1, <1>2, <1>3, <1>4, <1>5, <1>6, <1>7, <1>8, <1>9, <1>10, <1>11, <1>12, <1>13,
           <1>14, <1>15, <1>16 DEF OwnSteps, KeepAliveCheck, Call, Finish

\* Where start_server is, but for the second half of free_connectiondata.
StartLabels == {"st_queue", "st_table", "st_signals", "st_timer", "st_listen",
                "undo_listen", "undo_queue", "undo_free"}
\* A step of start_server that frees no connection.
StartPlain(x) ==
    /\ pc[x] \in StartLabels /\ \E l \in StartLabels \cup {"idle"} : Goto(x, l)
    /\ table' \in {table, [fd \in Fds |-> NoConn]} /\ queue' \in {queue, <<>>}
    /\ up' \in SUBSET Parts
    /\ UNCHANGED <<top, con, sifd, todo, owner, cdata, cfd, overdue, net, sig, fate>>

\* start_server locks and unlocks nothing but the connections it destroys.
LEMMA StartShape ==
    ASSUME Inv, NEW x \in Frames, Start(x)
    PROVE  StartPlain(x) \/ Race(x) \/ UndoClose(x) \/ \E fd \in Fds : UndoFree(x, fd)
<1>1. up \in SUBSET Parts BY DEF Inv, DataTypes
<1> USE <1>1 DEF StartPlain, StartLabels, At, Parts
<1>2. CASE StartQueue(x) BY <1>2 DEF StartQueue
<1>3. CASE StartTable(x) BY <1>3 DEF StartTable
<1>4. CASE StartSignals(x) BY <1>4 DEF StartSignals
<1>5. CASE StartTimer(x) BY <1>5 DEF StartTimer
<1>6. CASE StartListen(x) BY <1>6 DEF StartListen
<1>7. CASE UndoQueue(x) BY <1>7 DEF UndoQueue
<1>8. CASE UndoTable(x) BY <1>8 DEF UndoTable
<1> QED BY <1>2, <1>3, <1>4, <1>5, <1>6, <1>7, <1>8 DEF Start

\* Steps of start_server keep the types of the frames, the mutexes and fate.
LEMMA StartFrames == ASSUME Inv, NEW x \in Frames, Start(x) PROVE FrameTypes'
<1>0. FrameTypes /\ table \in [Fds -> Conns \cup {NoConn}] BY DEF Inv, DataTypes
<1> USE <1>0 DEF FrameTypes, Goto, frm
<1>1. CASE StartPlain(x)
  <2>1. \E l \in Labels : pc' = [pc EXCEPT ![x] = l]
    BY <1>1 DEF StartPlain, StartLabels, Labels
  <2>2. pc' \in [Frames -> Labels] BY ONLY <2>1, pc \in [Frames -> Labels]
  <2> QED BY <1>1, <2>2 DEF StartPlain
<1>2. CASE Race(x) BY <1>2 DEF Race
<1>3. CASE UndoClose(x) BY <1>3 DEF UndoClose, CloseEntry, Labels
<1>4. CASE \E fd \in Fds : UndoFree(x, fd)
  BY <1>4 DEF UndoFree, FreeEntry, Unlock, Mutexes, Labels
<1> QED BY <1>1, <1>2, <1>3, <1>4, StartShape

\* Steps of start_server keep the types of the server's data.
LEMMA StartData == ASSUME Inv, NEW x \in Frames, Start(x) PROVE DataTypes'
<1>0. DataTypes /\ con \in [Frames -> Conns \cup {NoConn}] BY DEF Inv, FrameTypes
<1> USE <1>0, ServerAssumption DEF DataTypes, Life, srv
<1>1. CASE StartPlain(x)
  <2>1. queue' \in Seq(Reports)
    <3>1. queue' = <<>> \/ queue' = queue BY ONLY <1>1 DEF StartPlain
    <3>2. queue \in Seq(Reports) BY <1>0
    <3> QED BY ONLY <3>1, <3>2, EmptySeq
  <2> QED BY <1>1, <2>1 DEF StartPlain
<1>2. CASE Race(x) BY <1>2 DEF Race
<1>3. CASE UndoClose(x) BY <1>3 DEF UndoClose, CloseEntry
<1>4. CASE \E fd \in Fds : UndoFree(x, fd) BY <1>4 DEF UndoFree, FreeEntry
<1> QED BY <1>1, <1>2, <1>3, <1>4, StartShape

\* Steps of start_server keep the types of the kernel's variables.
LEMMA StartKernel == ASSUME Inv, NEW x \in Frames, Start(x) PROVE KernelTypes'
<1>0. KernelTypes BY DEF Inv
<1> USE <1>0 DEF KernelTypes, net, sig
<1>1. CASE StartPlain(x) BY <1>1 DEF StartPlain
<1>2. CASE Race(x) BY <1>2 DEF Race
<1>3. CASE UndoClose(x) BY <1>3 DEF UndoClose, CloseEntry, Close
<1>4. CASE \E fd \in Fds : UndoFree(x, fd) BY <1>4 DEF UndoFree, FreeEntry
<1> QED BY <1>1, <1>2, <1>3, <1>4, StartShape

\* Steps of start_server keep FramesKnow: what it frees has a descriptor.
LEMMA StartKnow == ASSUME Inv, NEW x \in Frames, Start(x) PROVE FramesKnow'
<1>0. /\ pc \in [Frames -> Labels]
      /\ con \in [Frames -> Conns \cup {NoConn}]
      /\ table \in [Fds -> Conns \cup {NoConn}]
      /\ FramesKnow /\ Placed
  BY DEF Inv, FrameTypes, DataTypes
<1> USE <1>0 DEF FramesKnow, Placed, ConLabels, Goto, frm, srv
<1>1. CASE StartPlain(x) BY <1>1 DEF StartPlain, StartLabels
<1>2. CASE Race(x) BY <1>2 DEF Race
<1>3. CASE UndoClose(x) BY <1>3 DEF UndoClose, CloseEntry
<1>4. CASE \E fd \in Fds : UndoFree(x, fd) BY <1>4 DEF UndoFree, FreeEntry
<1> QED BY <1>1, <1>2, <1>3, <1>4, StartShape

\* Steps of start_server keep Placed: no descriptor without its connection.
LEMMA StartPlaced == ASSUME Inv, NEW x \in Frames, Start(x) PROVE Placed'
<1>0. /\ con \in [Frames -> Conns \cup {NoConn}]
      /\ cfd \in [Conns -> Fds \cup {0}]
      /\ table \in [Fds -> Conns \cup {NoConn}]
      /\ sockOf \in [Fds -> Conns \cup {NoConn}]
      /\ FramesKnow /\ Placed
  BY DEF Inv, FrameTypes, DataTypes, KernelTypes
<1> USE <1>0, ServerAssumption DEF FramesKnow, Placed, ConLabels, At, Close, srv, net
<1>1. CASE StartPlain(x)
  <2>1. UNCHANGED <<cfd, net>> /\ table' \in {table, [fd \in Fds |-> NoConn]}
    BY <1>1 DEF StartPlain
  <2> QED BY <2>1
<1>2. CASE Race(x) BY <1>2 DEF Race
<1>3. CASE UndoClose(x) BY <1>3 DEF UndoClose, CloseEntry
<1>4. CASE \E fd \in Fds : UndoFree(x, fd) BY <1>4 DEF UndoFree, FreeEntry
<1> QED BY <1>1, <1>2, <1>3, <1>4, StartShape

\* Steps of start_server keep LocksHeld: they take no frame into a critical
\* section, and free_connectiondata unlocks the mutex of its connection only.
LEMMA StartLocks == ASSUME Inv, LocksHeld, NEW x \in Frames, Start(x) PROVE LocksHeld'
<1>0. /\ pc \in [Frames -> Labels]
      /\ owner \in [Mutexes -> Frames \cup {NoFrame}]
      /\ table \in [Fds -> Conns \cup {NoConn}]
  BY DEF Inv, FrameTypes, DataTypes
<1> USE <1>0, ServerAssumption
    DEF LocksHeld, HoldsTable, HoldsQueue, Mutexes, connections_mux, read_buff_mux, Goto, frm
<1>1. CASE StartPlain(x) BY <1>1 DEF StartPlain, StartLabels
<1>2. CASE Race(x) BY <1>2 DEF Race
<1>3. CASE UndoClose(x) BY <1>3 DEF UndoClose, CloseEntry
<1>4. CASE \E fd \in Fds : UndoFree(x, fd) BY <1>4 DEF UndoFree, FreeEntry, Unlock
<1> QED BY <1>1, <1>2, <1>3, <1>4, StartShape

\* The peers, and the kernel when it delivers a signal, keep the types of the
\* frames, the mutexes and fate.
LEMMA KernelStepsFrames == ASSUME Inv, KernelSteps PROVE FrameTypes'
<1>0. /\ cfd \in [Conns -> Fds \cup {0}]
      /\ table \in [Fds -> Conns \cup {NoConn}]
      /\ readSig \in Seq(Fds)
      /\ backlog \in Seq(Conns)
      /\ FrameTypes /\ FramesKnow /\ Placed
  BY DEF Inv, FrameTypes, DataTypes, KernelTypes
<1> USE <1>0, ServerAssumption, FrameParts
    DEF FrameTypes, FramesKnow, Placed, ConLabels, Labels, Mutexes, Levels, Other, Lock, Unlock,
        DestroyUnlock, At, Goto, Return, ReadDone, Fetching, frm, srv, net, sig
<1>1. CASE \E c \in Conns : Connect(c)
  <2>1. UNCHANGED <<frm, todo, owner, fate>> BY <1>1 DEF Connect
  <2> QED BY <2>1
<1>2. CASE \E c \in Conns : \E seg \in Segments : Arrive(c, seg)
  <2>1. UNCHANGED <<frm, todo, owner, fate>> BY <1>2 DEF Arrive
  <2> QED BY <2>1
<1>3. CASE \E c \in Conns : \E n \in 1..FinSignals : Fin(c, n)
  <2>1. UNCHANGED <<frm, todo, owner, fate>> BY <1>3 DEF Fin
  <2> QED BY <2>1
<1>4. CASE \E c \in Conns : Expire(c)
  <2>1. UNCHANGED <<frm, todo, owner, fate>> BY <1>4 DEF Expire
  <2> QED BY <2>1
<1>5. CASE \E t \in Threads : TakeConnect(t)
  <2>1. PICK t \in Threads : TakeConnect(t) BY <1>5
  <2>2. <<t, "conn">> \in Frames BY DEF Frames, Levels
  <2>3. pc' \in [Frames -> Labels]
    <3>1. pc' = [pc EXCEPT ![<<t, "conn">>] = "cn_accept"] \/ pc' = pc BY <2>1 DEF TakeConnect, Enter
    <3> QED BY <2>2, <3>1
  <2>4. top' \in [Threads -> Levels]
    <3>1. top' = [top EXCEPT ![t] = "conn"] \/ top' = top BY <2>1 DEF TakeConnect, Enter
    <3> QED BY <3>1
  <2> QED BY <2>1, <2>3, <2>4 DEF TakeConnect
<1>6. CASE \E t \in Threads : TakeRead(t)
  <2>1. PICK t \in Threads : TakeRead(t) BY <1>6
  <2>2. <<t, "io">> \in Frames BY DEF Frames, Levels
  <2>3. Head(readSig) \in Fds BY <2>1, HeadTailProperties DEF TakeRead
  <2>4. sifd' \in [Threads -> Fds \cup {0}]
    <3>1. sifd' = [sifd EXCEPT ![t] = Head(readSig)] \/ sifd' = sifd BY ONLY <2>1 DEF TakeRead
    <3>2. sifd \in [Threads -> Fds \cup {0}] BY <1>0
    <3> QED BY ONLY <2>3, <3>1, <3>2
  <2>5. pc' \in [Frames -> Labels]
    <3>1. pc' = [pc EXCEPT ![<<t, "io">>] = "io_lock"] \/ pc' = pc
      BY ONLY <2>1 DEF TakeRead, Enter, Goto
    <3>2. pc \in [Frames -> Labels] BY <1>0
    <3> QED BY ONLY <2>2, <3>1, <3>2 DEF Labels
  <2>6. top' \in [Threads -> Levels]
    <3>1. top' = [top EXCEPT ![t] = "io"] \/ top' = top BY <2>1 DEF TakeRead, Enter
    <3> QED BY <3>1
  <2> QED BY <2>1, <2>4, <2>5, <2>6 DEF TakeRead
<1> QED BY <1>1, <1>2, <1>3, <1>4, <1>5, <1>6 DEF KernelSteps, Peer

\* The peers, and the kernel when it delivers a signal, keep the types of the
\* server's data.
LEMMA KernelStepsData == ASSUME Inv, KernelSteps PROVE DataTypes'
<1>0. /\ con \in [Frames -> Conns \cup {NoConn}]
      /\ sockOf \in [Fds -> Conns \cup {NoConn}]
      /\ backlog \in Seq(Conns)
      /\ KernelTypes /\ DataTypes /\ FramesKnow /\ Placed
  BY DEF Inv, FrameTypes, DataTypes, KernelTypes
<1> USE <1>0, ServerAssumption, FrameParts
    DEF DataTypes, FramesKnow, Placed, ConLabels, Life, Parts, At, Goto, Return, ReadDone,
        Fetching, frm, srv, net, sig
<1>1. CASE \E c \in Conns : Connect(c)
  <2>1. UNCHANGED srv BY <1>1 DEF Connect
  <2> QED BY <2>1
<1>2. CASE \E c \in Conns : \E seg \in Segments : Arrive(c, seg)
  <2>1. UNCHANGED srv BY <1>2 DEF Arrive
  <2> QED BY <2>1
<1>3. CASE \E c \in Conns : \E n \in 1..FinSignals : Fin(c, n)
  <2>1. UNCHANGED srv BY <1>3 DEF Fin
  <2> QED BY <2>1
<1>4. CASE \E c \in Conns : Expire(c)
  <2>1. overdue' \in SUBSET Conns /\ UNCHANGED <<up, table, queue, cdata, cfd>>
    <3>1. PICK c \in Conns : Expire(c) BY <1>4
    <3>2. overdue' = overdue \cup {c} /\ UNCHANGED <<up, table, queue, cdata, cfd>>
      BY ONLY <3>1 DEF Expire
    <3>3. overdue \in SUBSET Conns BY <1>0
    <3> QED BY ONLY <3>1, <3>2, <3>3
  <2> QED BY <2>1
<1>5. CASE \E t \in Threads : TakeConnect(t)
  <2>1. UNCHANGED srv BY <1>5 DEF TakeConnect
  <2> QED BY <2>1
<1>6. CASE \E t \in Threads : TakeRead(t)
  <2>1. UNCHANGED srv BY <1>6 DEF TakeRead
  <2> QED BY <2>1
<1> QED BY <1>1, <1>2, <1>3, <1>4, <1>5, <1>6 DEF KernelSteps, Peer

\* The peers, and the kernel when it delivers a signal, keep the types of the
\* kernel's variables.
LEMMA KernelStepsKernel == ASSUME Inv, KernelSteps PROVE KernelTypes'
<1>0. /\ con \in [Frames -> Conns \cup {NoConn}]
      /\ cfd \in [Conns -> Fds \cup {0}]
      /\ KernelTypes /\ FramesKnow /\ Placed
  BY DEF Inv, FrameTypes, DataTypes, KernelTypes
<1> USE <1>0, ServerAssumption, FrameParts
    DEF KernelTypes, FramesKnow, Placed, ConLabels, Close, At, Goto, Return, ReadDone, Fetching,
        frm, srv, net, sig
<1>1. CASE \E c \in Conns : Connect(c) BY <1>1 DEF Connect
<1>2. CASE \E c \in Conns : \E seg \in Segments : Arrive(c, seg) BY <1>2 DEF Arrive, Raise
<1>3. CASE \E c \in Conns : \E n \in 1..FinSignals : Fin(c, n)
  <2>1. PICK c \in Conns, n \in 1..FinSignals : Fin(c, n) BY <1>3
  <2>2. n \in Nat OBVIOUS
  <2>3. c \in async => cfd[c] \in Fds OBVIOUS
  <2>4. c \in async => [i \in 1..n |-> cfd[c]] \in Seq(Fds) BY ONLY <2>2, <2>3, Fill
  <2>5. readSig' \in Seq(Fds) BY <2>1, <2>4, ConcatProperties DEF Fin, Raise
  <2> QED BY <2>1, <2>5 DEF Fin
<1>4. CASE \E c \in Conns : Expire(c) BY <1>4 DEF Expire
<1>5. CASE \E t \in Threads : TakeConnect(t) BY <1>5 DEF TakeConnect, Enter, Deliverable
<1>6. CASE \E t \in Threads : TakeRead(t) BY <1>6 DEF TakeRead, Enter, Deliverable
<1> QED BY <1>1, <1>2, <1>3, <1>4, <1>5, <1>6 DEF KernelSteps, Peer

\* The peers, and the kernel when it delivers a signal, keep FramesKnow: no
\* frame goes on with a NULL condata.
LEMMA KernelStepsKnow == ASSUME Inv, KernelSteps PROVE FramesKnow'
<1>0. /\ pc \in [Frames -> Labels]
      /\ con \in [Frames -> Conns \cup {NoConn}]
      /\ sifd \in [Threads -> Fds \cup {0}]
      /\ cfd \in [Conns -> Fds \cup {0}]
      /\ table \in [Fds -> Conns \cup {NoConn}]
      /\ backlog \in Seq(Conns)
      /\ readSig \in Seq(Fds)
      /\ FramesKnow /\ Placed
  BY DEF Inv, FrameTypes, DataTypes, KernelTypes
<1> USE <1>0, ServerAssumption, FrameParts
    DEF FramesKnow, Placed, ConLabels, At, Goto, Return, ReadDone, Fetching, frm, srv, net, sig
<1>1. CASE \E c \in Conns : Connect(c) BY <1>1 DEF Connect
<1>2. CASE \E c \in Conns : \E seg \in Segments : Arrive(c, seg) BY <1>2 DEF Arrive, Raise
<1>3. CASE \E c \in Conns : \E n \in 1..FinSignals : Fin(c, n) BY <1>3 DEF Fin, Raise
<1>4. CASE \E c \in Conns : Expire(c) BY <1>4 DEF Expire
<1>5. CASE \E t \in Threads : TakeConnect(t)
  <2>1. PICK t \in Threads : TakeConnect(t) BY <1>5
  <2>2. <<t, "conn">> \in Frames BY DEF Frames, Levels
  <2>3. UNCHANGED <<con, sifd, cfd, table, sockOf, async>> BY <2>1 DEF TakeConnect
  <2>4. pc' = [pc EXCEPT ![<<t, "conn">>] = "cn_accept"] \/ pc' = pc BY <2>1 DEF TakeConnect, Enter
  <2>5. \A y \in Frames : pc'[y] \in {"cn_accept", pc[y]}
    BY ONLY <2>2, <2>4, pc \in [Frames -> Labels]
  <2> QED BY <2>3, <2>5
<1>6. CASE \E t \in Threads : TakeRead(t)
  <2>1. PICK t \in Threads : TakeRead(t) BY <1>6
  <2>2. <<t, "io">> \in Frames BY DEF Frames, Levels
  <2>3. Head(readSig) \in Fds BY <2>1, HeadTailProperties DEF TakeRead
  <2>4. CASE "io" \in up
    <3>1. /\ pc' = [pc EXCEPT ![<<t, "io">>] = "io_lock"]
          /\ sifd' = [sifd EXCEPT ![t] = Head(readSig)] /\ UNCHANGED <<con, cfd>>
      BY <2>1, <2>4 DEF TakeRead, Enter
    <3> QED BY <2>2, <2>3, <3>1
  <2>5. CASE "io" \notin up BY <2>1, <2>5 DEF TakeRead
  <2> QED BY <2>4, <2>5
<1> QED BY <1>1, <1>2, <1>3, <1>4, <1>5, <1>6 DEF KernelSteps, Peer

\* The peers, and the kernel when it delivers a signal, keep Placed: no
\* descriptor without its connection.
LEMMA KernelStepsPlaced == ASSUME Inv, KernelSteps PROVE Placed'
<1>0. /\ con \in [Frames -> Conns \cup {NoConn}]
      /\ cfd \in [Conns -> Fds \cup {0}]
      /\ table \in [Fds -> Conns \cup {NoConn}]
      /\ sockOf \in [Fds -> Conns \cup {NoConn}]
      /\ async \in SUBSET Conns
      /\ backlog \in Seq(Conns)
      /\ FramesKnow /\ Placed
  BY DEF Inv, FrameTypes, DataTypes, KernelTypes
<1> USE <1>0, ServerAssumption, FrameParts
    DEF FramesKnow, Placed, ConLabels, Close, At, Goto, Return, ReadDone, Fetching, frm, srv,
        net, sig
<1>1. CASE \E c \in Conns : Connect(c) BY <1>1 DEF Connect
<1>2. CASE \E c \in Conns : \E seg \in Segments : Arrive(c, seg) BY <1>2 DEF Arrive, Raise
<1>3. CASE \E c \in Conns : \E n \in 1..FinSignals : Fin(c, n) BY <1>3 DEF Fin, Raise
<1>4. CASE \E c \in Conns : Expire(c) BY <1>4 DEF Expire
<1>5. CASE \E t \in Threads : TakeConnect(t) BY <1>5 DEF TakeConnect, Enter, Deliverable
<1>6. CASE \E t \in Threads : TakeRead(t) BY <1>6 DEF TakeRead, Enter, Deliverable
<1> QED BY <1>1, <1>2, <1>3, <1>4, <1>5, <1>6 DEF KernelSteps, Peer

\* The peers, and the kernel when it delivers a signal, keep LocksHeld: no
\* frame loses a mutex inside a critical section.
LEMMA KernelStepsLocks == ASSUME Inv, LocksHeld, KernelSteps PROVE LocksHeld'
<1>0. /\ pc \in [Frames -> Labels]
      /\ con \in [Frames -> Conns \cup {NoConn}]
      /\ owner \in [Mutexes -> Frames \cup {NoFrame}]
      /\ table \in [Fds -> Conns \cup {NoConn}]
      /\ FramesKnow /\ LocksHeld
  BY DEF Inv, FrameTypes, DataTypes, KernelTypes
<1> USE <1>0, ServerAssumption, FrameParts
    DEF FramesKnow, ConLabels, Mutexes, LocksHeld, HoldsTable, HoldsQueue, connections_mux,
        read_buff_mux, Lock, Unlock, DestroyUnlock, At, Goto, Return, ReadDone, Fetching, frm,
        srv, net, sig
<1>1. CASE \E c \in Conns : Connect(c) BY <1>1 DEF Connect
<1>2. CASE \E c \in Conns : \E seg \in Segments : Arrive(c, seg) BY <1>2 DEF Arrive, Raise
<1>3. CASE \E c \in Conns : \E n \in 1..FinSignals : Fin(c, n) BY <1>3 DEF Fin, Raise
<1>4. CASE \E c \in Conns : Expire(c) BY <1>4 DEF Expire
<1>5. CASE \E t \in Threads : TakeConnect(t)
  <2>1. PICK t \in Threads : TakeConnect(t) BY <1>5
  <2>2. <<t, "conn">> \in Frames BY DEF Frames, Levels
  <2> QED BY <2>1, <2>2 DEF TakeConnect, Enter
<1>6. CASE \E t \in Threads : TakeRead(t)
  <2>1. PICK t \in Threads : TakeRead(t) BY <1>6
  <2>2. <<t, "io">> \in Frames BY DEF Frames, Levels
  <2> QED BY <2>1, <2>2 DEF TakeRead, Enter
<1> QED BY <1>1, <1>2, <1>3, <1>4, <1>5, <1>6 DEF KernelSteps, Peer

\* The invariant holds before start_server is first called.
LEMMA InitInv == Init => Inv
<1> SUFFICES ASSUME Init PROVE Inv OBVIOUS
<1> USE ServerAssumption
<1>1. FrameTypes BY DEF Init, FrameTypes, Labels, Levels, Mutexes
<1>2. DataTypes BY EmptySeq DEF Init, DataTypes
<1>3. KernelTypes BY EmptySeq DEF Init, KernelTypes
<1>4. FramesKnow /\ Placed BY DEF Init, FramesKnow, Placed, ConLabels
<1> QED BY <1>1, <1>2, <1>3, <1>4 DEF Inv

\* Every step of every thread, peer and timer keeps the invariant.
LEMMA StepInv == Inv /\ [Next]_vars => Inv'
<1> SUFFICES ASSUME Inv, [Next]_vars PROVE Inv' OBVIOUS
<1>1. ASSUME NEW x \in Frames, IoHandler(x) PROVE Inv'
  BY <1>1, IoHandlerFrames, IoHandlerData, IoHandlerKernel, IoHandlerKnow,
     IoHandlerPlaced DEF Inv
<1>2. ASSUME NEW x \in Frames, ConnectHandler(x) PROVE Inv'
  BY <1>2, ConnectHandlerFrames, ConnectHandlerData, ConnectHandlerKernel,
     ConnectHandlerKnow, ConnectHandlerPlaced DEF Inv
<1>3. ASSUME NEW x \in Frames, OwnSteps(x) PROVE Inv'
  BY <1>3, OwnStepsFrames, OwnStepsData, OwnStepsKernel, OwnStepsKnow,
     OwnStepsPlaced DEF Inv
<1>4. ASSUME NEW x \in Frames, Start(x) PROVE Inv'
  BY <1>4, StartFrames, StartData, StartKernel, StartKnow, StartPlaced DEF Inv
<1>5. CASE KernelSteps
  BY <1>5, KernelStepsFrames, KernelStepsData, KernelStepsKernel, KernelStepsKnow,
     KernelStepsPlaced DEF Inv
<1>6. CASE UNCHANGED vars
  BY <1>6 DEF vars, frm, srv, net, sig, Inv, FrameTypes, DataTypes, KernelTypes,
              FramesKnow, Placed
<1> QED BY <1>1, <1>2, <1>3, <1>4, <1>5, <1>6 DEF Next, Step, OwnSteps, KernelSteps

\* Every variable of the model keeps its type, for any number of threads,
\* connections and descriptors.
THEOREM TypeCorrect == Spec => []TypeOK
<1>1. Inv => TypeOK BY Types DEF Inv
<1> QED BY InitInv, StepInv, <1>1, PTL DEF Spec

\* A frame in a critical section of server.c owns the mutex of that section,
\* whatever interrupts what, as long as no destroy_connection comes to its second
\* unlock of connections_mux.
LEMMA LocksStep ==
    ASSUME Inv, LocksHeld, \A x \in Frames : ~DestroyAgain(x), [Next]_vars
    PROVE  LocksHeld'
<1>1. ASSUME NEW x \in Frames, IoHandler(x) PROVE LocksHeld' BY <1>1, IoHandlerLocks
<1>2. ASSUME NEW x \in Frames, ConnectHandler(x) PROVE LocksHeld' BY <1>2, ConnectHandlerLocks
<1>3. ASSUME NEW x \in Frames, OwnSteps(x) PROVE LocksHeld' BY <1>3, OwnStepsLocks
<1>4. ASSUME NEW x \in Frames, Start(x) PROVE LocksHeld' BY <1>4, StartLocks
<1>5. CASE KernelSteps BY <1>5, KernelStepsLocks
<1>6. CASE UNCHANGED vars BY <1>6 DEF vars, frm, LocksHeld
<1> QED BY <1>1, <1>2, <1>3, <1>4, <1>5, <1>6 DEF Next, Step, OwnSteps, KernelSteps

-----------------------------------------------------------------------------
(***************************************************************************)
(* connections_table and the descriptors.  While start_server creates the  *)
(* table only when there is none and never destroys it (PlainStarts),      *)
(* destroy_connection always finds its entry, so that it never unlocks     *)
(* connections_mux twice, and the mutexes are held where they are to be.   *)
(***************************************************************************)

\* Between accept and g_hash_table_insert, the failure of malloc included.
Accepting == {"cn_lock", "cn_insert", "cn_free"}
\* Between the two halves of free_connectiondata.
Destroying == {"dc_close", "stop_close", "undo_close"}
\* Between the lookup of a ConnectionData and its removal from the table.
Reading == {"io_mutex", "io_check", "rc_lock", "rc_push", "rd_lock", "fetch", "dc_lock", "dc_free"}

\* An entry of connections_table is live and is under its own descriptor.
EntryLive ==
    \A fd \in Fds : table[fd] # NoConn => cdata[table[fd]] = "live" /\ cfd[table[fd]] = fd
\* A connection that is being accepted is live, in no entry yet, and the
\* business of one frame only.
AcceptedApart ==
    \A x \in Frames : pc[x] \in Accepting =>
        /\ cdata[con[x]] = "live"
        /\ \A fd \in Fds : table[fd] # con[x]
        /\ \A y \in Frames : pc[y] \in Accepting /\ con[y] = con[x] => y = x
\* A connection that is being freed is destroyed,
DestroyedKnown ==
    \A x \in Frames : pc[x] \in Destroying => cdata[con[x]] = "destroyed"
\* and every destroyed connection is being freed.
DestroyedHeld ==
    \A c \in Conns : cdata[c] = "destroyed" =>
        \E x \in Frames : pc[x] \in Destroying /\ con[x] = c
\* A live connection has its entry, once it has been accepted.
LiveHasEntry ==
    \A c \in Conns : cdata[c] = "live" =>
        \/ cfd[c] \in Fds /\ table[cfd[c]] = c
        \/ \E x \in Frames : pc[x] \in Accepting /\ con[x] = c
\* What io_handler has looked up had been accepted.
ReadAccepted ==
    \A x \in Frames : pc[x] \in Reading =>
        /\ cdata[con[x]] # "none"
        /\ \A y \in Frames : pc[y] \in Accepting => con[y] # con[x]
\* A connection waits in the backlog once, and was never accepted.
BacklogFresh ==
    \A i \in 1..Len(backlog) :
        /\ cdata[backlog[i]] = "none"
        /\ \A j \in 1..Len(backlog) : backlog[i] = backlog[j] => i = j
\* A NULL connections_table has no entry.
NullTable == "table" \notin up => \A fd \in Fds : table[fd] = NoConn
\* No destroy_connection is past its first unlock of connections_mux for want
\* of an entry.
NeverMisses == \A x \in Frames : pc[x] # "dc_again"

\* start_server does not follow one that failed, and fails in listen if at all,
\* so that it neither discards nor destroys a connections_table.
PlainStarts == ~Retries /\ StartFails \subseteq {"st_listen"}
\* start_server frees no connection; where it is plain it finds no table, on
\* the one thread that calls it, and never comes to g_hash_table_destroy.
StartsRight ==
    \A x \in Frames :
        /\ pc[x] # "undo_close"
        /\ PlainStarts => /\ pc[x] \notin {"undo_queue", "undo_free"}
                          /\ pc[x] \in {"st_queue", "st_table"} =>
                               x = <<Main, "api">> /\ "table" \notin up

\* The part of the inductive invariant that this module adds to Inv, and to
\* LocksHeld.
Entries ==
    /\ EntryLive /\ AcceptedApart /\ DestroyedKnown /\ DestroyedHeld /\ LiveHasEntry
    /\ ReadAccepted /\ BacklogFresh /\ NullTable /\ NeverMisses /\ StartsRight
\* The inductive invariant behind the theorems of this module.
EntryInv == Inv /\ LocksHeld /\ Entries

\* The types that the lemmas below need.
EntryTypes ==
    /\ pc \in [Frames -> Labels]
    /\ con \in [Frames -> Conns \cup {NoConn}]
    /\ table \in [Fds -> Conns \cup {NoConn}]
    /\ cdata \in [Conns -> {"none", "live", "destroyed", "freed"}]
    /\ cfd \in [Conns -> Fds \cup {0}]
    /\ sockOf \in [Fds -> Conns \cup {NoConn}]
    /\ backlog \in Seq(Conns)

\* While start_server runs, connections_table has no entry that it could discard.
StartsClean == \A x \in Frames : pc[x] \in StartLabels => \A fd \in Fds : table[fd] = NoConn

\* A step that touches no entry and no ConnectionData, and neither begins nor
\* ends an acceptance or a destruction.
Calm ==
    /\ UNCHANGED <<table, cdata, cfd>>
    /\ \A y \in Frames :
         /\ pc'[y] \in Accepting <=> pc[y] \in Accepting
         /\ pc'[y] \in Destroying <=> pc[y] \in Destroying
         /\ pc'[y] \in Accepting \cup Destroying => con'[y] = con[y]
         /\ pc'[y] \in Reading => pc[y] \in Reading /\ con'[y] = con[y]
         /\ pc'[y] # "dc_again"
         /\ pc'[y] = "cn_free" => pc[y] = "cn_free" \/ AllocFails
\* A step outside start_server, that creates no table either.
Aloof ==
    /\ "table" \in up' => "table" \in up
    /\ \A y \in Frames :
         pc'[y] \in {"st_queue", "st_table", "undo_queue", "undo_free", "undo_close"}
           => pc'[y] = pc[y]
\* A calm step that leaves the backlog and the pointer to the table alone.
Quiet == Calm /\ Aloof /\ UNCHANGED backlog /\ ("table" \in up' <=> "table" \in up)

\* EntryTypes is a part of Inv.
LEMMA EntryTyped == Inv => EntryTypes
  BY DEF Inv, FrameTypes, DataTypes, KernelTypes, EntryTypes

\* The heart of the matter: when destroy_connection has connections_mux and
\* its ConnectionData is not freed, g_hash_table_remove finds its entry.
LEMMA FindsEntry == EntryInv => RemoveFindsEntry
<1> SUFFICES ASSUME EntryInv, NEW x \in Frames, pc[x] = "dc_free", cdata[con[x]] # "freed"
             PROVE  table[cfd[con[x]]] = con[x]
  BY DEF RemoveFindsEntry
<1> USE DEF EntryInv, Entries
<1>1. con[x] \in Conns /\ cdata[con[x]] \in {"live", "destroyed"}
  BY EntryTyped DEF Inv, FramesKnow, ConLabels, EntryTypes, ReadAccepted, Reading
<1>2. cdata[con[x]] # "destroyed"
  BY <1>1 DEF DestroyedHeld, Destroying, LocksHeld, HoldsTable, StartsRight
<1> QED BY <1>1, <1>2 DEF LiveHasEntry, ReadAccepted, Reading

\* A step outside start_server keeps StartsRight.
LEMMA AloofStep == ASSUME Entries, Aloof PROVE StartsRight'
  BY DEF Entries, Aloof, StartsRight

\* A calm step keeps Entries, if it keeps the backlog, the pointer to the table
\* and start_server right.
LEMMA CalmStep ==
    ASSUME Entries, Calm, BacklogFresh', NullTable', StartsRight'
    PROVE  Entries'
<1> USE DEF Entries, Calm
<1>1. EntryLive' BY DEF EntryLive
<1>2. AcceptedApart' BY DEF AcceptedApart
<1>3. DestroyedKnown' BY DEF DestroyedKnown
<1>4. DestroyedHeld' BY DEF DestroyedHeld
<1>5. LiveHasEntry' BY DEF LiveHasEntry
<1>6. ReadAccepted' BY DEF ReadAccepted
<1>7. NeverMisses' BY DEF NeverMisses
<1> QED BY <1>1, <1>2, <1>3, <1>4, <1>5, <1>6, <1>7

\* A quiet step keeps Entries.
LEMMA QuietStep == ASSUME Entries, Quiet PROVE Entries'
<1>1. BacklogFresh' /\ NullTable' BY DEF Entries, Quiet, Calm, BacklogFresh, NullTable
<1> QED BY <1>1, AloofStep, CalmStep DEF Quiet

\* Steps of io_handler and what it calls are quiet, but for the steps treated
\* one by one below.
LEMMA IoHandlerQuiet ==
    ASSUME EntryInv, NEW x \in Frames,
           \/ IoDestroyed(x)
           \/ IoPeek(x)
           \/ ReportFails(x)
           \/ ReportPush(x)
           \/ FetchNewline(x)
           \/ FetchEnd(x)
           \/ FetchObject(x)
           \/ FetchKeepAlive(x)
           \/ FetchError(x)
           \/ DestroyAgain(x)
           \/ UseAfterFree(x)
    PROVE  Quiet
<1> USE EntryTyped DEF EntryInv, Entries, EntryTypes, NeverMisses, Quiet, Calm, Aloof, Accepting,
        Destroying, Reading, At, Goto, Return, ReadDone, Fetching, frm, srv, net, sig
<1>1. CASE IoDestroyed(x) BY <1>1 DEF IoDestroyed
<1>2. CASE IoPeek(x) BY <1>2 DEF IoPeek
<1>3. CASE ReportFails(x) BY <1>3 DEF ReportFails
<1>4. CASE ReportPush(x) BY <1>4 DEF ReportPush
<1>5. CASE FetchNewline(x) BY <1>5 DEF FetchNewline
<1>6. CASE FetchEnd(x) BY <1>6 DEF FetchEnd
<1>7. CASE FetchObject(x) BY <1>7 DEF FetchObject
<1>8. CASE FetchKeepAlive(x) BY <1>8 DEF FetchKeepAlive
<1>9. CASE FetchError(x) BY <1>9 DEF FetchError
<1>10. CASE DestroyAgain(x) BY <1>10 DEF DestroyAgain
<1>11. CASE UseAfterFree(x) BY <1>11 DEF UseAfterFree
<1> QED BY <1>1, <1>2, <1>3, <1>4, <1>5, <1>6, <1>7, <1>8, <1>9, <1>10, <1>11

\* Steps of connect_handler are quiet, but for the steps treated one by one
\* below.
LEMMA ConnectHandlerQuiet ==
    ASSUME EntryInv, NEW x \in Frames,
           \/ AcceptFails(x)
           \/ InsertExits(x)
           \/ InsertFails(x)
           \/ Setup(x)
    PROVE  Quiet
<1> USE EntryTyped DEF EntryInv, Entries, EntryTypes, NeverMisses, Quiet, Calm, Aloof, Accepting,
        Destroying, Reading, At, Goto, Return, ReadDone, Fetching, frm, srv, net, sig
<1>1. CASE AcceptFails(x) BY <1>1 DEF AcceptFails
<1>2. CASE InsertExits(x) BY <1>2 DEF InsertExits
<1>3. CASE InsertFails(x) BY <1>3 DEF InsertFails
<1>4. CASE Setup(x) BY <1>4 DEF Setup
<1> QED BY <1>1, <1>2, <1>3, <1>4

\* Steps of the timer's check and the library calls are quiet, but for the
\* steps treated one by one below.
LEMMA OwnStepsQuiet ==
    ASSUME EntryInv, NEW x \in Frames,
           \/ Acquire(x)
           \/ iter_keep_alives(x)
           \/ TickDone(x)
           \/ \E fd \in Fds : check_keep_alive(x, fd)
           \/ Tick(x)
           \/ \E m \in {read_buff_mux, connections_mux} : CallLock(x, m)
           \/ read_message(x)
           \/ get_connected_list(x)
           \/ ListAborts(x)
           \/ stop_server(x)
           \/ StopQueue(x)
    PROVE  Quiet
<1> USE EntryTyped DEF EntryInv, Entries, EntryTypes, NeverMisses, Quiet, Calm, Aloof, Accepting,
        Destroying, Reading, At, Goto, Return, ReadDone, Fetching, frm, srv, net, sig
<1>1. CASE Acquire(x) BY <1>1 DEF Acquire, Waiting, WaitLabels, Wants, After
<1>2. CASE iter_keep_alives(x) BY <1>2 DEF iter_keep_alives
<1>3. CASE TickDone(x) BY <1>3 DEF TickDone
<1>4. CASE \E fd \in Fds : check_keep_alive(x, fd) BY <1>4 DEF check_keep_alive
<1>5. CASE Tick(x) BY <1>5 DEF Tick
<1>6. CASE \E m \in {read_buff_mux, connections_mux} : CallLock(x, m)
  BY <1>6 DEF CallLock, IsCall
<1>7. CASE read_message(x) BY <1>7 DEF read_message
<1>8. CASE get_connected_list(x) BY <1>8 DEF get_connected_list
<1>9. CASE ListAborts(x) BY <1>9 DEF ListAborts
<1>10. CASE stop_server(x) BY <1>10 DEF stop_server, IsCall, MainIdle
<1>11. CASE StopQueue(x) BY <1>11 DEF StopQueue
<1> QED BY <1>1, <1>2, <1>3, <1>4, <1>5, <1>6, <1>7, <1>8, <1>9, <1>10, <1>11

\* The peers, and the kernel when it delivers a signal, are quiet, but for a
\* new connection.
LEMMA KernelStepsQuiet ==
    ASSUME EntryInv, KernelSteps, ~(\E c \in Conns : Connect(c))
    PROVE  Quiet
<1> USE EntryTyped DEF EntryInv, Entries, EntryTypes, NeverMisses, Quiet, Calm, Aloof, Accepting,
        Destroying, Reading, At, Goto, Return, ReadDone, Fetching, frm, srv, net, sig
<1>1. CASE \E c \in Conns : \E seg \in Segments : Arrive(c, seg) BY <1>1 DEF Arrive
<1>2. CASE \E c \in Conns : \E n \in 1..FinSignals : Fin(c, n) BY <1>2 DEF Fin
<1>3. CASE \E c \in Conns : Expire(c) BY <1>3 DEF Expire
<1>4. CASE \E t \in Threads : TakeConnect(t) BY <1>4 DEF TakeConnect, Enter, Deliverable
<1>5. CASE \E t \in Threads : TakeRead(t)
  <2>1. UNCHANGED <<con, srv, net>> BY <1>5 DEF TakeRead
  <2>2. PICK t \in Threads : TakeRead(t) BY <1>5
  <2>3. /\ pc' = [pc EXCEPT ![<<t, "io">>] = "io_lock"] \/ pc' = pc
        /\ pc[<<t, "io">>] = "idle"
    BY <2>2 DEF TakeRead, Enter, Deliverable
  <2> QED BY <2>1, <2>3
<1> QED BY <1>1, <1>2, <1>3, <1>4, <1>5 DEF KernelSteps, Peer

\* The lookup in io_handler keeps Entries.
LEMMA LookupStep == ASSUME EntryInv, NEW x \in Frames, IoLookup(x) PROVE Entries'
<1> USE DEF EntryInv
<1>1. /\ pc[x] = "io_lookup" /\ sifd[x[1]] \in Fds
      /\ \/ table[sifd[x[1]]] = NoConn /\ pc' = [pc EXCEPT ![x] = "idle"]
            /\ con' = [con EXCEPT ![x] = NoConn]
         \/ table[sifd[x[1]]] # NoConn /\ pc' = [pc EXCEPT ![x] = "io_mutex"]
            /\ con' = [con EXCEPT ![x] = table[sifd[x[1]]]]
      /\ UNCHANGED <<table, cdata, cfd, backlog, up>>
  BY DEF IoLookup, At, Goto, Return, Inv, FramesKnow, srv, net
<1>2. EntryTypes BY EntryTyped
<1>3. EntryLive' BY <1>1, <1>2 DEF EntryTypes, Entries, EntryLive
<1>4. AcceptedApart' BY <1>1, <1>2 DEF EntryTypes, Entries, AcceptedApart, Accepting
<1>5. DestroyedKnown' BY <1>1, <1>2 DEF EntryTypes, Entries, DestroyedKnown, Destroying
<1>6. DestroyedHeld'
  <2>1. pc[x] \notin Destroying BY <1>1 DEF Destroying
  <2> QED BY <1>1, <1>2, <2>1 DEF EntryTypes, Entries, DestroyedHeld
<1>7. LiveHasEntry' BY <1>1, <1>2 DEF EntryTypes, Entries, LiveHasEntry, Accepting
<1>8. ReadAccepted' BY <1>1, <1>2 DEF EntryTypes, Entries, ReadAccepted, Accepting,
     Destroying, Reading, EntryLive, AcceptedApart
<1>9. BacklogFresh' BY <1>1, <1>2 DEF EntryTypes, Entries, BacklogFresh
<1>10. NullTable' BY <1>1, <1>2 DEF EntryTypes, Entries, NullTable
<1>11. NeverMisses' BY <1>1, <1>2 DEF EntryTypes, Entries, NeverMisses
<1>12. StartsRight' BY <1>1, <1>2, AloofStep DEF EntryTypes, Aloof
<1> QED BY <1>3, <1>4, <1>5, <1>6, <1>7, <1>8, <1>9, <1>10, <1>11, <1>12 DEF Entries

\* g_hash_table_remove and g_hash_table_destroy set the destroyed flag of the
\* connection whose entry they take out.
LEMMA RemoveStep ==
    ASSUME EntryInv, NEW x \in Frames, DestroyFree(x) \/ \E fd \in Fds : StopFree(x, fd)
    PROVE  Entries'
<1> USE DEF EntryInv
<1>1. PICK fd \in Fds, c \in Conns, l \in {"dc_close", "stop_close"} :
         /\ table[fd] = c /\ pc[x] \in {"dc_free", "stop_free"}
         /\ table' = [table EXCEPT ![fd] = NoConn]
         /\ cdata' = [cdata EXCEPT ![c] = "destroyed"]
         /\ con' = [con EXCEPT ![x] = c] /\ pc' = [pc EXCEPT ![x] = l]
         /\ UNCHANGED <<cfd, backlog, up>>
  <2>1. CASE DestroyFree(x)
    <3> DEFINE fd == cfd[con[x]]
    <3>1. fd \in Fds /\ table[fd] \in Conns
      BY <2>1, EntryTyped DEF EntryTypes, DestroyFree, At, Inv, FramesKnow, ConLabels
    <3> QED BY <2>1, <3>1 DEF DestroyFree, At, Goto, Life, net
  <2>2. CASE \E fd \in Fds : StopFree(x, fd)
    <3>1. PICK fd \in Fds : StopFree(x, fd) BY <2>2
    <3>2. table[fd] \in Conns BY <3>1, EntryTyped DEF EntryTypes, StopFree, FreeEntry
    <3> QED BY <3>1, <3>2 DEF StopFree, FreeEntry, At, Goto, Life, net
  <2> QED BY <2>1, <2>2
<1>2. EntryTypes BY EntryTyped
<1>3. cdata[c] = "live" /\ cfd[c] = fd /\ \A y \in Frames : pc[y] \in Accepting => con[y] # c
  BY <1>1, <1>2, ServerAssumption DEF Entries, EntryLive, AcceptedApart
<1>4. l \in Destroying /\ l \notin Accepting /\ l \notin Reading /\ l # "dc_again"
      /\ pc[x] \notin Destroying /\ pc[x] \notin Accepting
  BY <1>1 DEF Accepting, Destroying, Reading
<1>5. EntryLive' BY <1>1, <1>2, <1>3, <1>4, ServerAssumption DEF EntryTypes, Entries,
     EntryLive
<1>6. AcceptedApart' BY <1>1, <1>2, <1>3, <1>4, ServerAssumption DEF EntryTypes, Entries,
     AcceptedApart, Accepting, Inv, FramesKnow, ConLabels
<1>7. DestroyedKnown' BY <1>1, <1>2, <1>3, <1>4, ServerAssumption DEF EntryTypes, Entries,
     DestroyedKnown
<1>8. DestroyedHeld' BY <1>1, <1>2, <1>3, <1>4, ServerAssumption DEF EntryTypes, Entries,
     DestroyedHeld
<1>9. LiveHasEntry' BY <1>1, <1>2, <1>3, <1>4, ServerAssumption DEF EntryTypes, Entries,
     LiveHasEntry
<1>10. ReadAccepted' BY <1>1, <1>2, <1>3, <1>4, ServerAssumption DEF EntryTypes, Entries,
     ReadAccepted
<1>11. BacklogFresh' BY <1>1, <1>2, <1>3, <1>4, ServerAssumption DEF EntryTypes, Entries,
     BacklogFresh
<1>12. NullTable' BY <1>1, <1>2, <1>3, <1>4, ServerAssumption DEF EntryTypes, Entries,
     NullTable
<1>13. NeverMisses' BY <1>1, <1>2, <1>3, <1>4, ServerAssumption DEF EntryTypes, Entries,
     NeverMisses
<1>14. StartsRight'
  <2>1. Aloof BY <1>1, <1>2, <1>3 DEF EntryTypes, Aloof, Destroying
  <2> QED BY <2>1, AloofStep
<1> QED BY <1>5, <1>6, <1>7, <1>8, <1>9, <1>10, <1>11, <1>12, <1>13, <1>14 DEF Entries

\* The second half of free_connectiondata keeps Entries: only one frame frees
\* the connection, since it owns connections_mux.
LEMMA CloseStep ==
    ASSUME EntryInv, NEW x \in Frames, DestroyClose(x) \/ StopClose(x)
    PROVE  Entries'
<1> USE DEF EntryInv
<1> DEFINE c == con[x]
<1>1. PICK l \in {"idle", "stop_free"} :
         /\ pc[x] \in Destroying /\ c \in Conns
         /\ cdata' = [cdata EXCEPT ![c] = "freed"]
         /\ con' = [con EXCEPT ![x] = NoConn] /\ pc' = [pc EXCEPT ![x] = l]
         /\ UNCHANGED <<table, cfd, backlog, up>>
  BY DEF Inv, FramesKnow, ConLabels, Destroying, DestroyClose, StopClose, CloseEntry, At, Goto,
         Return, Life
<1>2. EntryTypes BY EntryTyped
<1>3. /\ cdata[c] = "destroyed"
      /\ \A y \in Frames : pc[y] \in Destroying => y = x
  BY <1>1, <1>2 DEF Entries, DestroyedKnown, StartsRight, LocksHeld, HoldsTable, Destroying
<1>4. l \notin Accepting /\ l \notin Reading /\ l # "dc_again" /\ l \notin Destroying
      /\ pc[x] \notin Accepting
  BY <1>1 DEF Accepting, Destroying, Reading
<1> HIDE DEF c
<1>5. EntryLive' BY <1>1, <1>2, <1>3, <1>4, ServerAssumption DEF EntryTypes, Entries,
     EntryLive
<1>6. AcceptedApart' BY <1>1, <1>2, <1>3, <1>4, ServerAssumption DEF EntryTypes, Entries,
     AcceptedApart
<1>7. DestroyedKnown' BY <1>1, <1>2, <1>3, <1>4, ServerAssumption DEF EntryTypes, Entries,
     DestroyedKnown
<1>8. DestroyedHeld' BY <1>1, <1>2, <1>3, <1>4, ServerAssumption DEF EntryTypes, Entries,
     DestroyedHeld, c
<1>9. LiveHasEntry' BY <1>1, <1>2, <1>3, <1>4, ServerAssumption DEF EntryTypes, Entries,
     LiveHasEntry
<1>10. ReadAccepted' BY <1>1, <1>2, <1>3, <1>4, ServerAssumption DEF EntryTypes, Entries,
     ReadAccepted
<1>11. BacklogFresh' BY <1>1, <1>2, <1>3, <1>4, ServerAssumption DEF EntryTypes, Entries,
     BacklogFresh
<1>12. NullTable' BY <1>1, <1>2, <1>3, <1>4, ServerAssumption DEF EntryTypes, Entries,
     NullTable
<1>13. NeverMisses' BY <1>1, <1>2, <1>3, <1>4, ServerAssumption DEF EntryTypes, Entries,
     NeverMisses
<1>14. StartsRight'
  <2>1. Aloof BY <1>1, <1>2, <1>3 DEF EntryTypes, Aloof, Destroying
  <2> QED BY <2>1, AloofStep
<1> QED BY <1>5, <1>6, <1>7, <1>8, <1>9, <1>10, <1>11, <1>12, <1>13, <1>14 DEF Entries

\* accept takes the first connection of the backlog, whatever it makes of it.
LEMMA TailFresh ==
    ASSUME backlog \in Seq(Conns), backlog # <<>>, BacklogFresh, backlog' = Tail(backlog),
           \A d \in Conns : d # Head(backlog) => cdata'[d] = cdata[d]
    PROVE  BacklogFresh'
<1>1. /\ Len(backlog) \in Nat /\ Len(backlog) > 0
      /\ Len(backlog') = Len(backlog) - 1 /\ Head(backlog) = backlog[1]
      /\ \A i \in 1..Len(backlog') : backlog'[i] = backlog[i + 1] /\ i + 1 \in 1..Len(backlog)
      /\ \A i \in 1..Len(backlog) : backlog[i] \in Conns
  BY HeadTailProperties, EmptySeq
<1> QED BY ONLY <1>1, BacklogFresh, \A d \in Conns : d # Head(backlog) => cdata'[d] = cdata[d]
           DEF BacklogFresh

\* accept keeps Entries: nothing has used the connection yet.
LEMMA AcceptStep == ASSUME EntryInv, NEW x \in Frames, Accept(x) PROVE Entries'
<1> USE DEF EntryInv
<1> DEFINE c == Head(backlog)
<1>1. PICK fd \in Fds : cfd' = [cfd EXCEPT ![c] = fd]
  BY DEF Accept
<1>2. /\ backlog # <<>> /\ backlog' = Tail(backlog) /\ pc[x] = "cn_accept"
      /\ cdata' = [cdata EXCEPT ![c] = "live"] /\ con' = [con EXCEPT ![x] = c]
      /\ pc' = [pc EXCEPT ![x] = "cn_lock"] /\ UNCHANGED <<table, up>>
  BY DEF Accept, CanAccept, At, Goto, Life
<1>3. EntryTypes BY EntryTyped
<1>4. c \in Conns /\ cdata[c] = "none"
  <2>1. c = backlog[1] /\ 1 \in 1..Len(backlog) /\ c \in Conns
    BY <1>2, <1>3, HeadTailProperties, EmptySeq DEF EntryTypes
  <2> QED BY <2>1 DEF Entries, BacklogFresh
<1> HIDE DEF c
<1>5. EntryLive' BY <1>1, <1>2, <1>3, <1>4, ServerAssumption DEF EntryTypes, Entries,
     EntryLive
<1>6. AcceptedApart' BY <1>1, <1>2, <1>3, <1>4, ServerAssumption DEF EntryTypes, Entries,
     AcceptedApart, Accepting, EntryLive
<1>7. DestroyedKnown' BY <1>1, <1>2, <1>3, <1>4, ServerAssumption DEF EntryTypes, Entries,
     DestroyedKnown, Destroying
<1>8. DestroyedHeld' BY <1>1, <1>2, <1>3, <1>4, ServerAssumption DEF EntryTypes, Entries,
     DestroyedHeld, Destroying
<1>9. LiveHasEntry' BY <1>1, <1>2, <1>3, <1>4, ServerAssumption DEF EntryTypes, Entries,
     LiveHasEntry, Accepting
<1>10. ReadAccepted' BY <1>1, <1>2, <1>3, <1>4, ServerAssumption DEF EntryTypes, Entries,
     ReadAccepted, Accepting, Reading
<1>11. BacklogFresh' BY <1>2, <1>3, TailFresh DEF EntryTypes, Entries, c
<1>12. NullTable' BY <1>1, <1>2, <1>3, <1>4, ServerAssumption DEF EntryTypes, Entries,
     NullTable
<1>13. NeverMisses' BY <1>1, <1>2, <1>3, <1>4, ServerAssumption DEF EntryTypes, Entries,
     NeverMisses
<1>14. StartsRight'
  <2>1. Aloof BY <1>1, <1>2, <1>3 DEF EntryTypes, Aloof, Destroying
  <2> QED BY <2>1, AloofStep
<1> QED BY <1>5, <1>6, <1>7, <1>8, <1>9, <1>10, <1>11, <1>12, <1>13, <1>14 DEF Entries

\* g_hash_table_insert in connect_handler keeps Entries.
LEMMA InsertStep == ASSUME EntryInv, NEW x \in Frames, Insert(x) PROVE Entries'
<1> USE DEF EntryInv
<1> DEFINE c == con[x]
<1>1. /\ pc[x] = "cn_insert" /\ c \in Conns /\ cfd[c] \in Fds
      /\ "table" \in up /\ table[cfd[c]] = NoConn
      /\ table' = [table EXCEPT ![cfd[c]] = c] /\ pc' = [pc EXCEPT ![x] = "cn_setup"]
      /\ UNCHANGED <<con, cdata, cfd, backlog, up>>
  BY DEF Inv, FramesKnow, ConLabels, Insert, Insertable, At, Goto, net
<1>2. EntryTypes BY EntryTyped
<1>3. cdata[c] = "live" /\ \A y \in Frames : pc[y] \in Accepting /\ con[y] = c => y = x
  BY <1>1 DEF Entries, AcceptedApart, Accepting
<1>4. "cn_setup" \notin Accepting \cup Destroying \cup Reading
  BY DEF Accepting, Destroying, Reading
<1>5. EntryLive' BY <1>1, <1>2, <1>3, <1>4, ServerAssumption DEF EntryTypes, Entries,
     EntryLive
<1>6. AcceptedApart' BY <1>1, <1>2, <1>3, <1>4, ServerAssumption DEF EntryTypes, Entries,
     AcceptedApart
<1>7. DestroyedKnown' BY <1>1, <1>2, <1>3, <1>4, ServerAssumption DEF EntryTypes, Entries,
     DestroyedKnown
<1>8. DestroyedHeld' BY <1>1, <1>2, <1>3, <1>4, ServerAssumption DEF EntryTypes, Entries,
     DestroyedHeld, Destroying
<1>9. LiveHasEntry' BY <1>1, <1>2, <1>3, <1>4, ServerAssumption DEF EntryTypes, Entries,
     LiveHasEntry, Accepting
<1>10. ReadAccepted' BY <1>1, <1>2, <1>3, <1>4, ServerAssumption DEF EntryTypes, Entries,
     ReadAccepted
<1>11. BacklogFresh' BY <1>1, <1>2, <1>3, <1>4, ServerAssumption DEF EntryTypes, Entries,
     BacklogFresh
<1>12. NullTable' BY <1>1, <1>2, <1>3, <1>4, ServerAssumption DEF EntryTypes, Entries,
     NullTable
<1>13. NeverMisses' BY <1>1, <1>2, <1>3, <1>4, ServerAssumption DEF EntryTypes, Entries,
     NeverMisses
<1>14. StartsRight'
  <2>1. Aloof BY <1>1, <1>2, <1>3 DEF EntryTypes, Aloof, Destroying
  <2> QED BY <2>1, AloofStep
<1> QED BY <1>5, <1>6, <1>7, <1>8, <1>9, <1>10, <1>11, <1>12, <1>13, <1>14 DEF Entries

\* The failure of malloc for the key keeps Entries.
LEMMA InsertFreeStep == ASSUME EntryInv, NEW x \in Frames, InsertFree(x) PROVE Entries'
<1> USE DEF EntryInv
<1> DEFINE c == con[x]
<1>1. /\ pc[x] = "cn_free" /\ c \in Conns
      /\ cdata' = [cdata EXCEPT ![c] = "freed"]
      /\ con' = [con EXCEPT ![x] = NoConn] /\ pc' = [pc EXCEPT ![x] = "idle"]
      /\ UNCHANGED <<table, cfd, backlog, up>>
  BY DEF Inv, FramesKnow, ConLabels, InsertFree, At, Goto, Return, Life
<1>2. EntryTypes BY EntryTyped
<1>3. /\ cdata[c] = "live" /\ \A fd \in Fds : table[fd] # c
      /\ \A y \in Frames : pc[y] \in Accepting /\ con[y] = c => y = x
  BY <1>1 DEF Entries, AcceptedApart, Accepting
<1>4. "idle" \notin Accepting \cup Destroying \cup Reading /\ pc[x] \in Accepting
      /\ pc[x] \notin Destroying
  BY <1>1 DEF Accepting, Destroying, Reading
<1> HIDE DEF c
<1>5. EntryLive' BY <1>1, <1>2, <1>3, <1>4, ServerAssumption DEF EntryTypes, Entries,
     EntryLive
<1>6. AcceptedApart' BY <1>1, <1>2, <1>3, <1>4, ServerAssumption DEF EntryTypes, Entries,
     AcceptedApart
<1>7. DestroyedKnown' BY <1>1, <1>2, <1>3, <1>4, ServerAssumption DEF EntryTypes, Entries,
     DestroyedKnown
<1>8. DestroyedHeld' BY <1>1, <1>2, <1>3, <1>4, ServerAssumption DEF EntryTypes, Entries,
     DestroyedHeld
<1>9. LiveHasEntry' BY <1>1, <1>2, <1>3, <1>4, ServerAssumption DEF EntryTypes, Entries,
     LiveHasEntry, c
<1>10. ReadAccepted' BY <1>1, <1>2, <1>3, <1>4, ServerAssumption DEF EntryTypes, Entries,
     ReadAccepted
<1>11. BacklogFresh' BY <1>1, <1>2, <1>3, <1>4, ServerAssumption DEF EntryTypes, Entries,
     BacklogFresh
<1>12. NullTable' BY <1>1, <1>2, <1>3, <1>4, ServerAssumption DEF EntryTypes, Entries,
     NullTable
<1>13. NeverMisses' BY <1>1, <1>2, <1>3, <1>4, ServerAssumption DEF EntryTypes, Entries,
     NeverMisses
<1>14. StartsRight'
  <2>1. Aloof BY <1>1, <1>2, <1>3 DEF EntryTypes, Aloof, Destroying
  <2> QED BY <2>1, AloofStep
<1> QED BY <1>5, <1>6, <1>7, <1>8, <1>9, <1>10, <1>11, <1>12, <1>13, <1>14 DEF Entries

\* Steps of the handlers and calls that change no more than the backlog and the
\* pointer to the table are calm: a failing getpeername, closing the listening
\* socket, and the end of g_hash_table_destroy.
LEMMA PointerCalm ==
    ASSUME EntryInv, NEW x \in Frames, AcceptAborts(x) \/ StopSignals(x) \/ StopTable(x)
    PROVE  Calm /\ Aloof
<1> USE EntryTyped DEF EntryInv, Entries, EntryTypes, NeverMisses, Calm, Aloof, Accepting,
        Destroying, Reading, At, Goto, Return
<1>1. CASE AcceptAborts(x) BY <1>1 DEF AcceptAborts, srv
<1>2. CASE StopSignals(x) BY <1>2 DEF StopSignals
<1>3. CASE StopTable(x) BY <1>3 DEF StopTable
<1> QED BY <1>1, <1>2, <1>3

\* The same steps keep the backlog fresh and a NULL table empty.
LEMMA PointerRight ==
    ASSUME EntryInv, NEW x \in Frames, AcceptAborts(x) \/ StopSignals(x) \/ StopTable(x)
    PROVE  BacklogFresh' /\ NullTable'
<1> USE EntryTyped DEF EntryInv, Entries
<1>1. CASE AcceptAborts(x)
  <2>1. BacklogFresh'
    BY <1>1, TailFresh DEF EntryTypes, AcceptAborts, CanAccept, srv
  <2> QED BY <1>1, <2>1 DEF AcceptAborts, srv, NullTable
<1>2. CASE StopSignals(x)
  <2>1. backlog' = <<>> /\ UNCHANGED table /\ ("table" \in up' <=> "table" \in up)
    BY <1>2 DEF StopSignals
  <2>2. Len(backlog') = 0 BY ONLY <2>1, EmptySeq
  <2>3. BacklogFresh' BY ONLY <2>2 DEF BacklogFresh
  <2>4. NullTable' BY <2>1 DEF NullTable
  <2> QED BY <2>3, <2>4
<1>3. CASE StopTable(x) BY <1>3 DEF StopTable, net, BacklogFresh, NullTable
<1> QED BY <1>1, <1>2, <1>3

\* Where start_server finds no entry that it could discard it frees nothing, and
\* the table stays as it is.
LEMMA StartTableKept ==
    ASSUME PlainStarts \/ StartsClean, EntryInv, NEW x \in Frames, Start(x)
    PROVE  /\ StartPlain(x) \/ Race(x)
           /\ UNCHANGED table
<1> USE DEF EntryInv, Entries, StartsRight
<1>1. ~UndoClose(x) BY DEF UndoClose, CloseEntry, At
<1>2. ASSUME NEW fd \in Fds PROVE ~UndoFree(x, fd)
  BY DEF UndoFree, FreeEntry, At, StartsClean, StartLabels
<1>3. StartPlain(x) \/ Race(x) BY <1>1, <1>2, StartShape
<1>4. ASSUME StartTable(x) PROVE UNCHANGED table
  <2>1. pc[x] = "st_table" /\ table' = [fd \in Fds |-> NoConn] BY <1>4 DEF StartTable, At
  <2>2. \A fd \in Fds : table[fd] = NoConn BY <2>1 DEF NullTable, StartsClean, StartLabels
  <2>3. table = [fd \in Fds |-> table[fd]] BY EntryTyped DEF EntryTypes
  <2> QED BY <2>1, <2>2, <2>3
<1>5. UNCHANGED table
  BY <1>1, <1>2, <1>4 DEF Start, StartQueue, StartSignals, StartTimer, StartListen, UndoQueue,
                          UndoTable, Race, srv
<1> QED BY <1>3, <1>5

\* Its steps are calm then, and leave the backlog alone,
LEMMA StartCalm ==
    ASSUME PlainStarts \/ StartsClean, EntryInv, NEW x \in Frames, Start(x)
    PROVE  Calm /\ UNCHANGED backlog
<1>1. UNCHANGED <<table, cdata, cfd, con, backlog>>
  BY StartTableKept DEF StartPlain, Race, srv, net, frm
<1>2. pc \in [Frames -> Labels] BY EntryTyped DEF EntryInv, EntryTypes
<1>3. \/ UNCHANGED pc
      \/ /\ pc[x] \in StartLabels
         /\ \E l \in StartLabels \cup {"idle"} : pc' = [pc EXCEPT ![x] = l]
  BY StartTableKept DEF StartPlain, Race, frm, Goto
<1>4. \A y \in Frames :
         \/ pc'[y] = pc[y]
         \/ pc[y] \in StartLabels /\ pc'[y] \in StartLabels \cup {"idle"}
  BY <1>2, <1>3
<1> QED BY <1>1, <1>4 DEF EntryInv, Entries, NeverMisses, Calm, Accepting, Destroying, Reading,
                          StartLabels

\* a table that becomes NULL has no entry,
LEMMA StartNull ==
    ASSUME PlainStarts \/ StartsClean, EntryInv, NEW x \in Frames, Start(x)
    PROVE  NullTable'
<1>1. UNCHANGED table BY StartTableKept
<1>2. CASE UndoTable(x) BY <1>1, <1>2 DEF UndoTable, NullTable
<1>3. CASE ~UndoTable(x)
  <2>1. "table" \in up => "table" \in up'
    <3>1. CASE UNCHANGED up BY <3>1
    <3>2. CASE StartQueue(x) \/ StartTable(x) BY <3>2 DEF StartQueue, StartTable
    <3>3. CASE StartSignals(x) \/ StartTimer(x) BY <3>3 DEF StartSignals, StartTimer
    <3>4. CASE StartListen(x) \/ UndoQueue(x) BY <3>4 DEF StartListen, UndoQueue
    <3> QED BY <1>3, <3>1, <3>2, <3>3, <3>4, StartTableKept DEF Start, StartPlain, Race, srv,
               UndoFree, FreeEntry, UndoClose, CloseEntry
  <2> QED BY <1>1, <2>1 DEF EntryInv, Entries, NullTable
<1> QED BY <1>2, <1>3

\* and a start_server that is plain goes the plain way.
LEMMA StartRight ==
    ASSUME PlainStarts \/ StartsClean, EntryInv, NEW x \in Frames, Start(x)
    PROVE  StartsRight'
<1> USE DEF EntryInv, Entries
<1>0. pc \in [Frames -> Labels] BY EntryTyped DEF EntryTypes
<1>1. \A y \in Frames : y # x => pc'[y] = pc[y]
  BY <1>0, StartTableKept DEF StartPlain, Race, frm, Goto
<1>2. pc'[x] # "undo_close"
  <2>1. \/ UNCHANGED pc
        \/ \E l \in StartLabels \cup {"idle"} : pc' = [pc EXCEPT ![x] = l]
    BY StartTableKept DEF StartPlain, Race, frm, Goto
  <2> QED BY <1>0, <2>1 DEF StartLabels, StartsRight
<1>3. ASSUME PlainStarts
      PROVE  \A y \in Frames : /\ pc'[y] \notin {"undo_queue", "undo_free"}
                               /\ pc'[y] \in {"st_queue", "st_table"} =>
                                    y = <<Main, "api">> /\ "table" \notin up'
  <2> USE <1>0, <1>1, <1>3 DEF StartsRight, PlainStarts, At, Goto
  <2>1. CASE StartQueue(x) BY <2>1 DEF StartQueue
  <2>2. CASE StartTable(x) BY <2>2 DEF StartTable
  <2>3. CASE StartSignals(x) BY <2>3 DEF StartSignals
  <2>4. CASE StartTimer(x)
    <3>1. pc' = [pc EXCEPT ![x] = "st_listen"] BY <2>4 DEF StartTimer
    <3>2. "table" \in up' => "table" \in up
      <4>1. \A v \in {"table"} : v \in up' => v \in up \cup {"timer", "lost timer"}
        BY <2>4 DEF StartTimer
      <4> QED BY <4>1
    <3> QED BY <3>1, <3>2
  <2>5. CASE StartListen(x) BY <2>5 DEF StartListen
  <2>6. CASE UndoQueue(x) BY <2>6 DEF UndoQueue
  <2>7. CASE UndoTable(x) BY <2>7 DEF UndoTable
  <2>8. CASE Race(x) BY <2>8 DEF Race, frm, srv
  <2> QED BY <2>1, <2>2, <2>3, <2>4, <2>5, <2>6, <2>7, <2>8
          DEF Start, UndoFree, FreeEntry, UndoClose, CloseEntry
<1> QED BY <1>1, <1>2, <1>3 DEF StartsRight

\* So they keep Entries.
LEMMA StartStep ==
    ASSUME PlainStarts \/ StartsClean, EntryInv, NEW x \in Frames, Start(x)
    PROVE  Entries'
<1>1. BacklogFresh' BY StartCalm DEF Calm, EntryInv, Entries, BacklogFresh
<1> QED BY <1>1, StartCalm, StartNull, StartRight, CalmStep DEF EntryInv

\* The call of start_server keeps Entries: Main makes it, and where a call may
\* not follow one that failed there is no table.
LEMMA CallStartStep == ASSUME EntryInv, NEW x \in Frames, start_server(x) PROVE Entries'
<1> USE DEF EntryInv
<1>1. /\ pc' = [pc EXCEPT ![x] = "st_queue"] /\ pc[x] = "idle" /\ x = <<Main, "api">>
      /\ Retries \/ "table" \notin up
      /\ UNCHANGED <<con, up, table, cdata, cfd, backlog>>
  BY DEF start_server, MainIdle, IsCall, At, Goto, srv, net
<1>2. EntryTypes BY EntryTyped
<1>3. Calm
  BY <1>1, <1>2 DEF EntryTypes, Entries, NeverMisses, Calm, Accepting, Destroying, Reading
<1>4. BacklogFresh' /\ NullTable' BY <1>1 DEF Entries, BacklogFresh, NullTable
<1>5. StartsRight' BY <1>1, <1>2 DEF EntryTypes, Entries, StartsRight, PlainStarts
<1> QED BY <1>3, <1>4, <1>5, CalmStep

\* A new connection is a calm step,
LEMMA ConnectCalm == ASSUME EntryInv, NEW c \in Conns, Connect(c) PROVE Calm /\ Aloof
BY DEF EntryInv, Entries, NeverMisses, Calm, Aloof, Connect, frm, srv

\* and the backlog stays fresh: who is in it, or was accepted, does not connect.
LEMMA ConnectFresh ==
    ASSUME backlog \in Seq(Conns), BacklogFresh, NEW c \in Conns, Connect(c)
    PROVE  BacklogFresh'
<1>1. /\ backlog' = Append(backlog, c) /\ cdata[c] = "none"
      /\ \A i \in DOMAIN backlog : backlog[i] # c
      /\ UNCHANGED cdata
  BY DEF Connect, Connected, srv
<1>2. /\ Len(backlog) \in Nat /\ Len(backlog') = Len(backlog) + 1
      /\ DOMAIN backlog = 1..Len(backlog) /\ backlog'[Len(backlog) + 1] = c
      /\ \A i \in 1..Len(backlog) : backlog'[i] = backlog[i]
  BY <1>1, LenProperties
<1> QED BY <1>1, <1>2 DEF BacklogFresh

\* A new connection keeps the backlog fresh and a NULL table empty.
LEMMA ConnectRight ==
    ASSUME EntryInv, NEW c \in Conns, Connect(c)
    PROVE  BacklogFresh' /\ NullTable'
<1>1. BacklogFresh' BY EntryTyped, ConnectFresh DEF EntryInv, Entries, EntryTypes
<1>2. UNCHANGED <<table, up>> BY DEF Connect, srv
<1> QED BY <1>1, <1>2 DEF EntryInv, Entries, NullTable

\* destroy_connection never misses its entry.
LEMMA NoMiss == EntryInv => \A x \in Frames : ~DestroyMisses(x) /\ ~DestroyAgain(x)
<1> SUFFICES ASSUME EntryInv, NEW x \in Frames PROVE ~DestroyMisses(x) /\ ~DestroyAgain(x)
  OBVIOUS
<1>1. ~DestroyAgain(x) BY DEF EntryInv, Entries, NeverMisses, DestroyAgain, At
<1>2. ASSUME DestroyMisses(x) PROVE FALSE
  <2>1. /\ pc[x] = "dc_free" /\ cdata[con[x]] # "freed" /\ table[cfd[con[x]]] = NoConn
    BY <1>2 DEF DestroyMisses, At
  <2>2. table[cfd[con[x]]] = con[x] BY <2>1, FindsEntry DEF RemoveFindsEntry
  <2>3. con[x] \in Conns BY <2>1 DEF EntryInv, Inv, FramesKnow, ConLabels
  <2> QED BY <2>1, <2>2, <2>3, ServerAssumption
<1> QED BY <1>1, <1>2

\* Every step keeps Entries.
LEMMA EntryStep == (PlainStarts \/ StartsClean) /\ EntryInv /\ [Next]_vars => Entries'
<1> SUFFICES ASSUME PlainStarts \/ StartsClean, EntryInv, [Next]_vars PROVE Entries' OBVIOUS
<1> USE DEF EntryInv
<1>1. ASSUME NEW x \in Frames, IoHandler(x) PROVE Entries'
  BY <1>1, IoHandlerQuiet, QuietStep, LookupStep, RemoveStep, CloseStep, NoMiss DEF IoHandler
<1>2. ASSUME NEW x \in Frames, ConnectHandler(x) PROVE Entries'
  BY <1>2, ConnectHandlerQuiet, QuietStep, AcceptStep, InsertStep, InsertFreeStep,
     PointerCalm, PointerRight, AloofStep, CalmStep DEF ConnectHandler
<1>3. ASSUME NEW x \in Frames, OwnSteps(x) PROVE Entries'
  <2>1. CASE \E fd \in Fds : StopFree(x, fd) BY <2>1, RemoveStep
  <2>2. CASE start_server(x) BY <2>2, CallStartStep
  <2> QED BY <1>3, <2>1, <2>2, OwnStepsQuiet, QuietStep, CloseStep, PointerCalm, PointerRight,
             AloofStep, CalmStep DEF OwnSteps, KeepAliveCheck, Call, Finish
<1>4. ASSUME NEW x \in Frames, Start(x) PROVE Entries' BY <1>4, StartStep
<1>5. CASE KernelSteps
  <2>1. CASE \E c \in Conns : Connect(c)
    BY <2>1, ConnectCalm, ConnectRight, AloofStep, CalmStep
  <2>2. CASE ~(\E c \in Conns : Connect(c))
    <3>1. Quiet BY <1>5, <2>2, KernelStepsQuiet
    <3> QED BY <3>1, QuietStep
  <2> QED BY <2>1, <2>2
<1>6. CASE UNCHANGED vars
  BY <1>6, QuietStep DEF vars, frm, srv, net, Quiet, Calm, Aloof, Entries, NeverMisses
<1> QED BY <1>1, <1>2, <1>3, <1>4, <1>5, <1>6 DEF Next, Step, OwnSteps, KernelSteps

\* The invariant holds before start_server is first called.
LEMMA EntryInit == Init => EntryInv
<1> SUFFICES ASSUME Init PROVE EntryInv OBVIOUS
<1>1. Inv BY InitInv
<1>2. LocksHeld BY DEF Init, LocksHeld, HoldsTable, HoldsQueue
<1>3. EntryLive /\ AcceptedApart /\ DestroyedKnown /\ DestroyedHeld /\ LiveHasEntry
      /\ ReadAccepted /\ NullTable /\ NeverMisses /\ StartsRight
  BY DEF Init, EntryLive, AcceptedApart, DestroyedKnown, DestroyedHeld, LiveHasEntry,
         ReadAccepted, NullTable, NeverMisses, StartsRight, Accepting, Destroying, Reading
<1>4. BacklogFresh BY EmptySeq DEF Init, BacklogFresh
<1> QED BY <1>1, <1>2, <1>3, <1>4 DEF EntryInv, Entries

\* Every step keeps the invariant: the mutexes are held because no entry is
\* missed, and no entry is missed because the mutexes are held.
LEMMA EntryInvStep == (PlainStarts \/ StartsClean) /\ EntryInv /\ [Next]_vars => EntryInv'
<1> SUFFICES ASSUME PlainStarts \/ StartsClean, EntryInv, [Next]_vars PROVE EntryInv' OBVIOUS
<1>1. Inv' BY StepInv DEF EntryInv
<1>2. LocksHeld' BY NoMiss, LocksStep DEF EntryInv
<1>3. Entries' BY EntryStep
<1> QED BY <1>1, <1>2, <1>3 DEF EntryInv

\* An entry is added or freed by the owner of connections_mux only.
LEMMA EntriesKept ==
    ASSUME PlainStarts \/ StartsClean, EntryInv, [Next]_vars,
           NEW x \in Frames, pc[x] \in HoldsTable, pc'[x] = pc[x]
    PROVE  table' = table
<1>1. pc \in [Frames -> Labels] /\ owner[connections_mux] = x
  BY DEF EntryInv, Inv, FrameTypes, LocksHeld
<1>2. ASSUME NEW y \in Frames, NEW k \in HoldsTable, NEW l \in Labels \ {k},
             pc[y] = k, pc' = [pc EXCEPT ![y] = l]
      PROVE  FALSE
  <2>1. y = x BY <1>1, <1>2 DEF EntryInv, LocksHeld
  <2> QED BY <1>1, <1>2, <2>1
<1>3. ASSUME NEW y \in Frames, IoHandler(y) PROVE table' = table
  <2>1. ~DestroyFree(y) BY <1>2 DEF DestroyFree, At, Goto, HoldsTable, Labels
  <2> QED BY <1>3, <2>1 DEF IoHandler, IoLookup, IoDestroyed, IoPeek, ReportFails, ReportPush,
             FetchNewline, FetchEnd, FetchObject, FetchKeepAlive, FetchError, DestroyMisses,
             DestroyAgain, DestroyClose, UseAfterFree, srv
<1>4. ASSUME NEW y \in Frames, ConnectHandler(y) PROVE table' = table
  <2>1. ~Insert(y) BY <1>2 DEF Insert, At, Goto, HoldsTable, Labels
  <2> QED BY <1>4, <2>1 DEF ConnectHandler, AcceptFails, AcceptAborts, Accept, InsertExits,
             InsertFails, InsertFree, Setup, srv
<1>5. ASSUME NEW y \in Frames, OwnSteps(y) PROVE table' = table
  <2>1. ASSUME NEW fd \in Fds PROVE ~StopFree(y, fd)
    BY <1>2 DEF StopFree, FreeEntry, At, Goto, HoldsTable, Labels
  <2> QED BY <1>5, <2>1 DEF OwnSteps, KeepAliveCheck, Call, Finish, Acquire, iter_keep_alives,
             TickDone, check_keep_alive, Tick, CallLock, read_message, get_connected_list,
             ListAborts, start_server, stop_server, StopSignals, StopClose, CloseEntry,
             StopTable, StopQueue, srv
<1>6. ASSUME NEW y \in Frames, Start(y) PROVE table' = table BY <1>6, StartTableKept
<1>7. CASE KernelSteps
  BY <1>7 DEF KernelSteps, Peer, Connect, Arrive, Fin, Expire, TakeConnect, TakeRead, srv
<1>8. CASE UNCHANGED vars BY <1>8 DEF vars, srv
<1> QED BY <1>3, <1>4, <1>5, <1>6, <1>7, <1>8 DEF Next, Step, OwnSteps, KernelSteps

\* Where start_server neither follows one that failed nor fails before listen, a
\* handler, keep-alive check or library call that is between pthread_mutex_lock
\* and pthread_mutex_unlock of connections_mux or read_buff_mux owns that mutex,
\* whatever interrupts what, although free_connectiondata, destroy_connection and
\* the early returns of the handlers unlock and abandon mutexes; and meanwhile
\* nobody adds or frees an entry of connections_table, not even start_server.
\* The theorem does not say that the two pointers are assigned under the mutexes:
\* start_server assigns both and locks neither, and the model makes no claim of
\* what follows where a frame in its critical section then uses one (Race).
THEOREM MutualExclusion == PlainStarts => (Spec => Exclusion)
<1> SUFFICES ASSUME PlainStarts PROVE Spec => Exclusion OBVIOUS
<1> DEFINE Kept == \A x \in Frames : pc[x] \in HoldsTable /\ pc'[x] = pc[x] => table' = table
           Excludes == LocksHeld' /\ Kept
<1>1. EntryInv /\ [Next]_vars => EntryInv' BY EntryInvStep
<1>2. EntryInv' => LocksHeld' BY DEF EntryInv
<1>3. EntryInv /\ [Next]_vars => [Excludes]_vars BY <1>1, <1>2, EntriesKept
<1> QED BY EntryInit, <1>1, <1>3, PTL DEF Spec, Exclusion, Excludes, Kept

\* Under the same condition the g_hash_table_remove of destroy_connection finds
\* the entry that its caller looked up, although the mutex that guards the table
\* was not held in between and stop_server may have run: a connection that is not
\* freed has its entry.
THEOREM RemoveNeverMisses == PlainStarts => (Spec => []RemoveFindsEntry)
<1> SUFFICES ASSUME PlainStarts PROVE Spec => []RemoveFindsEntry OBVIOUS
<1>1. EntryInv /\ [Next]_vars => EntryInv' BY EntryInvStep
<1> QED BY EntryInit, FindsEntry, <1>1, PTL DEF Spec

-----------------------------------------------------------------------------
(* The descriptors.  While malloc does not fail (~AllocFails),             *)
(* connections_table and the kernel agree about which connection is behind *)
(* a descriptor, and nothing closes a descriptor of another connection.    *)
(* None of this needs the mutexes: it holds as well when start_server      *)
(* discards a table that still has entries, and destroy_connection then    *)
(* unlocks connections_mux twice.                                          *)

\* A connection that is being freed is destroyed, and by one frame only.
DestroyedApart ==
    \A x \in Frames : pc[x] \in Destroying =>
        /\ cdata[con[x]] = "destroyed"
        /\ \A y \in Frames : pc[y] \in Destroying /\ con[y] = con[x] => y = x
\* The descriptor of every entry, of every connection that is being accepted
\* and of every one that is being freed is open and its own, and no insertion
\* has failed for want of memory.
EntrySockets == \A fd \in Fds : table[fd] # NoConn => sockOf[fd] = table[fd]
AcceptedSockets == \A x \in Frames : pc[x] \in Accepting => sockOf[cfd[con[x]]] = con[x]
DestroyedSockets == \A x \in Frames : pc[x] \in Destroying => sockOf[cfd[con[x]]] = con[x]
NoFailure == \A x \in Frames : pc[x] # "cn_free"
\* What they add to the invariant Inv.
Lives == EntryLive /\ AcceptedApart /\ DestroyedApart /\ BacklogFresh
Sockets == EntrySockets /\ AcceptedSockets /\ DestroyedSockets /\ NoFailure
\* The inductive invariant behind the theorems about the descriptors.
SockInv == Inv /\ Lives /\ Sockets

\* A step that opens and closes nothing, adds no entry, and neither begins an
\* acceptance nor a destruction.
Gentle ==
    /\ UNCHANGED <<cdata, cfd, sockOf>>
    /\ \A fd \in Fds : table'[fd] \in {table[fd], NoConn}
    /\ \A y \in Frames :
         /\ pc'[y] \in Accepting => pc[y] \in Accepting
         /\ pc'[y] \in Destroying => pc[y] \in Destroying
         /\ pc'[y] \in Accepting \cup Destroying => con'[y] = con[y]
         /\ pc'[y] = "cn_free" => pc[y] = "cn_free"

LEMMA GentleStep ==
    ASSUME SockInv, Gentle, BacklogFresh'
    PROVE  Lives' /\ Sockets'
<1> USE DEF SockInv, Lives, Sockets, Gentle
<1>1. EntryLive' BY DEF EntryLive
<1>2. AcceptedApart'
  <2>1. \A y \in Frames : pc[y] \in Accepting => con[y] # NoConn
    BY ServerAssumption DEF Inv, FramesKnow, ConLabels, Accepting
  <2> QED BY <2>1 DEF AcceptedApart
<1>3. DestroyedApart' BY DEF DestroyedApart
<1>4. EntrySockets' BY DEF EntrySockets
<1>5. AcceptedSockets' BY DEF AcceptedSockets
<1>6. DestroyedSockets' BY DEF DestroyedSockets
<1>7. NoFailure' BY DEF NoFailure
<1> QED BY <1>1, <1>2, <1>3, <1>4, <1>5, <1>6, <1>7

\* Steps of io_handler open and close nothing, but for the close in
\* free_connectiondata.
LEMMA IoHandlerKeeps ==
    ASSUME NEW x \in Frames, IoHandler(x), ~DestroyClose(x)
    PROVE  UNCHANGED sockOf
<1>1. CASE IoLookup(x) \/ IoDestroyed(x) \/ IoPeek(x) \/ ReportFails(x) \/ ReportPush(x)
  BY <1>1 DEF IoLookup, IoDestroyed, IoPeek, ReportFails, ReportPush, net
<1>2. CASE FetchNewline(x) \/ FetchEnd(x) \/ FetchObject(x) \/ FetchKeepAlive(x) \/ FetchError(x)
  BY <1>2 DEF FetchNewline, FetchEnd, FetchObject, FetchKeepAlive, FetchError, net
<1>3. CASE DestroyFree(x) \/ DestroyMisses(x) \/ DestroyAgain(x) \/ UseAfterFree(x)
  BY <1>3 DEF DestroyFree, DestroyMisses, DestroyAgain, UseAfterFree, net
<1> QED BY <1>1, <1>2, <1>3 DEF IoHandler

\* Steps of connect_handler open and close nothing, but for accept and the
\* failure of malloc for the key.
LEMMA ConnectHandlerKeeps ==
    ASSUME NEW x \in Frames, ConnectHandler(x), ~Accept(x), ~InsertFails(x), ~InsertFree(x)
    PROVE  UNCHANGED sockOf
BY DEF ConnectHandler, AcceptFails, AcceptAborts, Insert, InsertExits, Setup, net

\* Steps of the timer's check and the library calls open and close nothing, but
\* for the close in free_connectiondata.
LEMMA OwnStepsKeep ==
    ASSUME NEW x \in Frames, OwnSteps(x), ~StopClose(x)
    PROVE  UNCHANGED sockOf
<1>1. CASE Acquire(x) \/ KeepAliveCheck(x) \/ Tick(x)
  BY <1>1 DEF Acquire, KeepAliveCheck, iter_keep_alives, TickDone, check_keep_alive, Tick, net
<1>2. CASE Call(x) BY <1>2 DEF Call, CallLock, stop_server, start_server, net
<1>3. CASE read_message(x) \/ get_connected_list(x) \/ ListAborts(x)
  BY <1>3 DEF read_message, get_connected_list, ListAborts, net
<1>4. CASE StopSignals(x) \/ StopTable(x) \/ StopQueue(x) \/ \E fd \in Fds : StopFree(x, fd)
  BY <1>4 DEF StopSignals, StopTable, StopQueue, StopFree, FreeEntry, net
<1> QED BY <1>1, <1>2, <1>3, <1>4 DEF OwnSteps, Finish

\* Peers do not open or close descriptors of the server, and signals do not.
LEMMA KernelStepsKeep == ASSUME KernelSteps PROVE UNCHANGED sockOf
BY DEF KernelSteps, Peer, Connect, Arrive, Fin, Expire, TakeConnect, TakeRead, net

\* Steps of io_handler are gentle, those of a destroy_connection that misses its
\* entry included.
LEMMA IoHandlerGentle ==
    ASSUME SockInv, NEW x \in Frames, IoHandler(x), ~DestroyFree(x), ~DestroyClose(x)
    PROVE  Gentle
<1>1. UNCHANGED sockOf BY IoHandlerKeeps
<1> USE <1>1, EntryTyped DEF SockInv, EntryTypes, Gentle, Accepting, Destroying, At, Goto, Return,
        ReadDone, Fetching, frm, srv
<1>2. CASE IoLookup(x) BY <1>2 DEF IoLookup
<1>3. CASE IoDestroyed(x) \/ IoPeek(x) BY <1>3 DEF IoDestroyed, IoPeek
<1>4. CASE ReportFails(x) \/ ReportPush(x) BY <1>4 DEF ReportFails, ReportPush
<1>5. CASE FetchNewline(x) \/ FetchEnd(x) BY <1>5 DEF FetchNewline, FetchEnd
<1>6. CASE FetchObject(x) BY <1>6 DEF FetchObject
<1>7. CASE FetchKeepAlive(x) BY <1>7 DEF FetchKeepAlive
<1>8. CASE FetchError(x) BY <1>8 DEF FetchError
<1>9. CASE DestroyMisses(x) \/ DestroyAgain(x) BY <1>9 DEF DestroyMisses, DestroyAgain
<1>10. CASE UseAfterFree(x) BY <1>10 DEF UseAfterFree
<1> QED BY <1>2, <1>3, <1>4, <1>5, <1>6, <1>7, <1>8, <1>9, <1>10 DEF IoHandler

\* The paths for a failed malloc of the key are not taken.
LEMMA NoAllocFailure ==
    ASSUME ~AllocFails, SockInv, NEW x \in Frames
    PROVE  ~InsertFails(x) /\ ~InsertFree(x)
BY DEF InsertFails, InsertFree, SockInv, Sockets, NoFailure, At

LEMMA ConnectHandlerGentle ==
    ASSUME ~AllocFails, SockInv, NEW x \in Frames, ConnectHandler(x), ~Accept(x), ~Insert(x)
    PROVE  Gentle
<1>1. UNCHANGED sockOf BY ConnectHandlerKeeps, NoAllocFailure
<1> USE <1>1, EntryTyped DEF SockInv, EntryTypes, Gentle, Accepting, Destroying, At, Goto, Return, frm, srv
<1>2. CASE AcceptFails(x) BY <1>2 DEF AcceptFails
<1>3. CASE AcceptAborts(x) BY <1>3 DEF AcceptAborts
<1>4. CASE InsertExits(x) BY <1>4 DEF InsertExits
<1>5. CASE Setup(x) BY <1>5 DEF Setup
<1> QED BY <1>2, <1>3, <1>4, <1>5, NoAllocFailure DEF ConnectHandler

\* stop_server takes the entries out one by one,
LEMMA OwnStepsGentle ==
    ASSUME SockInv, NEW x \in Frames, OwnSteps(x), ~StopClose(x), ~\E fd \in Fds : StopFree(x, fd)
    PROVE  Gentle
<1>1. UNCHANGED sockOf BY OwnStepsKeep
<1> USE <1>1, EntryTyped DEF SockInv, EntryTypes, Gentle, Accepting, Destroying, At, Goto, Return, frm, srv
<1>2. CASE Acquire(x) BY <1>2 DEF Acquire, Waiting, WaitLabels, After
<1>3. CASE iter_keep_alives(x) \/ TickDone(x) \/ Tick(x) BY <1>3 DEF iter_keep_alives, TickDone, Tick
<1>4. CASE \E fd \in Fds : check_keep_alive(x, fd) BY <1>4 DEF check_keep_alive
<1>5. CASE \E m \in {read_buff_mux, connections_mux} : CallLock(x, m) BY <1>5 DEF CallLock, IsCall
<1>6. CASE read_message(x) \/ get_connected_list(x) \/ ListAborts(x)
  BY <1>6 DEF read_message, get_connected_list, ListAborts
<1>7. CASE start_server(x) BY <1>7 DEF start_server, MainIdle, IsCall
<1>8. CASE stop_server(x) BY <1>8 DEF stop_server, MainIdle, IsCall
<1>9. CASE StopSignals(x) BY <1>9 DEF StopSignals
<1>10. CASE StopTable(x) \/ StopQueue(x) BY <1>10 DEF StopTable, StopQueue
<1> QED BY <1>2, <1>3, <1>4, <1>5, <1>6, <1>7, <1>8, <1>9, <1>10
        DEF OwnSteps, KeepAliveCheck, Call, Finish

\* and so does start_server when it fails, but it may also discard them all.
LEMMA StartGentle ==
    ASSUME SockInv, NEW x \in Frames, Start(x), ~UndoClose(x), ~\E fd \in Fds : UndoFree(x, fd)
    PROVE  Gentle
<1> USE EntryTyped DEF SockInv, EntryTypes, Gentle, Goto, frm, srv, net
<1>1. CASE StartPlain(x)
  <2>1. /\ UNCHANGED <<con, cdata, cfd, sockOf>> /\ pc[x] \in StartLabels
        /\ \E l \in StartLabels \cup {"idle"} : pc' = [pc EXCEPT ![x] = l]
        /\ table' \in {table, [fd \in Fds |-> NoConn]}
    BY <1>1 DEF StartPlain
  <2>2. \A y \in Frames : pc'[y] = pc[y] \/ pc'[y] \in StartLabels \cup {"idle"} BY <2>1
  <2>3. \A fd \in Fds : table'[fd] \in {table[fd], NoConn} BY <2>1
  <2> QED BY <2>1, <2>2, <2>3 DEF Accepting, Destroying, StartLabels
<1>2. CASE Race(x) BY <1>2 DEF Race
<1> QED BY <1>1, <1>2, StartShape

LEMMA KernelStepsGentle == ASSUME SockInv, KernelSteps PROVE Gentle
<1>0. pc \in [Frames -> Labels] /\ UNCHANGED sockOf
  BY KernelStepsKeep DEF SockInv, Inv, FrameTypes
<1>1. CASE Peer
  <2>1. UNCHANGED <<frm, table, cdata, cfd>> BY <1>1 DEF Peer, Connect, Arrive, Fin, Expire, srv
  <2> QED BY <1>0, <2>1 DEF Gentle, frm
<1>2. CASE \E t \in Threads : TakeConnect(t) \/ TakeRead(t)
  <2>1. PICK t \in Threads : TakeConnect(t) \/ TakeRead(t) BY <1>2
  <2>2. /\ UNCHANGED <<con, table, cdata, cfd>>
        /\ \/ \E l \in Levels : \/ pc' = [pc EXCEPT ![<<t, l>>] = "cn_accept"]
                                \/ pc' = [pc EXCEPT ![<<t, l>>] = "io_lock"]
           \/ UNCHANGED pc
    BY <2>1 DEF TakeConnect, TakeRead, Enter, Goto, srv, Levels
  <2> QED BY <1>0, <2>2 DEF Gentle, Accepting, Destroying
<1> QED BY <1>1, <1>2 DEF KernelSteps

\* Taking an entry out of the table destroys its connection.
LEMMA RemoveSockets ==
    ASSUME SockInv, NEW x \in Frames,
           DestroyFree(x) \/ \E fd \in Fds : StopFree(x, fd) \/ UndoFree(x, fd)
    PROVE  Lives' /\ Sockets' /\ UNCHANGED sockOf
<1> USE DEF SockInv, Lives, Sockets
<1>1. EntryTypes BY EntryTyped
<1>2. PICK fd \in Fds, l \in Destroying :
         /\ table[fd] # NoConn /\ table' = [table EXCEPT ![fd] = NoConn]
         /\ cdata' = [cdata EXCEPT ![table[fd]] = "destroyed"]
         /\ con' = [con EXCEPT ![x] = table[fd]] /\ pc' = [pc EXCEPT ![x] = l]
         /\ UNCHANGED <<cfd, sockOf, backlog>>
  <2>1. CASE DestroyFree(x)
    <3>1. cfd[con[x]] \in Fds BY <2>1 DEF Inv, FramesKnow, ConLabels, DestroyFree, At
    <3> QED BY <2>1, <3>1 DEF DestroyFree, Destroying, Life, Goto, net
  <2>2. CASE \E fd \in Fds : StopFree(x, fd) \/ UndoFree(x, fd)
    BY <2>2 DEF StopFree, UndoFree, FreeEntry, Destroying, Life, Goto, net
  <2> QED BY <2>1, <2>2
<1> DEFINE c == table[fd]
<1>3. c \in Conns /\ cdata[c] = "live" /\ cfd[c] = fd /\ sockOf[fd] = c
  BY <1>1, <1>2 DEF EntryTypes, EntryLive, EntrySockets
<1>4. l \notin Accepting /\ l # "cn_free" BY DEF Accepting, Destroying
<1>5. \A y \in Frames : pc[y] \in Accepting \cup Destroying => con[y] # c /\ con[y] \in Conns
  BY <1>2, <1>3 DEF AcceptedApart, DestroyedApart, Inv, FramesKnow, ConLabels, Accepting, Destroying
<1>6. \A y \in Frames : y # x => pc'[y] = pc[y] /\ con'[y] = con[y] BY <1>1, <1>2 DEF EntryTypes
<1>7. pc'[x] = l /\ con'[x] = c /\ \A g \in Fds : table'[g] = IF g = fd THEN NoConn ELSE table[g]
  BY <1>1, <1>2 DEF EntryTypes
<1>8. \A d \in Conns : d # c => cdata'[d] = cdata[d] BY <1>1, <1>2 DEF EntryTypes
<1>9. EntryLive'
  <2>1. \A g \in Fds : table'[g] # NoConn =>
          g # fd /\ table'[g] = table[g] /\ table[g] # c /\ table[g] \in Conns
    BY <1>1, <1>3, <1>7 DEF EntryLive, EntryTypes
  <2> QED BY <1>2, <1>8, <2>1 DEF EntryLive
<1> HIDE DEF c
<1>10. AcceptedApart' BY <1>2, <1>4, <1>5, <1>6, <1>7, <1>8, ServerAssumption DEF AcceptedApart
<1>11. DestroyedApart'
  <2>1. cdata'[c] = "destroyed" BY <1>1, <1>2, <1>3 DEF EntryTypes, c
  <2> QED BY <1>5, <1>6, <1>7, <1>8, <2>1 DEF DestroyedApart
<1>12. BacklogFresh'
  <2>1. \A i \in 1..Len(backlog) : backlog[i] \in Conns /\ backlog[i] # c
    BY <1>1, <1>3 DEF EntryTypes, BacklogFresh
  <2> QED BY <1>2, <1>8, <2>1 DEF BacklogFresh
<1>13. EntrySockets' BY <1>2, <1>7 DEF EntrySockets
<1>14. AcceptedSockets' BY <1>2, <1>4, <1>6, <1>7 DEF AcceptedSockets
<1>15. DestroyedSockets' BY <1>2, <1>3, <1>6, <1>7 DEF DestroyedSockets
<1>16. NoFailure' BY <1>4, <1>6, <1>7 DEF NoFailure
<1> QED BY <1>2, <1>9, <1>10, <1>11, <1>12, <1>13, <1>14, <1>15, <1>16

\* The close in free_connectiondata closes the descriptor of the connection it
\* frees.
LEMMA CloseSockets ==
    ASSUME SockInv, NEW x \in Frames, DestroyClose(x) \/ StopClose(x) \/ UndoClose(x)
    PROVE  /\ Lives' /\ Sockets'
           /\ \A fd \in Fds : sockOf[fd] # NoConn /\ sockOf'[fd] = NoConn
                                => cdata'[sockOf[fd]] = "freed"
<1> USE DEF SockInv, Lives, Sockets
<1> DEFINE c == con[x]
<1>1. PICK l \in {"idle", "stop_free", "undo_free"} :
         /\ pc[x] \in Destroying /\ c \in Conns /\ cfd[c] \in Fds
         /\ sockOf' = [sockOf EXCEPT ![cfd[c]] = NoConn]
         /\ cdata' = [cdata EXCEPT ![c] = "freed"]
         /\ con' = [con EXCEPT ![x] = NoConn] /\ pc' = [pc EXCEPT ![x] = l]
         /\ UNCHANGED <<table, cfd, backlog>>
  BY DEF Inv, FramesKnow, ConLabels, Destroying, DestroyClose, StopClose, UndoClose, CloseEntry,
         At, Goto, Return, Life, Close
<1>2. EntryTypes BY EntryTyped
<1>3. /\ cdata[c] = "destroyed" /\ sockOf[cfd[c]] = c
      /\ \A y \in Frames : pc[y] \in Destroying /\ con[y] = c => y = x
  BY <1>1 DEF DestroyedApart, DestroyedSockets
<1>4. l \notin Accepting /\ l \notin Destroying /\ l # "cn_free" BY DEF Accepting, Destroying
<1>5. \A y \in Frames : pc[y] \in Accepting \cup Destroying /\ y # x =>
         con[y] # c /\ con[y] \in Conns /\ cfd[con[y]] # cfd[c] /\ cfd[con[y]] \in Fds
  <2> SUFFICES ASSUME NEW y \in Frames, pc[y] \in Accepting \cup Destroying, y # x
               PROVE  con[y] # c /\ con[y] \in Conns /\ cfd[con[y]] # cfd[c] /\ cfd[con[y]] \in Fds
    OBVIOUS
  <2>1. con[y] \in Conns /\ cfd[con[y]] \in Fds
    BY DEF Inv, FramesKnow, ConLabels, Accepting, Destroying
  <2>2. con[y] # c BY <1>3 DEF AcceptedApart, DestroyedApart
  <2>3. sockOf[cfd[con[y]]] = con[y] BY DEF AcceptedSockets, DestroyedSockets
  <2> QED BY <1>3, <2>1, <2>2, <2>3
<1>6. \A y \in Frames : y # x => pc'[y] = pc[y] /\ con'[y] = con[y] BY <1>1, <1>2 DEF EntryTypes
<1>7. pc'[x] = l BY <1>1, <1>2 DEF EntryTypes
<1>8. \A d \in Conns : d # c => cdata'[d] = cdata[d] BY <1>1, <1>2 DEF EntryTypes
<1>9. \A g \in Fds : g # cfd[c] => sockOf'[g] = sockOf[g] BY <1>1, <1>2 DEF EntryTypes
<1>10. \A fd \in Fds : sockOf[fd] # NoConn /\ sockOf'[fd] = NoConn => cdata'[sockOf[fd]] = "freed"
  BY <1>1, <1>2, <1>3 DEF EntryTypes
<1>11. \A fd \in Fds : table[fd] # NoConn => table[fd] \in Conns /\ table[fd] # c /\ fd # cfd[c]
  BY <1>2, <1>3 DEF EntryTypes, EntryLive, EntrySockets
<1>12. EntryLive' /\ EntrySockets' BY <1>1, <1>8, <1>9, <1>11 DEF EntryLive, EntrySockets
<1>13. AcceptedApart' BY <1>1, <1>4, <1>5, <1>6, <1>7, <1>8 DEF AcceptedApart
<1>14. DestroyedApart' BY <1>1, <1>4, <1>5, <1>6, <1>7, <1>8 DEF DestroyedApart
<1>15. BacklogFresh'
  <2>1. \A i \in 1..Len(backlog) : backlog[i] \in Conns /\ backlog[i] # c
    BY <1>2, <1>3 DEF EntryTypes, BacklogFresh
  <2> QED BY <1>1, <1>8, <2>1 DEF BacklogFresh
<1>16. AcceptedSockets' BY <1>1, <1>4, <1>5, <1>6, <1>7, <1>9 DEF AcceptedSockets
<1>17. DestroyedSockets' BY <1>1, <1>4, <1>5, <1>6, <1>7, <1>9 DEF DestroyedSockets
<1>18. NoFailure' BY <1>4, <1>6, <1>7 DEF NoFailure
<1> QED BY <1>10, <1>12, <1>13, <1>14, <1>15, <1>16, <1>17, <1>18

\* accept returns a descriptor that is not open, for a connection that nothing
\* has used yet.
LEMMA AcceptSockets ==
    ASSUME SockInv, NEW x \in Frames, Accept(x)
    PROVE  /\ Lives' /\ Sockets'
           /\ \A fd \in Fds : sockOf[fd] # NoConn => sockOf'[fd] = sockOf[fd]
<1> USE DEF SockInv, Lives, Sockets
<1> DEFINE c == Head(backlog)
<1>1. PICK fd \in Fds : /\ sockOf[fd] = NoConn
                        /\ sockOf' = [sockOf EXCEPT ![fd] = c] /\ cfd' = [cfd EXCEPT ![c] = fd]
  BY DEF Accept, FreeFd
<1>2. /\ backlog # <<>> /\ backlog' = Tail(backlog) /\ pc[x] = "cn_accept"
      /\ con' = [con EXCEPT ![x] = c] /\ cdata' = [cdata EXCEPT ![c] = "live"]
      /\ pc' = [pc EXCEPT ![x] = "cn_lock"] /\ UNCHANGED table
  BY DEF Accept, CanAccept, At, Goto, Life
<1>3. EntryTypes BY EntryTyped
<1>4. c \in Conns /\ cdata[c] = "none"
  <2>1. c = backlog[1] /\ 1 \in 1..Len(backlog) /\ c \in Conns
    BY <1>2, <1>3, HeadTailProperties, EmptySeq DEF EntryTypes
  <2> QED BY <2>1 DEF BacklogFresh
<1>5. BacklogFresh' BY <1>2, <1>3, TailFresh DEF EntryTypes
<1> HIDE DEF c
<1>6. \A y \in Frames : pc[y] \in Accepting \cup Destroying =>
         con[y] \in Conns /\ con[y] # c /\ cfd[con[y]] \in Fds
  BY <1>4 DEF Inv, FramesKnow, ConLabels, Accepting, Destroying, AcceptedApart, DestroyedApart
<1>7. \A y \in Frames : y # x => pc'[y] = pc[y] /\ con'[y] = con[y] BY <1>2, <1>3 DEF EntryTypes
<1>8. /\ pc'[x] = "cn_lock" /\ con'[x] = c /\ cfd'[c] = fd /\ sockOf'[fd] = c /\ cdata'[c] = "live"
      /\ \A d \in Conns : d # c => cfd'[d] = cfd[d] /\ cdata'[d] = cdata[d]
      /\ \A g \in Fds : g # fd => sockOf'[g] = sockOf[g]
  BY <1>1, <1>2, <1>3, <1>4 DEF EntryTypes
<1>9. \A g \in Fds : table[g] # NoConn => table[g] \in Conns /\ table[g] # c /\ g # fd
  BY <1>1, <1>3, <1>4 DEF EntryTypes, EntryLive, EntrySockets
<1>10. \A g \in Fds : sockOf[g] # NoConn => sockOf'[g] = sockOf[g] BY <1>1, <1>8
<1>11. \A y \in Frames : pc[y] \in Accepting \cup Destroying => cfd[con[y]] # fd
  BY <1>1, <1>6, ServerAssumption DEF AcceptedSockets, DestroyedSockets
<1>12. EntryLive' /\ EntrySockets' BY <1>2, <1>8, <1>9 DEF EntryLive, EntrySockets
<1>13. AcceptedApart'
  <2>1. \A g \in Fds : table[g] # c BY <1>4, <1>9, ServerAssumption
  <2> QED BY <1>2, <1>6, <1>7, <1>8, <2>1 DEF AcceptedApart
<1>14. DestroyedApart' BY <1>6, <1>7, <1>8 DEF DestroyedApart, Destroying
<1>15. AcceptedSockets' BY <1>6, <1>7, <1>8, <1>11 DEF AcceptedSockets
<1>16. DestroyedSockets' BY <1>6, <1>7, <1>8, <1>11 DEF DestroyedSockets, Destroying
<1>17. NoFailure' BY <1>7, <1>8 DEF NoFailure
<1> QED BY <1>5, <1>10, <1>12, <1>13, <1>14, <1>15, <1>16, <1>17

\* g_hash_table_insert makes the entry of a connection whose socket it is.
LEMMA InsertSockets ==
    ASSUME SockInv, NEW x \in Frames, Insert(x)
    PROVE  Lives' /\ Sockets' /\ UNCHANGED sockOf
<1> USE DEF SockInv, Lives, Sockets
<1> DEFINE c == con[x]
<1>1. /\ pc[x] = "cn_insert" /\ c \in Conns /\ cfd[c] \in Fds
      /\ table' = [table EXCEPT ![cfd[c]] = c]
      /\ pc' = [pc EXCEPT ![x] = "cn_setup"] /\ UNCHANGED <<con, cdata, cfd, sockOf, backlog>>
  BY DEF Inv, FramesKnow, ConLabels, Insert, At, Goto, net
<1>2. EntryTypes BY EntryTyped
<1>3. sockOf[cfd[c]] = c /\ cdata[c] = "live" BY <1>1 DEF AcceptedSockets, AcceptedApart, Accepting
<1>4. \A y \in Frames : y # x => pc'[y] = pc[y] BY <1>1, <1>2 DEF EntryTypes
<1>5. pc'[x] = "cn_setup" /\ \A g \in Fds : table'[g] = IF g = cfd[c] THEN c ELSE table[g]
  BY <1>1, <1>2 DEF EntryTypes
<1>6. EntryLive' /\ EntrySockets' BY <1>1, <1>3, <1>5 DEF EntryLive, EntrySockets
<1>7. AcceptedApart' BY <1>1, <1>4, <1>5 DEF AcceptedApart, Accepting
<1>8. DestroyedApart' BY <1>1, <1>4, <1>5 DEF DestroyedApart, Destroying
<1>9. BacklogFresh' BY <1>1 DEF BacklogFresh
<1>10. AcceptedSockets' BY <1>1, <1>4, <1>5 DEF AcceptedSockets, Accepting
<1>11. DestroyedSockets' BY <1>1, <1>4, <1>5 DEF DestroyedSockets, Destroying
<1>12. NoFailure' BY <1>4, <1>5 DEF NoFailure
<1> QED BY <1>1, <1>6, <1>7, <1>8, <1>9, <1>10, <1>11, <1>12

\* The backlog stays fresh on every other step.
LEMMA FreshStep ==
    ASSUME SockInv, [Next]_vars, UNCHANGED cdata
    PROVE  BacklogFresh'
<1>0. backlog \in Seq(Conns) /\ BacklogFresh BY EntryTyped DEF SockInv, Lives, EntryTypes
<1>1. ASSUME UNCHANGED backlog PROVE BacklogFresh' BY <1>0, <1>1 DEF BacklogFresh
<1>2. ASSUME NEW x \in Frames, IoHandler(x) PROVE UNCHANGED backlog
  BY <1>2 DEF IoHandler, IoLookup, IoDestroyed, IoPeek, ReportFails, ReportPush, FetchNewline,
         FetchEnd, FetchObject, FetchKeepAlive, FetchError, DestroyFree, DestroyMisses,
         DestroyAgain, DestroyClose, UseAfterFree, net
<1>3. ASSUME NEW x \in Frames, ConnectHandler(x) PROVE BacklogFresh'
  <2>1. CASE UNCHANGED backlog BY <1>1, <2>1
  <2>2. CASE ~UNCHANGED backlog
    <3>1. backlog' = Tail(backlog) /\ backlog # <<>>
      BY <1>3, <2>2 DEF ConnectHandler, AcceptFails, AcceptAborts, Accept, Insert, InsertExits,
             InsertFails, InsertFree, Setup, CanAccept, net
    <3> QED BY <1>0, <3>1, TailFresh
  <2> QED BY <2>1, <2>2
<1>4. ASSUME NEW x \in Frames, OwnSteps(x) PROVE BacklogFresh'
  <2>1. CASE StopSignals(x)
    <3>1. backlog' = <<>> BY <2>1 DEF StopSignals
    <3> QED BY <3>1 DEF BacklogFresh
  <2>2. CASE ~StopSignals(x)
    <3>1. UNCHANGED backlog
      BY <1>4, <2>2 DEF OwnSteps, KeepAliveCheck, Call, Finish, Acquire, iter_keep_alives, TickDone,
             check_keep_alive, Tick, CallLock, read_message, get_connected_list, ListAborts,
             start_server, stop_server, StopFree, FreeEntry, StopClose, CloseEntry, StopTable,
             StopQueue, net
    <3> QED BY <1>1, <3>1
  <2> QED BY <2>1, <2>2
<1>5. ASSUME NEW x \in Frames, Start(x) PROVE BacklogFresh'
  <2>1. UNCHANGED backlog
    BY <1>5, StartShape DEF StartPlain, Race, UndoClose, CloseEntry, UndoFree, FreeEntry, net, SockInv
  <2> QED BY <1>1, <2>1
<1>6. CASE KernelSteps
  <2>1. CASE \E c \in Conns : Connect(c) BY <1>0, <2>1, ConnectFresh
  <2>2. CASE ~\E c \in Conns : Connect(c)
    <3>1. UNCHANGED backlog
      BY <1>6, <2>2 DEF KernelSteps, Peer, Arrive, Fin, Expire, TakeConnect, TakeRead, net
    <3> QED BY <1>1, <3>1
  <2> QED BY <2>1, <2>2
<1>7. CASE UNCHANGED vars BY <1>1, <1>7 DEF vars, net
<1> QED BY <1>1, <1>2, <1>3, <1>4, <1>5, <1>6, <1>7 DEF Next, Step, OwnSteps, KernelSteps

\* Every step keeps Sockets, and closes a descriptor only to free the
\* connection behind it.
OwnClose == \A fd \in Fds : (sockOf[fd] # NoConn /\ sockOf'[fd] = NoConn)
                              => cdata'[sockOf[fd]] = "freed"
LEMMA SocketsStep ==
    ASSUME ~AllocFails, SockInv, [Next]_vars
    PROVE  Lives' /\ Sockets' /\ OwnClose
<1>1. ASSUME Gentle PROVE Lives' /\ Sockets' /\ OwnClose
  BY <1>1, FreshStep, GentleStep DEF Gentle, OwnClose
<1>2. ASSUME NEW x \in Frames, IoHandler(x) PROVE Lives' /\ Sockets' /\ OwnClose
  BY <1>1, <1>2, IoHandlerGentle, RemoveSockets, CloseSockets DEF OwnClose
<1>3. ASSUME NEW x \in Frames, ConnectHandler(x) PROVE Lives' /\ Sockets' /\ OwnClose
  BY <1>1, <1>3, ConnectHandlerGentle, AcceptSockets, InsertSockets DEF OwnClose
<1>4. ASSUME NEW x \in Frames, OwnSteps(x) PROVE Lives' /\ Sockets' /\ OwnClose
  BY <1>1, <1>4, OwnStepsGentle, RemoveSockets, CloseSockets DEF OwnClose
<1>5. ASSUME NEW x \in Frames, Start(x) PROVE Lives' /\ Sockets' /\ OwnClose
  BY <1>1, <1>5, StartGentle, RemoveSockets, CloseSockets DEF OwnClose
<1>6. ASSUME KernelSteps PROVE Lives' /\ Sockets' /\ OwnClose BY <1>1, <1>6, KernelStepsGentle
<1>7. ASSUME UNCHANGED vars PROVE Lives' /\ Sockets' /\ OwnClose
  <2>1. Gentle BY <1>7 DEF vars, frm, srv, net, Gentle
  <2> QED BY <1>1, <2>1
<1> QED BY <1>2, <1>3, <1>4, <1>5, <1>6, <1>7 DEF Next, Step, OwnSteps, KernelSteps

\* The invariant holds initially,
LEMMA SockInit == Init => SockInv
<1> SUFFICES ASSUME Init PROVE SockInv OBVIOUS
<1>1. Lives
  BY DEF Init, Lives, EntryLive, AcceptedApart, DestroyedApart, BacklogFresh, Accepting, Destroying
<1>2. Sockets
  BY DEF Init, Sockets, EntrySockets, AcceptedSockets, DestroyedSockets, NoFailure, Accepting,
         Destroying
<1> QED BY <1>1, <1>2, InitInv DEF SockInv

\* and every step keeps it.
LEMMA SockStep == ~AllocFails /\ SockInv /\ [Next]_vars => SockInv'
BY StepInv, SocketsStep DEF SockInv

\* Every entry of connections_table names a live connection whose descriptor is
\* its key and is still that connection's socket, for any number of threads and
\* descriptors, across handlers, destroy_connection, stop_server and restarts.
THEOREM TableIsRight == ~AllocFails => (Spec => []TableMatchesSockets)
<1> SUFFICES ASSUME ~AllocFails PROVE Spec => []TableMatchesSockets OBVIOUS
<1>1. SockInv /\ [Next]_vars => SockInv' BY SockStep
<1>2. SockInv => TableMatchesSockets
  BY DEF SockInv, Lives, EntryLive, Sockets, EntrySockets, TableMatchesSockets
<1> QED BY SockInit, <1>1, <1>2, PTL DEF Spec

\* connect_handler never finds its key in the table: "duplicate entry in
\* connections table" can only mean a NULL table.
THEOREM InsertNeverFinds == ~AllocFails => (Spec => []NoDuplicateEntry)
<1> SUFFICES ASSUME ~AllocFails PROVE Spec => []NoDuplicateEntry OBVIOUS
<1>1. SockInv /\ [Next]_vars => SockInv' BY SockStep
<1>2. SockInv => NoDuplicateEntry
  <2> SUFFICES ASSUME SockInv, NEW x \in Frames, pc[x] = "cn_insert"
               PROVE  table[cfd[con[x]]] = NoConn
    BY DEF NoDuplicateEntry
  <2>1. cfd[con[x]] \in Fds /\ con[x] \in Conns
    BY DEF SockInv, Inv, FramesKnow, ConLabels
  <2> QED BY <2>1 DEF SockInv, Lives, AcceptedApart, Accepting, Sockets,
                      EntrySockets, AcceptedSockets
<1> QED BY SockInit, <1>1, <1>2, PTL DEF Spec

\* No step closes a descriptor except to free the connection behind it,
\* although descriptor numbers are reused at once.
THEOREM OnlyOwnSockets == ~AllocFails => (Spec => ClosesOwnSocket)
<1> SUFFICES ASSUME ~AllocFails PROVE Spec => ClosesOwnSocket OBVIOUS
<1>1. SockInv /\ [Next]_vars => SockInv' BY SockStep
<1>2. SockInv /\ [Next]_vars => [OwnClose]_vars BY SocketsStep
<1> QED BY SockInit, <1>1, <1>2, PTL DEF Spec, ClosesOwnSocket, OwnClose
=============================================================================
