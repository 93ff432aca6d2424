--------------------------- MODULE OneThreadProofs ---------------------------
(***************************************************************************)
(* Theorems about module Server when the application lets one thread take  *)
(* all signals, the one that also starts and stops the server, and blocks  *)
(* them on every other (SigThreads = {Main}).  The handlers then still     *)
(* interrupt each other and any library call, but stop_server finds none   *)
(* of them half way.                                                       *)
(***************************************************************************)
EXTENDS OrderProofs

OneThread == SigThreads = {Main}

MainApi == <<Main, "api">>
MainIo == <<Main, "io">>
MainConn == <<Main, "conn">>

IoLabels == {"io_lock", "io_lookup", "dc_again", "dc_close"} \cup Reading
ConnectLabels == {"cn_accept", "cn_setup"} \cup Accepting
TickLabels == {"ka_try", "ka_scan"}
CallLabels == {"rm_pop", "gl_list"}
\* stop_server has closed the listening socket,
Closed == {"stop_lock", "stop_free", "stop_close", "stop_qlock", "stop_qfree"}
\* and has not yet emptied the table.
Emptying == {"stop_lock", "stop_free", "stop_close"}

\* Every label has its frame.
Places ==
    \A x \in Frames :
        /\ pc[x] \in IoLabels => x = MainIo
        /\ pc[x] \in ConnectLabels => x = MainConn
        /\ pc[x] \in {"stop_conn"} \cup Closed => x = MainApi
        /\ pc[x] \in StartLabels => x = MainApi
        /\ pc[x] \in TickLabels => x = <<Ticker, "api">>
        /\ pc[x] \in CallLabels => x[1] # Ticker /\ x[2] = "api"
\* The main thread is in its own code only when it is in no handler.
Stack == top[Main] = "api" => pc[MainIo] = "idle" /\ pc[MainConn] = "idle"

\* The connection of a handler is not destroyed under it.
ReadLive == \A x \in Frames : pc[x] \in Reading => cdata[con[x]] = "live"
\* While the server listens it has its table and its queue; connections are
\* accepted only then, and stop_server frees them only afterwards.  start_server
\* has made both by the time it listens.
Listening ==
    /\ "listen" \in up => {"table", "queue"} \subseteq up
    /\ \A x \in Frames :
         /\ pc[x] \in Accepting => "listen" \in up
         /\ pc[x] \in Closed \cup StartLabels => "listen" \notin up
         /\ pc[x] \in {"st_table", "st_signals", "st_timer", "st_listen"} => "queue" \in up
         /\ pc[x] \in {"st_signals", "st_timer", "st_listen"} => "table" \in up
NoEntry == \A fd \in Fds : table[fd] = NoConn
\* A server that does not listen has no connection, unless it is being
\* stopped, and none has one without a read_buff.
Emptied ==
    /\ "listen" \notin up /\ pc[MainApi] \notin Emptying => NoEntry
    /\ "queue" \notin up => NoEntry
\* iter_keep_alives has entries before it that are there.
TodoEntries == \A x \in Frames : pc[x] = "ka_scan" => \A fd \in todo : table[fd] # NoConn
\* An open descriptor is that of a ConnectionData which is not freed.
SocketsKnown ==
    \A fd \in Fds : sockOf[fd] # NoConn =>
        cdata[sockOf[fd]] \in {"live", "destroyed"} /\ cfd[sockOf[fd]] = fd
\* Nothing is read before accept.
Fresh == \A c \in Conns : cdata[c] = "none" => rd[c] = 0

Placement == Places /\ Stack
Holding == ReadLive /\ Listening /\ Emptied /\ TodoEntries /\ SocketsKnown /\ Fresh
\* The inductive invariant of this module.
OneInv == EntryInv /\ Placement /\ Holding

LEMMA MainFrames ==
    /\ MainApi \in Frames /\ MainIo \in Frames /\ MainConn \in Frames
    /\ MainApi # MainIo /\ MainApi # MainConn /\ MainIo # MainConn
    /\ <<Ticker, "api">> # MainApi /\ <<Ticker, "api">> # MainIo /\ <<Ticker, "api">> # MainConn
BY ServerAssumption DEF Frames, Levels, MainApi, MainIo, MainConn

\* The labels of different kinds of frames are different.
LEMMA LabelsApart ==
    /\ "idle" \notin IoLabels \cup ConnectLabels \cup {"stop_conn"} \cup Closed \cup TickLabels \cup CallLabels
    /\ IoLabels \cap (ConnectLabels \cup {"stop_conn"} \cup Closed \cup TickLabels \cup CallLabels) = {}
    /\ ConnectLabels \cap ({"stop_conn"} \cup Closed \cup TickLabels \cup CallLabels) = {}
    /\ ({"stop_conn"} \cup Closed) \cap (TickLabels \cup CallLabels) = {}
    /\ TickLabels \cap CallLabels = {}
    /\ Emptying \subseteq Closed /\ "stop_conn" \notin Closed
    /\ Reading \subseteq IoLabels /\ Accepting \subseteq ConnectLabels
    /\ Destroying \cap (Reading \cup ConnectLabels) = {}
    /\ StartLabels \cap (IoLabels \cup ConnectLabels \cup {"stop_conn", "idle"} \cup Closed) = {}
    /\ StartLabels \cap (TickLabels \cup CallLabels) = {} /\ "st_queue" \in StartLabels
BY DEF IoLabels, ConnectLabels, TickLabels, CallLabels, Closed, Emptying, Reading, Accepting,
       Destroying, StartLabels

-----------------------------------------------------------------------------
(* Where frames are.                                                       *)

\* A handler goes on, or returns to what it interrupted.
Moves(x, L) ==
    /\ pc[x] \in L /\ top[x[1]] = x[2]
    /\ \/ UNCHANGED top /\ \E l \in L : pc' = [pc EXCEPT ![x] = l]
       \/ /\ pc' = [pc EXCEPT ![x] = "idle"]
          /\ top' = [top EXCEPT ![x[1]] =
                       IF x[2] # "api" /\ pc[<<x[1], Other(x[2])>>] # "idle"
                       THEN Other(x[2]) ELSE "api"]

LEMMA IoHandlerMoves == ASSUME Inv, NEW x \in Frames, IoHandler(x) PROVE Moves(x, IoLabels)
<1>0. pc \in [Frames -> Labels] BY DEF Inv, FrameTypes
<1> USE <1>0 DEF Moves, IoLabels, Reading, At, Goto, Return, ReadDone, Fetching, frm
<1>1. CASE IoLookup(x) BY <1>1 DEF IoLookup
<1>2. CASE IoDestroyed(x) BY <1>2 DEF IoDestroyed
<1>3. CASE IoPeek(x) BY <1>3 DEF IoPeek
<1>4. CASE ReportFails(x) BY <1>4 DEF ReportFails
<1>5. CASE ReportPush(x) BY <1>5 DEF ReportPush
<1>6. CASE FetchNewline(x)
  <2>1. pc' = [pc EXCEPT ![x] = "fetch"] BY <1>6 DEF FetchNewline
  <2> QED BY <1>6, <2>1 DEF FetchNewline
<1>7. CASE FetchEnd(x) BY <1>7 DEF FetchEnd
<1>8. CASE FetchObject(x) BY <1>8 DEF FetchObject
<1>9. CASE FetchKeepAlive(x) BY <1>9 DEF FetchKeepAlive
<1>10. CASE FetchError(x) BY <1>10 DEF FetchError
<1>11. CASE DestroyFree(x) BY <1>11 DEF DestroyFree
<1>12. CASE DestroyMisses(x) BY <1>12 DEF DestroyMisses
<1>13. CASE DestroyAgain(x) BY <1>13 DEF DestroyAgain
<1>14. CASE DestroyClose(x) BY <1>14 DEF DestroyClose
<1>15. CASE UseAfterFree(x)
  <2>1. pc[x] \in IoLabels /\ top[x[1]] = x[2] /\ UNCHANGED <<pc, top>> BY <1>15 DEF UseAfterFree
  <2>2. pc' = [pc EXCEPT ![x] = pc[x]] BY <2>1
  <2> QED BY ONLY <2>1, <2>2 DEF Moves
<1> QED BY <1>1, <1>2, <1>3, <1>4, <1>5, <1>6, <1>7, <1>8, <1>9, <1>10, <1>11, <1>12, <1>13,
           <1>14, <1>15 DEF IoHandler

LEMMA ConnectHandlerMoves ==
    ASSUME Inv, NEW x \in Frames, ConnectHandler(x)
    PROVE  Moves(x, ConnectLabels)
<1>0. pc \in [Frames -> Labels] BY DEF Inv, FrameTypes
<1> USE <1>0 DEF Moves, ConnectLabels, Accepting, At, Goto, Return, frm
<1>1. CASE AcceptFails(x) BY <1>1 DEF AcceptFails
<1>2. CASE AcceptAborts(x) BY <1>2 DEF AcceptAborts
<1>3. CASE Accept(x) BY <1>3 DEF Accept
<1>4. CASE Insert(x) BY <1>4 DEF Insert
<1>5. CASE InsertExits(x)
  <2>1. pc' = [pc EXCEPT ![x] = "cn_insert"] BY <1>5 DEF InsertExits
  <2> QED BY <1>5, <2>1 DEF InsertExits
<1>6. CASE InsertFails(x) BY <1>6 DEF InsertFails
<1>7. CASE InsertFree(x) BY <1>7 DEF InsertFree
<1>8. CASE Setup(x) BY <1>8 DEF Setup
<1> QED BY <1>1, <1>2, <1>3, <1>4, <1>5, <1>6, <1>7, <1>8 DEF ConnectHandler

\* A handler's step leaves every frame at a label of its own.
LEMMA IoHandlerPlaces ==
    ASSUME Inv, Placement, NEW x \in Frames, IoHandler(x)
    PROVE  Placement'
<1>1. /\ pc \in [Frames -> Labels] /\ top \in [Threads -> Levels] /\ Main \in Threads
      /\ Moves(x, IoLabels) /\ x = MainIo
  BY ServerAssumption, IoHandlerMoves DEF Inv, FrameTypes, Placement, Places, Moves
<1>2. pc'[x] \in IoLabels \cup {"idle"} /\ \A y \in Frames : y # x => pc'[y] = pc[y]
  BY <1>1 DEF Moves
<1>3. Places' BY <1>1, <1>2, LabelsApart DEF Placement, Places
<1>4. Stack'
  <2>1. top[Main] = "io" BY <1>1 DEF Moves, MainIo
  <2>2. CASE UNCHANGED top BY <2>1, <2>2 DEF Stack
  <2>3. CASE ~UNCHANGED top
    <3>1. pc'[x] = "idle" /\ top' = [top EXCEPT ![Main] = IF pc[MainConn] # "idle" THEN "conn" ELSE "api"]
      BY <1>1, <2>3 DEF Moves, Other, MainIo, MainConn
    <3>2. pc'[MainConn] = pc[MainConn] BY <1>1, <1>2, MainFrames
    <3> QED BY <1>1, <3>1, <3>2 DEF Stack
  <2> QED BY <2>2, <2>3
<1> QED BY <1>3, <1>4 DEF Placement

LEMMA ConnectHandlerPlaces ==
    ASSUME Inv, Placement, NEW x \in Frames, ConnectHandler(x)
    PROVE  Placement'
<1>1. /\ pc \in [Frames -> Labels] /\ top \in [Threads -> Levels] /\ Main \in Threads
      /\ Moves(x, ConnectLabels) /\ x = MainConn
  BY ServerAssumption, ConnectHandlerMoves DEF Inv, FrameTypes, Placement, Places, Moves
<1>2. pc'[x] \in ConnectLabels \cup {"idle"} /\ \A y \in Frames : y # x => pc'[y] = pc[y]
  BY <1>1 DEF Moves
<1>3. Places' BY <1>1, <1>2, LabelsApart DEF Placement, Places
<1>4. Stack'
  <2>1. top[Main] = "conn" BY <1>1 DEF Moves, MainConn
  <2>2. CASE UNCHANGED top BY <2>1, <2>2 DEF Stack
  <2>3. CASE ~UNCHANGED top
    <3>1. pc'[x] = "idle" /\ top' = [top EXCEPT ![Main] = IF pc[MainIo] # "idle" THEN "io" ELSE "api"]
      BY <1>1, <2>3 DEF Moves, Other, MainIo, MainConn
    <3>2. pc'[MainIo] = pc[MainIo] BY <1>1, <1>2, MainFrames
    <3> QED BY <1>1, <3>1, <3>2 DEF Stack
  <2> QED BY <2>2, <2>3
<1> QED BY <1>3, <1>4 DEF Placement

\* A frame that is in none of the handlers' own steps stays among the labels
\* it is at, or a call begins.
StopLabels == {"stop_conn"} \cup Closed
Goes(x) ==
    /\ UNCHANGED top /\ top[x[1]] = x[2]
    /\ \E l \in Labels :
         /\ pc' = [pc EXCEPT ![x] = l]
         /\ \/ \E L \in {IoLabels, ConnectLabels, StopLabels, TickLabels, CallLabels} :
                  pc[x] \in L /\ l \in L \cup {"idle"}
            \/ x = <<Ticker, "api">> /\ l \in TickLabels
            \/ x = MainApi /\ l \in {"st_queue", "stop_conn"}
            \/ x[1] # Ticker /\ x[2] = "api" /\ l \in CallLabels

LEMMA OwnStepsGo == ASSUME Inv, NEW x \in Frames, OwnSteps(x) PROVE Goes(x)
<1>0. pc \in [Frames -> Labels] BY DEF Inv, FrameTypes
<1> USE <1>0 DEF Goes, Labels, IoLabels, ConnectLabels, StopLabels, Closed, TickLabels, CallLabels,
        Reading, Accepting, At, Goto, frm
<1>1. CASE Acquire(x)
  <2>1. PICK l \in WaitLabels : pc[x] = l /\ top[x[1]] = x[2] BY <1>1 DEF Acquire, Waiting
  <2>2. pc' = [pc EXCEPT ![x] = After(l)] /\ UNCHANGED top BY <1>1, <2>1 DEF Acquire
  <2>3. \/ l \in IoLabels /\ After(l) \in IoLabels \cap Labels
        \/ l \in ConnectLabels /\ After(l) \in ConnectLabels \cap Labels
        \/ l \in StopLabels /\ After(l) \in StopLabels \cap Labels
    BY <2>1 DEF WaitLabels, After
  <2> HIDE DEF Labels, IoLabels, ConnectLabels, StopLabels, TickLabels, CallLabels
  <2> QED BY <2>1, <2>2, <2>3
<1>2. CASE iter_keep_alives(x) BY <1>2 DEF iter_keep_alives
<1>3. CASE TickDone(x) BY <1>3 DEF TickDone
<1>4. CASE \E fd \in Fds : check_keep_alive(x, fd)
  <2>1. pc[x] = "ka_scan" /\ top[x[1]] = x[2] /\ UNCHANGED <<pc, top>> BY <1>4 DEF check_keep_alive
  <2>2. pc' = [pc EXCEPT ![x] = "ka_scan"] BY <2>1
  <2> QED BY ONLY <2>1, <2>2 DEF Goes, Labels, TickLabels
<1>5. CASE Tick(x) BY <1>5 DEF Tick
<1>6. CASE \E m \in {read_buff_mux, connections_mux} : CallLock(x, m)
  BY <1>6 DEF CallLock, IsCall
<1>7. CASE read_message(x) BY <1>7 DEF read_message
<1>8. CASE get_connected_list(x) BY <1>8 DEF get_connected_list
<1>9. CASE ListAborts(x)
  <2>1. pc[x] = "gl_list" /\ top[x[1]] = x[2] /\ UNCHANGED <<pc, top>> BY <1>9 DEF ListAborts
  <2>2. pc' = [pc EXCEPT ![x] = "gl_list"] BY <2>1
  <2> QED BY ONLY <2>1, <2>2 DEF Goes, Labels, CallLabels
<1>10. CASE start_server(x) BY <1>10 DEF start_server, MainIdle, IsCall, MainApi
<1>11. CASE stop_server(x) BY <1>11 DEF stop_server, MainIdle, IsCall, MainApi
<1>12. CASE StopSignals(x) BY <1>12 DEF StopSignals
<1>13. CASE \E fd \in Fds : StopFree(x, fd) BY <1>13 DEF StopFree, FreeEntry
<1>14. CASE StopClose(x) BY <1>14 DEF StopClose, CloseEntry
<1>15. CASE StopTable(x) BY <1>15 DEF StopTable
<1>16. CASE StopQueue(x) BY <1>16 DEF StopQueue
<1> QED BY <1>1, <1>2, <1>3, <1>4, <1>5, <1>6, <1>7, <1>8, <1>9, <1>10, <1>11, <1>12, <1>13,
           <1>14, <1>15, <1>16 DEF OwnSteps, KeepAliveCheck, Call, Finish

LEMMA OwnStepsPlaces ==
    ASSUME Inv, Placement, NEW x \in Frames, OwnSteps(x)
    PROVE  Placement'
<1>1. pc \in [Frames -> Labels] /\ Goes(x) BY OwnStepsGo DEF Inv, FrameTypes
<1>2. PICK l \in Labels :
         /\ pc' = [pc EXCEPT ![x] = l]
         /\ \/ \E L \in {IoLabels, ConnectLabels, StopLabels, TickLabels, CallLabels} :
                  pc[x] \in L /\ l \in L \cup {"idle"}
            \/ x = <<Ticker, "api">> /\ l \in TickLabels
            \/ x = MainApi /\ l \in {"st_queue", "stop_conn"}
            \/ x[1] # Ticker /\ x[2] = "api" /\ l \in CallLabels
  BY <1>1 DEF Goes
<1>3. pc'[x] = l /\ \A y \in Frames : y # x => pc'[y] = pc[y] BY <1>1, <1>2
<1>4. Places'
  <2>1. /\ l \in IoLabels => x = MainIo
        /\ l \in ConnectLabels => x = MainConn
        /\ l \in {"stop_conn"} \cup Closed => x = MainApi
        /\ l \in StartLabels => x = MainApi
        /\ l \in TickLabels => x = <<Ticker, "api">>
        /\ l \in CallLabels => x[1] # Ticker /\ x[2] = "api"
    BY <1>2, LabelsApart DEF Placement, Places, StopLabels
  <2> QED BY <1>3, <2>1 DEF Placement, Places
<1>5. Stack'
  <2> SUFFICES ASSUME top[Main] = "api" PROVE pc'[MainIo] = "idle" /\ pc'[MainConn] = "idle"
    BY <1>1 DEF Goes, Stack
  <2>1. x # MainIo /\ x # MainConn BY <1>1 DEF Goes, MainIo, MainConn
  <2> QED BY <1>3, <2>1, MainFrames DEF Placement, Stack
<1> QED BY <1>4, <1>5 DEF Placement

\* The kernel puts a handler on top of the main thread only.
LEMMA KernelStepsPlaces ==
    ASSUME OneThread, Inv, Placement, KernelSteps
    PROVE  Placement'
<1>0. /\ pc \in [Frames -> Labels] /\ top \in [Threads -> Levels] /\ Main \in Threads
  BY ServerAssumption DEF Inv, FrameTypes
<1>1. CASE UNCHANGED <<pc, top>> BY <1>1 DEF Placement, Places, Stack
<1>2. ASSUME NEW l \in {"io", "conn"}, NEW k \in {"io_lock", "cn_accept"},
             k \in IoLabels <=> l = "io",
             pc' = [pc EXCEPT ![<<Main, l>>] = k], top' = [top EXCEPT ![Main] = l]
      PROVE  Placement'
  <2>1. Stack' BY <1>0, <1>2 DEF Stack
  <2>2. <<Main, l>> \in Frames BY ServerAssumption DEF Frames, Levels
  <2>3. pc'[<<Main, l>>] = k /\ \A y \in Frames : y # <<Main, l>> => pc'[y] = pc[y]
    BY <1>0, <1>2, <2>2
  <2>4. "io_lock" \in IoLabels /\ "cn_accept" \in ConnectLabels BY DEF IoLabels, ConnectLabels
  <2>5. Places' BY <1>2, <2>3, <2>4, LabelsApart DEF Placement, Places, MainIo, MainConn
  <2> QED BY <2>1, <2>5 DEF Placement
<1>3. CASE \E t \in Threads : TakeConnect(t)
  <2>1. PICK t \in Threads : TakeConnect(t) BY <1>3
  <2>2. t = Main BY <2>1 DEF TakeConnect, Deliverable, OneThread
  <2>3. \/ pc' = [pc EXCEPT ![<<Main, "conn">>] = "cn_accept"] /\ top' = [top EXCEPT ![Main] = "conn"]
        \/ UNCHANGED <<pc, top>>
    BY <2>1, <2>2 DEF TakeConnect, Enter, Goto
  <2>4. "cn_accept" \notin IoLabels BY DEF IoLabels, Reading
  <2> QED BY <1>1, <1>2, <2>3, <2>4
<1>4. CASE \E t \in Threads : TakeRead(t)
  <2>1. PICK t \in Threads : TakeRead(t) BY <1>4
  <2>2. t = Main BY <2>1 DEF TakeRead, Deliverable, OneThread
  <2>3. \/ pc' = [pc EXCEPT ![<<Main, "io">>] = "io_lock"] /\ top' = [top EXCEPT ![Main] = "io"]
        \/ UNCHANGED <<pc, top>>
    BY <2>1, <2>2 DEF TakeRead, Enter, Goto
  <2>4. "io_lock" \in IoLabels BY DEF IoLabels
  <2> QED BY <1>1, <1>2, <2>3, <2>4
<1>5. CASE Peer BY <1>1, <1>5 DEF Peer, Connect, Arrive, Fin, Expire, frm
<1> QED BY <1>3, <1>4, <1>5 DEF KernelSteps

\* A handler of the main thread does not wait for the main thread: none is
\* there when a library call takes a step.
LEMMA NoHandler ==
    ASSUME Placement, NEW x \in Frames, x = MainApi, top[x[1]] = x[2]
    PROVE  \A y \in Frames : pc[y] \notin IoLabels \cup ConnectLabels
BY LabelsApart DEF Placement, Places, Stack, MainApi

\* start_server finds an empty table.
LEMMA FindsNoEntry == ASSUME Placement, Holding PROVE StartsClean
BY LabelsApart DEF Placement, Places, Holding, Listening, Emptied, NoEntry, StartsClean

\* It runs on the main thread, when that is in no handler, and frees nothing.
LEMMA StartAlone ==
    ASSUME OneInv, NEW x \in Frames, Start(x)
    PROVE  /\ StartPlain(x) \/ Race(x)
           /\ UNCHANGED table
           /\ x = MainApi /\ top[x[1]] = x[2] /\ pc[x] \in StartLabels
           /\ \A y \in Frames : pc[y] \notin IoLabels \cup ConnectLabels
<1>1. (StartPlain(x) \/ Race(x)) /\ UNCHANGED table BY FindsNoEntry, StartTableKept DEF OneInv
<1>2. ~UndoClose(x) BY DEF OneInv, EntryInv, Entries, StartsRight, UndoClose, CloseEntry, At
<1>3. pc[x] # "undo_close" BY DEF OneInv, EntryInv, Entries, StartsRight
<1>4. pc[x] \in StartLabels /\ top[x[1]] = x[2]
  BY <1>2, <1>3 DEF Start, StartQueue, StartTable, StartSignals, StartTimer, StartListen, UndoQueue,
         UndoFree, FreeEntry, UndoTable, Race, At, StartLabels
<1>5. x = MainApi BY <1>4 DEF OneInv, Placement, Places
<1>6. \A y \in Frames : pc[y] \notin IoLabels \cup ConnectLabels BY <1>4, <1>5, NoHandler DEF OneInv
<1> QED BY <1>1, <1>4, <1>5, <1>6

LEMMA StartPlaces == ASSUME OneInv, NEW x \in Frames, Start(x) PROVE Placement'
<1>0. pc \in [Frames -> Labels] BY DEF OneInv, EntryInv, Inv, FrameTypes
<1>1. CASE Race(x)
  <2>1. UNCHANGED <<pc, top>> BY <1>1 DEF Race, frm
  <2> QED BY <2>1 DEF OneInv, Placement, Places, Stack
<1>2. CASE StartPlain(x)
  <2>1. PICK l \in StartLabels \cup {"idle"} : pc' = [pc EXCEPT ![x] = l]
    BY <1>2 DEF StartPlain, Goto
  <2>2. UNCHANGED top BY <1>2 DEF StartPlain
  <2>3. pc'[x] \in StartLabels \cup {"idle"} /\ \A y \in Frames : y # x => pc'[y] = pc[y]
    BY <1>0, <2>1
  <2>4. Places' BY <2>3, StartAlone, LabelsApart DEF OneInv, Placement, Places
  <2>5. Stack' BY <2>2, <2>3, StartAlone, MainFrames DEF OneInv, Placement, Stack
  <2> QED BY <2>4, <2>5 DEF Placement
<1> QED BY <1>1, <1>2, StartAlone

LEMMA PlacementStep == ASSUME OneThread, OneInv, [Next]_vars PROVE Placement'
<1>0. Inv /\ Placement BY DEF OneInv, EntryInv
<1>1. ASSUME NEW x \in Frames, Step(x) \/ Call(x) \/ Tick(x) PROVE Placement'
  BY <1>0, <1>1, IoHandlerPlaces, ConnectHandlerPlaces, OwnStepsPlaces, StartPlaces DEF Step, OwnSteps
<1>2. CASE KernelSteps BY <1>0, <1>2, KernelStepsPlaces
<1>3. CASE UNCHANGED vars BY <1>0, <1>3 DEF vars, frm, Placement, Places, Stack
<1> QED BY <1>1, <1>2, <1>3 DEF Next, KernelSteps

-----------------------------------------------------------------------------
(* What handlers and stop_server find.                                     *)

\* A step that opens no descriptor, touches no entry and reads nothing that was
\* not accepted; start_server may begin.
Still ==
    /\ UNCHANGED <<table, cdata, cfd>>
    /\ \A p \in {"listen", "table", "queue"} : p \in up' <=> p \in up
    /\ \A fd \in Fds : sockOf'[fd] \in {sockOf[fd], NoConn}
    /\ todo' \subseteq todo
    /\ \A c \in Conns : cdata[c] = "none" => rd'[c] = rd[c]
    /\ \A y \in Frames :
         /\ pc'[y] \in Reading => pc[y] \in Reading /\ con'[y] = con[y]
         /\ pc'[y] \in Accepting => pc[y] \in Accepting
         /\ pc'[y] \in Closed => pc[y] \in Closed
         /\ pc'[y] \in StartLabels =>
              pc'[y] = pc[y] \/ (pc'[y] = "st_queue" /\ "listen" \notin up)
         /\ pc[y] \in Emptying => pc'[y] \in Emptying
         /\ pc'[y] = "ka_scan" => pc[y] = "ka_scan"

LEMMA StillStep == ASSUME Holding, Still PROVE Holding'
<1> USE DEF Holding, Still
<1>1. ReadLive' BY DEF ReadLive
<1>2. Listening' BY DEF Listening, StartLabels
<1>3. Emptied' BY MainFrames DEF Emptied, NoEntry
<1>4. TodoEntries' BY DEF TodoEntries
<1>5. SocketsKnown' BY DEF SocketsKnown
<1>6. Fresh' BY DEF Fresh
<1> QED BY <1>1, <1>2, <1>3, <1>4, <1>5, <1>6

\* Steps of io_handler are still, but for those treated one by one below.
LEMMA IoHandlerStill ==
    ASSUME OneInv, NEW x \in Frames, IoHandler(x),
           ~IoLookup(x), ~DestroyFree(x), ~DestroyClose(x)
    PROVE  Still
<1>0. /\ pc \in [Frames -> Labels] /\ con \in [Frames -> Conns \cup {NoConn}]
      /\ rd \in [Conns -> Nat] /\ FramesKnow
      /\ \A y \in Frames : pc[y] \in Reading => cdata[con[y]] = "live"
  BY DEF OneInv, EntryInv, Inv, FrameTypes, KernelTypes, Holding, ReadLive
<1> USE <1>0 DEF Still, Reading, Accepting, Closed, Emptying, StartLabels, At, Goto, Return, ReadDone,
        Fetching, frm, srv, net
<1>1. CASE IoDestroyed(x) BY <1>1 DEF IoDestroyed
<1>2. CASE IoPeek(x) BY <1>2 DEF IoPeek
<1>3. CASE ReportFails(x) BY <1>3 DEF ReportFails
<1>4. CASE ReportPush(x) BY <1>4 DEF ReportPush
<1>5. CASE FetchNewline(x) BY <1>5 DEF FetchNewline
<1>6. CASE FetchEnd(x) BY <1>6 DEF FetchEnd
<1>7. CASE FetchObject(x) BY <1>7 DEF FetchObject
<1>8. CASE FetchKeepAlive(x) BY <1>8 DEF FetchKeepAlive
<1>9. CASE FetchError(x) BY <1>9 DEF FetchError
<1>10. CASE DestroyMisses(x) \/ DestroyAgain(x) BY <1>10, NoMiss DEF OneInv
<1>11. CASE UseAfterFree(x) BY <1>11 DEF UseAfterFree
<1> QED BY <1>1, <1>2, <1>3, <1>4, <1>5, <1>6, <1>7, <1>8, <1>9, <1>10, <1>11 DEF IoHandler

LEMMA ConnectHandlerStill ==
    ASSUME OneInv, NEW x \in Frames, ConnectHandler(x),
           ~Accept(x), ~Insert(x), ~InsertFree(x)
    PROVE  Still
<1>0. /\ pc \in [Frames -> Labels] /\ con \in [Frames -> Conns \cup {NoConn}]
      /\ sockOf \in [Fds -> Conns \cup {NoConn}]
  BY DEF OneInv, EntryInv, Inv, FrameTypes, KernelTypes
<1> USE <1>0 DEF Still, Reading, Accepting, Closed, Emptying, StartLabels, At, Goto, Return, frm, srv,
        net
<1>1. CASE AcceptFails(x) BY <1>1 DEF AcceptFails
<1>2. CASE AcceptAborts(x) BY <1>2 DEF AcceptAborts
<1>3. CASE InsertExits(x) BY <1>3 DEF InsertExits
<1>4. CASE InsertFails(x) BY <1>4 DEF InsertFails, Close
<1>5. CASE Setup(x) BY <1>5 DEF Setup
<1> QED BY <1>1, <1>2, <1>3, <1>4, <1>5 DEF ConnectHandler

\* The timer and the calls of other threads are still, and so are start_server
\* and stop_server while they do not touch the table.
LEMMA OwnStepsStill ==
    ASSUME OneInv, NEW x \in Frames,
           \/ Acquire(x)
           \/ TickDone(x)
           \/ \E fd \in Fds : check_keep_alive(x, fd)
           \/ Tick(x)
           \/ \E m \in {read_buff_mux, connections_mux} : CallLock(x, m)
           \/ read_message(x)
           \/ get_connected_list(x)
           \/ ListAborts(x)
           \/ start_server(x)
           \/ stop_server(x)
    PROVE  Still
<1>0. /\ pc \in [Frames -> Labels] /\ con \in [Frames -> Conns \cup {NoConn}]
  BY DEF OneInv, EntryInv, Inv, FrameTypes
<1> USE <1>0 DEF Still, Reading, Accepting, Closed, Emptying, StartLabels, At, Goto, Return, frm, srv,
        net
<1>1. CASE Acquire(x) BY <1>1 DEF Acquire, Waiting, WaitLabels, Wants, After
<1>2. CASE TickDone(x) BY <1>2 DEF TickDone
<1>3. CASE \E fd \in Fds : check_keep_alive(x, fd) BY <1>3 DEF check_keep_alive
<1>4. CASE Tick(x) BY <1>4 DEF Tick
<1>5. CASE \E m \in {read_buff_mux, connections_mux} : CallLock(x, m)
  BY <1>5 DEF CallLock, IsCall
<1>6. CASE read_message(x) BY <1>6 DEF read_message
<1>7. CASE get_connected_list(x) BY <1>7 DEF get_connected_list
<1>8. CASE ListAborts(x) BY <1>8 DEF ListAborts
<1>9. CASE start_server(x) BY <1>9 DEF start_server, IsCall, MainIdle
<1>10. CASE stop_server(x) BY <1>10 DEF stop_server, IsCall, MainIdle
<1> QED BY <1>1, <1>2, <1>3, <1>4, <1>5, <1>6, <1>7, <1>8, <1>9, <1>10

\* The peers and the kernel are still.
LEMMA KernelStepsStill == ASSUME OneInv, KernelSteps PROVE Still
<1>0. pc \in [Frames -> Labels] BY DEF OneInv, EntryInv, Inv, FrameTypes
<1>1. CASE Peer
  <2>1. UNCHANGED <<frm, todo, up, table, cdata, cfd, sockOf, rd>>
    BY <1>1 DEF Peer, Connect, Arrive, Fin, Expire, srv, net
  <2> QED BY <2>1 DEF Still, frm
<1>2. CASE \E t \in Threads : TakeConnect(t)
  <2>1. PICK t \in Threads : TakeConnect(t) BY <1>2
  <2>2. /\ UNCHANGED <<con, todo, srv, net>>
        /\ \/ pc' = [pc EXCEPT ![<<t, "conn">>] = "cn_accept"] /\ pc[<<t, "conn">>] = "idle"
           \/ UNCHANGED pc
    BY <2>1 DEF TakeConnect, Enter, Goto, Deliverable
  <2> QED BY <1>0, <2>2 DEF Still, srv, net, Reading, Accepting, Closed, Emptying, StartLabels
<1>3. CASE \E t \in Threads : TakeRead(t)
  <2>1. PICK t \in Threads : TakeRead(t) BY <1>3
  <2>2. /\ UNCHANGED <<con, todo, srv, net>>
        /\ \/ pc' = [pc EXCEPT ![<<t, "io">>] = "io_lock"] /\ pc[<<t, "io">>] = "idle"
           \/ UNCHANGED pc
    BY <2>1 DEF TakeRead, Enter, Goto, Deliverable
  <2> QED BY <1>0, <2>2 DEF Still, srv, net, Reading, Accepting, Closed, Emptying, StartLabels
<1> QED BY <1>1, <1>2, <1>3 DEF KernelSteps

\* The lookup in io_handler finds a live connection.
LEMMA LookupHolding == ASSUME OneInv, NEW x \in Frames, IoLookup(x) PROVE Holding'
<1> USE DEF OneInv, Holding
<1>1. /\ pc \in [Frames -> Labels] /\ con \in [Frames -> Conns \cup {NoConn}]
      /\ table \in [Fds -> Conns \cup {NoConn}]
      /\ pc[x] = "io_lookup" /\ sifd[x[1]] \in Fds
      /\ \/ table[sifd[x[1]]] = NoConn /\ pc' = [pc EXCEPT ![x] = "idle"]
            /\ con' = [con EXCEPT ![x] = NoConn]
         \/ table[sifd[x[1]]] # NoConn /\ pc' = [pc EXCEPT ![x] = "io_mutex"]
            /\ con' = [con EXCEPT ![x] = table[sifd[x[1]]]]
      /\ UNCHANGED <<table, cdata, cfd, up, todo, sockOf, rd>>
  BY DEF IoLookup, At, Goto, Return, EntryInv, Inv, FramesKnow, FrameTypes, DataTypes, srv, net
<1>2. \A y \in Frames : /\ y # x => pc'[y] = pc[y] /\ con'[y] = con[y]
                        /\ y = x => pc'[y] \in {"idle", "io_mutex"}
  BY <1>1
<1>3. ReadLive'
  <2> SUFFICES ASSUME NEW y \in Frames, pc'[y] \in Reading PROVE cdata[con'[y]] = "live"
    BY <1>1 DEF ReadLive
  <2>1. CASE y = x BY <1>1, <2>1 DEF Reading, EntryInv, Entries, EntryLive
  <2>2. CASE y # x BY <1>2, <2>2 DEF ReadLive
  <2> QED BY <2>1, <2>2
<1>4. Listening' BY <1>1, <1>2 DEF Listening, Accepting, Closed, StartLabels
<1>5. Emptied' BY <1>1, <1>2, MainFrames DEF Emptied, Emptying, NoEntry
<1>6. TodoEntries' BY <1>1, <1>2 DEF TodoEntries
<1>7. SocketsKnown' BY <1>1 DEF SocketsKnown
<1>8. Fresh' BY <1>1 DEF Fresh
<1> QED BY <1>3, <1>4, <1>5, <1>6, <1>7, <1>8

\* No other frame scans the table while x holds connections_mux.
LEMMA NoScan ==
    ASSUME LocksHeld, NEW x \in Frames, pc[x] \in HoldsTable \ {"ka_scan"}
    PROVE  \A y \in Frames : pc[y] # "ka_scan"
BY DEF LocksHeld, HoldsTable

\* A connection is destroyed by its own handler, or when no handler is there.
LEMMA FreeHolding ==
    ASSUME OneInv, NEW x \in Frames, DestroyFree(x) \/ \E fd \in Fds : StopFree(x, fd)
    PROVE  Holding'
<1> USE DEF OneInv, Holding
<1>0. /\ pc \in [Frames -> Labels] /\ con \in [Frames -> Conns \cup {NoConn}]
      /\ table \in [Fds -> Conns \cup {NoConn}] /\ cdata \in [Conns -> {"none", "live", "destroyed", "freed"}]
      /\ sockOf \in [Fds -> Conns \cup {NoConn}]
  BY DEF EntryInv, Inv, FrameTypes, DataTypes, KernelTypes
<1>1. PICK fd \in Fds, c \in Conns :
         /\ table' = [table EXCEPT ![fd] = NoConn]
         /\ cdata' = [cdata EXCEPT ![c] = "destroyed"] /\ cdata[c] = "live"
         /\ con' = [con EXCEPT ![x] = c]
         /\ \/ pc[x] = "dc_free" /\ pc' = [pc EXCEPT ![x] = "dc_close"]
            \/ pc[x] = "stop_free" /\ pc' = [pc EXCEPT ![x] = "stop_close"]
         /\ top[x[1]] = x[2]
         /\ UNCHANGED <<cfd, up, todo, sockOf, rd>>
  <2>1. CASE DestroyFree(x)
    <3> DEFINE fd == cfd[con[x]]
    <3>1. fd \in Fds /\ table[fd] \in Conns /\ cdata[table[fd]] = "live"
      BY <1>0, <2>1 DEF DestroyFree, At, EntryInv, Entries, EntryLive, Inv, FramesKnow, ConLabels
    <3> QED BY <2>1, <3>1 DEF DestroyFree, At, Goto, Life, net
  <2>2. CASE \E fd \in Fds : StopFree(x, fd)
    <3>1. PICK fd \in Fds : StopFree(x, fd) BY <2>2
    <3>2. table[fd] \in Conns /\ cdata[table[fd]] = "live"
      BY <1>0, <3>1 DEF StopFree, FreeEntry, EntryInv, Entries, EntryLive
    <3> QED BY <3>1, <3>2 DEF StopFree, FreeEntry, At, Goto, Life, net
  <2> QED BY <2>1, <2>2
<1>2. \A y \in Frames : y # x => pc'[y] = pc[y] /\ con'[y] = con[y] BY <1>0, <1>1
<1>3. ReadLive'
  <2> SUFFICES ASSUME NEW y \in Frames, pc'[y] \in Reading PROVE FALSE BY DEF ReadLive
  <2>1. y # x /\ pc[y] \in Reading BY <1>0, <1>1, <1>2 DEF Reading
  <2>2. y = MainIo BY <2>1, LabelsApart DEF Placement, Places
  <2>3. CASE pc[x] = "dc_free" BY <2>1, <2>2, <2>3 DEF Placement, Places, IoLabels, Reading
  <2>4. CASE pc[x] = "stop_free"
    <3>1. x = MainApi BY <2>4 DEF Placement, Places, Closed
    <3>2. pc[MainIo] = "idle" BY <1>1, <3>1 DEF Placement, Stack, MainApi
    <3> QED BY <2>1, <2>2, <3>2 DEF Reading
  <2> QED BY <1>1, <2>3, <2>4
<1>4. Listening' BY <1>0, <1>1, <1>2 DEF Listening, Accepting, Closed, StartLabels
<1>5. Emptied'
  <2>1. NoEntry => NoEntry' BY <1>0, <1>1 DEF NoEntry
  <2>2. pc[MainApi] \in Emptying => pc'[MainApi] \in Emptying
    BY <1>0, <1>1, <1>2, MainFrames DEF Emptying
  <2> QED BY <1>1, <2>1, <2>2 DEF Emptied
<1>6. TodoEntries'
  <2>1. \A y \in Frames : pc[y] # "ka_scan" BY <1>1, NoScan DEF EntryInv, HoldsTable
  <2> QED BY <1>0, <1>1, <1>2, <2>1 DEF TodoEntries
<1>7. SocketsKnown' BY <1>0, <1>1, ServerAssumption DEF SocketsKnown
<1>8. Fresh' BY <1>0, <1>1 DEF Fresh
<1> QED BY <1>3, <1>4, <1>5, <1>6, <1>7, <1>8

\* free_connectiondata closes the only descriptor of the connection.
LEMMA CloseHolding ==
    ASSUME OneInv, NEW x \in Frames, DestroyClose(x) \/ StopClose(x) \/ InsertFree(x)
    PROVE  Holding'
<1> USE DEF OneInv, Holding
<1> DEFINE c == con[x]
<1>0. /\ pc \in [Frames -> Labels] /\ con \in [Frames -> Conns \cup {NoConn}]
      /\ table \in [Fds -> Conns \cup {NoConn}] /\ cdata \in [Conns -> {"none", "live", "destroyed", "freed"}]
      /\ sockOf \in [Fds -> Conns \cup {NoConn}]
  BY DEF EntryInv, Inv, FrameTypes, DataTypes, KernelTypes
<1>1. /\ c \in Conns /\ cfd[c] \in Fds /\ sockOf' = [sockOf EXCEPT ![cfd[c]] = NoConn]
      /\ cdata' = [cdata EXCEPT ![c] = "freed"] /\ con' = [con EXCEPT ![x] = NoConn]
      /\ \/ pc[x] = "dc_close" /\ pc' = [pc EXCEPT ![x] = "idle"]
         \/ pc[x] = "stop_close" /\ pc' = [pc EXCEPT ![x] = "stop_free"]
         \/ pc[x] = "cn_free" /\ pc' = [pc EXCEPT ![x] = "idle"]
      /\ UNCHANGED <<table, cfd, up, todo, rd>>
  BY DEF EntryInv, Inv, FramesKnow, ConLabels, DestroyClose, StopClose, CloseEntry, InsertFree, At,
         Goto, Return, Life, Close
<1>2. \A y \in Frames : y # x => pc'[y] = pc[y] /\ con'[y] = con[y] BY <1>0, <1>1
<1>3. pc'[x] \in {"idle", "stop_free"} BY <1>0, <1>1
<1>4. ReadLive'
  <2> SUFFICES ASSUME NEW y \in Frames, pc'[y] \in Reading PROVE cdata'[con'[y]] = "live"
    BY DEF ReadLive
  <2>1. y # x /\ pc[y] \in Reading /\ con'[y] = con[y] BY <1>2, <1>3 DEF Reading
  <2>2. con[y] # c
    <3>1. CASE pc[x] = "cn_free"
      BY <2>1, <3>1 DEF EntryInv, Entries, ReadAccepted, Accepting
    <3>2. CASE pc[x] # "cn_free"
      <4>1. cdata[c] = "destroyed" BY <1>1, <3>2 DEF EntryInv, Entries, DestroyedKnown, Destroying
      <4> QED BY <2>1, <4>1 DEF ReadLive
    <3> QED BY <3>1, <3>2
  <2>3. con[y] \in Conns /\ cdata[con[y]] = "live"
    BY <2>1 DEF ReadLive, EntryInv, Inv, FramesKnow, ConLabels, Reading
  <2> QED BY <1>0, <1>1, <2>1, <2>2, <2>3
<1>5. Listening' BY <1>0, <1>1, <1>2 DEF Listening, Accepting, Closed, StartLabels
<1>6. Emptied'
  <2>1. pc[MainApi] \in Emptying => pc'[MainApi] \in Emptying
    BY <1>0, <1>1, <1>2, MainFrames DEF Emptying
  <2> QED BY <1>1, <2>1 DEF Emptied, NoEntry
<1>7. TodoEntries' BY <1>0, <1>1, <1>2 DEF TodoEntries
<1>8. SocketsKnown'
  <2> SUFFICES ASSUME NEW fd \in Fds, sockOf'[fd] # NoConn
               PROVE  cdata'[sockOf'[fd]] \in {"live", "destroyed"} /\ cfd[sockOf'[fd]] = fd
    BY <1>1 DEF SocketsKnown
  <2>1. fd # cfd[c] /\ sockOf'[fd] = sockOf[fd] BY <1>0, <1>1
  <2>2. cdata[sockOf[fd]] \in {"live", "destroyed"} /\ cfd[sockOf[fd]] = fd /\ sockOf[fd] \in Conns
    BY <1>0, <2>1 DEF SocketsKnown
  <2>3. sockOf[fd] # c BY <2>1, <2>2
  <2> QED BY <1>0, <1>1, <2>1, <2>2, <2>3
<1>9. Fresh' BY <1>0, <1>1 DEF Fresh
<1> QED BY <1>4, <1>5, <1>6, <1>7, <1>8, <1>9

\* accept, and g_hash_table_insert, only happen while the server listens.
LEMMA AcceptHolding == ASSUME OneInv, NEW x \in Frames, Accept(x) PROVE Holding'
<1> USE DEF OneInv, Holding
<1> DEFINE c == Head(backlog)
<1>0. /\ pc \in [Frames -> Labels] /\ con \in [Frames -> Conns \cup {NoConn}]
      /\ cdata \in [Conns -> {"none", "live", "destroyed", "freed"}]
      /\ cfd \in [Conns -> Fds \cup {0}] /\ sockOf \in [Fds -> Conns \cup {NoConn}]
      /\ backlog \in Seq(Conns)
  BY DEF EntryInv, Inv, FrameTypes, DataTypes, KernelTypes
<1>1. PICK fd \in Fds : sockOf' = [sockOf EXCEPT ![fd] = c] /\ cfd' = [cfd EXCEPT ![c] = fd]
  BY DEF Accept
<1>2. /\ backlog # <<>> /\ "listen" \in up /\ pc[x] = "cn_accept"
      /\ cdata' = [cdata EXCEPT ![c] = "live"] /\ con' = [con EXCEPT ![x] = c]
      /\ pc' = [pc EXCEPT ![x] = "cn_lock"] /\ UNCHANGED <<table, up, todo, rd>>
  BY DEF Accept, CanAccept, At, Goto, Life
<1>3. c \in Conns /\ cdata[c] = "none"
  <2>1. c = backlog[1] /\ 1 \in 1..Len(backlog) /\ c \in Conns
    BY <1>0, <1>2, HeadTailProperties, EmptySeq
  <2> QED BY <2>1 DEF EntryInv, Entries, BacklogFresh
<1> HIDE DEF c
<1>4. \A y \in Frames : y # x => pc'[y] = pc[y] /\ con'[y] = con[y] BY <1>0, <1>2
<1>5. ReadLive'
  <2> SUFFICES ASSUME NEW y \in Frames, pc'[y] \in Reading PROVE cdata'[con'[y]] = "live"
    BY DEF ReadLive
  <2>1. y # x /\ pc[y] \in Reading /\ con'[y] = con[y] BY <1>0, <1>2, <1>4 DEF Reading
  <2>2. con[y] \in Conns /\ cdata[con[y]] = "live"
    BY <2>1 DEF ReadLive, EntryInv, Inv, FramesKnow, ConLabels, Reading
  <2> QED BY <1>0, <1>2, <1>3, <2>1, <2>2
<1>6. Listening' BY <1>0, <1>2, <1>4 DEF Listening, Closed, StartLabels
<1>7. Emptied'
  <2>1. pc[MainApi] \in Emptying => pc'[MainApi] \in Emptying
    BY <1>0, <1>2, <1>4, MainFrames DEF Emptying
  <2> QED BY <1>2, <2>1 DEF Emptied, NoEntry
<1>8. TodoEntries' BY <1>0, <1>2, <1>4 DEF TodoEntries
<1>9. SocketsKnown'
  <2> SUFFICES ASSUME NEW g \in Fds, sockOf'[g] # NoConn
               PROVE  cdata'[sockOf'[g]] \in {"live", "destroyed"} /\ cfd'[sockOf'[g]] = g
    BY DEF SocketsKnown
  <2>1. CASE g = fd BY <1>0, <1>1, <1>2, <1>3, <2>1
  <2>2. CASE g # fd
    <3>1. sockOf'[g] = sockOf[g] /\ sockOf[g] \in Conns BY <1>0, <1>1, <2>2
    <3>2. cdata[sockOf[g]] \in {"live", "destroyed"} /\ cfd[sockOf[g]] = g
      BY <3>1 DEF SocketsKnown
    <3>3. sockOf[g] # c BY <1>3, <3>2
    <3> QED BY <1>0, <1>1, <1>2, <1>3, <3>1, <3>2, <3>3
  <2> QED BY <2>1, <2>2
<1>10. Fresh'
  <2> SUFFICES ASSUME NEW d \in Conns, cdata'[d] = "none" PROVE rd[d] = 0 BY <1>2 DEF Fresh
  <2>1. d # c BY <1>0, <1>2, <1>3
  <2> QED BY <1>0, <1>2, <1>3, <2>1 DEF Fresh
<1> QED BY <1>5, <1>6, <1>7, <1>8, <1>9, <1>10

LEMMA InsertHolding == ASSUME OneInv, NEW x \in Frames, Insert(x) PROVE Holding'
<1> USE DEF OneInv, Holding
<1> DEFINE c == con[x]
<1>0. /\ pc \in [Frames -> Labels] /\ table \in [Fds -> Conns \cup {NoConn}]
  BY DEF EntryInv, Inv, FrameTypes, DataTypes
<1>1. /\ pc[x] = "cn_insert" /\ c \in Conns /\ cfd[c] \in Fds
      /\ table' = [table EXCEPT ![cfd[c]] = c] /\ pc' = [pc EXCEPT ![x] = "cn_setup"]
      /\ UNCHANGED <<con, cdata, cfd, up, todo, sockOf, rd>>
  BY DEF EntryInv, Inv, FramesKnow, ConLabels, Insert, Insertable, At, Goto, net
<1>2. \A y \in Frames : y # x => pc'[y] = pc[y] BY <1>0, <1>1
<1>3. {"listen", "table", "queue"} \subseteq up BY <1>1 DEF Listening, Accepting
<1>4. ReadLive' BY <1>0, <1>1, <1>2 DEF ReadLive, Reading
<1>5. Listening' BY <1>0, <1>1, <1>2 DEF Listening, Accepting, Closed, StartLabels
<1>6. Emptied' BY <1>1, <1>3 DEF Emptied
<1>7. TodoEntries'
  <2>1. \A y \in Frames : pc[y] # "ka_scan" BY <1>1, NoScan DEF EntryInv, HoldsTable
  <2> QED BY <1>0, <1>1, <1>2, <2>1 DEF TodoEntries
<1>8. SocketsKnown' /\ Fresh' BY <1>1 DEF SocketsKnown, Fresh
<1> QED BY <1>4, <1>5, <1>6, <1>7, <1>8

\* iter_keep_alives begins with the entries that are there.
LEMMA ScanHolding == ASSUME OneInv, NEW x \in Frames, iter_keep_alives(x) PROVE Holding'
<1> USE DEF OneInv, Holding
<1>0. pc \in [Frames -> Labels] BY DEF EntryInv, Inv, FrameTypes
<1>1. /\ pc[x] = "ka_try"
      /\ \/ pc' = [pc EXCEPT ![x] = "ka_scan"] /\ todo' = {fd \in Fds : table[fd] # NoConn}
         \/ pc' = [pc EXCEPT ![x] = "idle"] /\ todo' = todo
      /\ UNCHANGED <<con, table, cdata, cfd, up, sockOf, rd>>
  BY DEF iter_keep_alives, At, Goto, srv, net
<1>2. /\ pc'[x] \in {"ka_scan", "idle"}
      /\ \A y \in Frames : y # x => pc'[y] = pc[y]
  BY <1>0, <1>1
<1>3. ReadLive' BY <1>1, <1>2 DEF ReadLive, Reading
<1>4. Listening' BY <1>1, <1>2 DEF Listening, Accepting, Closed, StartLabels
<1>5. Emptied'
  <2>1. pc[MainApi] \in Emptying => pc'[MainApi] \in Emptying
    BY <1>1, <1>2, MainFrames DEF Emptying
  <2> QED BY <1>1, <2>1 DEF Emptied, NoEntry
<1>6. TodoEntries'
  <2>1. CASE todo' = {fd \in Fds : table[fd] # NoConn} BY <1>1, <2>1 DEF TodoEntries
  <2>2. CASE pc' = [pc EXCEPT ![x] = "idle"] /\ todo' = todo
    BY <1>0, <1>1, <2>2 DEF TodoEntries
  <2> QED BY <1>1, <2>1, <2>2
<1>7. SocketsKnown' /\ Fresh' BY <1>1 DEF SocketsKnown, Fresh
<1> QED BY <1>3, <1>4, <1>5, <1>6, <1>7

\* What stop_server clears.
LEMMA PointerHolding ==
    ASSUME OneInv, NEW x \in Frames, StopSignals(x) \/ StopTable(x) \/ StopQueue(x)
    PROVE  Holding'
<1> USE DEF OneInv, Holding
<1>0. pc \in [Frames -> Labels] BY DEF EntryInv, Inv, FrameTypes
<1>1. x = MainApi /\ top[x[1]] = x[2]
  BY DEF StopSignals, StopTable, StopQueue, At, Placement, Places, Closed, MainApi
<1>2. \A y \in Frames : pc[y] \notin Reading \cup Accepting BY <1>1, NoHandler, LabelsApart
<1>3. /\ UNCHANGED <<con, table, cdata, cfd, todo, sockOf, rd>>
      /\ "listen" \notin up' /\ pc' = [pc EXCEPT ![x] = pc'[x]]
      /\ pc'[x] \in {"idle", "stop_lock", "stop_qlock"}
  <2>1. CASE StopSignals(x) BY <1>0, <2>1 DEF StopSignals, Goto
  <2>2. CASE StopTable(x) \/ StopQueue(x)
    <3>1. pc[x] \in Closed BY <2>2 DEF StopTable, StopQueue, At, Closed
    <3> QED BY <1>0, <2>2, <3>1 DEF StopTable, StopQueue, Goto, net, Listening
  <2> QED BY <2>1, <2>2
<1>4. \A y \in Frames : y # x => pc'[y] = pc[y] BY <1>0, <1>3
<1>5. \A y \in Frames : pc'[y] \notin StartLabels
  <2>1. pc'[x] \notin StartLabels BY <1>3 DEF StartLabels
  <2> QED BY <1>1, <1>4, <2>1 DEF Placement, Places
<1>6. ReadLive' BY <1>3, <1>4 DEF ReadLive, Reading
<1>7. Listening' BY <1>2, <1>3, <1>4, <1>5 DEF Listening, Accepting, StartLabels
<1>8. Emptied'
  <2>1. CASE StopSignals(x)
    <3>1. CASE "table" \in up
      BY <1>0, <1>1, <1>3, <2>1, <3>1 DEF StopSignals, Goto, Emptied, Emptying, NoEntry
    <3>2. CASE "table" \notin up BY <1>3, <3>2 DEF EntryInv, Entries, NullTable, Emptied, NoEntry
    <3> QED BY <3>1, <3>2
  <2>2. CASE StopTable(x) BY <1>3, <2>2 DEF StopTable, Emptied, NoEntry
  <2>3. CASE StopQueue(x)
    <3>1. pc[MainApi] = "stop_qfree" /\ "listen" \notin up
      BY <1>1, <2>3 DEF StopQueue, At, Listening, Closed
    <3>2. NoEntry BY <3>1 DEF Emptied, Emptying
    <3> QED BY <1>3, <3>2 DEF Emptied, NoEntry
  <2> QED BY <2>1, <2>2, <2>3
<1>9. TodoEntries' BY <1>3, <1>4 DEF TodoEntries
<1>10. SocketsKnown' /\ Fresh' BY <1>3 DEF SocketsKnown, Fresh
<1> QED BY <1>6, <1>7, <1>8, <1>9, <1>10

\* What start_server makes, and discards when it fails.
LEMMA StartHolding == ASSUME OneInv, NEW x \in Frames, Start(x) PROVE Holding'
<1> USE DEF OneInv, Holding
<1>0. pc \in [Frames -> Labels] BY DEF EntryInv, Inv, FrameTypes
<1>1. CASE Race(x)
  <2>1. UNCHANGED <<pc, con, todo, up, table, cdata, cfd, sockOf, rd>>
    BY <1>1 DEF Race, frm, srv, net
  <2> QED BY <2>1, StillStep DEF Still
<1>2. CASE StartPlain(x)
  <2>1. /\ UNCHANGED <<con, table, cdata, cfd, todo, sockOf, rd>>
        /\ \E l \in StartLabels \cup {"idle"} : pc' = [pc EXCEPT ![x] = l]
        /\ x = MainApi /\ pc[x] \in StartLabels
        /\ \A y \in Frames : pc[y] \notin IoLabels \cup ConnectLabels
    BY <1>2, StartAlone DEF StartPlain, Goto, net
  <2>2. /\ pc'[x] \in StartLabels \cup {"idle"}
        /\ \A y \in Frames : y # x => pc'[y] = pc[y] /\ pc'[y] \notin StartLabels \cup Closed
    BY <1>0, <2>1 DEF Placement, Places
  <2>3. NoEntry BY <2>1, FindsNoEntry DEF StartsClean, NoEntry
  <2>4. /\ "listen" \in up' => {"table", "queue"} \subseteq up' /\ pc'[x] = "idle"
        /\ pc'[x] \in {"st_table", "st_signals", "st_timer", "st_listen"} => "queue" \in up'
        /\ pc'[x] \in {"st_signals", "st_timer", "st_listen"} => "table" \in up'
    <3>0. /\ "listen" \notin up
          /\ pc[x] \in {"st_table", "st_signals", "st_timer", "st_listen"} => "queue" \in up
          /\ pc[x] \in {"st_signals", "st_timer", "st_listen"} => "table" \in up
      BY <2>1 DEF Listening
    <3> USE <1>0, <3>0 DEF At, Goto
    <3>1. CASE StartQueue(x) BY <3>1 DEF StartQueue
    <3>2. CASE StartTable(x) BY <3>2 DEF StartTable
    <3>3. CASE StartSignals(x) BY <3>3 DEF StartSignals
    <3>4. CASE StartTimer(x) BY <3>4 DEF StartTimer
    <3>5. CASE StartListen(x) BY <3>5 DEF StartListen
    <3>6. CASE UndoQueue(x) BY <3>6 DEF UndoQueue
    <3>7. CASE UndoTable(x) BY <3>7 DEF UndoTable
    <3>8. ~UndoClose(x) /\ \A fd \in Fds : ~UndoFree(x, fd)
      BY <2>1, <2>3 DEF UndoClose, CloseEntry, UndoFree, FreeEntry, NoEntry, StartLabels
    <3>9. CASE Race(x) BY <2>1, <2>2, <3>9 DEF Race, frm, srv
    <3> QED BY <3>1, <3>2, <3>3, <3>4, <3>5, <3>6, <3>7, <3>8, <3>9 DEF Start
  <2>5. \A y \in Frames : pc'[y] \notin Reading \cup Accepting \cup Closed
    <3>1. pc'[x] \notin Reading \cup Accepting \cup Closed BY <2>2, LabelsApart
    <3> QED BY <2>1, <2>2, <3>1, LabelsApart
  <2>6. ReadLive' BY <2>5 DEF ReadLive
  <2>7. Listening' BY <2>2, <2>4, <2>5, LabelsApart DEF Listening, StartLabels
  <2>8. Emptied' BY <2>1, <2>3 DEF Emptied, NoEntry
  <2>9. TodoEntries' BY <2>1, <2>2 DEF TodoEntries, StartLabels
  <2>10. SocketsKnown' /\ Fresh' BY <2>1 DEF SocketsKnown, Fresh
  <2> QED BY <2>6, <2>7, <2>8, <2>9, <2>10
<1> QED BY <1>1, <1>2, StartAlone

LEMMA HoldingStep == ASSUME OneInv, [Next]_vars PROVE Holding'
<1>0. ASSUME Still PROVE Holding' BY <1>0, StillStep DEF OneInv
<1>1. ASSUME NEW x \in Frames, IoHandler(x) PROVE Holding'
  BY <1>0, <1>1, IoHandlerStill, LookupHolding, FreeHolding, CloseHolding
<1>2. ASSUME NEW x \in Frames, ConnectHandler(x) PROVE Holding'
  BY <1>0, <1>2, ConnectHandlerStill, AcceptHolding, InsertHolding, CloseHolding
<1>3. ASSUME NEW x \in Frames, OwnSteps(x) PROVE Holding'
  <2>1. CASE \E fd \in Fds : StopFree(x, fd) BY <2>1, FreeHolding
  <2> QED BY <1>0, <1>3, <2>1, OwnStepsStill, CloseHolding, PointerHolding, ScanHolding
          DEF OwnSteps, KeepAliveCheck, Call, Finish
<1>4. CASE KernelSteps BY <1>0, <1>4, KernelStepsStill
<1>5. CASE UNCHANGED vars
  <2>1. UNCHANGED <<pc, con, todo, up, table, cdata, cfd, sockOf, rd>> BY <1>5 DEF vars, frm, srv, net
  <2> QED BY <1>0, <2>1 DEF Still
<1> QED BY <1>1, <1>2, <1>3, <1>4, <1>5, StartHolding DEF Next, Step, OwnSteps, KernelSteps

LEMMA OneInit == Init => OneInv
<1> SUFFICES ASSUME Init PROVE OneInv OBVIOUS
<1>1. EntryInv BY EntryInit
<1>2. Placement BY LabelsApart, MainFrames DEF Init, Placement, Places, Stack
<1>3. Holding
  <2>1. \A y \in Frames : pc[y] \notin Reading \cup Accepting \cup Closed \cup StartLabels
    BY DEF Init, Reading, Accepting, Closed, StartLabels
  <2> QED BY <2>1 DEF StartLabels, Init, Holding, ReadLive, Listening, Emptied, NoEntry, TodoEntries,
                      SocketsKnown, Fresh
<1> QED BY <1>1, <1>2, <1>3 DEF OneInv

LEMMA OneStep == ASSUME OneThread, OneInv, [Next]_vars PROVE OneInv'
<1>1. EntryInv' BY FindsNoEntry, EntryInvStep DEF OneInv
<1>2. Placement' BY PlacementStep
<1>3. Holding' BY HoldingStep
<1> QED BY <1>1, <1>2, <1>3 DEF OneInv

\* The handlers' connection is live whenever it is used, so no step uses a
\* ConnectionData that was freed.
LEMMA FateStep == ASSUME OneInv, NoUseAfterFree, [Next]_vars PROVE NoUseAfterFree'
<1> USE DEF NoUseAfterFree
<1>1. ASSUME NEW x \in Frames, IoHandler(x) PROVE NoUseAfterFree'
  <2>1. ~UseAfterFree(x) BY DEF OneInv, Holding, ReadLive, UseAfterFree, At, Reading
  <2>2. UNCHANGED fate
    BY <1>1, <2>1 DEF IoHandler, IoLookup, IoDestroyed, IoPeek, ReportFails, ReportPush, FetchNewline,
           FetchEnd, FetchObject, FetchKeepAlive, FetchError, DestroyFree, DestroyMisses,
           DestroyAgain, DestroyClose
  <2> QED BY <2>2
<1>2. ASSUME NEW x \in Frames, ConnectHandler(x) PROVE NoUseAfterFree'
  BY <1>2 DEF ConnectHandler, AcceptFails, AcceptAborts, Accept, Insert, InsertExits, InsertFails,
              InsertFree, Setup
<1>3. ASSUME NEW x \in Frames, OwnSteps(x) PROVE NoUseAfterFree'
  BY <1>3 DEF OwnSteps, KeepAliveCheck, Call, Finish, Acquire, iter_keep_alives, TickDone,
         check_keep_alive, Tick, CallLock, read_message, get_connected_list, ListAborts,
         start_server, stop_server, StopSignals, StopFree, FreeEntry, StopClose, CloseEntry,
         StopTable, StopQueue
<1>4. CASE KernelSteps
  BY <1>4 DEF KernelSteps, Peer, Connect, Arrive, Fin, Expire, TakeConnect, TakeRead
<1>5. CASE UNCHANGED vars BY <1>5 DEF vars
<1>6. ASSUME NEW x \in Frames, Start(x) PROVE NoUseAfterFree'
  BY <1>6, StartAlone DEF StartPlain, Race
<1> QED BY <1>1, <1>2, <1>3, <1>4, <1>5, <1>6 DEF Next, Step, OwnSteps, KernelSteps

\* A server that does not listen, whose stop_server has emptied the table and
\* whose main thread is in no handler, has nothing left to be freed or closed.
LEMMA NothingLeft ==
    ASSUME OneInv, top[Main] = "api", "listen" \notin up, pc[MainApi] \notin Emptying
    PROVE  /\ \A c \in Conns : cdata[c] \in {"none", "freed"}
           /\ \A fd \in Fds : sockOf[fd] = NoConn
<1> USE DEF OneInv, Holding
<1>1. /\ cdata \in [Conns -> {"none", "live", "destroyed", "freed"}]
      /\ sockOf \in [Fds -> Conns \cup {NoConn}]
  BY DEF EntryInv, Inv, DataTypes, KernelTypes
<1>2. NoEntry BY DEF Emptied
<1>3. \A y \in Frames : pc[y] \notin Accepting \cup Destroying
  <2>1. pc[MainIo] = "idle" /\ pc[MainConn] = "idle" BY DEF Placement, Stack
  <2>2. /\ Accepting \subseteq ConnectLabels
        /\ Destroying \subseteq IoLabels \cup Emptying \cup {"undo_close"}
    BY DEF ConnectLabels, IoLabels, Emptying, Destroying
  <2> QED BY <2>1, <2>2, LabelsApart DEF Placement, Places, EntryInv, Entries, StartsRight
<1>4. ASSUME NEW c \in Conns PROVE cdata[c] \in {"none", "freed"}
  <2>1. cdata[c] # "live"
    BY <1>2, <1>3, ServerAssumption DEF EntryInv, Entries, LiveHasEntry, NoEntry
  <2>2. cdata[c] # "destroyed" BY <1>3 DEF EntryInv, Entries, DestroyedHeld
  <2> QED BY <1>1, <2>1, <2>2
<1>5. ASSUME NEW fd \in Fds PROVE sockOf[fd] = NoConn BY <1>1, <1>4 DEF SocketsKnown
<1> QED BY <1>4, <1>5

-----------------------------------------------------------------------------
(* Theorems.  What modules ServerProofs and OrderProofs prove of starts    *)
(* that do not fail before listen and do not follow one that failed holds  *)
(* whatever starts fail, now that start_server finds an empty table.       *)

\* The handlers, the keep-alive check, read_message, get_connected_list and
\* stop_server own the mutex whose critical section they are in, and meanwhile no
\* entry of connections_table comes or goes, even when start_server, which locks
\* no mutex, follows a failed one at once or fails at any place.  That
\* start_server assigns connections_table and read_buff under their mutexes is
\* not claimed.
THEOREM MutualExclusionOne == OneThread => (Spec => Exclusion)
<1> SUFFICES ASSUME OneThread PROVE Spec => Exclusion OBVIOUS
<1> DEFINE Kept == \A x \in Frames : pc[x] \in HoldsTable /\ pc'[x] = pc[x] => table' = table
           Excludes == LocksHeld' /\ Kept
<1>1. OneInv /\ [Next]_vars => OneInv' BY OneStep
<1>2. OneInv' => LocksHeld' BY DEF OneInv, EntryInv
<1>3. OneInv /\ [Next]_vars => [Excludes]_vars BY <1>1, <1>2, FindsNoEntry, EntriesKept DEF OneInv
<1> QED BY OneInit, <1>1, <1>3, PTL DEF Spec, Exclusion, Excludes, Kept

\* destroy_connection finds its entry.
THEOREM RemoveFindsOne == OneThread => (Spec => []RemoveFindsEntry)
<1> SUFFICES ASSUME OneThread PROVE Spec => []RemoveFindsEntry OBVIOUS
<1>1. OneInv /\ [Next]_vars => OneInv' BY OneStep
<1>2. OneInv => RemoveFindsEntry BY FindsEntry DEF OneInv
<1> QED BY OneInit, <1>1, <1>2, PTL DEF Spec

\* "Connection closed" comes last, whatever starts fail.
THEOREM ClosedLastOne == OneThread => (Spec => []ClosedIsLast)
<1> SUFFICES ASSUME OneThread PROVE Spec => []ClosedIsLast OBVIOUS
<1>1. Init => Last
  BY DEF Init, Last, Sole, OneSpeaker, Silent, SaidGoes, ClosedIsLast, Said, Locked, Speaking
<1>2. OneInv /\ [Next]_vars => OneInv' BY OneStep
<1>3. OneInv /\ Last /\ [Next]_vars => Last' BY FindsNoEntry, LastStep DEF OneInv
<1>4. Last => ClosedIsLast BY DEF Last
<1> QED BY OneInit, <1>1, <1>2, <1>3, <1>4, PTL DEF Spec

\* No handler uses a ConnectionData after free_connectiondata: neither the
\* stop_server that frees it nor a later signal for its descriptor finds the
\* handler half way.
THEOREM NeverUsesFreed == OneThread => (Spec => []NoUseAfterFree)
<1> SUFFICES ASSUME OneThread PROVE Spec => []NoUseAfterFree OBVIOUS
<1>1. Init => NoUseAfterFree BY DEF Init, NoUseAfterFree
<1>2. OneInv /\ [Next]_vars => OneInv' BY OneStep
<1>3. OneInv /\ NoUseAfterFree /\ [Next]_vars => NoUseAfterFree' BY FateStep
<1> QED BY OneInit, <1>1, <1>2, <1>3, PTL DEF Spec

\* The keep-alive check and the handlers never find read_buff NULL: the queue
\* is only freed once the table is empty.
THEOREM QueueOutlives == OneThread => (Spec => []QueueOutlivesTable)
<1> SUFFICES ASSUME OneThread PROVE Spec => []QueueOutlivesTable OBVIOUS
<1>1. OneInv /\ [Next]_vars => OneInv' BY OneStep
<1>2. OneInv => QueueOutlivesTable
  BY DEF OneInv, EntryInv, Inv, FrameTypes, Holding, Emptied, NoEntry, TodoEntries, QueueOutlivesTable
<1> QED BY OneInit, <1>1, <1>2, PTL DEF Spec

\* Once stop_server has returned, every descriptor is closed and every
\* ConnectionData freed, whatever allocations failed and handlers returned early.
THEOREM StopFreesAll == OneThread => (Spec => []StopLeavesNothing)
<1> SUFFICES ASSUME OneThread PROVE Spec => []StopLeavesNothing OBVIOUS
<1>1. OneInv /\ [Next]_vars => OneInv' BY OneStep
<1>2. OneInv => StopLeavesNothing
  BY NothingLeft, LabelsApart DEF StopLeavesNothing, MainApi
<1> QED BY OneInit, <1>1, <1>2, PTL DEF Spec

-----------------------------------------------------------------------------
(* The refinement of module Feed, one lemma for each of its actions.       *)

FeedStep == [AbstractFeed!Next]_(AbstractFeed!vars)
\* No connection but those of D changes its phase.
PhasesBut(D) == \A d \in Conns \ D : PhaseOf(d)' = PhaseOf(d)
Phases == [d \in Conns |-> PhaseOf(d)]

LEMMA PhasesSame == ASSUME PhasesBut({}) PROVE Phases' = Phases
BY DEF Phases, PhasesBut
LEMMA PhasesBecome ==
    ASSUME NEW c \in Conns, NEW p, PhaseOf(c)' = p, PhasesBut({c})
    PROVE  Phases' = [Phases EXCEPT ![c] = p]
BY DEF Phases, PhasesBut

LEMMA FeedStutters ==
    ASSUME UNCHANGED <<stream, rd, queue>>, PhasesBut({})
    PROVE  FeedStep
BY PhasesSame DEF FeedStep, AbstractFeed!vars, Phases

LEMMA FeedSends ==
    ASSUME NEW c \in Conns, NEW seg \in Seq(Kinds), stream[c] \in Seq(Kinds),
           stream \in [Conns -> Seq(Kinds)],
           stream' = [stream EXCEPT ![c] = @ \o seg], UNCHANGED <<rd, queue>>, PhasesBut({})
    PROVE  FeedStep
<1>1. CASE seg = <<>>
  <2>1. stream' = stream BY <1>1, ConcatEmptySeq
  <2> QED BY <2>1, FeedStutters
<1>2. CASE seg # <<>>
  <2>1. stream'[c] = stream[c] \o seg OBVIOUS
  <2>2. Len(seg) \in Nat /\ Len(seg) # 0 /\ Len(stream[c]) \in Nat BY <1>2, EmptySeq, LenProperties
  <2>3. Len(stream'[c]) > Len(stream[c]) BY <2>1, <2>2, ConcatProperties
  <2>4. SubSeq(stream'[c], 1, Len(stream[c])) = SubSeq(stream[c], 1, Len(stream[c]))
    BY <2>1, <2>2, SubSeqOfConcat1
  <2>5. SubSeq(stream[c], 1, Len(stream[c])) = stream[c] BY SubSeqFull
  <2>6. stream' = [stream EXCEPT ![c] = stream'[c]] BY <2>1
  <2>7. AbstractFeed!Send(c)
    BY <2>3, <2>4, <2>5, <2>6, PhasesSame DEF AbstractFeed!Send, Phases
  <2> QED BY <2>7 DEF FeedStep, AbstractFeed!Next
<1> QED BY <1>1, <1>2

LEMMA FeedReads ==
    ASSUME NEW c \in Conns, PhaseOf(c) = "open", PhasesBut({}),
           rd \in [Conns -> Nat], Unread(c), rd' = [rd EXCEPT ![c] = @ + 1], UNCHANGED stream,
           \/ /\ NextKind(c) \in {"msg", "bad"}
              /\ queue' = Append(queue, [from |-> c, what |-> NextKind(c), pos |-> rd'[c]])
           \/ NextKind(c) \notin {"msg", "bad"} /\ UNCHANGED queue
           \/ /\ AllocFails /\ NextKind(c) \in {"msg", "ka"}
              /\ queue' = Append(queue, [from |-> c, what |-> "bad", pos |-> rd'[c]])
    PROVE  FeedStep
<1>1. rd'[c] = rd[c] + 1 /\ Phases[c] = "open" BY DEF Phases
<1>2. AbstractFeed!Read(c)
  BY <1>1, PhasesSame DEF AbstractFeed!Read, AbstractFeed!Report, Phases, Unread, NextKind
<1> QED BY <1>2 DEF FeedStep, AbstractFeed!Next

LEMMA FeedCloses ==
    ASSUME NEW c \in Conns, PhaseOf(c) = "open", PhaseOf(c)' = "closed", PhasesBut({c}),
           UNCHANGED <<stream, rd>>,
           queue' = Append(queue, [from |-> c, what |-> "closed", pos |-> rd[c]])
    PROVE  FeedStep
<1>1. Phases[c] = "open" BY DEF Phases
<1>2. AbstractFeed!ReportClosed(c)
  BY <1>1, PhasesBecome DEF AbstractFeed!ReportClosed, AbstractFeed!Report, AbstractFeed!Become, Phases
<1> QED BY <1>2 DEF FeedStep, AbstractFeed!Next

LEMMA FeedDrops ==
    ASSUME NEW c \in Conns, PhaseOf(c) = "open", PhaseOf(c)' = "closed", PhasesBut({c}),
           UNCHANGED <<stream, queue>>,
           \/ UNCHANGED rd
           \/ Unread(c) /\ NextKind(c) = "frag" /\ rd' = [rd EXCEPT ![c] = @ + 1]
    PROVE  FeedStep
<1>1. Phases[c] = "open" BY DEF Phases
<1>2. AbstractFeed!Drop(c)
  BY <1>1, PhasesBecome DEF AbstractFeed!Drop, AbstractFeed!Become, Phases, Unread, NextKind
<1> QED BY <1>2 DEF FeedStep, AbstractFeed!Next

LEMMA FeedForgets ==
    ASSUME NEW c \in Conns, PhaseOf(c) # "gone", PhaseOf(c)' = "gone", PhasesBut({c}),
           UNCHANGED <<stream, rd, queue>>
    PROVE  FeedStep
<1>1. Phases[c] # "gone" BY DEF Phases
<1>2. AbstractFeed!Forget(c)
  BY <1>1, PhasesBecome DEF AbstractFeed!Forget, AbstractFeed!Become, Phases
<1> QED BY <1>2 DEF FeedStep, AbstractFeed!Next

LEMMA FeedTimesOut ==
    ASSUME NEW c \in Conns, PhaseOf(c) # "gone", PhasesBut({}), UNCHANGED <<stream, rd>>,
           queue' = Append(queue, [from |-> c, what |-> "timeout", pos |-> rd[c]])
    PROVE  FeedStep
<1>1. Phases[c] # "gone" BY DEF Phases
<1>2. AbstractFeed!ReportTimeout(c)
  BY <1>1, PhasesSame DEF AbstractFeed!ReportTimeout, AbstractFeed!Report, Phases
<1> QED BY <1>2 DEF FeedStep, AbstractFeed!Next

LEMMA FeedReturns ==
    ASSUME queue # <<>>, queue' = Tail(queue), UNCHANGED <<stream, rd>>, PhasesBut({})
    PROVE  FeedStep
<1>1. AbstractFeed!Return BY PhasesSame DEF AbstractFeed!Return, Phases
<1> QED BY <1>1 DEF FeedStep, AbstractFeed!Next

LEMMA FeedDiscards ==
    ASSUME \A c \in Conns : PhaseOf(c) # "gone" => rd[c] = 0,
           queue' = <<>>, UNCHANGED <<stream, rd>>, PhasesBut({})
    PROVE  FeedStep
<1>1. AbstractFeed!Discard BY PhasesSame DEF AbstractFeed!Discard, Phases
<1> QED BY <1>1 DEF FeedStep, AbstractFeed!Next

-----------------------------------------------------------------------------
(* Each step of the server is one of these.                                *)

LEMMA PhaseCases ==
    ASSUME ReadLive, ReadLive', NEW c \in Conns
    PROVE  /\ cdata[c] \in Gone => PhaseOf(c) = "gone"
           /\ cdata[c] \notin Gone /\ Leaving(c) => PhaseOf(c) = "closed"
           /\ cdata[c] \notin Gone /\ ~Leaving(c) => PhaseOf(c) = "open"
           /\ cdata'[c] \in Gone => PhaseOf(c)' = "gone"
           /\ cdata'[c] \notin Gone /\ Leaving(c)' => PhaseOf(c)' = "closed"
           /\ cdata'[c] \notin Gone /\ ~Leaving(c)' => PhaseOf(c)' = "open"
<1>1. cdata[c] \in Gone => ~Leaving(c) BY DEF ReadLive, Reading, Leaving, Gone
<1>2. cdata'[c] \in Gone => ~Leaving(c)' BY DEF ReadLive, Reading, Leaving, Gone
<1> QED BY <1>1, <1>2 DEF PhaseOf, Gone

\* A step on which no connection changes its phase.
Unmoved ==
    /\ \A c \in Conns : cdata'[c] \in Gone <=> cdata[c] \in Gone
    /\ \A y \in Frames : /\ pc'[y] \in Departing <=> pc[y] \in Departing
                         /\ pc[y] \in Departing => con'[y] = con[y]

LEMMA UnmovedPhases == ASSUME Unmoved PROVE PhasesBut({})
<1> SUFFICES ASSUME NEW c \in Conns PROVE PhaseOf(c)' = PhaseOf(c) BY DEF PhasesBut
<1>1. Leaving(c)' <=> Leaving(c) BY DEF Leaving, Unmoved, Departing
<1>2. cdata'[c] \in Gone <=> cdata[c] \in Gone BY DEF Unmoved
<1> QED BY <1>1, <1>2 DEF PhaseOf, Gone

\* The connection that io_handler works on: open, until the handler itself
\* begins to destroy it, and there is a queue to report it to.
LEMMA HandlerPhase ==
    ASSUME OneInv, NEW x \in Frames, pc[x] \in Reading
    PROVE  /\ con[x] \in Conns /\ cdata[con[x]] = "live" /\ "queue" \in up
           /\ \A y \in Frames : pc[y] \in Reading => y = x
<1>1. con[x] \in Conns /\ cdata[con[x]] = "live"
  BY DEF OneInv, EntryInv, Inv, FramesKnow, ConLabels, Holding, ReadLive, Reading
<1>2. cfd[con[x]] \in Fds /\ table[cfd[con[x]]] = con[x]
  BY <1>1 DEF OneInv, EntryInv, Entries, LiveHasEntry, ReadAccepted
<1>3. "queue" \in up BY <1>1, <1>2, ServerAssumption DEF OneInv, Holding, Emptied, NoEntry
<1>4. \A y \in Frames : pc[y] \in Reading => y = x
  BY LabelsApart DEF OneInv, Placement, Places
<1> QED BY <1>1, <1>3, <1>4

LEMMA IoHandlerUnmoved ==
    ASSUME OneInv, NEW x \in Frames,
           \/ IoLookup(x)
           \/ IoDestroyed(x)
           \/ IoPeek(x)
           \/ ReportFails(x)
           \/ FetchNewline(x)
           \/ FetchEnd(x)
           \/ FetchObject(x)
           \/ FetchKeepAlive(x)
           \/ DestroyClose(x)
    PROVE  Unmoved
<1>0. /\ pc \in [Frames -> Labels] /\ con \in [Frames -> Conns \cup {NoConn}]
      /\ cdata \in [Conns -> {"none", "live", "destroyed", "freed"}]
  BY DEF OneInv, EntryInv, Inv, FrameTypes, DataTypes
<1> USE <1>0 DEF Unmoved, Departing, Gone, At, Goto, Return, ReadDone, Fetching, frm, srv, net
<1>1. CASE IoLookup(x) BY <1>1 DEF IoLookup
<1>2. CASE IoDestroyed(x) BY <1>2 DEF IoDestroyed
<1>3. CASE IoPeek(x) BY <1>3 DEF IoPeek
<1>4. CASE ReportFails(x) BY <1>4 DEF ReportFails
<1>5. CASE FetchNewline(x) BY <1>5 DEF FetchNewline
<1>6. CASE FetchEnd(x) BY <1>6 DEF FetchEnd
<1>7. CASE FetchObject(x) BY <1>7 DEF FetchObject
<1>8. CASE FetchKeepAlive(x) BY <1>8 DEF FetchKeepAlive
<1>9. CASE DestroyClose(x)
  <2>1. con[x] \in Conns => cdata[con[x]] = "destroyed"
    BY <1>9 DEF DestroyClose, OneInv, EntryInv, Entries, DestroyedKnown, Destroying
  <2>2. \A c \in Conns : cdata'[c] \in Gone <=> cdata[c] \in Gone
    BY <1>9, <2>1 DEF DestroyClose, Life
  <2> QED BY <1>9, <2>2 DEF DestroyClose
<1> QED BY <1>1, <1>2, <1>3, <1>4, <1>5, <1>6, <1>7, <1>8, <1>9

\* connect_handler gives up no connection but in its failure path.
LEMMA ConnectHandlerUnmoved ==
    ASSUME OneInv, NEW x \in Frames, ConnectHandler(x), ~InsertFree(x)
    PROVE  Unmoved /\ UNCHANGED <<stream, rd, queue>>
<1>0. /\ pc \in [Frames -> Labels] /\ con \in [Frames -> Conns \cup {NoConn}]
      /\ cdata \in [Conns -> {"none", "live", "destroyed", "freed"}] /\ backlog \in Seq(Conns)
  BY DEF OneInv, EntryInv, Inv, FrameTypes, DataTypes, KernelTypes
<1> USE <1>0 DEF Unmoved, Departing, Gone, At, Goto, Return, frm, srv, net
<1>1. CASE AcceptFails(x) BY <1>1 DEF AcceptFails
<1>2. CASE AcceptAborts(x) BY <1>2 DEF AcceptAborts
<1>3. CASE Accept(x)
  <2> DEFINE c == Head(backlog)
  <2>1. backlog # <<>> /\ cdata' = [cdata EXCEPT ![c] = "live"] BY <1>3 DEF Accept, CanAccept, Life
  <2>2. c \in Conns /\ cdata[c] = "none"
    <3>1. c = backlog[1] /\ 1 \in 1..Len(backlog) /\ c \in Conns
      BY <1>0, <2>1, HeadTailProperties, EmptySeq
    <3> QED BY <3>1 DEF OneInv, EntryInv, Entries, BacklogFresh
  <2> HIDE DEF c
  <2>3. \A d \in Conns : cdata'[d] \in Gone <=> cdata[d] \in Gone BY <2>1, <2>2
  <2> QED BY <1>3, <2>3 DEF Accept
<1>4. CASE Insert(x) BY <1>4 DEF Insert
<1>5. CASE InsertExits(x) BY <1>5 DEF InsertExits
<1>6. CASE InsertFails(x) BY <1>6 DEF InsertFails
<1>7. CASE Setup(x) BY <1>7 DEF Setup
<1> QED BY <1>1, <1>2, <1>3, <1>4, <1>5, <1>6, <1>7 DEF ConnectHandler

LEMMA OwnStepsUnmoved ==
    ASSUME OneInv, NEW x \in Frames, OwnSteps(x), ~\E fd \in Fds : StopFree(x, fd)
    PROVE  Unmoved
<1>0. /\ pc \in [Frames -> Labels] /\ con \in [Frames -> Conns \cup {NoConn}]
      /\ cdata \in [Conns -> {"none", "live", "destroyed", "freed"}]
  BY DEF OneInv, EntryInv, Inv, FrameTypes, DataTypes
<1> USE <1>0 DEF Unmoved, Departing, Gone, At, Goto, Return, frm, srv, net
<1>1. CASE Acquire(x) BY <1>1 DEF Acquire, Waiting, WaitLabels, After
<1>2. CASE TickDone(x) \/ iter_keep_alives(x) \/ Tick(x)
  BY <1>2 DEF TickDone, iter_keep_alives, Tick
<1>3. CASE \E fd \in Fds : check_keep_alive(x, fd) BY <1>3 DEF check_keep_alive
<1>4. CASE \E m \in {read_buff_mux, connections_mux} : CallLock(x, m)
  BY <1>4 DEF CallLock, IsCall
<1>5. CASE read_message(x) \/ get_connected_list(x) \/ ListAborts(x)
  BY <1>5 DEF read_message, get_connected_list, ListAborts
<1>6. CASE start_server(x) BY <1>6 DEF start_server, MainIdle, IsCall
<1>7. CASE stop_server(x) BY <1>7 DEF stop_server, MainIdle, IsCall
<1>8. CASE StopSignals(x) BY <1>8 DEF StopSignals
<1>9. CASE StopClose(x)
  <2>1. con[x] \in Conns => cdata[con[x]] = "destroyed"
    BY <1>9 DEF StopClose, CloseEntry, OneInv, EntryInv, Entries, DestroyedKnown, Destroying
  <2>2. \A c \in Conns : cdata'[c] \in Gone <=> cdata[c] \in Gone
    BY <1>9, <2>1 DEF StopClose, CloseEntry, Life
  <2> QED BY <1>9, <2>2 DEF StopClose, CloseEntry
<1>10. CASE StopTable(x) \/ StopQueue(x) BY <1>10 DEF StopTable, StopQueue
<1> QED BY <1>1, <1>2, <1>3, <1>4, <1>5, <1>6, <1>7, <1>8, <1>9, <1>10
        DEF OwnSteps, KeepAliveCheck, Call, Finish

LEMMA StartUnmoved == ASSUME OneInv, NEW x \in Frames, Start(x) PROVE Unmoved
<1>0. pc \in [Frames -> Labels] BY DEF OneInv, EntryInv, Inv, FrameTypes
<1>1. CASE Race(x) BY <1>1 DEF Race, frm, srv, Unmoved
<1>2. CASE StartPlain(x)
  <2>1. /\ UNCHANGED <<con, cdata>> /\ pc[x] \in StartLabels
        /\ \E l \in StartLabels \cup {"idle"} : pc' = [pc EXCEPT ![x] = l]
    BY <1>2 DEF StartPlain, Goto
  <2>2. \A y \in Frames : \/ pc'[y] = pc[y]
                          \/ pc[y] \in StartLabels /\ pc'[y] \in StartLabels \cup {"idle"}
    BY <1>0, <2>1
  <2> QED BY <2>1, <2>2 DEF Unmoved, Departing, StartLabels
<1> QED BY <1>1, <1>2, StartAlone

LEMMA KernelStepsUnmoved == ASSUME OneInv, KernelSteps PROVE Unmoved
<1>0. pc \in [Frames -> Labels] BY DEF OneInv, EntryInv, Inv, FrameTypes
<1>1. CASE Peer
  <2>1. UNCHANGED <<frm, cdata>> BY <1>1 DEF Peer, Connect, Arrive, Fin, Expire, srv
  <2> QED BY <2>1 DEF Unmoved, frm
<1>2. CASE \E t \in Threads : TakeConnect(t)
  <2>1. PICK t \in Threads : TakeConnect(t) BY <1>2
  <2>2. /\ UNCHANGED <<con, cdata>>
        /\ \/ pc' = [pc EXCEPT ![<<t, "conn">>] = "cn_accept"] /\ pc[<<t, "conn">>] = "idle"
           \/ UNCHANGED pc
    BY <2>1 DEF TakeConnect, Enter, Goto, Deliverable, srv
  <2> QED BY <1>0, <2>2 DEF Unmoved, Departing
<1>3. CASE \E t \in Threads : TakeRead(t)
  <2>1. PICK t \in Threads : TakeRead(t) BY <1>3
  <2>2. /\ UNCHANGED <<con, cdata>>
        /\ \/ pc' = [pc EXCEPT ![<<t, "io">>] = "io_lock"] /\ pc[<<t, "io">>] = "idle"
           \/ UNCHANGED pc
    BY <2>1 DEF TakeRead, Enter, Goto, Deliverable, srv
  <2> QED BY <1>0, <2>2 DEF Unmoved, Departing
<1> QED BY <1>1, <1>2, <1>3 DEF KernelSteps

\* object_reader reads one object, or gives the connection up.
LEMMA ReadFeed ==
    ASSUME OneInv, OneInv', NEW x \in Frames,
           FetchNewline(x) \/ FetchObject(x) \/ FetchKeepAlive(x)
    PROVE  FeedStep
<1> DEFINE c == con[x]
<1>1. pc[x] = "fetch" /\ pc[x] \in Reading
  BY DEF FetchNewline, FetchObject, FetchKeepAlive, Fetching, At, Reading
<1>2. c \in Conns /\ cdata[c] = "live" /\ "queue" \in up /\ \A y \in Frames : pc[y] \in Reading => y = x
  BY <1>1, HandlerPhase
<1>3. rd \in [Conns -> Nat] BY DEF OneInv, EntryInv, Inv, KernelTypes
<1>4. PhaseOf(c) = "open"
  <2>1. ~Leaving(c) BY <1>1, <1>2 DEF Leaving, Reading
  <2> QED BY <1>2, <2>1, PhaseCases DEF OneInv, Holding, Gone
<1>5. PhasesBut({}) BY IoHandlerUnmoved, UnmovedPhases
<1>6. /\ Unread(c) /\ rd' = [rd EXCEPT ![c] = @ + 1] /\ UNCHANGED stream
      /\ \/ /\ NextKind(c) \in {"msg", "bad"}
            /\ queue' = Append(queue, [from |-> c, what |-> NextKind(c), pos |-> rd'[c]])
         \/ NextKind(c) \notin {"msg", "bad"} /\ UNCHANGED queue
         \/ /\ AllocFails /\ NextKind(c) \in {"msg", "ka"}
            /\ queue' = Append(queue, [from |-> c, what |-> "bad", pos |-> rd'[c]])
  <2>1. CASE FetchNewline(x) BY <2>1 DEF FetchNewline, Fetching, srv
  <2>2. CASE FetchObject(x)
    <3>1. PICK what \in Decoded(c) \ {"ka"} : Push(c, what, rd'[c]) BY <2>2 DEF FetchObject
    <3>2. queue' = Append(queue, [from |-> c, what |-> what, pos |-> rd'[c]])
      BY <1>2, <3>1 DEF Push
    <3>3. /\ NextKind(c) \in {"msg", "bad", "ka"} /\ Unread(c)
          /\ rd' = [rd EXCEPT ![c] = @ + 1] /\ UNCHANGED stream
      BY <2>2 DEF FetchObject, Fetching
    <3>4. \/ what = NextKind(c) /\ NextKind(c) # "ka"
          \/ AllocFails /\ what = "bad"
      BY <3>1 DEF Decoded
    <3> QED BY <3>2, <3>3, <3>4
  <2>3. CASE FetchKeepAlive(x) BY <2>3 DEF FetchKeepAlive, Fetching
  <2> QED BY <2>1, <2>2, <2>3
<1> QED BY <1>2, <1>3, <1>4, <1>5, <1>6, FeedReads

LEMMA LeaveFeed ==
    ASSUME OneInv, OneInv', NEW x \in Frames, FetchError(x) \/ ReportPush(x)
    PROVE  FeedStep
<1> DEFINE c == con[x]
<1>0. pc \in [Frames -> Labels] /\ con \in [Frames -> Conns \cup {NoConn}] /\ rd \in [Conns -> Nat]
  BY DEF OneInv, EntryInv, Inv, FrameTypes, KernelTypes
<1>1. /\ pc[x] \in {"fetch", "rc_push"} /\ pc[x] \in Reading
      /\ pc' = [pc EXCEPT ![x] = "dc_lock"] /\ UNCHANGED <<con, cdata, stream>>
  BY DEF FetchError, ReportPush, Fetching, At, Goto, Reading, srv, net
<1>2. c \in Conns /\ cdata[c] = "live" /\ "queue" \in up /\ \A y \in Frames : pc[y] \in Reading => y = x
  BY <1>1, HandlerPhase
<1>3. PhaseOf(c) = "open"
  <2>1. ~Leaving(c) BY <1>1, <1>2 DEF Leaving, Reading
  <2> QED BY <1>2, <2>1, PhaseCases DEF OneInv, Holding, Gone
<1>4. PhaseOf(c)' = "closed"
  <2>1. Leaving(c)' BY <1>0, <1>1 DEF Leaving
  <2> QED BY <1>1, <1>2, <2>1, PhaseCases DEF OneInv, Holding, Gone
<1>5. PhasesBut({c})
  <2> SUFFICES ASSUME NEW d \in Conns, d # c PROVE PhaseOf(d)' = PhaseOf(d) BY DEF PhasesBut
  <2>1. Leaving(d)' <=> Leaving(d) BY <1>0, <1>1 DEF Leaving
  <2> QED BY <1>1, <2>1 DEF PhaseOf
<1>6. CASE ReportPush(x)
  <2>1. queue' = Append(queue, [from |-> c, what |-> "closed", pos |-> rd[c]]) /\ UNCHANGED rd
    BY <1>2, <1>6 DEF ReportPush, Push, net
  <2> QED BY <1>1, <1>2, <1>3, <1>4, <1>5, <2>1, FeedCloses
<1>7. CASE FetchError(x)
  <2>1. /\ UNCHANGED queue
        /\ \/ UNCHANGED rd
           \/ Unread(c) /\ NextKind(c) = "frag" /\ rd' = [rd EXCEPT ![c] = @ + 1]
    BY <1>7 DEF FetchError, Fetching, srv
  <2> QED BY <1>1, <1>2, <1>3, <1>4, <1>5, <2>1, FeedDrops
<1> QED BY <1>6, <1>7

\* A connection is destroyed with its entry, or before it has one.
LEMMA ForgetFeed ==
    ASSUME OneInv, OneInv', NEW x \in Frames,
           DestroyFree(x) \/ InsertFree(x) \/ \E fd \in Fds : StopFree(x, fd)
    PROVE  FeedStep
<1>0. /\ pc \in [Frames -> Labels] /\ con \in [Frames -> Conns \cup {NoConn}]
      /\ table \in [Fds -> Conns \cup {NoConn}]
      /\ cdata \in [Conns -> {"none", "live", "destroyed", "freed"}]
  BY DEF OneInv, EntryInv, Inv, FrameTypes, DataTypes
<1>1. PICK c \in Conns, s \in Gone :
         /\ cdata[c] = "live" /\ cdata' = [cdata EXCEPT ![c] = s]
         /\ \A d \in Conns \ {c} : Leaving(d)' <=> Leaving(d)
         /\ UNCHANGED <<stream, rd, queue>>
  <2>1. CASE DestroyFree(x)
    <3> DEFINE c == con[x]
    <3>1. pc[x] = "dc_free" BY <2>1 DEF DestroyFree, At
    <3>2. c \in Conns /\ cdata[c] = "live" BY <3>1, HandlerPhase DEF Reading
    <3>3. table[cfd[c]] = c BY <3>1, <3>2, FindsEntry DEF OneInv, RemoveFindsEntry
    <3>4. /\ cdata' = [cdata EXCEPT ![c] = "destroyed"] /\ con' = [con EXCEPT ![x] = c]
          /\ pc' = [pc EXCEPT ![x] = "dc_close"] /\ UNCHANGED <<stream, rd, queue>>
      BY <2>1, <3>3 DEF DestroyFree, Life, Goto, net
    <3>5. \A d \in Conns \ {c} : Leaving(d)' <=> Leaving(d) BY <1>0, <3>1, <3>4 DEF Leaving
    <3> QED BY <3>2, <3>4, <3>5 DEF Gone
  <2>2. CASE InsertFree(x)
    <3> DEFINE c == con[x]
    <3>1. pc[x] = "cn_free" /\ c \in Conns /\ cdata[c] = "live"
      BY <2>2 DEF InsertFree, At, OneInv, EntryInv, Inv, FramesKnow, ConLabels, Entries,
                  AcceptedApart, Accepting
    <3>2. /\ cdata' = [cdata EXCEPT ![c] = "freed"] /\ con' = [con EXCEPT ![x] = NoConn]
          /\ pc' = [pc EXCEPT ![x] = "idle"] /\ UNCHANGED <<stream, rd, queue>>
      BY <2>2 DEF InsertFree, Life, Return, Goto
    <3>3. \A d \in Conns \ {c} : Leaving(d)' <=> Leaving(d) BY <1>0, <3>1, <3>2 DEF Leaving
    <3> QED BY <3>1, <3>2, <3>3 DEF Gone
  <2>3. CASE \E fd \in Fds : StopFree(x, fd)
    <3>1. PICK fd \in Fds : StopFree(x, fd) BY <2>3
    <3> DEFINE c == table[fd]
    <3>2. c \in Conns /\ cdata[c] = "live"
      BY <1>0, <3>1 DEF StopFree, FreeEntry, OneInv, EntryInv, Entries, EntryLive
    <3>3. /\ pc[x] = "stop_free"
          /\ cdata' = [cdata EXCEPT ![c] = "destroyed"] /\ con' = [con EXCEPT ![x] = c]
          /\ pc' = [pc EXCEPT ![x] = "stop_close"] /\ UNCHANGED <<stream, rd, queue>>
      BY <3>1 DEF StopFree, FreeEntry, Life, At, Goto, net
    <3>4. \A d \in Conns \ {c} : Leaving(d)' <=> Leaving(d) BY <1>0, <3>3 DEF Leaving
    <3> QED BY <3>2, <3>3, <3>4 DEF Gone
  <2> QED BY <2>1, <2>2, <2>3
<1>2. PhaseOf(c) # "gone"
  BY <1>1, PhaseCases DEF OneInv, Holding, Gone
<1>3. PhaseOf(c)' = "gone"
  <2>1. cdata'[c] \in Gone BY <1>0, <1>1
  <2> QED BY <2>1, PhaseCases DEF OneInv, Holding
<1>4. PhasesBut({c})
  <2> SUFFICES ASSUME NEW d \in Conns, d # c PROVE PhaseOf(d)' = PhaseOf(d) BY DEF PhasesBut
  <2>1. cdata'[d] = cdata[d] BY <1>0, <1>1
  <2> QED BY <1>1, <2>1 DEF PhaseOf
<1> QED BY <1>1, <1>2, <1>3, <1>4, FeedForgets

\* The keep-alive check reports connections that are still known.
LEMMA TimeoutFeed ==
    ASSUME OneInv, OneInv', NEW x \in Frames, NEW fd \in Fds, check_keep_alive(x, fd)
    PROVE  FeedStep
<1>0. table \in [Fds -> Conns \cup {NoConn}] BY DEF OneInv, EntryInv, Inv, DataTypes
<1>1. PhasesBut({}) BY OwnStepsUnmoved, UnmovedPhases
     DEF OwnSteps, KeepAliveCheck, check_keep_alive, StopFree, FreeEntry, At
<1>2. UNCHANGED <<stream, rd>> BY DEF check_keep_alive, net
<1>3. CASE UNCHANGED queue BY <1>1, <1>2, <1>3, FeedStutters
<1>4. CASE ~UNCHANGED queue
  <2> DEFINE c == table[fd]
  <2>1. c \in Conns /\ cdata[c] = "live" /\ "queue" \in up
    BY <1>0 DEF check_keep_alive, At, OneInv, Holding, TodoEntries, Emptied, NoEntry, EntryInv,
                Entries, EntryLive
  <2>2. PhaseOf(c) # "gone" BY <2>1, PhaseCases DEF OneInv, Holding, Gone
  <2>3. queue' = Append(queue, [from |-> c, what |-> "timeout", pos |-> rd[c]])
    BY <1>4, <2>1 DEF check_keep_alive, Push
  <2> QED BY <1>1, <1>2, <2>1, <2>2, <2>3, FeedTimesOut
<1> QED BY <1>3, <1>4

\* A library call returns a report, or discards the queue when nothing is
\* known any more.
LEMMA DiscardFeed ==
    ASSUME OneInv, OneInv', queue' = <<>>, UNCHANGED <<stream, rd>>, PhasesBut({}),
           top[Main] = "api", "listen" \notin up, pc[MainApi] \notin Emptying
    PROVE  FeedStep
<1>1. \A c \in Conns : cdata[c] \in {"none", "freed"} BY NothingLeft
<1>2. \A c \in Conns : PhaseOf(c) # "gone" => rd[c] = 0
  BY <1>1, PhaseCases DEF OneInv, Holding, Fresh, Gone
<1> QED BY <1>2, FeedDiscards

LEMMA CallFeed ==
    ASSUME OneInv, OneInv', NEW x \in Frames, read_message(x) \/ StopQueue(x)
    PROVE  FeedStep
<1>0. ~\E fd \in Fds : StopFree(x, fd) BY DEF StopFree, FreeEntry, read_message, StopQueue, At
<1>1. PhasesBut({}) BY <1>0, OwnStepsUnmoved, UnmovedPhases DEF OwnSteps, Call, Finish
<1>2. UNCHANGED <<stream, rd>> BY DEF read_message, StopQueue, net
<1>3. CASE read_message(x)
  <2>1. queue' = IF queue = <<>> THEN queue ELSE Tail(queue) BY <1>3 DEF read_message
  <2> QED BY <1>1, <1>2, <2>1, FeedReturns, FeedStutters
<1>4. CASE StopQueue(x)
  <2>1. pc[x] = "stop_qfree" /\ top[x[1]] = x[2] /\ queue' = <<>> BY <1>4 DEF StopQueue, At
  <2>2. x = MainApi /\ "listen" \notin up
    BY <2>1 DEF OneInv, Placement, Places, Closed, Holding, Listening
  <2> QED BY <1>1, <1>2, <2>1, <2>2, DiscardFeed DEF MainApi, Emptying
<1> QED BY <1>3, <1>4

\* So does start_server, whenever it makes a queue or fails.
LEMMA StartFeed == ASSUME OneInv, OneInv', NEW x \in Frames, Start(x) PROVE FeedStep
<1>1. PhasesBut({}) BY StartUnmoved, UnmovedPhases
<1>2. UNCHANGED <<stream, rd>> /\ (queue' = queue \/ queue' = <<>>)
  BY StartAlone DEF StartPlain, Race, srv, net
<1>3. CASE queue' = queue BY <1>1, <1>2, <1>3, FeedStutters
<1>4. CASE queue' = <<>>
  <2>1. top[Main] = "api" /\ pc[MainApi] \in StartLabels BY StartAlone DEF MainApi
  <2>2. "listen" \notin up BY <2>1, MainFrames DEF OneInv, Holding, Listening
  <2>3. pc[MainApi] \notin Emptying BY <2>1, LabelsApart
  <2> QED BY <1>1, <1>2, <1>4, <2>1, <2>2, <2>3, DiscardFeed
<1> QED BY <1>2, <1>3, <1>4

\* A peer sends, and nothing else the kernel does is seen.
LEMMA KernelFeed == ASSUME OneInv, KernelSteps PROVE FeedStep
<1>1. PhasesBut({}) BY KernelStepsUnmoved, UnmovedPhases
<1>2. CASE \E c \in Conns : \E seg \in Segments : Arrive(c, seg)
  <2>1. PICK c \in Conns, seg \in Segments : Arrive(c, seg) BY <1>2
  <2>2. /\ stream' = [stream EXCEPT ![c] = @ \o seg] /\ UNCHANGED <<rd, queue>>
    BY <2>1 DEF Arrive, srv
  <2>3. stream \in [Conns -> Seq(Kinds)] /\ seg \in Seq(Kinds)
    BY ServerAssumption DEF OneInv, EntryInv, Inv, KernelTypes
  <2>4. stream[c] \in Seq(Kinds) BY <2>3
  <2> QED BY <1>1, <2>2, <2>3, <2>4, FeedSends
<1>3. CASE ~\E c \in Conns : \E seg \in Segments : Arrive(c, seg)
  <2>1. UNCHANGED <<stream, rd, queue>>
    BY <1>3 DEF KernelSteps, Peer, Connect, Fin, Expire, TakeConnect, TakeRead, srv, net
  <2> QED BY <1>1, <2>1, FeedStutters
<1> QED BY <1>2, <1>3

LEMMA IoHandlerFeed == ASSUME OneInv, OneInv', NEW x \in Frames, IoHandler(x) PROVE FeedStep
<1>1. ~UseAfterFree(x) /\ ~DestroyMisses(x) /\ ~DestroyAgain(x)
  BY NoMiss DEF OneInv, Holding, ReadLive, UseAfterFree, At, Reading
<1>2. CASE \/ IoLookup(x) \/ IoDestroyed(x) \/ IoPeek(x) \/ ReportFails(x)
           \/ FetchEnd(x) \/ DestroyClose(x)
  <2>1. UNCHANGED <<stream, rd, queue>>
    BY <1>2 DEF IoLookup, IoDestroyed, IoPeek, ReportFails, FetchEnd, DestroyClose, srv, net
  <2> QED BY <1>2, <2>1, IoHandlerUnmoved, UnmovedPhases, FeedStutters
<1> QED BY <1>1, <1>2, ReadFeed, LeaveFeed, ForgetFeed DEF IoHandler

LEMMA OwnStepsFeed == ASSUME OneInv, OneInv', NEW x \in Frames, OwnSteps(x) PROVE FeedStep
<1>1. CASE \/ Acquire(x) \/ TickDone(x) \/ iter_keep_alives(x) \/ Tick(x)
           \/ \E m \in {read_buff_mux, connections_mux} : CallLock(x, m)
           \/ get_connected_list(x) \/ ListAborts(x) \/ start_server(x) \/ stop_server(x)
           \/ StopSignals(x) \/ StopClose(x) \/ StopTable(x)
  <2>1. UNCHANGED <<stream, rd, queue>>
    BY <1>1 DEF Acquire, TickDone, iter_keep_alives, Tick, CallLock, get_connected_list, ListAborts,
                start_server, stop_server, StopSignals, StopClose, CloseEntry, StopTable, srv, net
  <2>2. CASE \E fd \in Fds : StopFree(x, fd) BY <2>2, ForgetFeed
  <2>3. CASE ~\E fd \in Fds : StopFree(x, fd)
    BY <2>1, <2>3, OwnStepsUnmoved, UnmovedPhases, FeedStutters
  <2> QED BY <2>2, <2>3
<1> QED BY <1>1, ForgetFeed, TimeoutFeed, CallFeed DEF OwnSteps, KeepAliveCheck, Call, Finish

LEMMA FeedInit == Init => AbstractFeed!Init
<1> SUFFICES ASSUME Init PROVE AbstractFeed!Init OBVIOUS
<1>1. \A c \in Conns : PhaseOf(c) = "open" BY DEF Init, PhaseOf, Leaving
<1> QED BY <1>1 DEF Init, AbstractFeed!Init

LEMMA FeedNext == ASSUME OneInv, OneInv', [Next]_vars PROVE FeedStep
<1>1. ASSUME NEW x \in Frames, ConnectHandler(x) PROVE FeedStep
  BY <1>1, ForgetFeed, ConnectHandlerUnmoved, UnmovedPhases, FeedStutters
<1>2. CASE UNCHANGED vars
  <2>1. Unmoved /\ UNCHANGED <<stream, rd, queue>> BY <1>2 DEF vars, frm, srv, net, Unmoved
  <2> QED BY <2>1, UnmovedPhases, FeedStutters
<1> QED BY <1>1, <1>2, IoHandlerFeed, OwnStepsFeed, StartFeed, KernelFeed DEF Next, Step, OwnSteps, KernelSteps

\* Every behaviour of the server is one of module Feed: what read_message
\* returns is, for each connection, its messages in order and then its close,
\* whatever interrupts what on the main thread, fails to be allocated, or is
\* done by other threads.
THEOREM RefinesFeed == OneThread => (Spec => ImplementsFeed)
<1> SUFFICES ASSUME OneThread PROVE Spec => AbstractFeed!Spec BY DEF ImplementsFeed
<1>1. OneInv /\ [Next]_vars => OneInv' BY OneStep
<1>2. OneInv /\ OneInv' /\ [Next]_vars => [AbstractFeed!Next]_(AbstractFeed!vars)
  BY FeedNext DEF FeedStep
<1> QED BY OneInit, FeedInit, <1>1, <1>2, PTL DEF Spec, AbstractFeed!Spec

-----------------------------------------------------------------------------
(* An application with one thread beside the timer's, whose peers send     *)
(* whole objects only.                                                     *)

OneReader == Threads = {Main, Ticker}
WholeObjects == \A seg \in Segments : \A i \in 1 .. Len(seg) : seg[i] # "frag"

\* No part of an object has arrived,
Whole == \A c \in Conns : \A p \in 1 .. Len(stream[c]) : stream[c][p] # "frag"
\* and a connection is given up only with its report in the queue.
Reported == \A x \in Frames : pc[x] \in Departing => Said(con[x])

LEMMA WholeStep == ASSUME WholeObjects, Inv, Whole, [Next]_vars PROVE Whole'
<1>1. CASE \E c \in Conns : \E seg \in Segments : Arrive(c, seg)
  <2>1. PICK c \in Conns, seg \in Segments : Arrive(c, seg) BY <1>1
  <2>2. stream' = [stream EXCEPT ![c] = @ \o seg] BY <2>1 DEF Arrive
  <2>3. stream \in [Conns -> Seq(Kinds)] /\ stream[c] \in Seq(Kinds) /\ seg \in Seq(Kinds)
    BY ServerAssumption DEF Inv, KernelTypes
  <2> SUFFICES ASSUME NEW d \in Conns, NEW p \in 1 .. Len(stream'[d]) PROVE stream'[d][p] # "frag"
    BY DEF Whole
  <2>4. CASE d # c BY <2>2, <2>3, <2>4 DEF Whole
  <2>5. CASE d = c
    <3>1. stream'[c] = stream[c] \o seg BY <2>2, <2>3
    <3>2. Len(stream[c]) \in Nat /\ Len(seg) \in Nat BY <2>3, LenProperties
    <3>3. p \in 1 .. Len(stream[c]) + Len(seg) BY <2>3, <2>5, <3>1, ConcatProperties
    <3>4. stream'[c][p] = IF p <= Len(stream[c]) THEN stream[c][p] ELSE seg[p - Len(stream[c])]
      BY <2>3, <3>1, <3>3, ConcatProperties
    <3>5. p <= Len(stream[c]) => p \in 1 .. Len(stream[c]) BY <3>2, <3>3
    <3>6. ~(p <= Len(stream[c])) => p - Len(stream[c]) \in 1 .. Len(seg) BY <3>2, <3>3
    <3> QED BY <2>5, <3>4, <3>5, <3>6 DEF Whole, WholeObjects
  <2> QED BY <2>4, <2>5
<1>2. CASE ~\E c \in Conns : \E seg \in Segments : Arrive(c, seg)
  <2>1. ASSUME NEW x \in Frames, IoHandler(x) PROVE UNCHANGED stream
    BY <2>1 DEF IoHandler, IoLookup, IoDestroyed, IoPeek, ReportFails, ReportPush, FetchNewline,
           FetchEnd, FetchObject, FetchKeepAlive, FetchError, DestroyFree, DestroyMisses,
           DestroyAgain, DestroyClose, UseAfterFree, net
  <2>2. ASSUME NEW x \in Frames, ConnectHandler(x) PROVE UNCHANGED stream
    BY <2>2 DEF ConnectHandler, AcceptFails, AcceptAborts, Accept, Insert, InsertExits,
           InsertFails, InsertFree, Setup, net
  <2>3. ASSUME NEW x \in Frames, OwnSteps(x) PROVE UNCHANGED stream
    BY <2>3 DEF OwnSteps, KeepAliveCheck, Call, Finish, Acquire, iter_keep_alives, TickDone,
           check_keep_alive, Tick, CallLock, read_message, get_connected_list, ListAborts,
           start_server, stop_server, StopSignals, StopFree, FreeEntry, StopClose, CloseEntry,
           StopTable, StopQueue, net
  <2>4. ASSUME KernelSteps PROVE UNCHANGED stream
    BY <1>2, <2>4 DEF KernelSteps, Peer, Connect, Fin, Expire, TakeConnect, TakeRead, net
  <2>5. ASSUME UNCHANGED vars PROVE UNCHANGED stream BY <2>5 DEF vars, net
  <2>6. ASSUME NEW x \in Frames, Start(x) PROVE UNCHANGED stream
    BY <2>6, StartShape DEF StartPlain, Race, UndoClose, CloseEntry, UndoFree, FreeEntry, net
  <2>7. UNCHANGED stream
    BY <2>1, <2>2, <2>3, <2>4, <2>5, <2>6 DEF Next, Step, OwnSteps, KernelSteps
  <2> QED BY <2>7 DEF Whole
<1> QED BY <1>1, <1>2

\* While a handler is about to destroy its connection the queue only grows.
LEMMA ReportedKept ==
    ASSUME Reported, \A c : Said(c) => Said(c)',
           \A y \in Frames : pc'[y] \in Departing => pc[y] \in Departing /\ con'[y] = con[y]
    PROVE  Reported'
<1> SUFFICES ASSUME NEW y \in Frames, pc'[y] \in Departing PROVE Said(con[y])' BY DEF Reported
<1>1. PICK c : c = con[y] /\ Said(c) BY DEF Reported
<1>2. Said(c)' /\ con'[y] = c BY <1>1
<1> QED BY <1>2 DEF Said

LEMMA SaidGrows ==
    ASSUME queue \in Seq(Reports), NEW c,
           UNCHANGED queue \/ \E r \in Reports : queue' = Append(queue, r)
    PROVE  Said(c) => Said(c)'
<1>1. CASE UNCHANGED queue BY <1>1 DEF Said
<1>2. CASE \E r \in Reports : queue' = Append(queue, r)
  <2>1. PICK r \in Reports : queue' = Append(queue, r) BY <1>2
  <2>2. \A i \in DOMAIN queue : i \in DOMAIN queue' /\ queue'[i] = queue[i] BY <2>1
  <2> QED BY <2>2 DEF Said
<1> QED BY <1>1, <1>2

\* A read error cannot be, nor a failed malloc: a connection is given up after
\* its report only.
LEMMA IoHandlerReported ==
    ASSUME ~AllocFails, OneInv, ReadSent, Whole, Reported, NEW x \in Frames, IoHandler(x)
    PROVE  Reported'
<1>0. /\ pc \in [Frames -> Labels] /\ con \in [Frames -> Conns \cup {NoConn}]
      /\ queue \in Seq(Reports) /\ rd \in [Conns -> Nat] /\ stream \in [Conns -> Seq(Kinds)]
  BY DEF OneInv, EntryInv, Inv, FrameTypes, DataTypes, KernelTypes
<1>1. ~UseAfterFree(x) /\ ~DestroyMisses(x) /\ ~DestroyAgain(x)
  BY NoMiss DEF OneInv, Holding, ReadLive, UseAfterFree, At, Reading
<1>2. ~FetchError(x)
  <2> SUFFICES ASSUME Fetching(x, {"frag"}) PROVE FALSE BY DEF FetchError
  <2> DEFINE c == con[x]
  <2>1. Unread(c) /\ NextKind(c) = "frag" /\ pc[x] = "fetch" BY DEF Fetching, At
  <2>2. c \in Conns BY <2>1, HandlerPhase DEF Reading
  <2>3. rd[c] \in Nat /\ Len(stream[c]) \in Nat /\ rd[c] < Len(stream[c])
    BY <1>0, <2>1, <2>2 DEF Unread
  <2>4. rd[c] + 1 \in 1 .. Len(stream[c]) BY <2>3
  <2> QED BY <2>1, <2>2, <2>4 DEF Whole, NextKind
<1>3. CASE ReportPush(x)
  <2> DEFINE c == con[x]
  <2>1. pc[x] = "rc_push" /\ pc' = [pc EXCEPT ![x] = "dc_lock"] /\ UNCHANGED con
    BY <1>3 DEF ReportPush, At, Goto
  <2>2. c \in Conns /\ "queue" \in up /\ \A y \in Frames : pc[y] \in Reading => y = x
    BY <2>1, HandlerPhase DEF Reading
  <2>3. queue' = Append(queue, [from |-> c, what |-> "closed", pos |-> rd[c]])
    BY <1>3, <2>2 DEF ReportPush, Push
  <2>4. Said(c)'
    <3> DEFINE n == Len(queue) + 1
    <3>1. n \in DOMAIN queue' /\ queue'[n] = [from |-> c, what |-> "closed", pos |-> rd[c]]
      BY <1>0, <2>3
    <3>2. con'[x] = c BY <2>1
    <3> QED BY <3>1, <3>2 DEF Said
  <2>5. \A y \in Frames : pc'[y] \in Departing => y = x
    BY <1>0, <2>1, <2>2 DEF Departing, Reading
  <2> QED BY <2>1, <2>4, <2>5 DEF Reported
<1>4. CASE DestroyFree(x)
  <2>1. /\ pc[x] = "dc_free" /\ pc' = [pc EXCEPT ![x] = "dc_close"] /\ UNCHANGED queue
        /\ \A y \in Frames : y # x => con'[y] = con[y]
    BY <1>0, <1>4 DEF DestroyFree, At, Goto
  <2> QED BY <1>0, <2>1, ReportedKept, SaidGrows DEF Departing
<1>5. CASE \/ IoLookup(x) \/ IoDestroyed(x) \/ IoPeek(x) \/ ReportFails(x) \/ FetchNewline(x)
           \/ FetchEnd(x) \/ FetchObject(x) \/ FetchKeepAlive(x) \/ DestroyClose(x)
  <2>1. Unmoved BY <1>5, IoHandlerUnmoved
  <2>2. UNCHANGED queue \/ \E r \in Reports : queue' = Append(queue, r)
    <3>1. CASE FetchObject(x)
      <4>1. con[x] \in Conns /\ rd'[con[x]] \in Nat
        BY <1>0, <3>1, HandlerPhase DEF FetchObject, Fetching, At, Reading
      <4>2. PICK what \in Decoded(con[x]) \ {"ka"} : Push(con[x], what, rd'[con[x]])
        BY <3>1 DEF FetchObject
      <4>3. [from |-> con[x], what |-> what, pos |-> rd'[con[x]]] \in Reports
        BY <3>1, <4>1, <4>2 DEF Reports, FetchObject, Fetching, Decoded
      <4> QED BY <4>2, <4>3 DEF Push
    <3>2. CASE ~FetchObject(x)
      BY <1>5, <3>2 DEF IoLookup, IoDestroyed, IoPeek, ReportFails, FetchNewline, FetchEnd,
                        FetchKeepAlive, DestroyClose, srv
    <3> QED BY <3>1, <3>2
  <2> QED BY <1>0, <2>1, <2>2, ReportedKept, SaidGrows DEF Unmoved
<1> QED BY <1>1, <1>2, <1>3, <1>4, <1>5 DEF IoHandler

\* The one thread that takes reports is in no handler when it does.
LEMMA OwnStepsReported ==
    ASSUME OneReader, OneInv, Reported, NEW x \in Frames, OwnSteps(x)
    PROVE  Reported'
<1>0. /\ pc \in [Frames -> Labels] /\ con \in [Frames -> Conns \cup {NoConn}]
      /\ queue \in Seq(Reports) /\ rd \in [Conns -> Nat] /\ table \in [Fds -> Conns \cup {NoConn}]
  BY DEF OneInv, EntryInv, Inv, FrameTypes, DataTypes, KernelTypes
<1>1. \A y \in Frames : pc'[y] \in Departing => pc[y] \in Departing /\ con'[y] = con[y]
  <2>1. CASE \E fd \in Fds : StopFree(x, fd)
    <3>1. pc' = [pc EXCEPT ![x] = "stop_close"] /\ \A y \in Frames : y # x => con'[y] = con[y]
      BY <1>0, <2>1 DEF StopFree, FreeEntry, Goto
    <3> QED BY <1>0, <3>1 DEF Departing
  <2>2. CASE ~\E fd \in Fds : StopFree(x, fd) BY <2>2, OwnStepsUnmoved DEF Unmoved
  <2> QED BY <2>1, <2>2
<1>2. CASE read_message(x) \/ StopQueue(x)
  <2>1. x = MainApi /\ top[x[1]] = x[2]
    <3>1. CASE read_message(x)
      <4>1. x[1] # Ticker /\ x[2] = "api" /\ top[x[1]] = x[2]
        BY <3>1 DEF read_message, At, OneInv, Placement, Places, CallLabels
      <4> QED BY <4>1 DEF OneReader, Frames, MainApi
    <3>2. CASE StopQueue(x) BY <3>2 DEF StopQueue, At, OneInv, Placement, Places, Closed
    <3> QED BY <1>2, <3>1, <3>2
  <2>2. \A y \in Frames : pc[y] \notin Departing
    <3>1. Departing \subseteq IoLabels BY DEF Departing, IoLabels, Reading
    <3> QED BY <2>1, <3>1, NoHandler DEF OneInv
  <2> QED BY <1>1, <2>2 DEF Reported
<1>3. CASE \E fd \in Fds : check_keep_alive(x, fd)
  <2>1. PICK fd \in Fds : check_keep_alive(x, fd) BY <1>3
  <2>2. table[fd] \in Conns
    BY <1>0, <2>1 DEF check_keep_alive, At, OneInv, Holding, TodoEntries
  <2>3. [from |-> table[fd], what |-> "timeout", pos |-> rd[table[fd]]] \in Reports
    BY <1>0, <2>2 DEF Reports
  <2>4. UNCHANGED queue \/ \E r \in Reports : queue' = Append(queue, r)
    BY <2>1, <2>3 DEF check_keep_alive, Push
  <2> QED BY <1>0, <1>1, <2>4, ReportedKept, SaidGrows
<1>4. CASE \/ Acquire(x) \/ TickDone(x) \/ iter_keep_alives(x) \/ Tick(x)
           \/ \E m \in {read_buff_mux, connections_mux} : CallLock(x, m)
           \/ get_connected_list(x) \/ ListAborts(x) \/ start_server(x) \/ stop_server(x)
           \/ StopSignals(x) \/ StopClose(x) \/ StopTable(x) \/ \E fd \in Fds : StopFree(x, fd)
  <2>1. UNCHANGED queue
    BY <1>4 DEF Acquire, TickDone, iter_keep_alives, Tick, CallLock, get_connected_list, ListAborts,
                start_server, stop_server, StopSignals, StopClose, CloseEntry, StopTable, StopFree,
                FreeEntry, srv
  <2> QED BY <1>0, <1>1, <2>1, ReportedKept, SaidGrows
<1> QED BY <1>2, <1>3, <1>4 DEF OwnSteps, KeepAliveCheck, Call, Finish

\* It starts the server in no handler either.
LEMMA StartReported == ASSUME OneInv, Reported, NEW x \in Frames, Start(x) PROVE Reported'
<1>1. \A y \in Frames : pc[y] \notin Departing
  <2>1. Departing \subseteq IoLabels BY DEF Departing, IoLabels, Reading
  <2> QED BY <2>1, StartAlone
<1> QED BY <1>1, StartUnmoved DEF Unmoved, Reported

LEMMA ReportedStep ==
    ASSUME OneReader, ~AllocFails, OneInv, ReadSent, Whole, Reported, [Next]_vars
    PROVE  Reported'
<1>0. queue \in Seq(Reports) BY DEF OneInv, EntryInv, Inv, DataTypes
<1>1. ASSUME NEW x \in Frames, ConnectHandler(x) PROVE Reported'
  <2>1. CASE InsertFree(x)
    <3>1. pc' = [pc EXCEPT ![x] = "idle"] /\ con' = [con EXCEPT ![x] = NoConn] /\ UNCHANGED queue
      BY <2>1 DEF InsertFree, Return, Goto
    <3>2. pc \in [Frames -> Labels] /\ con \in [Frames -> Conns \cup {NoConn}]
      BY DEF OneInv, EntryInv, Inv, FrameTypes
    <3>3. \A y \in Frames : pc'[y] \in Departing => pc[y] \in Departing /\ con'[y] = con[y]
      BY <3>1, <3>2 DEF Departing
    <3> QED BY <1>0, <3>1, <3>3, ReportedKept, SaidGrows
  <2>2. CASE ~InsertFree(x)
    <3>1. Unmoved /\ UNCHANGED queue BY <1>1, <2>2, ConnectHandlerUnmoved
    <3> QED BY <1>0, <3>1, ReportedKept, SaidGrows DEF Unmoved
  <2> QED BY <2>1, <2>2
<1>2. CASE KernelSteps
  <2>1. UNCHANGED queue
    BY <1>2 DEF KernelSteps, Peer, Connect, Arrive, Fin, Expire, TakeConnect, TakeRead, srv
  <2> QED BY <1>0, <1>2, <2>1, KernelStepsUnmoved, ReportedKept, SaidGrows DEF Unmoved
<1>3. CASE UNCHANGED vars
  <2>1. UNCHANGED <<pc, con, queue>> BY <1>3 DEF vars, frm, srv
  <2> QED BY <2>1 DEF Reported, Said
<1> QED BY <1>1, <1>2, <1>3, IoHandlerReported, OwnStepsReported, StartReported DEF Next, Step, OwnSteps, KernelSteps

\* No connection is destroyed while the server runs but by its handler, after
\* the report.
LEMMA DropSaid ==
    ASSUME OneInv, Reported, [Next]_vars, NEW c \in Conns,
           cdata[c] = "live", cdata'[c] = "destroyed", "listen" \in up
    PROVE  Said(c)
<1>0. cdata \in [Conns -> {"none", "live", "destroyed", "freed"}]
  BY DEF OneInv, EntryInv, Inv, DataTypes
<1>1. ASSUME NEW x \in Frames, IoHandler(x) PROVE Said(c)
  <2>1. DestroyFree(x)
    BY <1>0, <1>1 DEF IoHandler, IoLookup, IoDestroyed, IoPeek, ReportFails, ReportPush, FetchNewline,
           FetchEnd, FetchObject, FetchKeepAlive, FetchError, DestroyMisses, DestroyAgain,
           DestroyClose, UseAfterFree, srv, Life
  <2>2. pc[x] = "dc_free" BY <2>1 DEF DestroyFree, At
  <2>3. table[cfd[con[x]]] = con[x]
    BY <2>1, <2>2, FindsEntry DEF OneInv, RemoveFindsEntry, DestroyFree
  <2>4. c = con[x] BY <1>0, <2>1, <2>3 DEF DestroyFree, Life
  <2> QED BY <2>2, <2>4 DEF Reported, Departing
<1>2. ASSUME NEW x \in Frames, ConnectHandler(x) PROVE Said(c)
  BY <1>0, <1>2 DEF ConnectHandler, AcceptFails, AcceptAborts, Accept, Insert, InsertExits,
              InsertFails, InsertFree, Setup, srv, Life
<1>3. ASSUME NEW x \in Frames, OwnSteps(x) PROVE Said(c)
  <2>1. CASE \E fd \in Fds : StopFree(x, fd)
    BY <2>1 DEF StopFree, FreeEntry, At, OneInv, Holding, Listening, Closed
  <2>2. CASE StopClose(x) BY <1>0, <2>2 DEF StopClose, CloseEntry, Life
  <2>3. CASE ~StopClose(x) /\ ~\E fd \in Fds : StopFree(x, fd)
    BY <1>3, <2>3 DEF OwnSteps, KeepAliveCheck, Call, Finish, Acquire, iter_keep_alives, TickDone,
           check_keep_alive, Tick, CallLock, read_message, get_connected_list, ListAborts,
           start_server, stop_server, StopSignals, StopTable, StopQueue, srv
  <2> QED BY <2>1, <2>2, <2>3
<1>4. ASSUME KernelSteps PROVE Said(c)
  BY <1>4 DEF KernelSteps, Peer, Connect, Arrive, Fin, Expire, TakeConnect, TakeRead, srv
<1>5. ASSUME UNCHANGED vars PROVE Said(c) BY <1>5 DEF vars, srv
<1>6. ASSUME NEW x \in Frames, Start(x) PROVE Said(c) BY <1>6, StartAlone DEF StartPlain, Race, srv
<1> QED BY <1>1, <1>2, <1>3, <1>4, <1>5, <1>6 DEF Next, Step, OwnSteps, KernelSteps

\* While the server runs, no connection is destroyed without "Connection closed"
\* in the queue, although its report is pushed long before the entry is removed
\* and read_message takes reports in between.
THEOREM DropsReported ==
    OneThread /\ OneReader /\ ~AllocFails /\ WholeObjects => (Spec => DropsAreReported)
<1> SUFFICES ASSUME OneThread, OneReader, ~AllocFails, WholeObjects PROVE Spec => DropsAreReported
  OBVIOUS
<1> DEFINE Told == \A c \in Conns :
          (cdata[c] = "live" /\ cdata'[c] = "destroyed" /\ "listen" \in up)
            => \E i \in DOMAIN queue : queue[i].from = c /\ queue[i].what = "closed"
<1>1. Init => Order /\ Whole /\ Reported
  <2> SUFFICES ASSUME Init PROVE Order /\ Whole /\ Reported OBVIOUS
  <2>1. Order BY DEF Init, Order, NullQueue, ReadSent, Behind, Ordered, Complete
  <2>2. Whole BY DEF Init, Whole
  <2>3. Reported BY DEF Init, Reported, Departing
  <2> QED BY <2>1, <2>2, <2>3
<1>2. OneInv /\ [Next]_vars => OneInv' BY OneStep
<1>3. OneInv /\ Order /\ [Next]_vars => Order' BY OrderStep DEF OneInv, EntryInv
<1>4. OneInv /\ Whole /\ [Next]_vars => Whole' BY WholeStep DEF OneInv, EntryInv
<1>5. OneInv /\ Order /\ Whole /\ Reported /\ [Next]_vars => Reported' BY ReportedStep DEF Order
<1>6. OneInv /\ Reported /\ [Next]_vars => [Told]_vars BY DropSaid DEF Said
<1> QED BY OneInit, <1>1, <1>2, <1>3, <1>4, <1>5, <1>6, PTL DEF Spec, DropsAreReported, Told
=============================================================================
