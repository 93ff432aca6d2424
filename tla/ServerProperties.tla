-------------------------- MODULE ServerProperties --------------------------
(***************************************************************************)
(* What src/src/server.c has to guarantee, and what its comments say of    *)
(* it, stated over the model in module Server.                             *)
(***************************************************************************)
EXTENDS Server

\* Handlers, keep-alive checks, read_message, get_connected_list and stop_server
\* use the table only under connections_mux and the queue only under
\* read_buff_mux, although free_connectiondata and a handler that returns early
\* unlock or abandon mutexes: such a frame in its critical section is the owner.
\* start_server, which locks neither, is not part of this: see Exclusion.
LocksHeld ==
    \A x \in Frames : /\ pc[x] \in HoldsTable => owner[connections_mux] = x
                      /\ pc[x] \in HoldsQueue => owner[read_buff_mux] = x

\* An entry of connections_table names a live ConnectionData whose descriptor is
\* open, is its key (the assert in io_handler), and belongs to that connection,
\* though descriptor numbers are reused as soon as they are closed.
TableMatchesSockets ==
    \A fd \in Fds : table[fd] # NoConn =>
        /\ cdata[table[fd]] = "live"
        /\ cfd[table[fd]] = fd
        /\ sockOf[fd] = table[fd]

\* connect_handler never finds its key in the table: a descriptor that accept
\* returns again has been removed from the table before it was closed.
NoDuplicateEntry ==
    \A x \in Frames : pc[x] = "cn_insert" => table[cfd[con[x]]] = NoConn

\* destroy_connection always finds the entry, so that its failure path, which
\* unlocks connections_mux twice, is never taken.
RemoveFindsEntry ==
    \A x \in Frames : pc[x] = "dc_free" /\ cdata[con[x]] # "freed" =>
        table[cfd[con[x]]] = con[x]

\* Nothing is pushed to a NULL read_buff: stop_server frees the queue only when
\* no connection is left and the keep-alive check is out of the table.
QueueOutlivesTable ==
    \/ "queue" \in up
    \/ /\ \A fd \in Fds : table[fd] = NoConn
       /\ \A x \in Frames : pc[x] = "ka_scan" => todo = {}

\* The messages of one connection wait in read_buff in the order in which they
\* were sent, none twice and none missing between two others or before the
\* part of the stream not yet read.
MessagesInOrder ==
    \A i, j \in DOMAIN queue :
        LET a == queue[i]
            b == queue[j] IN
        /\ a.what \in {"msg", "bad"} => a.pos <= rd[a.from]
        /\ (i < j /\ a.from = b.from /\ {a.what, b.what} \subseteq {"msg", "bad"})
             => a.pos < b.pos
        /\ a.what \in {"msg", "bad"} =>
             \A p \in a.pos .. rd[a.from] : stream[a.from][p] \in {"msg", "bad"} =>
                 \E k \in DOMAIN queue : queue[k].from = a.from /\ queue[k].pos = p

\* "Connection closed" is reported at most once, and after it only a timeout can
\* still be reported for that connection.
ClosedIsLast ==
    \A i, j \in DOMAIN queue :
        (i < j /\ queue[i].from = queue[j].from /\ queue[i].what = "closed")
          => queue[j].what = "timeout"

\* No handler touches a ConnectionData after free_connectiondata freed it.
NoUseAfterFree == fate # "use after free"

\* Once stop_server has returned no descriptor and no ConnectionData is left.
StopLeavesNothing ==
    (pc[<<Main, "api">>] = "idle" /\ top[Main] = "api" /\ "listen" \notin up) =>
        /\ \A fd \in Fds : sockOf[fd] = NoConn
        /\ \A c \in Conns : cdata[c] \in {"none", "freed"}

-----------------------------------------------------------------------------
(* Action properties.                                                      *)

\* A step closes a descriptor only to free the connection behind it: no handler
\* closes, by its number, a descriptor that accept has meanwhile returned for
\* another connection.
ClosesOwnSocket ==
    [][\A fd \in Fds : (sockOf[fd] # NoConn /\ sockOf'[fd] = NoConn)
                         => cdata'[sockOf[fd]] = "freed"]_vars

\* Whoever has locked connections_mux has the table to himself: a frame between
\* lock and unlock owns the mutex (LocksHeld) and no entry comes or goes under it,
\* start_server included, which locks nothing: what that makes and discards is
\* empty by then.
Exclusion ==
    [][/\ LocksHeld'
       /\ \A x \in Frames : pc[x] \in HoldsTable /\ pc'[x] = pc[x] => table' = table]_vars

\* While the server runs no connection is destroyed unless "Connection closed"
\* is in the queue for it: the application always learns that a node is gone.
DropsAreReported ==
    [][\A c \in Conns :
          (cdata[c] = "live" /\ cdata'[c] = "destroyed" /\ "listen" \in up)
            => \E i \in DOMAIN queue : queue[i].from = c /\ queue[i].what = "closed"]_vars

-----------------------------------------------------------------------------
(* The abstract specification.                                             *)

\* destroy_connection has been called for c, and has not freed it yet.
Leaving(c) == \E x \in Frames : pc[x] \in {"dc_lock", "dc_free"} /\ con[x] = c
PhaseOf(c) == CASE cdata[c] \in {"destroyed", "freed"} -> "gone"
                [] Leaving(c) -> "closed"
                [] OTHER -> "open"
AbstractFeed == INSTANCE Feed WITH read <- rd, feed <- queue,
                                   phase <- [c \in Conns |-> PhaseOf(c)]

\* The server implements module Feed, as long as all its signals land on one
\* thread: with every interruption of library code, FINs that signal twice, failed
\* allocations and failed starts in between, what read_message returns is one
\* ordered feed of each connection, that ends with its close.
ImplementsFeed == AbstractFeed!Spec

-----------------------------------------------------------------------------
(* Liveness, under FairSpec.                                               *)

\* Handler l has interrupted a frame of its own thread that holds the mutex it
\* waits for: neither can ever go on.
Deadlocked(t, l) ==
    /\ Waiting(<<t, l>>)
    /\ \E k \in Levels \ {l} : pc[<<t, k>>] # "idle" /\ owner[Wants(<<t, l>>)] = <<t, k>>

\* What ends every promise: a handler that has deadlocked with what it
\* interrupted, or start_server meeting a timer thread of an earlier start.
Lost == fate = "race" \/ \E t \in Threads, l \in Levels : Deadlocked(t, l)

\* Every thread is back in the application's own code again and again, and the
\* mutexes that a call begins with are free again and again: neither a handler
\* nor a call waits for ever for a mutex that an early return or the destruction
\* of a connection has left locked.  The only way out is a deadlock with the
\* frame that a handler interrupted.
EveryCallReturns ==
    \/ <>[]Lost
    \/ /\ \A t \in Threads : []<>(\A l \in Levels : pc[<<t, l>>] = "idle")
       /\ \A m \in {connections_mux, read_buff_mux} : []<>(owner[m] = NoFrame)

\* Every object that arrives is read, unless its connection is closed first or
\* the server is lost.
EverythingIsRead ==
    \A c \in Conns : \A p \in 1..MaxStream :
        Len(stream[c]) >= p ~> (rd[c] >= p \/ cdata[c] = "freed" \/ Lost)

\* A peer that closes has its ConnectionData and descriptor freed in the end,
\* unless the server is lost.
ClosedPeersAreFreed ==
    \A c \in Conns : (c \in eof /\ c \in async) ~> (cdata[c] = "freed" \/ Lost)

-----------------------------------------------------------------------------
(* What comments and documents say of the program.                         *)

\* "in practice I was unable to reproduce this deadlock" (io_handler): a READ
\* signal never interrupts code that has connections_mux locked, so that
\* io_handler would wait for it for ever.
NoSelfDeadlock ==
    \A t \in Threads : At(<<t, "io">>, "io_lock") =>
        owner[connections_mux] \notin {<<t, l>> : l \in Levels}

\* "if something jumps in here then it should check the destroyed flag"
\* (free_connectiondata): as long as the server is not being stopped, a handler
\* that waited for the mutex of a connection never finds it freed.
FlagProtectsHandlers == fate = "use after free" => "listen" \notin up

\* "read in every available object" (object_reader): when no READ signal is
\* pending or being handled, nothing that has arrived is left in a socket.
Drained ==
    (readSig = <<>> /\ \A t \in Threads : pc[<<t, "io">>] = "idle") =>
        \A fd \in Fds : table[fd] \in async => ~Unread(table[fd])

\* "Connection closed" is reported of connections that their peers closed.
ClosedMeansEof ==
    \A i \in DOMAIN queue : queue[i].what = "closed" => queue[i].from \in eof
=============================================================================
