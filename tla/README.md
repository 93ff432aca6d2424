# TLA+ models of libedsacnetworking

libedsacnetworking carries error messages from the measurement nodes of the
EDSAC status monitor to one "mothership". A node links the *sender*
(`src/src/sending.c`), the mothership links the *server* (`src/src/server.c`).
This directory holds TLA+ modules that model the library, TLC configurations
that check them on small instances, and proofs checked by TLAPS.

## Inventory

| Component | State it keeps | Operations | Hard behaviour |
|---|---|---|---|
| Message server, `server.c` | `connections_table`, `read_buff`, two global mutexes, one `ConnectionData` with a mutex per connection, `listen_socket`, `timer_id`, the installed signal handlers | `start_server`, `stop_server`, `read_message`, `get_connected_list`; handlers `connect_handler`, `io_handler`; `iter_keep_alives` on a timer thread | handlers run on whatever thread the kernel picks, inside library code and inside each other, and lock mutexes; `start_server` locks none; a `ConnectionData` is freed while others wait for it; descriptor numbers are reused; signals and objects do not match one to one |
| Sender, `sending.c` | `sending_fd`, `fd_mux`, `timer` | `start_sending`, `send_message`, `stop_sending`; `send_keep_alive` on a timer thread | a late keep-alive after `stop_sending`, the destroyed mutex, partial writes |
| Timer, `timer.c` | a POSIX timer | `create_timer`, `stop_timer` | stopping only disarms: a tick thread may be on its way, the timer is never deleted; monotonic timers judge wall clock times |
| Representation, `representation.c` | none | `encode_message`, `decode_message`, constructors, `free_message` | every allocation may fail, with half a message built; lengths |
| cJSON, `contrib/cJSON.c` (vendored) | a parse buffer, a print buffer, trees of items | the parser, the unformatted printer, creation, lookup and deletion of items | it parses whatever a peer sends, in a signal handler: bounds, recursion, ownership of memory |
| Arguments, `arguments.c` | none | `alloc_addr`, `get_args` | conversion of the port |
| tests, `template.[ch]` | | | not part of the library |

How they interact. A peer's `connect` and every arrival of data make the kernel
raise a realtime signal (CONNECT_SIG on the listening socket, READ_SIG on a
connection, both with the descriptor number in `si_fd`). `connect_handler`
accepts the connection, puts it in `connections_table` and sets `O_ASYNC`.
`io_handler` finds the `ConnectionData` by descriptor, peeks, and either reads
one object (`object_reader`, `fetch_item`, `read_json_object`, which call
`decode_message`) and queues it in `read_buff`, or reports "Connection closed"
and destroys the connection. The application takes reports from the queue with
`read_message`. Every `KEEP_ALIVE_CHECK_PERIOD * KEEP_ALIVE_INTERVAL` seconds a
timer thread walks through the table and reports connections that have been
silent for `KEEP_ALIVE_PROD` seconds. The sender writes an encoded message, or a
KEEP_ALIVE from its own timer thread, to its one socket.

What makes each part correct:

* server: whoever has locked the table or the queue has it to himself, though `start_server`
  locks neither; an entry names
  a live connection with its own open descriptor; nothing freed is touched;
  nothing is closed that belongs to someone else; reports of a connection
  come in order, once, and end with "Connection closed"; stopping frees
  everything; calls return, everything is read, closed peers are freed;
* sender: messages are written whole and one at a time, and nothing is written
  after the descriptor is closed;
* time: a node that sends is never reported as silent, a silent one is, in time and
  not more often than once per check;
* parser and printer: they stay inside their memory whatever the text is, free
  every block once, and what is accepted is what was written;
* the way of a message: what is delivered was sent, in order and once.

## Modules

| Module | What it is |
|---|---|
| `Server` | the message server: state, `Init`, one action per step of a handler or call, `Spec`, `FairSpec` |
| `ServerProperties` | invariants, action and liveness properties; what comments and docs say of the program |
| `MCServer` | values for TLC: what a segment can carry, symmetry |
| `Feed` | abstract specification: what an application can rely on that calls `read_message` |
| `ServerProofs` | type correctness, where frames can be, the steps that keep the critical sections exclusive; every connection that is not freed has its entry in the table; mutual exclusion, and that no entry comes or goes meanwhile; table, descriptors and sockets agree, and nothing of another connection is closed |
| `OrderProofs` | messages stay in order in `read_buff`; "Connection closed" comes last, and is true |
| `OneThreadProofs` | what holds when one thread takes all signals, and that `Server` then implements `Feed` |
| `Sender` | the sender and its timer: state, `Init`, one action per step of a call, `Spec`, `FairSpec` |
| `SenderProperties` | what the sender has to guarantee, and what is said of it |
| `SenderProofs` | type correctness of `Sender`; `fd_mux`, descriptors and the stream of messages |
| `KeepAlive` | both timers, the keep-alive check and the clocks, in seconds |
| `KeepAliveProofs` | all of its properties |
| `JsonText` | what the parser and the printer of JSON have in common |
| `ParseString` | `parse_string`: its two loops over a string, and the memory between them |
| `JsonParser` | `cJSON_Parse` with its recursion and every block it allocates, and what has to hold of them; extends `ParseString` |
| `JsonProperties`, `MCJson` | what an accepted text says and that parsing ends; texts for TLC |
| `ParserProofs` | memory bounds and depth of the parser; no block is freed twice or lost |
| `Encoder` | `encode_message` and the printer |
| `EncoderProofs` | what is printed fits, what is given up is freed; induction over numerals, texts and fields |
| `Link`, `MCLink` | the way of a message: `Encoder`, the bytes on a connection, `read_json_object`, `JsonParser`, `decode_message`; messages for TLC |
| `LinkProofs` | the messages that are written whole arrive, for all texts and valve numbers |

### How `Server` corresponds to `server.c`

*Threads and frames.* A thread has up to three frames: `api` (the library call
the application makes on it, or `iter_keep_alives` on the timer's thread),
`io` (`io_handler`) and `conn` (`connect_handler`). `top` is the frame that
executes. Entering a handler puts its frame on top, returning gives the thread
back to what it interrupted. The kernel masks a signal while its own handler
runs, and `sa_mask` is empty, so each handler exists at most once per thread and
the two can interrupt each other in both orders. With `Preempt = FALSE` the
application blocks the two signals around its library calls, so that handlers
interrupt its own code and each other (`Deliverable`): what the application blocks in its
calls has no part in a handler.

*Steps.* One step is one access to state that frames share: a blocking
`pthread_mutex_lock` (`Acquire`), or what is done while the mutex is held,
which no other frame can see half done. Where the code touches shared state
outside a mutex the steps are separate: the lookup and the lock of a
`ConnectionData`; freeing an entry (`destroyed` set, its mutex unlocked) and
closing its descriptor; the two `DISABLE_SIGNAL`s of `stop_server`; and the whole of
`start_server`, which assigns and frees `read_buff` and `connections_table` without
their mutexes. Each of its assignments is a step, between which handlers and timer
threads of an earlier start go on. Where one of these is inside a critical section whose
pointer `start_server` assigns or frees, the two race: the model has the step with no
harm done (the sections are short, the assignment is one store) and, as an alternative,
`Race`, which ends the behaviour with `fate = "race"` and stands for whatever else the
undefined behaviour can be. `HoldsTable` and `HoldsQueue`, the sections that `LocksHeld`
speaks of, are those of the code that locks; what `start_server` may do to them
meanwhile is the other half of `Exclusion`.

| Code | Actions |
|---|---|
| `io_handler` | `TakeRead`, `Acquire`, `IoLookup`, `IoDestroyed`, `IoPeek` |
| `report_close` | `ReportFails`, `Acquire`, `ReportPush` |
| `object_reader`, `fetch_item`, `read_json_object` | `Acquire`, `FetchNewline`, `FetchEnd`, `FetchObject`, `FetchKeepAlive`, `FetchError` |
| `destroy_connection`, `free_connectiondata` | `Acquire`, `DestroyFree`, `DestroyClose`; `DestroyMisses`, `DestroyAgain` (no entry: both unlocks) |
| `connect_handler`, `setup_rt_signal_io` | `TakeConnect`, `AcceptFails`, `AcceptAborts`, `Accept`, `Acquire`, `Insert`, `InsertExits`, `InsertFails`, `InsertFree`, `Setup` |
| `iter_keep_alives`, `check_keep_alive` | `Tick`, `iter_keep_alives`, `check_keep_alive`, `TickDone` |
| `read_message`, `get_connected_list` | `CallLock`, `read_message`, `get_connected_list`, `ListAborts` |
| `start_server` | `start_server`, `StartQueue`, `StartTable`, `StartSignals`, `StartTimer`, `StartListen`; on failure `UndoQueue`, `UndoFree`, `UndoClose`, `UndoTable`; `Race` |
| `stop_server` | `stop_server`, `StopSignals`, `Acquire`, `StopFree`, `StopClose`, `StopTable`, `StopQueue` |
| peers and kernel | `Connect`, `Arrive`, `Fin`, `Expire`, `Raise`, `FreeFd`, `Close` (external) |

*Data.* An object in a stream is one of "msg", "ka", "bad" (a whole object that
does not decode), "nl" (a newline, skipped) and "frag" (anything that makes
`read_json_object` return ERROR: a part of an object, a character that is no
brace). Without memory `decode_message` fails like for a malformed object (`Decoded`), so that with
`AllocFails` a message, or a KEEP_ALIVE, may be queued as one that could not be decoded,
and `last_keep_alive` stays as it was. A stream is kept whole, with the position read so far, so that a report
can name the place it was read from. Freed memory stays visible as
`cdata[c] = "freed"`; any access to it ends the run with
`fate = "use after free"`, a race with `start_server`, `exit` and a failed assert end it likewise. Each
`ConnectionData` of a behaviour is a new one: an address that malloc returns
again is not identified with the old one.

*Starts that fail, and repeated starts.* `StartFails` names the calls in `start_server`
that may fail: `st_signals` (`setup_rt_signal_io`), `st_timer` (`create_timer`) and `st_listen`
(`listen`). The first two destroy the table and the queue again, entry by entry like
`stop_server`, but without locking anything; a failed `listen` frees the queue and leaves
the table and the running timer behind, and the next start allocates a new table and
forgets the timer's id ("lost timer"). `Retries = TRUE` lets a start follow a failed one at
once, as an application that tries again would; with `FALSE` a `stop_server` comes in
between. `PlainStarts`, a hypothesis of three theorems, is `Retries = FALSE` and nothing failing but
`listen`.

*Refinement.* `ImplementsFeed` maps `Server` to `Feed`: `read` is `rd`, `feed` is
`queue`, and a connection is "open" until some frame is about to take it out of the
table (`Leaving`: `destroy_connection` has been entered, from whichever of its
callers), then "closed", and "gone" when its `ConnectionData` has been marked as
destroyed. The threads, frames, mutexes, descriptors, signals and allocations of
`Server` have no counterpart. What `Feed` promises, and what is hard to keep in the
code, is that nothing is reported of a closed connection but a timeout while it is
known (the entry is in the table until `destroy_connection` has
`connections_mux`), that every object is reported once and in order though the
signals do not match the objects, that no object is skipped for want of memory (it may be
reported as one that could not be decoded: `AllocFails` in `Feed!Read`), and that reports are only
lost with the server.

*Not in the model.* Addresses, times and texts of reports; the overflow of the
kernel's signal queue; calls in a handler that are not async-signal-safe; a
reset by the peer as opposed to a FIN; errors of `pthread_mutex_lock`,
`sigaction` and `fcntl` but for those in `start_server`. A `socket` or `bind` that fails in
`start_server` changes nothing that the model keeps.

### How `Sender` corresponds to `sending.c`

Application threads (`App`) and threads of the timer (`Ticks`) go through
`send_encoded_message`; `Main` also starts and stops. `call` is where `Main` is in
`start_sending` or `stop_sending`. `stop_sending` may be entered while `Main` is in
`send_message` (`FromHandler`), as the SIGINT handler of `sending_demo.c` does; then the
call below makes no step until it returns.

| Code | Actions |
|---|---|
| `send_message`, `send_keep_alive` | `send_message`, `send_keep_alive` |
| `send_encoded_message` | `Lock`, `LockFails`, `BeginWrite`, `WritePiece`, `WriteElsewhere`, `WriteFails`, `WriteInterrupted`, `PipeKills`, `Unlock`, `UnlockExits` |
| `start_sending`, `create_timer` | `StartFails`, `start_sending`, `ConnectFails`, `Connected` |
| `stop_sending`, `stop_timer` | `stop_sending`, `StopLock`, `StopClose`, `StopDestroy`, `AssertFails` |
| server, application | `Read`, `PeerCloses`, `OtherOpens`, `OtherCloses` (external) |

A message is a number of pieces; `write` takes them one by one while the buffers
have room, so that a message can be in the stream in part. `wire` is what the
server has not read yet and `last` the piece read last: the stream is judged at
every point without being kept, and nothing bounds how much is sent. A destroyed
mutex is what glibc makes of it: `pthread_mutex_lock` and `_unlock` return EINVAL
(`pthread_mutex_destroy` marks it with an invalid kind), and a thread that already
waits gets it but cannot unlock it; both go the way of `LockFails`, `UnlockExits`.
`pthread_mutex_destroy` of a locked mutex returns EBUSY. The asserts are compiled in
(the build does not define NDEBUG).

Contract assumed of the application: it sends only between a `start_sending` that
returned true and the next `stop_sending`, stops only what it has started, and starts
again only when the connection is dead or the last start failed (`Reconnects`) or after
`stop_sending` (`Restarts`). What was already under way in another thread goes on.

Not in the model: encoding failures (`send_message` returns before it touches
anything shared), errors of `perror` and `printf`, a timer that is created but not armed.

### How `KeepAlive` corresponds to `sending.c`, `server.c` and `timer.c`

One node, one connection, two timers. `Tick` is a second; what happens within a
second happens in any order. A timer that expires is served in its second (a
periodic timer of a process that runs), what the node has sent is read at most
`MaxDelay` seconds later (`InTime`).

| Code | Actions |
|---|---|
| `start_sending` up to `create_timer` | `create_timer`, at most `MaxDelay` seconds after `accept` |
| `send_keep_alive` | `send_keep_alive`, every `KEEP_ALIVE_INTERVAL` seconds |
| `connect_handler` setting `last_keep_alive` | `Init`, `Reconnect` |
| `fetch_item` of a KEEP_ALIVE | `fetch_item` |
| `iter_keep_alives`, `check_keep_alive` | `iter_keep_alives`; `SkippedCheck` when a trylock or malloc fails |
| nodes, clocks | `Die`, `Tick`, `SetClock` (external) |

`last_keep_alive` is not an absolute time: `quiet` is how long ago it was set,
`stamp` by how much the wall clock was wrong then, and `skew` by how much it is
wrong now, so that `diff` is exactly `now - condata->last_keep_alive`. `failed`,
`missed` and `reports` count since `last_keep_alive` was set; nothing in the code
keeps them, they are what the properties speak of. A KEEP_ALIVE that arrives is decoded
here: one that is lost because `decode_message` gets no memory is in `Server` only, where
it leaves the connection in `overdue`, and for the times of `KeepAlive` it would be a
KEEP_ALIVE that was not sent.

### How `ParseString` and `JsonParser` correspond to `cJSON.c`

Texts are sequences of byte codes with their final NUL, and indices count from 0.
The recursion of `parse_value`, `parse_array` and `parse_object` is `stack`, one entry
per call with the list at `head`; `pc` is where the innermost call is. One step of
`ParseString` is one iteration of a loop of `parse_string`; one step of `JsonParser`
goes from one call of `malloc`, `parse_string` or `parse_value` to the next.
`reach` is the highest index that has been read, `alloc` what was asked for `output`;
`heap` is the set of blocks that are allocated, each item, name and value being one,
and `doomed` what `cJSON_Delete` has yet to visit.

| Code | Actions |
|---|---|
| `cJSON_ParseWithOpts`, `skip_utf8_bom` | `cJSON_Parse`, `Succeed`, `Fail` |
| `parse_value` | `ParseLiteral`, `parse_number`, `BeginString`, `ParseList`, `ParseEmpty`, `ValueFails` |
| `parse_string`, `utf16_literal_to_utf8`, `parse_hex4` | `parse_string`, `Measure`, `Measured`, `Allocate`, `AllocateFails`, `CopyPlain`, `CopyEscape`, `CopyLiteral`, `CopyPair`, `CopyFails`, `Copied` |
| `parse_array`, `parse_object` | `ParseList`, `ParseEmpty`, `NextItem`, `ItemFails`, `ParseName`, `NameParsed`, `StringParsed`, `StringFails`, `NextElement`, `EndOfList`, `ListFails`, `Fail` |
| `cJSON_Delete` | `Delete`, one item per step |

`strtod` is external: `Decimal` is what it makes of digits behind a minus sign. Numbers with a
fraction or an exponent are excluded by the assumption `IntegersOnly` (the messages
have none).

### How `Encoder` and `Link` correspond to the code

`todo` is what `encode_message` has yet to do: make and link the items in the order
of the code, then print them, one call of `ensure` per step. Any call of `malloc` or
`realloc` may fail; `AddIsIgnored` is the one whose failure cJSON does not
report (`cJSON_strdup` of a name), `ShrinkFails` the one whose failure loses the
buffer. The names of fields and types are one byte each; that
`strncmp(_type, ..., strlen(_type))` compares a beginning only is kept (SOFT_ERROR is
sent and SOFT_ERR is compared).

`Link` puts the parts in a row on one connection: `send_message` and
`send_keep_alive` write to `wire`, `Arrive` makes some of it readable, `FetchObject`
and `FetchError` are `read_json_object`, after which `JsonParser` runs on the object,
and `decode_message` appends to `got`. One handler reads at a time (the
`ConnectionData`'s mutex, see `ClosedIsLast`), and reading goes on as long as there is
something to read (see `EverythingIsRead` for when that is so).

| Code | Actions |
|---|---|
| `encode_message` and the functions `cJSON_Create...`, `cJSON_AddItemToObject` | `encode_message`, `Create`, `CreateFails`, `Add`, `AddIsIgnored`, `RefuseType` |
| `cJSON_PrintUnformatted`, `ensure`, `update_offset` | `BeginPrint`, `BeginPrintFails`, `PrintPiece`, `PrintFails`, `Shrink`, `ShrinkFails` |
| `send_message`, `send_encoded_message`, `send_keep_alive` | `send_message`, `send_encoded_message`, `send_keep_alive` |
| `read_json_object`, `fetch_item` | `FetchObject`, `FetchError` |
| `decode_message`, `cJSON_GetObjectItem`, `cJSON_Delete` | `ParseStep`, `decode_message` (`Decoded`, `Item`), `DeleteTree` |

Not in `Link`: peers that send something else (a message of this library never has a
newline between objects; `Server` has `FetchNewline`, and `json` parses arbitrary
texts), failing allocations while parsing (they are in `json`), and more than one
connection.

## Runs

The runs of the server use module `MCServer`, those of the sender `SenderProperties`,
`keepalive` uses `KeepAlive`, `json` `MCJson` and `link` `MCLink`.
All but `keepalive` set `CHECK_DEADLOCK FALSE`, because the systems may stop: a text has
been parsed, all messages have arrived, every handler
has returned and no peer, call or tick is left within the bounds, the process has
ended, or handlers have blocked each other (the code can deadlock, see `V_deadlock`;
what must not block is checked by `EveryCallReturns` and `CallsReturn`).

| Run | Instance | Shows |
|---|---|---|
| `one` | one thread takes every signal, also inside library code and inside the other handler; 1 connection; all kinds of objects; a FIN raises 1 or 2 signals; a peer may send before `O_ASYNC`; every malloc may fail, `decode_message`'s included, and every call in `start_server`, and a start may follow a failed one at once | `TypeOK`, `NoUseAfterFree`, `QueueOutlivesTable`, `MessagesInOrder`, `StopLeavesNothing`, `ImplementsFeed` |
| `threads` | one connection, whose peer sends two messages or parts; signals on a second application thread and on the timer's thread, main starts and stops; `PlainStarts`: `listen` may fail, and no start follows a failed one | `Exclusion`, `ClosedIsLast`, `RemoveFindsEntry`, `ClosedMeansEof` |
| `reuse` | 2 connections, 2 descriptors, signals on two application threads; the timer may fail to be created, so that a table with a late connection in it is destroyed | `TableMatchesSockets`, `NoDuplicateEntry`, `ClosesOwnSocket` |
| `blocked` | 2 connections, 2 descriptors; signals blocked around calls, handlers interrupt each other; one message from each peer, one signal per FIN; enough memory, no start fails | `DropsAreReported`, and under `FairSpec` `EveryCallReturns`, `EverythingIsRead`, `ClosedPeersAreFreed` |
| `sender_again` | two application threads and a timer thread; the connection dies and is replaced; stop at any time, from a signal handler too | `MessagesWhole`, `SilentAfterStop`, and under `FairSpec` `KeepAlivesGoOn` |
| `keepalive` | the periods of the code (10, 1, 3); delays up to 9 s, a clock wrong by up to 1 s, two checks in a row without a lock | `TypeOK`, `NoFalseAlarm`, `DetectedInTime`, `GraceIsGiven`, `OneReportPerPeriod` |
| `json` | all texts of up to 5 structural bytes; nested lists, a message, deep nesting and a surrogate pair with one byte changed or removed; `\u` followed by 7 bytes; every malloc may fail | `ParserTypeOK`, `ReadsFit`, `WritesFit`, `NoDoubleFree`, `NothingLeaks`, `NestingBounded`, `AcceptedPrintsBack`, and under `FairSpec` `EveryTextEnds` |
| `link` | every pair of messages from 17: all types, texts that need escapes, with balanced, unbalanced and reversed braces, or too long; one failing allocation; arrivals that end anywhere in a grid and at ends of objects | `PrintFits`, `EncodeCleansUp`, `NothingInvented`, `WholeMessagesArrive` |
| `sender_any` | one application thread, one timer thread, two descriptors; signals in `write`, SIGPIPE, reconnects, restarts, messages too long | `TypeOK`, `WritesOwnSocket`, and under `FairSpec` `CallsReturn` |

Several of these properties hold only under the conditions of their run, and the
model shows why. `NoUseAfterFree`, `QueueOutlivesTable` and
`StopLeavesNothing` need all signals on one thread: with two, a `ConnectionData`
is freed under a waiting handler, and a late `connect_handler` adds to a table
that is being destroyed. `StopLeavesNothing` speaks of a `stop_server` that returns: after
`connect_handler` got no memory for a key, `connections_mux` stays locked (`InsertFails`,
`server.c:425`) and it never does.

`Exclusion` and `RemoveFindsEntry` hold with any number
of threads under `PlainStarts`. With a start that fails before `listen` a late `connect_handler` can
put its connection into the table that `start_server` then destroys (below). With `Retries`, a `connect_handler` left over from before
`stop_server` can add to the table of a start that failed at `listen`; the next
start discards that table, `destroy_connection` misses the entry, and its second
unlock of `connections_mux` takes the mutex from whoever has locked it between
the two (`server.c:260-266`). `ImplementsFeed` needs one signal thread for the same reason, and nothing else: the proof
(`RefinesFeed`) is for any number of connections over any number of descriptors.

The liveness properties need an application that blocks the two signals around its library
calls, else a handler waits for what the call below it holds. That does not keep the
handlers apart, because `sa_mask` is empty (`server.c:107`): a READ signal of one connection
that interrupts `connect_handler` between lines 417 and 439 waits at 326 for ever, and so does
everybody else then. The properties therefore say: unless some handler has deadlocked with
a frame below it (`Deadlocked`), or `start_server` has raced with a timer thread (`Lost`). What they
exclude is every other way to wait for ever: a mutex that an early return or a destroyed
connection has left locked, and a signal that was used up. `blocked` has two connections, so
that this deadlock happens in it, and `MaxQueue` 0, so no timer fires in it. `EverythingIsRead` needs one object per segment
and none before `O_ASYNC` (`V_left`, and hazards `server.c:276` and `server.c:441`).
`ClosedMeansEof` (in `threads`) needs that no signal of a descriptor's last owner is left when
`accept` returns its number, and has one connection therefore; it and `DropsAreReported` are also
proved, for any number of connections (see Proofs).

### Where the code does not do what is said of it

Each of these has a run that ends in a counterexample.

| Run | Said | Done |
|---|---|---|
| `V_deadlock` | "in practice I was unable to reproduce this deadlock" (`server.c:322`) | one connection, one object: its READ signal interrupts `get_connected_list` while that has `connections_mux` locked, and `io_handler` waits at its first lock (`server.c:326`) for the call below it |
| `V_freed` | "if something jumps in here then it should check the destroyed flag" (`server.c:598`) | a FIN raises two READ signals, which two threads handle; both look the connection up, one reports it closed and frees it, and the other then locks, or reads the flag in, freed memory (`server.c:340`); the server is not being stopped |
| `V_left` | "read in every available object" (`server.c:276`) | two messages in one segment raise one signal, which reads one; no signal is left that would read the other |

The models have further behaviours of this kind, which the passing runs leave out by a
constant or go through without a property about them:

* a read error destroys a connection silently (`FetchError`, `server.c:278`; a
  connection's death triggers "an allert on the server", `README.md:51`):
  `DropsAreReported` fails in `blocked` with `Segments <- BrokenSegments`;
* a `connect_handler` and a timer thread that began before `stop_server` are still under way in
  the next `start_server`: the one puts its connection into the new table, the other locks
  `connections_mux` ("get lock on connections_table", `server.c:487`) and goes through that table;
  the timer cannot be created, and `start_server` destroys the table, entry and all, without the
  mutex (`server.c:556`; `Exclusion` fails in `threads` with `StartFails = {"st_timer"}`);
* a late thread of the timer has `fd_mux` locked when `stop_sending` destroys it, and
  `assert(0 == pthread_mutex_destroy(&fd_mux))` (`sending.c:104`) aborts
  (`AssertFails`: `fate = "abort"` is reached with one thread of each kind);
* a text within the "maximum allowable length" (`edsac_representation.h:39`) whose
  encoding is longer than 300 bytes is cut, `send_message` returns true
  (`Strnlen`, `sending.c:39`), and the server reads the rest as a part of what
  follows it; the run `link` has such messages, and `WholeMessagesArrive` excludes them;
* "how many consecutive failed KEEP_ALIVE checks before an error" (`edsac_server.h:32`) is
  3, but `diff > KEEP_ALIVE_PROD` is strict: when a check falls on the very second it
  takes a fourth one (`failed - missed > KEEP_ALIVE_GRACE => reports > 0` fails in
  `KeepAlive` for a clock that is never wrong);
* when there is no memory for the name of a field, `encode_message` leaves the item out,
  loses its memory, and returns the length of a message that no receiver accepts
  (`AddIsIgnored`, `cJSON.c:1875`; "returns ... -1 on error",
  `edsac_representation.h:77`); when the last `realloc` fails, the buffer is lost
  (`ShrinkFails`, `cJSON.c:1107`);
* a stale signal finds a new connection under the old descriptor number, and
  `recv` returning EAGAIN makes `io_handler` report and close it (`server.c:355`;
  `ClosedMeansEof` fails with two connections over one descriptor and `FinSignals = 2`);
* a `connect_handler` that runs on another thread when `stop_server` destroys the
  table inserts into NULL and exits the process (`InsertExits`, `server.c:433`; "stop
  the server safely", `edsac_server.h:59`);
* a `connect_handler` interrupted by `stop_server`'s DISABLE_SIGNALs installs
  `io_handler` again (`Setup`, `server.c:441`; "disable signal handlers", `server.c:620`);
* a late thread of the timer, or the first message after `stop_sending` and a new
  `start_sending`, unlocks the destroyed `fd_mux` and exits with failure
  (`UnlockExits`, `sending.c:45`), and nothing initialises `fd_mux` again;
* SIGPIPE ends the process with the first write to a dead connection (`PipeKills`,
  `sending.c:40`), before it could start again "unless the connection dies" (`README.md:51`);
* the SIGINT handler of `sending_demo.c:20` waits in `stop_sending` for the `fd_mux`
  of the `send_message` it interrupted (`CallsReturn` fails with `FromHandler`).

### Bounds

`MaxStream` bounds what one peer sends, `MaxQueue` the length of the queue up to
which the timer fires and connections expire (messages and closes are
always queued), `FinSignals` the signals of one FIN. Two pieces of stream are
enough to have one object read by the signal of another, and a signal that
finds nothing. Each hazard involves at most two connections (the old and the new
owner of a number), two frames on one thread or two threads; `reuse` has two of
each and therefore sends no data (data is only read under the `ConnectionData`'s
mutex, which the other runs exercise). `blocked` has two connections for the deadlock of one
handler with the other, one object from each, and no timer thread (`MaxQueue = 0`), since every
state more costs in the check of liveness: the keep-alive check, which only tries its
mutexes, is in the other runs. `threads` has two pieces of stream so that a signal can find
its object read. A behaviour starts and stops the server
any number of times: nothing bounds calls. `one` and `threads` have 1.4 million distinct states,
`reuse` 350,000, `blocked` 22,000.

`KeepAlive` has the code's own periods. `MaxDelay = 9` makes the hypothesis of
`NoFalseAlarm` an equality: 10 + 2*9 + 2*1 = 30. `MaxQuiet` (65 s) is two
periods more than the latest first report, so that a second and a third one
occur; `MaxMissed` bounds the checks in a row that get no lock.

For the parser `NestingLimit` and `NumberSize` are 3 instead of 1000 and 63, so that
nesting and numbers reach them. Five structural bytes are every
kind of list with every kind of broken end; what needs more (a list of two in a list,
names with values that are lists, surrogate pairs) is in the longer texts, of which
every neighbour at distance one is parsed. For `Link`, `MAX_ENCODED_LEN` is 50 instead of 300,
because the names of one byte make messages of 25 to 50 bytes, and two messages are enough
to have a cut or unbalanced one before and after a whole one. What is sent is sent
before anything arrives: an arrival can be as late as one likes, and the sender
takes no notice of it, so that every interleaving has the same reads as one of these.
Arrivals that end within an object end at every `Grain`-th byte (10): where they end
matters only by the braces that have arrived. `MaxRefused` is the number of failing
allocations in a run; after the first the message is given up, except for lost names.

For the sender: two pieces are the shortest message that can be in the stream in
part, `Room = 2` (with messages of one and of two pieces) lets a write stop in the middle of one, and two descriptors are the
old and the new one, or the sender's and the application's. `MessagesWhole` needs
`Signals = FALSE` (a write that a signal cuts short is not resumed), no message above
`MaxEncoded`, and no restart; `SilentAfterStop` needs no restart; `CallsReturn` needs
`FromHandler = FALSE`. The connection of `one` is a single one: what an early return
leaks or leaves locked is found with the first.

### Fairness

`FairSpec` of `Server` adds strong fairness for the next step of each frame (`Step(x)`), and
for each thread that takes signals strong fairness for taking a CONNECT and for
taking a READ. A thread that can run does run. Strong rather than weak fairness
is needed where a step waits for a mutex that others take and release again and
again: the critical sections take microseconds, the timer fires every ten
seconds, and an application calls at human speed, so a waiter gets in. Signal
delivery is disabled while the application is inside a call (in `blocked`) and
enabled again when it returns. Nothing is assumed of peers, of the timer, or of
the application: it need not call anything, and `Tick`, the start of a call,
`Connect`, `Arrive` and `Fin` have no fairness. A deadlocked handler stays so under any fairness,
which is why the properties name it.

`FairSpec` of `JsonParser` is weak fairness of `Next`: a thread that parses runs.

`FairSpec` of `Sender`: strong fairness for the steps of each sender and for
`stop_sending`'s lock (both wait for `fd_mux`), weak fairness for the other steps of
`Main` and for the timer (a periodic timer expires while it is armed), and strong
fairness for `Read`: the server reads. The last is an assumption about another
program, and needed: a write to a server that does not read blocks with `fd_mux`
locked, and `stop_sending` waits behind it. Calls of the application have none.
`KeepAlivesGoOn` is about steps: while the connection lasts and the timer is armed, steps in
which the server reads a piece of a KEEP_ALIVE happen again and again (that one was read
last, some time ago, does not satisfy it).

## Proofs

All theorems hold for every set of threads, connections, descriptors and
segments, every period and delay, every text and message, and every bound, from
`ServerAssumption`, `SenderAssumption`, `KeepAliveAssumption`, `ParserAssumption`,
`EncoderAssumption` or `LinkAssumption`.
Some name a condition on one of the constants; it is a hypothesis of the theorem.

| Theorem | Says | Condition |
|---|---|---|
| `TypeCorrect` (`ServerProofs`) | `[]TypeOK` | |
| `MutualExclusion` (`ServerProofs`) | `Exclusion` | `PlainStarts` (`~Retries`, nothing but `listen` fails) |
| `RemoveNeverMisses` (`ServerProofs`) | `[]RemoveFindsEntry` | `PlainStarts` |
| `TableIsRight` (`ServerProofs`) | `[]TableMatchesSockets` | `~AllocFails` |
| `InsertNeverFinds` (`ServerProofs`) | `[]NoDuplicateEntry` | `~AllocFails` |
| `OnlyOwnSockets` (`ServerProofs`) | `ClosesOwnSocket` | `~AllocFails` |
| `MessagesKeepOrder` (`OrderProofs`) | `[]MessagesInOrder` | |
| `ClosedComesLast` (`OrderProofs`) | `[]ClosedIsLast` | `PlainStarts` |
| `ClosedTellsTruth` (`OrderProofs`) | `[]ClosedMeansEof` | `~AllocFails`, `SegmentsSpeak`, `[][FreshDescriptor]_vars` |
| `MutualExclusionOne` (`OneThreadProofs`) | `Exclusion` | `OneThread` |
| `RemoveFindsOne` (`OneThreadProofs`) | `[]RemoveFindsEntry` | `OneThread` |
| `ClosedLastOne` (`OneThreadProofs`) | `[]ClosedIsLast` | `OneThread` |
| `NeverUsesFreed` (`OneThreadProofs`) | `[]NoUseAfterFree` | `OneThread` |
| `QueueOutlives` (`OneThreadProofs`) | `[]QueueOutlivesTable` | `OneThread` |
| `StopFreesAll` (`OneThreadProofs`) | `[]StopLeavesNothing` | `OneThread` |
| `RefinesFeed` (`OneThreadProofs`) | `ImplementsFeed` | `OneThread` |
| `DropsReported` (`OneThreadProofs`) | `DropsAreReported` | `OneThread`, `OneReader`, `~AllocFails`, `WholeObjects` |
| `SenderTypeCorrect` (`SenderProofs`) | `[]TypeOK` of `Sender` | |
| `SilenceAfterStop` (`SenderProofs`) | `[]SilentAfterStop` | `~Restarts` |
| `OwnSocketsOnly` (`SenderProofs`) | `[]WritesOwnSocket` | `~Restarts` |
| `StreamOfMessages` (`SenderProofs`) | `[]MessagesWhole` | `~Restarts`, `~Signals`, `Short` (every length at most `MaxEncoded`) |
| `KeepAliveTypes` (`KeepAliveProofs`) | `[]TypeOK` of `KeepAlive` | |
| `LiveNodesAreSafe` (`KeepAliveProofs`) | `[]NoFalseAlarm` | |
| `SilenceIsDetected` (`KeepAliveProofs`) | `[]DetectedInTime` | |
| `GraceBeforeReport` (`KeepAliveProofs`) | `[]GraceIsGiven` | |
| `ReportsAreSpaced` (`KeepAliveProofs`) | `[]OneReportPerPeriod` | |
| `ParserTypes` (`ParserProofs`) | `[]ParserTypeOK` | |
| `ReadsStayInside` (`ParserProofs`) | `[]ReadsFit` | |
| `WritesStayInside` (`ParserProofs`) | `[]WritesFit` | |
| `RecursionIsBounded` (`ParserProofs`) | `[]NestingBounded` | |
| `NeverFreedTwice` (`ParserProofs`) | `[]NoDoubleFree` | |
| `NothingIsLost` (`ParserProofs`) | `[]NothingLeaks` | |
| `PrintedFits` (`EncoderProofs`) | `[]PrintFits` | |
| `EncodeFreesAll` (`EncoderProofs`) | `[]EncodeCleansUp` | |
| `Delivered` (`LinkProofs`) | `[]WholeMessagesArrive` | `~AllocFails`, `NestingLimit >= 2`, `NumberSize >= 11` |

None of them is inductive, and each module adds what its properties lack.

* `Inv` (`ServerProofs`) adds to the types which frames can be at which label
  (`io_handler` never does `stop_server`'s steps) and that a frame past a lookup or an
  `accept` has a connection and a descriptor. It needs no condition.
* `EntryInv` (`ServerProofs`) adds `LocksHeld` and the life of an entry: an entry is
  live and under its own descriptor (`EntryLive`); a connection between `accept` and
  the insertion is live, in no entry, and with one frame (`AcceptedApart`); one
  that is being destroyed is out of the table, and one that is destroyed is with
  the frame that will free it (`DestroyedKnown`, `DestroyedHeld`); a live one is in
  the table or with the frame that accepted it (`LiveHasEntry`); what `io_handler`
  looks up had been accepted (`ReadAccepted`); backlog and table start fresh
  (`BacklogFresh`, `NullTable`); and no frame is between the two unlocks of
  `destroy_connection` (`NeverMisses`). The two halves depend on each other: the
  mutexes protect what they should only because no entry is ever missed (else
  `DestroyAgain` gives away `connections_mux`), and no entry is missed only because
  the mutexes protect the table. `LocksStep` therefore takes the absence of
  `DestroyAgain` as a hypothesis, `NoMiss` derives it from `EntryInv`, and
  `EntryInvStep` closes the circle in one induction. `start_server` enters it by
  `StartsRight`: where it is plain it finds no table, because on the one thread that calls it
  a `stop_server` has been through, and never comes to `g_hash_table_destroy`. With that it
  makes and discards empty tables only, which is what `Exclusion` adds to `LocksHeld` (`EntriesKept`): a step changes the
  table only from a frame that owns `connections_mux`, or replaces an empty one by an
  empty one. `PlainStarts` is needed because any other `start_server` discards or destroys a
  table in which a late `connect_handler`'s entry may be (see Runs). That `start_server` assigns the two
  *pointers* under the mutexes is not claimed, and not so.
* `SockInv` (`ServerProofs`) rests on `Inv` alone, and adds the ownership of descriptors: from
  `accept` to `close` a descriptor belongs to one `ConnectionData`, held by the frame that
  accepted it, by the table, or by the frame that took it out to destroy it. It needs
  neither the mutexes nor `PlainStarts`: each entry is removed from the table in the step that
  marks its connection as destroyed, whoever owns `connections_mux` then.
  `~AllocFails` is needed: when malloc of the key fails `connect_handler` closes the
  descriptor twice, and with several threads the second `close` can hit another
  connection's.
* `Order` (`OrderProofs`) strengthens `MessagesInOrder`, which a `read_message` could
  otherwise break: it lets a report of another kind at the same place in the
  stream stand for a message. In `Order` a message stands for itself (`Complete`), what
  is queued has been read (`Behind`) and sent (`ReadSent`), and a NULL queue is
  empty (`NullQueue`). It needs neither the mutexes nor any condition: each object is
  read and queued in one critical section.
* `Last` (`OrderProofs`) stands on `EntryInv` and is about `condata->mutex`, which
  `free_connectiondata` unlocks whoever holds it. A handler past its lock is the owner
  as long as the connection is live (`Sole`); afterwards the mutex says nothing, but
  a handler that gets it then sees `destroyed` and says nothing either, so that at most
  one is on its way to a report (`OneSpeaker`), and none once "Connection closed" is in
  the queue (`Silent`), because the reporter keeps the mutex until the connection is
  destroyed (`SaidGoes`), which it is since its entry is found (`FindsEntry`).
* `Counted` (`OrderProofs`) stands on `SockInv` and `Order`. `io_handler` takes EAGAIN for a
  closed connection, so the report is true only if `recv` never comes back empty
  while the peer is connected (`NeverEmpty`). What keeps it so is a count: for an open
  connection with a connected peer the pending READ signals and the handlers on
  their way to `recv` (`Signals`, `Readers`) are together no more than the objects yet to
  be read (`Enough`). Arriving segments add to both sides, a handler's lookup moves a
  signal to its connection, a read takes one of each. Each hypothesis closes a
  way to break it: a segment that is only a newline raises a signal and brings no
  object (`SegmentsSpeak`); a signal of a descriptor's last owner counts against
  its next one (`FreshDescriptor`: `accept` returns no number of which a signal is
  still under way, a condition on the steps of the kernel, stated over the behaviour);
  and after a failed malloc a descriptor closed twice may be another's.
  Multiple threads, late handlers, FINs with any number of signals, restarts and
  starts that fail are all covered, with more than one connection.

* `OneInv` (`OneThreadProofs`), for `OneThread` (`SigThreads = {Main}`: every signal is taken by
  the thread that starts and stops the server), is `EntryInv` with two more parts.
  `Placement`: every label has its frame (`Places`), and the main thread is in its own code
  only when it is in no handler (`Stack`); hence no handler is under way while `stop_server`
  takes a step, and only the timer's check runs beside a handler. `Holding` says what that
  is worth: the connection of a handler stays live (`ReadLive`); a server that listens has
  its table and its queue, and accepts only then (`Listening`); one that does not has no
  entries once `stop_server` has gone through them (`Emptied`); the check still finds the
  entries it has listed, as removing one takes `connections_mux` (`TodoEntries`); an open
  descriptor belongs to a connection that is not freed (`SocketsKnown`); nothing is read
  before `accept` (`Fresh`). Here `EntryInv` needs no `PlainStarts`: no handler is under way while
  `start_server` takes a step, so that a start that fails anywhere, and the next one, find their
  table empty.
* `RefinesFeed` has one lemma for each action of `Feed` (`FeedSends`, `FeedReads`, `FeedCloses`,
  `FeedDrops`, `FeedForgets`, `FeedTimesOut`, `FeedReturns`, `FeedDiscards`), which says which
  steps of `Server` implement it. The phase of a connection in `Feed` is read off `cdata`,
  `pc` and `queue` (`PhaseCases`), and a step that leaves them alone is a stutter (`Unmoved`).
* `DropsReported` is about an application with one thread beside the timer's (`OneReader`: with
  a second one `read_message` can take the report before the connection is freed), enough
  memory (else the report is dropped) and whole objects (else the read error destroys
  without a report). A frame that is about to destroy has then reported.
* `MuxInv` (`SenderProofs`) says who owns `fd_mux` and what is left when it is destroyed:
  between lock and unlock a thread owns it (`Owned`, `StopOwns`); `stop_sending` has
  disarmed the timer and set `sending_fd` to -1 before it destroys (`Stopping`); after
  that nothing starts, stops or writes (`Stopped`), though late threads still pass
  through; and what is written to is a socket of the sender (`OwnSockets`).
* `StreamInv` (`SenderProofs`) describes the end of the stream: it is in the middle of
  the message of the one thread that is midway on the current connection
  (`EndsMidway`), or at the end of a message (`EndsWhole`); there is at most one
  connection, and nothing was written to it before `connect` (`OneConnection`,
  `NotBefore`). A step that concerns neither is `Aside`.

The proofs that a step preserves an invariant have one step per action; actions that
an invariant does not see are grouped by a lemma (`CalmStep`, `QuietStep`, `CalmSockets`,
`AsideOrder`, `NeutralStep`).

The properties of `KeepAlive` each need what a counter means:

* `Covered`: the silence that the server sees is covered by the time since the last
  expiry, the KEEP_ALIVEs on their way and the delay of the first one; it gives
  `quiet <= KEEP_ALIVE_INTERVAL + 2 * MaxDelay` (`LiveQuiet`), and the two clock errors are
  the rest of `NoFalseAlarm`;
* the other three relate `quiet` to the checks since: each check is a period after the
  one before, so that the silence lies between the periods of the checks that failed
  and one period more, and the clocks shift each `diff` by at most `2 * MaxSkew`.

`ParserInv` (`ParserProofs`) = `TextOK /\ StringOK /\ Place /\ Nested /\ Heap` says, for
each step of the parser, where the offset stands (`Place`: not past the final NUL, and
on a byte that is no NUL where the code steps on without a check), what
the two loops of `parse_string` have done (`StringOK`) and what `depth` counts (`Nested`).
`WritesFit` rests on an argument that the code does not state. The allocation is the
length of the string less one byte for each backslash that the first loop has
skipped. The second loop takes 2, 6 or 12 bytes for at most 1, 3 or 4 that it writes,
and reads the bytes otherwise than the first: the "XXXX" of `\uXXXX` may be
anything, backslashes included, because an invalid digit is no error. But of any two
neighbouring bytes the first loop has skipped at most one (a skipped backslash stands
before a byte that was stepped over), so that 2 bytes pay for 1, 6 for 3 and 12 for 6
(`OnePerPair`, `ThreePerSix`), and what remains is enough for what remains (`RestBound`).

`MemInv` adds to `ParserInv` who owns what. The items in memory are a `Forest` over the lists
that are held (`Held`): the root, the list at `head` of each `parse_array` and `parse_object`,
and what `cJSON_Delete` has yet to free. It is constant-level, and says of the set of all
items that

* each allocated block belongs to one item, and an item's three blocks differ (`Once`);
* each item is in one place, in a list that is held or among one item's children (`OnePlace`);
* it has no items but those that can be reached from there (`Reached`: a set that holds the
  lists' items and the children of its own holds all), so that nothing is owned by nobody;
* an item's level is one more than its parent's (`Ranked`), so that the tree is as deep as
  the recursion was.

What the parser does with items is a lemma each about forests: an item is put
at the end of a list (`Planted`), the last item gets a string or what was the list above it
(`Grown`), a list is handed to `cJSON_Delete` (`Moved`), and the first item there is freed and
its children come in its place (`Felled`). `Waiting` is what a step must know of the item it
fills: it has no child and no value yet, and neither have the items for which the lists
above are meant (`Chain`); without that, filling one would lose blocks. When the
parser is done, only the root is held, and the forest is the tree (`TreeHasAll`); when it has
failed, nothing is held, and the forest is empty.

`EncInv` (`EncoderProofs`) = `EncTypes /\ KidsOK /\ PrintFits`, what is on `todo` (nothing, the rest of
what `encode_message` has to do: `Building`, or pieces to print: `Printing`), and `BlocksOK`.
`PrintFits` rests on each piece: what is written of it, with its NUL, is at most what `ensure`
was asked for and the byte that `ensure` adds (`Pieces`). For a string that is
`EscapedString`: the loop that counts and the loop that escapes agree, byte by byte
(`EscapedIs`), for every text. `BlocksOK` says what can be allocated: while building, the tree
under `root` and the item that has no parent yet (`Held`); while printing, the tree and the buffer. It
holds as long as no name has been lost and the last `realloc` has not failed (`Clean`), and needs that
`data` is a child of `root` before it gets children of its own (`DataFirst`): a child of a
`data` that was left out would be deleted by nobody.

`Delivered` says that `decode_message` undoes `encode_message`. The bytes of a message are
defined once more, without encoder or parser (`Encoded`), and the argument has three parts.

* *Printing.* `EncOut` says that what is printed and the pieces still to print are the bytes
  of the tree (`Body`), and that fields are added in the order of `Rank`; if no field was
  lost, the tree has all of them and its bytes are `Encoded(msg)` (`PrintedMessage`).
* *Parsing.* `Path(m)` says where the parser is in `Encoded(m)`: in front of the root object,
  in it (`Inside` of the root's list), in its data (`Inside` of a list above the root's),
  or behind it with a tree that has the fields of `m` (`Whole`). `Laid` and `Cut` are the
  positions of fields and of escaped bytes. No step leaves the path (`PathStep`): a
  string is measured to its own quote and copied back to the text it was (`ScanStep`), and a
  numeral, INT_MIN's too, to its number (`NumberParsed`). `DecodedIs`: the tree is read as `m`.
* *The wire.* `LinkInv` says for every `k`, if the first `k` messages were whole: the first
  of them have been delivered, one may be at the parser, on its path, and the others are at
  the front of `wire` (`Rest`). `BalancedOnce` is why `read_json_object` then cuts out exactly
  one message: of two beginnings of the same bytes only one can be balanced.

The conditions are what a message needs: a failing `malloc` in the parser loses one, and
the parser has to take two nested objects and the 11 bytes of INT_MIN (the code's
limits are 1000 and 63). Nothing is assumed of the texts, of what was sent after the
`k` messages, or of failing allocations in the encoder. An arrival that ends within an
object costs the connection (`server.c:179`): up to there what has been delivered is what was sent,
in order, and of what comes later nothing is claimed. If every arrival that is read ends between objects
(`dropped # "partial"`), all whole messages arrive.

Induction over data is done with sets: `NatInd` (from the well-foundedness of `<` on the
naturals) is cited with the set of the numbers up to which a statement holds. It gives
the defining equations of the community modules' `FlattenSeq` (`FlattenIs`) and `FoldLeft`
(`SpareIs`), and those of `Numeral` (`NumeralIs`) and `Level` (`LevelIs`): each is a CHOOSE of a function that has to
be shown to exist first.

Only model-checked:

* liveness (`EveryCallReturns`, `EverythingIsRead`, `ClosedPeersAreFreed`, `CallsReturn`,
  `KeepAlivesGoOn`, `EveryTextEnds`), since fairness and ENABLED are outside TLAPS;
* `AcceptedPrintsBack`: what a tree prints is a RECURSIVE operator (`JsonProperties`), with
  which the provers cannot be used;
* `NothingInvented`, which is also about messages that were cut or lost a brace: what
  the server cuts out of their remains is no message, and to prove it one would have to
  say of every such text what the parser makes of it.

## Not modelled

* `arguments.c`: one sequential call into GLib's option parser and `inet_pton`, with no
  state that outlives it. The port is cast to 16 bits unchecked (`arguments.c:83`).
* The constructors of `representation.c` and `free_message`, which set and free the fields
  of one `Message` that its caller owns.
* Of the vendored cJSON: what the library never calls (formatted and preallocated
  printing, arrays to print, editing, duplication, comparison, minifying, hooks),
  and numbers with a fraction or exponent.
* The bound of the kernel's signal queue: a lost signal leaves its object unread until
  the next one, and every liveness property fails at once.
* The order in which an interrupted `malloc` or `printf` and a handler's own call meet: the
  handlers are not async-signal-safe, and below the steps of these models.
* The tests, which were read for how an application uses the library.
