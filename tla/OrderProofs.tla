----------------------------- MODULE OrderProofs ----------------------------
(***************************************************************************)
(* The order of the reports in read_buff, for every value of the constants *)
(* of module Server. That of the messages needs no assumption about them:  *)
(* starts, stops, failures of malloc and every interleaving are included.  *)
(* That "Connection closed" comes last needs that start_server discards no *)
(* table that may have entries (PlainStarts). That it is true of the       *)
(* connection needs a count of the READ signals that are on their way.     *)
(***************************************************************************)
EXTENDS ServerProofs, FiniteSetTheorems

\* What a peer sent and read_message hands over.
Messages == {"msg", "bad"}
IsMessage(r) == r.what \in Messages

\* g_queue_push_tail puts nothing on a NULL read_buff.
NullQueue == "queue" \notin up => queue = <<>>
\* recv returns no more than was sent.
ReadSent == \A c \in Conns : rd[c] <= Len(stream[c])
\* A message in read_buff has been read from its connection,
Behind == \A i \in DOMAIN queue : IsMessage(queue[i]) => queue[i].pos \in 1 .. rd[queue[i].from]
\* after the messages of that connection that are before it in read_buff,
Ordered ==
    \A i, j \in DOMAIN queue :
        i < j /\ queue[i].from = queue[j].from /\ IsMessage(queue[i]) /\ IsMessage(queue[j])
            => queue[i].pos < queue[j].pos
\* and every message read after it is in read_buff as well.
Complete ==
    \A i \in DOMAIN queue : IsMessage(queue[i]) =>
        \A p \in queue[i].pos .. rd[queue[i].from] :
            stream[queue[i].from][p] \in Messages =>
                \E k \in DOMAIN queue : /\ queue[k].from = queue[i].from
                                        /\ queue[k].pos = p /\ IsMessage(queue[k])
\* The inductive invariant: MessagesInOrder lets a report of another kind stand
\* for a message that was read, which a read_message could then uncover.
Order == NullQueue /\ ReadSent /\ Behind /\ Ordered /\ Complete
OrderTypes == /\ queue \in Seq(Reports) /\ stream \in [Conns -> Seq(Kinds)]
              /\ rd \in [Conns -> Nat]

LEMMA OrderTyped == Inv => OrderTypes
  BY DEF Inv, DataTypes, KernelTypes, OrderTypes

\* A report is of a connection, at a place in its stream.
LEMMA Items ==
    ASSUME OrderTypes, NEW i \in DOMAIN queue
    PROVE  queue[i].from \in Conns /\ queue[i].pos \in Nat
<1>1. queue[i] \in Reports BY DEF OrderTypes
<1> QED BY <1>1 DEF Reports

-----------------------------------------------------------------------------
(* One lemma for each thing that a step can do to read_buff and a stream.  *)

\* Steps that neither read a stream nor touch read_buff.
Aside == UNCHANGED <<queue, rd, stream>> /\ ("queue" \in up => "queue" \in up')

LEMMA AsideOrder == ASSUME Order, Aside PROVE Order'
  BY DEF Order, Aside, NullQueue, ReadSent, Behind, Ordered, Complete

\* g_queue_free_full: an empty read_buff is in order.
LEMMA EmptyOrder == ASSUME Order, queue' = <<>>, UNCHANGED <<rd, stream>> PROVE Order'
  BY DEF Order, NullQueue, ReadSent, Behind, Ordered, Complete

\* Segments arrive behind what was sent before.
LEMMA ArriveOrder ==
    ASSUME OrderTypes, Order, NEW c \in Conns, NEW seg \in Segments, Arrive(c, seg)
    PROVE  Order'
<1> USE DEF Order, OrderTypes
<1>1. UNCHANGED <<queue, rd, up>> /\ stream' = [stream EXCEPT ![c] = @ \o seg]
  BY DEF Arrive, srv
<1>2. seg \in Seq(Kinds) BY ServerAssumption
<1>3. \A d \in Conns : /\ Len(stream[d]) <= Len(stream'[d])
                       /\ \A p \in 1 .. Len(stream[d]) : stream'[d][p] = stream[d][p]
  BY <1>1, <1>2
<1>4. NullQueue' /\ Behind' /\ Ordered' BY <1>1 DEF NullQueue, Behind, Ordered
<1>5. ReadSent'
  <2> SUFFICES ASSUME NEW d \in Conns PROVE rd[d] <= Len(stream'[d]) BY <1>1 DEF ReadSent
  <2>1. stream'[d] \in Seq(Kinds) BY <1>1, <1>2
  <2>2. rd[d] \in Nat /\ rd[d] <= Len(stream[d]) /\ Len(stream[d]) \in Nat /\ Len(stream'[d]) \in Nat
    BY <2>1 DEF ReadSent
  <2> QED BY <2>2, <1>3
<1>6. Complete'
  <2> SUFFICES ASSUME NEW i \in DOMAIN queue', IsMessage(queue'[i]),
                      NEW p \in queue'[i].pos .. rd'[queue'[i].from],
                      stream'[queue'[i].from][p] \in Messages
               PROVE  \E k \in DOMAIN queue' : /\ queue'[k].from = queue'[i].from
                                               /\ queue'[k].pos = p /\ IsMessage(queue'[k])
    BY DEF Complete
  <2>1. queue[i].from \in Conns /\ queue[i].pos \in 1 .. rd[queue[i].from] /\ i \in DOMAIN queue
    BY <1>1, Items DEF Behind
  <2>2. p \in 1 .. Len(stream[queue[i].from])
    <3>1. rd[queue[i].from] \in Nat /\ rd[queue[i].from] <= Len(stream[queue[i].from])
          /\ Len(stream[queue[i].from]) \in Nat
      BY <2>1 DEF ReadSent
    <3> QED BY <1>1, <2>1, <3>1
  <2>3. stream[queue[i].from][p] \in Messages BY <1>1, <1>3, <2>1, <2>2
  <2> QED BY <1>1, <2>3 DEF Complete
<1> QED BY <1>4, <1>5, <1>6

\* A newline, a KEEP_ALIVE and a fragment are read without a report.
LEMMA SkipOrder ==
    ASSUME OrderTypes, Order, NEW x \in Frames, con[x] \in Conns, NEW kinds,
           kinds \cap Messages = {}, Fetching(x, kinds), UNCHANGED <<queue, stream, up>>
    PROVE  Order'
<1> USE DEF Order, OrderTypes
<1> DEFINE c == con[x]
<1>1. /\ rd[c] < Len(stream[c]) /\ stream[c][rd[c] + 1] \notin Messages
      /\ rd' = [rd EXCEPT ![c] = @ + 1]
  BY DEF Fetching, Unread, NextKind
<1>2. \A d \in Conns : rd'[d] = rd[d] \/ (d = c /\ rd'[d] = rd[d] + 1) BY <1>1
<1>3. NullQueue' /\ Ordered' BY DEF NullQueue, Ordered
<1>4. ReadSent'
  <2> SUFFICES ASSUME NEW d \in Conns PROVE rd'[d] <= Len(stream[d]) BY DEF ReadSent
  <2> QED BY <1>1, <1>2 DEF ReadSent
<1>5. Behind'
  <2> SUFFICES ASSUME NEW i \in DOMAIN queue, IsMessage(queue[i])
               PROVE  queue[i].pos \in 1 .. rd'[queue[i].from]
    BY DEF Behind
  <2>1. queue[i].from \in Conns /\ queue[i].pos \in 1 .. rd[queue[i].from] BY Items DEF Behind
  <2>2. rd[queue[i].from] \in Nat BY <2>1
  <2> QED BY <2>1, <2>2, <1>2
<1>6. Complete'
  <2> SUFFICES ASSUME NEW i \in DOMAIN queue, IsMessage(queue[i]),
                      NEW p \in queue[i].pos .. rd'[queue[i].from],
                      stream[queue[i].from][p] \in Messages
               PROVE  \E k \in DOMAIN queue : /\ queue[k].from = queue[i].from
                                              /\ queue[k].pos = p /\ IsMessage(queue[k])
    BY DEF Complete
  <2>1. queue[i].from \in Conns /\ queue[i].pos \in Nat BY Items
  <2>2. rd[queue[i].from] \in Nat BY <2>1
  <2>3. p \in queue[i].pos .. rd[queue[i].from]
    <3>1. CASE rd'[queue[i].from] = rd[queue[i].from] BY <3>1
    <3>2. CASE queue[i].from = c /\ rd'[c] = rd[c] + 1
      <4>1. p # rd[c] + 1 BY <1>1, <3>2
      <4> QED BY <3>2, <4>1, <2>1, <2>2
    <3> QED BY <3>1, <3>2, <2>1, <1>2
  <2> QED BY <2>3 DEF Complete
<1> QED BY <1>3, <1>4, <1>5, <1>6

\* "Connection closed" and a timeout are reported in between.
LEMMA ReportOrder ==
    ASSUME OrderTypes, Order, NEW c \in Conns, NEW what \in {"closed", "timeout"},
           Push(c, what, rd[c]), UNCHANGED <<rd, stream, up>>
    PROVE  Order'
<1> USE DEF Order, OrderTypes
<1> DEFINE r == [from |-> c, what |-> what, pos |-> rd[c]]
<1>1. CASE "queue" \notin up
  <2>1. Aside BY <1>1 DEF Push, Aside
  <2> QED BY <2>1, AsideOrder
<1>2. CASE "queue" \in up
  <2>1. queue' = Append(queue, r) BY <1>2 DEF Push
  <2>2. r \in Reports /\ ~IsMessage(r)
    BY DEF Reports, IsMessage, Messages
  <2>3. /\ Len(queue) \in Nat /\ DOMAIN queue = 1 .. Len(queue)
        /\ DOMAIN queue' = 1 .. Len(queue) + 1 /\ queue'[Len(queue) + 1] = r
        /\ \A i \in DOMAIN queue : queue'[i] = queue[i]
    BY <2>1, <2>2
  <2>4. \A i \in DOMAIN queue' : IsMessage(queue'[i]) => i \in DOMAIN queue /\ queue'[i] = queue[i]
    BY <2>2, <2>3
  <2>5. NullQueue' /\ ReadSent' BY <1>2 DEF NullQueue, ReadSent
  <2>6. Behind' BY <2>4 DEF Behind
  <2>7. Ordered' BY <2>4 DEF Ordered
  <2>8. Complete'
    <3> SUFFICES ASSUME NEW i \in DOMAIN queue', IsMessage(queue'[i]),
                        NEW p \in queue'[i].pos .. rd[queue'[i].from],
                        stream[queue'[i].from][p] \in Messages
                 PROVE  \E k \in DOMAIN queue' : /\ queue'[k].from = queue'[i].from
                                                 /\ queue'[k].pos = p /\ IsMessage(queue'[k])
      BY DEF Complete
    <3>1. PICK k \in DOMAIN queue : /\ queue[k].from = queue[i].from
                                    /\ queue[k].pos = p /\ IsMessage(queue[k])
      BY <2>4, SMTT(60) DEF Complete
    <3>2. k \in DOMAIN queue' BY <2>3
    <3> QED BY <3>1, <3>2, <2>3, <2>4
  <2> QED BY <2>5, <2>6, <2>7, <2>8
<1> QED BY <1>1, <1>2

\* An object is queued as it is read, a KEEP_ALIVE that did not decode included.
LEMMA MessageOrder ==
    ASSUME OrderTypes, Order, NEW x \in Frames, con[x] \in Conns, FetchObject(x)
    PROVE  Order'
<1> USE DEF Order, OrderTypes
<1> DEFINE c == con[x]
<1>0. PICK what \in Messages : Push(c, what, rd'[c])
  <2>1. Decoded(c) \ {"ka"} \subseteq Messages
    BY DEF FetchObject, Fetching, Decoded, Messages
  <2> QED BY <2>1 DEF FetchObject
<1> DEFINE r == [from |-> c, what |-> what, pos |-> rd[c] + 1]
<1>1. /\ rd[c] < Len(stream[c])
      /\ rd' = [rd EXCEPT ![c] = @ + 1] /\ UNCHANGED <<stream, up>>
      /\ Push(c, what, rd[c] + 1)
  BY <1>0 DEF FetchObject, Fetching, Unread
<1>2. /\ \A d \in Conns : d # c => rd'[d] = rd[d]
      /\ rd'[c] = rd[c] + 1 /\ rd[c] \in Nat /\ c \in Conns
  BY <1>1
<1>3. ReadSent'
  <2> SUFFICES ASSUME NEW d \in Conns PROVE rd'[d] <= Len(stream[d]) BY <1>1 DEF ReadSent
  <2> QED BY <1>1, <1>2 DEF ReadSent
<1>4. CASE "queue" \notin up
  <2>1. queue = <<>> /\ queue' = <<>> BY <1>1, <1>4 DEF Push, NullQueue
  <2> QED BY <2>1, <1>3 DEF NullQueue, Behind, Ordered, Complete
<1>5. CASE "queue" \in up
  <2>1. queue' = Append(queue, r) BY <1>1, <1>5 DEF Push
  <2>2. r \in Reports /\ IsMessage(r) /\ r.from = c /\ r.pos = rd[c] + 1
    BY <1>1, <1>2 DEF Reports, IsMessage, Messages
  <2>3. /\ Len(queue) \in Nat /\ DOMAIN queue = 1 .. Len(queue)
        /\ DOMAIN queue' = 1 .. Len(queue) + 1 /\ queue'[Len(queue) + 1] = r
        /\ \A i \in DOMAIN queue : queue'[i] = queue[i]
    BY <2>1, <2>2
  <2>4. \A i \in DOMAIN queue' : i \in DOMAIN queue \/ i = Len(queue) + 1 BY <2>3
  <2>5. NullQueue' BY <1>1, <1>5 DEF NullQueue
  <2>6. Behind'
    <3> SUFFICES ASSUME NEW i \in DOMAIN queue', IsMessage(queue'[i])
                 PROVE  queue'[i].pos \in 1 .. rd'[queue'[i].from]
      BY DEF Behind
    <3>1. CASE i = Len(queue) + 1
      <4>1. queue'[i] = r BY <3>1, <2>3
      <4>2. queue'[i].from = c /\ queue'[i].pos = rd[c] + 1 BY <4>1, <2>2
      <4>3. rd[c] + 1 \in 1 .. rd[c] + 1 BY <1>2
      <4> QED BY <4>2, <4>3, <1>2
    <3>2. CASE i \in DOMAIN queue
      <4>1. /\ queue[i].from \in Conns /\ queue[i].pos \in 1 .. rd[queue[i].from]
            /\ rd[queue[i].from] \in Nat
        BY <3>2, <2>3, Items DEF Behind
      <4>2. queue'[i] = queue[i] BY <3>2, <2>3
      <4>3. CASE queue[i].from = c
        <5>1. queue[i].pos \in 1 .. rd[c] + 1 BY <4>1, <4>3, <1>2
        <5> QED BY <4>2, <4>3, <5>1, <1>2
      <4>4. CASE queue[i].from # c
        <5>1. rd'[queue[i].from] = rd[queue[i].from] BY <4>1, <4>4, <1>2
        <5> QED BY <4>1, <4>2, <5>1
      <4> QED BY <4>3, <4>4
    <3> QED BY <3>1, <3>2, <2>4
  <2>7. Ordered'
    <3> SUFFICES ASSUME NEW i \in DOMAIN queue', NEW j \in DOMAIN queue', i < j,
                        queue'[i].from = queue'[j].from,
                        IsMessage(queue'[i]), IsMessage(queue'[j])
                 PROVE  queue'[i].pos < queue'[j].pos
      BY DEF Ordered
    <3>1. i \in DOMAIN queue BY <2>3
    <3>2. CASE j \in DOMAIN queue BY <3>1, <3>2, <2>3 DEF Ordered
    <3>3. CASE j = Len(queue) + 1
      <4>1. queue[i].from = c /\ queue[i].pos \in 1 .. rd[c] BY <3>1, <3>3, <2>2, <2>3 DEF Behind
      <4> QED BY <3>1, <3>3, <4>1, <2>2, <2>3, <1>2
    <3> QED BY <3>2, <3>3, <2>4
  <2>8. Complete'
    <3> SUFFICES ASSUME NEW i \in DOMAIN queue', IsMessage(queue'[i]),
                        NEW p \in queue'[i].pos .. rd'[queue'[i].from],
                        stream'[queue'[i].from][p] \in Messages
                 PROVE  \E k \in DOMAIN queue' : /\ queue'[k].from = queue'[i].from
                                                 /\ queue'[k].pos = p /\ IsMessage(queue'[k])
      BY DEF Complete
    <3>0. stream[queue'[i].from][p] \in Messages BY <1>1
    <3>1. CASE i = Len(queue) + 1
      <4>1. queue'[i] = r BY <3>1, <2>3
      <4>2. queue'[i].from = c /\ queue'[i].pos = rd[c] + 1 BY <4>1, <2>2
      <4>3. p \in rd[c] + 1 .. rd[c] + 1 BY <4>2, <1>2
      <4>4. p = rd[c] + 1 BY <4>3, <1>2
      <4> QED BY <3>1, <4>2, <4>4
    <3>2. CASE i \in DOMAIN queue /\ queue[i].from = c /\ p = rd[c] + 1
      <4>1. Len(queue) + 1 \in DOMAIN queue' BY <2>3
      <4> QED BY <3>2, <4>1, <2>2, <2>3
    <3>3. CASE i \in DOMAIN queue /\ ~(queue[i].from = c /\ p = rd[c] + 1)
      <4>1. /\ queue[i].from \in Conns /\ queue[i].pos \in Nat /\ queue'[i] = queue[i]
            /\ rd[queue[i].from] \in Nat
        BY <3>3, <2>3, Items
      <4>2. p \in queue[i].pos .. rd[queue[i].from]
        <5>1. CASE queue[i].from = c
          <6>1. p \in queue[i].pos .. rd[c] + 1 /\ p # rd[c] + 1 BY <3>3, <4>1, <5>1, <1>2
          <6> QED BY <4>1, <5>1, <6>1
        <5>2. CASE queue[i].from # c
          <6>1. rd'[queue[i].from] = rd[queue[i].from] BY <4>1, <5>2, <1>2
          <6> QED BY <4>1, <6>1
        <5> QED BY <5>1, <5>2
      <4>3. PICK k \in DOMAIN queue : /\ queue[k].from = queue[i].from
                                      /\ queue[k].pos = p /\ IsMessage(queue[k])
        BY <3>0, <3>3, <4>1, <4>2 DEF Complete
      <4>4. k \in DOMAIN queue' BY <2>3
      <4> QED BY <4>1, <4>3, <4>4, <2>3
    <3> QED BY <3>1, <3>2, <3>3, <2>4
  <2> QED BY <1>3, <2>5, <2>6, <2>7, <2>8
<1> QED BY <1>4, <1>5

\* read_message takes the oldest report: what is left was read after it.
LEMMA TakeOrder ==
    ASSUME OrderTypes, Order, NEW x \in Frames, read_message(x)
    PROVE  Order'
<1> USE DEF Order, OrderTypes
<1>1. UNCHANGED <<rd, stream, up>> BY DEF read_message, net
<1>2. CASE queue = <<>>
  <2>1. Aside BY <1>1, <1>2 DEF read_message, Aside
  <2> QED BY <2>1, AsideOrder
<1>3. CASE queue # <<>>
  <2>1. queue' = Tail(queue) BY <1>3 DEF read_message
  <2>2. /\ Len(queue) \in Nat /\ Len(queue) > 0 /\ DOMAIN queue = 1 .. Len(queue)
        /\ DOMAIN queue' = 1 .. Len(queue) - 1
        /\ \A i \in DOMAIN queue' : i + 1 \in DOMAIN queue /\ queue'[i] = queue[i + 1]
    BY <1>3, <2>1
  <2>3. NullQueue' /\ ReadSent' BY <1>1, <1>3 DEF NullQueue, ReadSent
  <2>4. Behind' BY <1>1, <2>2 DEF Behind
  <2>5. Ordered'
    <3> SUFFICES ASSUME NEW i \in DOMAIN queue', NEW j \in DOMAIN queue', i < j,
                        queue'[i].from = queue'[j].from,
                        IsMessage(queue'[i]), IsMessage(queue'[j])
                 PROVE  queue'[i].pos < queue'[j].pos
      BY DEF Ordered
    <3>1. i + 1 < j + 1 BY <2>2
    <3> QED BY <3>1, <2>2 DEF Ordered
  <2>6. Complete'
    <3> SUFFICES ASSUME NEW i \in DOMAIN queue', IsMessage(queue'[i]),
                        NEW p \in queue'[i].pos .. rd[queue'[i].from],
                        stream[queue'[i].from][p] \in Messages
                 PROVE  \E k \in DOMAIN queue' : /\ queue'[k].from = queue'[i].from
                                                 /\ queue'[k].pos = p /\ IsMessage(queue'[k])
      BY <1>1 DEF Complete
    <3>1. i + 1 \in DOMAIN queue /\ queue'[i] = queue[i + 1] BY <2>2
    <3>2. PICK k \in DOMAIN queue : /\ queue[k].from = queue[i + 1].from
                                    /\ queue[k].pos = p /\ IsMessage(queue[k])
      BY <3>1 DEF Complete
    <3>3. k # 1
      <4> SUFFICES ASSUME k = 1 PROVE FALSE OBVIOUS
      <4>1. k < i + 1 BY <2>2
      <4>2. queue[k].pos < queue[i + 1].pos BY <3>1, <3>2, <4>1 DEF Ordered
      <4>3. queue[k].pos \in Nat /\ queue[i + 1].pos \in Nat /\ rd[queue[i + 1].from] \in Nat
        BY <3>1, Items
      <4> QED BY <3>1, <3>2, <4>2, <4>3
    <3>4. k - 1 \in DOMAIN queue' /\ queue'[k - 1] = queue[k] BY <2>2, <3>3
    <3> QED BY <3>1, <3>2, <3>4
  <2> QED BY <2>3, <2>4, <2>5, <2>6
<1> QED BY <1>2, <1>3

-----------------------------------------------------------------------------
(* Every step is one of these.                                             *)

\* io_handler's reads and reports.
LEMMA IoHandlerOrder == ASSUME Inv, Order, NEW x \in Frames, IoHandler(x) PROVE Order'
<1>0. OrderTypes BY OrderTyped
<1>1. CASE \/ IoLookup(x) \/ IoDestroyed(x) \/ IoPeek(x) \/ ReportFails(x) \/ FetchEnd(x)
  <2>1. Aside
    BY <1>1 DEF IoLookup, IoDestroyed, IoPeek, ReportFails, FetchEnd, Aside, srv, net
  <2> QED BY <2>1, AsideOrder
<1>2. CASE DestroyFree(x) \/ DestroyMisses(x) \/ DestroyAgain(x) \/ DestroyClose(x) \/ UseAfterFree(x)
  <2>1. Aside
    BY <1>2 DEF DestroyFree, DestroyMisses, DestroyAgain, DestroyClose, UseAfterFree, Aside, srv, net
  <2> QED BY <2>1, AsideOrder
<1>3. CASE ReportPush(x)
  <2>1. con[x] \in Conns BY <1>3 DEF ReportPush, At, Inv, FramesKnow, ConLabels
  <2>2. Push(con[x], "closed", rd[con[x]]) /\ UNCHANGED <<rd, stream, up>>
    BY <1>3 DEF ReportPush, net
  <2> QED BY <1>0, <2>1, <2>2, ReportOrder
<1>4. ASSUME At(x, "fetch") PROVE con[x] \in Conns
  BY <1>4 DEF At, Inv, FramesKnow, ConLabels
<1>5. CASE FetchNewline(x)
  <2>1. Fetching(x, {"nl"}) /\ UNCHANGED <<queue, stream, up>> BY <1>5 DEF FetchNewline, srv
  <2>2. con[x] \in Conns BY <1>4, <2>1 DEF Fetching
  <2>3. {"nl"} \cap Messages = {} BY DEF Messages
  <2> QED BY <1>0, <2>1, <2>2, <2>3, SkipOrder
<1>6. CASE FetchKeepAlive(x)
  <2>1. Fetching(x, {"ka"}) /\ UNCHANGED <<queue, stream, up>> BY <1>6 DEF FetchKeepAlive
  <2>2. con[x] \in Conns BY <1>4, <2>1 DEF Fetching
  <2>3. {"ka"} \cap Messages = {} BY DEF Messages
  <2> QED BY <1>0, <2>1, <2>2, <2>3, SkipOrder
<1>7. CASE FetchError(x)
  <2>1. CASE Fetching(x, {"frag"})
    <3>1. UNCHANGED <<queue, stream, up>> BY <1>7 DEF FetchError, srv
    <3>2. con[x] \in Conns BY <1>4, <2>1 DEF Fetching
    <3>3. {"frag"} \cap Messages = {} BY DEF Messages
    <3> QED BY <1>0, <2>1, <3>1, <3>2, <3>3, SkipOrder
  <2>2. CASE ~Fetching(x, {"frag"})
    <3>1. Aside BY <1>7, <2>2 DEF FetchError, Aside, srv
    <3> QED BY <3>1, AsideOrder
  <2> QED BY <2>1, <2>2
<1>8. CASE FetchObject(x)
  <2>1. con[x] \in Conns BY <1>4, <1>8 DEF FetchObject, Fetching
  <2> QED BY <1>0, <1>8, <2>1, MessageOrder
<1> QED BY <1>1, <1>2, <1>3, <1>5, <1>6, <1>7, <1>8 DEF IoHandler

\* connect_handler neither reads nor reports.
LEMMA ConnectHandlerOrder == ASSUME Order, NEW x \in Frames, ConnectHandler(x) PROVE Order'
<1>1. Aside
  <2>1. CASE AcceptFails(x) \/ AcceptAborts(x) \/ Accept(x) \/ Insert(x)
    BY <2>1 DEF AcceptFails, AcceptAborts, Accept, Insert, Aside, srv, net
  <2>2. CASE InsertExits(x) \/ InsertFails(x) \/ InsertFree(x) \/ Setup(x)
    BY <2>2 DEF InsertExits, InsertFails, InsertFree, Setup, Aside, srv, net
  <2> QED BY <2>1, <2>2 DEF ConnectHandler
<1> QED BY <1>1, AsideOrder

\* The calls, the timer, and the locks that the handlers wait for.
LEMMA OwnStepsOrder == ASSUME Inv, Order, NEW x \in Frames, OwnSteps(x) PROVE Order'
<1>0. OrderTypes BY OrderTyped
<1>1. CASE Acquire(x) \/ Tick(x) \/ iter_keep_alives(x) \/ TickDone(x)
  <2>1. Aside BY <1>1 DEF Acquire, Tick, iter_keep_alives, TickDone, Aside, srv, net
  <2> QED BY <2>1, AsideOrder
<1>2. CASE \E fd \in Fds : check_keep_alive(x, fd)
  <2>1. PICK fd \in Fds : check_keep_alive(x, fd) BY <1>2
  <2>2. CASE UNCHANGED queue
    <3>1. Aside BY <2>1, <2>2 DEF check_keep_alive, Aside, net
    <3> QED BY <3>1, AsideOrder
  <2>3. CASE queue' # queue
    <3>1. /\ table[fd] \in overdue /\ Push(table[fd], "timeout", rd[table[fd]])
          /\ UNCHANGED <<rd, stream, up>>
      BY <2>1, <2>3 DEF check_keep_alive, net
    <3>2. table[fd] \in Conns BY <3>1 DEF Inv, DataTypes
    <3> QED BY <1>0, <3>1, <3>2, ReportOrder
  <2> QED BY <2>2, <2>3
<1>3. CASE \/ \E m \in {read_buff_mux, connections_mux} : CallLock(x, m)
           \/ stop_server(x) \/ start_server(x)
  <2>1. Aside BY <1>3 DEF CallLock, stop_server, start_server, Aside, srv, net
  <2> QED BY <2>1, AsideOrder
<1>4. CASE read_message(x) BY <1>0, <1>4, TakeOrder
<1>5. CASE get_connected_list(x) \/ ListAborts(x) \/ StopSignals(x)
  <2>1. Aside BY <1>5 DEF get_connected_list, ListAborts, StopSignals, Aside, srv, net
  <2> QED BY <2>1, AsideOrder
<1>6. CASE (\E fd \in Fds : StopFree(x, fd)) \/ StopClose(x) \/ StopTable(x)
  <2>1. Aside BY <1>6 DEF StopFree, FreeEntry, StopClose, CloseEntry, StopTable, Aside, net
  <2> QED BY <2>1, AsideOrder
<1>7. CASE StopQueue(x)
  <2>1. queue' = <<>> /\ UNCHANGED <<rd, stream>> BY <1>7 DEF StopQueue, net
  <2> QED BY <2>1, EmptyOrder
<1> QED BY <1>1, <1>2, <1>3, <1>4, <1>5, <1>6, <1>7 DEF OwnSteps, KeepAliveCheck, Call, Finish

\* start_server makes an empty read_buff, and discards one.
LEMMA StartOrder == ASSUME Inv, Order, NEW x \in Frames, Start(x) PROVE Order'
<1>1. CASE StartQueue(x) \/ UndoQueue(x)
  <2>1. queue' = <<>> /\ UNCHANGED <<rd, stream>> BY <1>1 DEF StartQueue, UndoQueue, net
  <2> QED BY <2>1, EmptyOrder
<1>2. CASE StartTable(x) \/ StartSignals(x) \/ StartListen(x) \/ UndoTable(x) \/ Race(x)
  <2>1. Aside
    BY <1>2 DEF StartTable, StartSignals, StartListen, UndoTable, Race, Aside, srv, net
  <2> QED BY <2>1, AsideOrder
<1>3. CASE StartTimer(x)
  <2>1. UNCHANGED <<queue, rd, stream>> BY <1>3 DEF StartTimer, net
  <2>2. \A v \in {"queue"} : v \in up => v \in up' BY <1>3 DEF StartTimer
  <2>3. Aside BY <2>1, <2>2 DEF Aside
  <2> QED BY <2>3, AsideOrder
<1>4. CASE UndoClose(x) \/ \E fd \in Fds : UndoFree(x, fd)
  <2>1. Aside BY <1>4 DEF UndoFree, FreeEntry, UndoClose, CloseEntry, Aside, net
  <2> QED BY <2>1, AsideOrder
<1> QED BY <1>1, <1>2, <1>3, <1>4 DEF Start

\* The peers and the kernel.
LEMMA KernelStepsOrder == ASSUME Inv, Order, KernelSteps PROVE Order'
<1>1. CASE \E c \in Conns : \E seg \in Segments : Arrive(c, seg)
  BY <1>1, OrderTyped, ArriveOrder
<1>2. CASE ~(\E c \in Conns : \E seg \in Segments : Arrive(c, seg))
  <2>1. Aside
    BY <1>2 DEF KernelSteps, Peer, Connect, Fin, Expire, TakeConnect, TakeRead, Aside, srv, net
  <2> QED BY <2>1, AsideOrder
<1> QED BY <1>1, <1>2

LEMMA OrderStep == Inv /\ Order /\ [Next]_vars => Order'
<1> SUFFICES ASSUME Inv, Order, [Next]_vars PROVE Order' OBVIOUS
<1>1. ASSUME NEW x \in Frames, Step(x) \/ Call(x) \/ Tick(x) PROVE Order'
  BY <1>1, IoHandlerOrder, ConnectHandlerOrder, OwnStepsOrder, StartOrder DEF Step, OwnSteps
<1>2. CASE KernelSteps BY <1>2, KernelStepsOrder
<1>3. CASE UNCHANGED vars
  <2>1. Aside BY <1>3 DEF vars, srv, net, Aside
  <2> QED BY <2>1, AsideOrder
<1> QED BY <1>1, <1>2, <1>3 DEF Next, KernelSteps

\* read_message hands over the messages of a connection in the order in which
\* they were sent, each at most once and with none left out in between,
\* whichever threads the handlers run on and whatever fails.
THEOREM MessagesKeepOrder == Spec => []MessagesInOrder
<1>1. Init => Order
  BY ServerAssumption DEF Init, Order, NullQueue, ReadSent, Behind, Ordered, Complete
<1>2. Inv /\ Order => MessagesInOrder
  <2> SUFFICES ASSUME OrderTypes, Order, NEW i \in DOMAIN queue, NEW j \in DOMAIN queue
               PROVE  LET a == queue[i]
                          b == queue[j] IN
                        /\ a.what \in {"msg", "bad"} => a.pos <= rd[a.from]
                        /\ (i < j /\ a.from = b.from /\ {a.what, b.what} \subseteq {"msg", "bad"})
                             => a.pos < b.pos
                        /\ a.what \in {"msg", "bad"} =>
                             \A p \in a.pos .. rd[a.from] : stream[a.from][p] \in {"msg", "bad"} =>
                                 \E k \in DOMAIN queue : queue[k].from = a.from /\ queue[k].pos = p
    BY OrderTyped DEF MessagesInOrder
  <2> USE DEF Order, IsMessage, Messages
  <2>1. queue[i].from \in Conns /\ queue[i].pos \in Nat /\ rd[queue[i].from] \in Nat
    BY Items DEF OrderTypes
  <2>2. IsMessage(queue[i]) => queue[i].pos <= rd[queue[i].from] BY <2>1 DEF Behind
  <2> QED BY <2>2 DEF Ordered, Complete
<1> QED BY <1>1, <1>2, InitInv, StepInv, OrderStep, PTL DEF Spec
-----------------------------------------------------------------------------
(* "Connection closed" is the last word about a connection.                *)

\* The steps of io_handler after it has locked condata->mutex,
Locked == {"io_check", "rc_lock", "rc_push", "rd_lock", "fetch", "dc_lock", "dc_free"}
\* those of them that lead to a report,
Speaking == {"rc_lock", "rc_push", "rd_lock", "fetch"}
\* and those after the last report.
Departing == {"dc_lock", "dc_free"}
Gone == {"destroyed", "freed"}
\* read_buff has a "Connection closed" for c.
Said(c) == \E i \in DOMAIN queue : queue[i].from = c /\ queue[i].what = "closed"

\* condata->mutex is with the handler that locked it, until the connection is
\* destroyed and the mutex is unlocked under it.
Sole == \A x \in Frames : pc[x] \in Locked /\ cdata[con[x]] = "live" => owner[con[x]] = x
\* One handler at a time is about to report something of a connection, even
\* when stop_server destroys the connection meanwhile,
OneSpeaker ==
    \A x, y \in Frames : pc[x] \in Speaking /\ pc[y] \in Speaking /\ con[x] = con[y] => x = y
\* and none after "Connection closed",
Silent == \A x \in Frames : pc[x] \in Speaking => ~Said(con[x])
\* because the connection is destroyed by then or its mutex is kept for that.
SaidGoes ==
    \A c \in Conns : Said(c) => \/ cdata[c] \in Gone
                                \/ \E x \in Frames : pc[x] \in Departing /\ con[x] = c
\* The inductive invariant, with that of the table.
Last == Sole /\ OneSpeaker /\ Silent /\ SaidGoes /\ ClosedIsLast
LastTypes == /\ EntryTypes
             /\ owner \in [Mutexes -> Frames \cup {NoFrame}]
             /\ queue \in Seq(Reports)
             /\ \A x \in Frames : pc[x] \in Locked \cup {"io_mutex"} => con[x] \in Conns

LEMMA LastTyped == Inv => LastTypes
  BY EntryTyped DEF Inv, FrameTypes, DataTypes, FramesKnow, ConLabels, Locked, LastTypes

\* A step that begins no handler's use of a connection and ends one in order.
Neutral ==
    /\ \A c \in Conns :
         /\ cdata'[c] = "live" =>
              /\ cdata[c] \in {"live", "none"}
              /\ \/ owner'[c] = owner[c]
                 \/ \E z \in Frames : pc[z] \in Locked /\ con[z] = c /\ pc'[z] \notin Locked
         /\ cdata[c] \in Gone => cdata'[c] \in Gone
    /\ \A y \in Frames :
         /\ pc'[y] \in Locked => pc[y] \in Locked /\ con'[y] = con[y]
         /\ pc'[y] \in Speaking => pc[y] \in Speaking
         /\ pc[y] \in Departing => \/ pc'[y] \in Departing /\ con'[y] = con[y]
                                 \/ cdata'[con[y]] \in Gone

\* Such a step keeps Last, unless it queues a "Connection closed".
LEMMA NeutralStep ==
    ASSUME LastTypes, ReadAccepted, Last, Neutral,
           \A c \in Conns : Said(c)' => Said(c), ClosedIsLast'
    PROVE  Last'
<1> USE DEF Last, LastTypes
<1>0. Speaking \subseteq Locked /\ Departing \subseteq Locked /\ Locked \subseteq Reading
  BY DEF Speaking, Departing, Locked, Reading
<1>1. Sole'
  <2> SUFFICES ASSUME NEW y \in Frames, pc'[y] \in Locked, cdata'[con'[y]] = "live"
               PROVE  owner'[con'[y]] = y
    BY DEF Sole
  <2>1. pc[y] \in Locked /\ con'[y] = con[y] /\ con[y] \in Conns BY DEF Neutral
  <2>2. cdata[con[y]] = "live" BY <1>0, <2>1 DEF Neutral, ReadAccepted
  <2>3. owner[con[y]] = y BY <2>1, <2>2 DEF Sole
  <2>4. ASSUME NEW z \in Frames, pc[z] \in Locked, con[z] = con[y], pc'[z] \notin Locked
        PROVE  FALSE
    <3>1. owner[con[y]] = z BY <2>2, <2>4 DEF Sole
    <3> QED BY <2>3, <2>4, <3>1
  <2>5. owner'[con[y]] = owner[con[y]] BY <2>1, <2>4 DEF Neutral
  <2> QED BY <2>1, <2>3, <2>5
<1>2. OneSpeaker' BY <1>0 DEF OneSpeaker, Neutral
<1>3. Silent'
  <2> SUFFICES ASSUME NEW y \in Frames, pc'[y] \in Speaking,
                      NEW i \in DOMAIN queue', queue'[i].from = con'[y], queue'[i].what = "closed"
               PROVE  FALSE
    BY DEF Silent, Said
  <2>1. pc[y] \in Speaking /\ con'[y] = con[y] /\ con[y] \in Conns BY <1>0 DEF Neutral
  <2>2. ~Said(con[y]) BY <2>1 DEF Silent
  <2>3. Said(con[y])' BY <2>1 DEF Said
  <2> QED BY <2>1, <2>2, <2>3
<1>4. SaidGoes'
  <2> SUFFICES ASSUME NEW c \in Conns, Said(c)'
               PROVE  cdata'[c] \in Gone \/ \E y \in Frames : pc'[y] \in Departing /\ con'[y] = c
    BY DEF SaidGoes
  <2>1. Said(c) OBVIOUS
  <2> QED BY <2>1 DEF SaidGoes, Neutral
<1> QED BY <1>1, <1>2, <1>3, <1>4
LEMMA SameQueue ==
    ASSUME LastTypes, ReadAccepted, Last, Neutral, UNCHANGED queue
    PROVE  Last'
<1>1. ClosedIsLast' BY DEF Last, ClosedIsLast
<1>2. \A c \in Conns : Said(c)' => Said(c) BY DEF Said
<1> QED BY <1>1, <1>2, NeutralStep

\* g_queue_push_tail of a report for a connection that is not reported closed.
LEMMA PushLast ==
    ASSUME queue \in Seq(Reports), ClosedIsLast, NEW c \in Conns, NEW p \in Nat,
           NEW w \in {"msg", "bad", "closed", "timeout"}, Push(c, w, p),
           w = "timeout" \/ ~Said(c)
    PROVE  /\ ClosedIsLast'
           /\ \A d \in Conns : Said(d)' => Said(d) \/ (d = c /\ w = "closed")
<1> DEFINE r == [from |-> c, what |-> w, pos |-> p]
<1>1. CASE "queue" \notin up
  <2>1. queue' = queue BY <1>1 DEF Push
  <2> QED BY <2>1 DEF ClosedIsLast, Said
<1>2. CASE "queue" \in up
  <2>1. queue' = Append(queue, r) BY <1>2 DEF Push
  <2>2. r \in Reports /\ r.from = c /\ r.what = w BY DEF Reports
  <2>3. /\ Len(queue) \in Nat /\ DOMAIN queue = 1 .. Len(queue)
        /\ DOMAIN queue' = 1 .. Len(queue) + 1 /\ queue'[Len(queue) + 1] = r
        /\ \A i \in DOMAIN queue : queue'[i] = queue[i]
    BY <2>1, <2>2
  <2>4. \A i \in DOMAIN queue' : i \in DOMAIN queue \/ i = Len(queue) + 1 BY <2>3
  <2>5. ClosedIsLast'
    <3> SUFFICES ASSUME NEW i \in DOMAIN queue', NEW j \in DOMAIN queue', i < j,
                        queue'[i].from = queue'[j].from, queue'[i].what = "closed"
                 PROVE  queue'[j].what = "timeout"
      BY DEF ClosedIsLast
    <3>1. i \in DOMAIN queue /\ queue'[i] = queue[i] BY <2>3
    <3>2. CASE j \in DOMAIN queue BY <3>1, <3>2, <2>3 DEF ClosedIsLast
    <3>3. CASE j = Len(queue) + 1
      <4>1. queue'[j] = r BY <3>3, <2>3
      <4>2. Said(c) BY <3>1, <4>1, <2>2 DEF Said
      <4> QED BY <4>1, <4>2, <2>2
    <3> QED BY <3>2, <3>3, <2>4
  <2>6. ASSUME NEW d \in Conns, Said(d)', ~Said(d) PROVE d = c /\ w = "closed"
    <3>1. PICK i \in DOMAIN queue' : queue'[i].from = d /\ queue'[i].what = "closed"
      BY <2>6 DEF Said
    <3>2. i \notin DOMAIN queue BY <2>6, <2>3, <3>1 DEF Said
    <3>3. queue'[i] = r BY <3>2, <2>3, <2>4
    <3> QED BY <3>1, <3>3, <2>2
  <2> QED BY <2>5, <2>6
<1> QED BY <1>1, <1>2

\* g_queue_pop_head and g_queue_free_full.
LEMMA PopLast ==
    ASSUME queue \in Seq(Reports), ClosedIsLast,
           queue' = <<>> \/ queue' = queue \/ (queue # <<>> /\ queue' = Tail(queue))
    PROVE  ClosedIsLast' /\ \A d \in Conns : Said(d)' => Said(d)
<1>1. CASE queue' = <<>> BY <1>1 DEF ClosedIsLast, Said
<1>2. CASE queue' = queue BY <1>2 DEF ClosedIsLast, Said
<1>3. CASE queue # <<>> /\ queue' = Tail(queue)
  <2>1. /\ Len(queue) \in Nat /\ Len(queue) > 0 /\ DOMAIN queue = 1 .. Len(queue)
        /\ DOMAIN queue' = 1 .. Len(queue) - 1
        /\ \A i \in DOMAIN queue' : i + 1 \in DOMAIN queue /\ queue'[i] = queue[i + 1]
    BY <1>3
  <2>2. ClosedIsLast'
    <3> SUFFICES ASSUME NEW i \in DOMAIN queue', NEW j \in DOMAIN queue', i < j,
                        queue'[i].from = queue'[j].from, queue'[i].what = "closed"
                 PROVE  queue'[j].what = "timeout"
      BY DEF ClosedIsLast
    <3>1. i + 1 < j + 1 BY <2>1
    <3> QED BY <3>1, <2>1 DEF ClosedIsLast
  <2>3. \A d \in Conns : Said(d)' => Said(d) BY <2>1 DEF Said
  <2> QED BY <2>2, <2>3
<1> QED BY <1>1, <1>2, <1>3

-----------------------------------------------------------------------------
\* Steps of io_handler and what it calls are neutral, but for the peek and the
\* report of a close.
LEMMA IoHandlerNeutral ==
    ASSUME EntryInv, Last, NEW x \in Frames, IoHandler(x), ~IoPeek(x), ~ReportPush(x)
    PROVE  Neutral
<1>0. LastTypes BY LastTyped DEF EntryInv
<1> USE <1>0 DEF LastTypes, EntryTypes, Neutral, Locked, Speaking, Departing, Gone,
        At, Goto, Return, ReadDone, Fetching, Mutexes, DestroyUnlock
<1>1. CASE IoLookup(x)
  <2>1. /\ pc[x] = "io_lookup"
        /\ \A y \in Frames : y # x => pc'[y] = pc[y] /\ con'[y] = con[y]
        /\ pc'[x] \in {"idle", "io_mutex"} /\ cdata' = cdata
        /\ \A c \in Conns : owner'[c] = owner[c]
    BY <1>1, ServerAssumption DEF IoLookup, Unlock, srv
  <2> QED BY <2>1
<1>2. CASE IoDestroyed(x) BY <1>2 DEF IoDestroyed, srv
<1>3. CASE ReportFails(x) BY <1>3 DEF ReportFails, srv
<1>4. CASE FetchNewline(x) BY <1>4 DEF FetchNewline, srv, frm
<1>5. CASE FetchEnd(x) \/ FetchObject(x) \/ FetchKeepAlive(x)
  <2>1. /\ pc[x] = "fetch" /\ pc' = [pc EXCEPT ![x] = "idle"]
        /\ con' = [con EXCEPT ![x] = NoConn] /\ cdata' = cdata
        /\ owner' = [owner EXCEPT ![read_buff_mux] = NoFrame, ![con[x]] = NoFrame]
    BY <1>5 DEF FetchEnd, FetchObject, FetchKeepAlive, srv
  <2>2. \A c \in Conns : c # con[x] => owner'[c] = owner[c] BY <2>1, ServerAssumption
  <2>3. \A y \in Frames : y # x => pc'[y] = pc[y] /\ con'[y] = con[y] BY <2>1
  <2>4. pc'[x] = "idle" BY <2>1
  <2> QED BY <2>1, <2>2, <2>3, <2>4
<1>6. CASE FetchError(x) BY <1>6 DEF FetchError, srv
<1>7. CASE DestroyFree(x)
  <2> DEFINE c == con[x]
  <2>1. c \in Conns /\ table[cfd[c]] = c
    BY <1>7, FindsEntry DEF DestroyFree, RemoveFindsEntry
  <2>2. /\ pc[x] = "dc_free" /\ pc' = [pc EXCEPT ![x] = "dc_close"]
        /\ con' = [con EXCEPT ![x] = c] /\ cdata' = [cdata EXCEPT ![c] = "destroyed"]
        /\ owner' = [owner EXCEPT ![c] = NoFrame]
    BY <1>7, <2>1 DEF DestroyFree, Life, Unlock
  <2> HIDE DEF c
  <2>3. cdata'[c] = "destroyed" /\ \A d \in Conns : d # c => cdata'[d] = cdata[d] /\ owner'[d] = owner[d]
    BY <2>1, <2>2
  <2>4. pc'[x] = "dc_close" /\ \A y \in Frames : y # x => pc'[y] = pc[y] /\ con'[y] = con[y]
    BY <2>2
  <2> QED BY <2>1, <2>2, <2>3, <2>4 DEF c
<1>8. CASE DestroyMisses(x) \/ DestroyAgain(x) BY <1>8, NoMiss
<1>9. CASE DestroyClose(x)
  <2>1. /\ pc[x] = "dc_close" /\ pc' = [pc EXCEPT ![x] = "idle"]
        /\ con' = [con EXCEPT ![x] = NoConn] /\ cdata' = [cdata EXCEPT ![con[x]] = "freed"]
        /\ \A c \in Conns : owner'[c] = owner[c]
    BY <1>9, ServerAssumption DEF DestroyClose, Life
  <2> QED BY <2>1
<1>10. CASE UseAfterFree(x) BY <1>10 DEF UseAfterFree, frm, srv
<1> QED BY <1>1, <1>2, <1>3, <1>4, <1>5, <1>6, <1>7, <1>8, <1>9, <1>10 DEF IoHandler

\* So are the steps of connect_handler.
LEMMA ConnectHandlerNeutral ==
    ASSUME EntryInv, NEW x \in Frames, ConnectHandler(x)
    PROVE  Neutral
<1>0. LastTypes BY LastTyped DEF EntryInv
<1> USE <1>0 DEF LastTypes, EntryTypes, Neutral, Locked, Speaking, Departing, Gone,
        At, Goto, Return, Mutexes
<1>1. CASE AcceptFails(x) \/ AcceptAborts(x)
  BY <1>1 DEF AcceptFails, AcceptAborts, srv
<1>2. CASE Accept(x)
  <2> DEFINE c == Head(backlog)
  <2>1. /\ pc[x] = "cn_accept" /\ pc' = [pc EXCEPT ![x] = "cn_lock"] /\ backlog # <<>>
        /\ con' = [con EXCEPT ![x] = c] /\ cdata' = [cdata EXCEPT ![c] = "live"] /\ owner' = owner
    BY <1>2 DEF Accept, CanAccept, Life
  <2>2. cdata[c] = "none"
    <3>1. 1 \in 1..Len(backlog) /\ c = backlog[1] BY <2>1
    <3> QED BY <3>1 DEF EntryInv, Entries, BacklogFresh
  <2> HIDE DEF c
  <2>3. pc'[x] = "cn_lock" /\ \A y \in Frames : y # x => pc'[y] = pc[y] /\ con'[y] = con[y]
    BY <2>1
  <2>4. \A d \in Conns : d # c => cdata'[d] = cdata[d] BY <2>1
  <2> QED BY <2>1, <2>2, <2>3, <2>4
<1>3. CASE Insert(x) BY <1>3, ServerAssumption DEF Insert, Unlock
<1>4. CASE InsertExits(x) \/ InsertFails(x) BY <1>4 DEF InsertExits, InsertFails, frm, srv
<1>5. CASE InsertFree(x)
  <2>1. /\ pc[x] = "cn_free" /\ pc' = [pc EXCEPT ![x] = "idle"] /\ owner' = owner
        /\ con' = [con EXCEPT ![x] = NoConn] /\ cdata' = [cdata EXCEPT ![con[x]] = "freed"]
    BY <1>5 DEF InsertFree, Life
  <2> QED BY <2>1
<1>6. CASE Setup(x) BY <1>6 DEF Setup
<1> QED BY <1>1, <1>2, <1>3, <1>4, <1>5, <1>6 DEF ConnectHandler
\* So are the steps of the calls and of the timer's check, and every lock but
\* that of a condata->mutex.
LEMMA OwnStepsNeutral ==
    ASSUME EntryInv, NEW x \in Frames, OwnSteps(x), ~(Acquire(x) /\ pc[x] = "io_mutex")
    PROVE  Neutral
<1>0. LastTypes BY LastTyped DEF EntryInv
<1> USE <1>0 DEF LastTypes, EntryTypes, Neutral, Locked, Speaking, Departing, Gone,
        At, Goto, Return, Mutexes, Lock, Unlock
<1>1. CASE Acquire(x)
  <2>1. PICK m \in {connections_mux, read_buff_mux} : owner' = [owner EXCEPT ![m] = x]
    BY <1>1 DEF Acquire, Wants
  <2>2. \A c \in Conns : owner'[c] = owner[c] BY <2>1, ServerAssumption
  <2>3. UNCHANGED <<con, cdata>> /\ pc' = [pc EXCEPT ![x] = After(pc[x])]
        /\ pc[x] \in WaitLabels \ {"io_mutex"}
    BY <1>1 DEF Acquire, Waiting, srv
  <2>4. /\ After(pc[x]) \in Locked => pc[x] \in Locked
        /\ After(pc[x]) \in Speaking => pc[x] \in Speaking
        /\ pc[x] \in Departing => After(pc[x]) \in Departing
    BY <2>3 DEF After, WaitLabels
  <2> QED BY <2>2, <2>3, <2>4
<1>2. CASE iter_keep_alives(x) \/ TickDone(x) \/ \E fd \in Fds : check_keep_alive(x, fd)
  BY <1>2, ServerAssumption DEF iter_keep_alives, TickDone, check_keep_alive, frm, srv
<1>3. CASE Tick(x) BY <1>3 DEF Tick, srv
<1>4. CASE \E m \in {read_buff_mux, connections_mux} : CallLock(x, m)
  BY <1>4, ServerAssumption DEF CallLock, IsCall, srv
<1>5. CASE stop_server(x) \/ start_server(x)
  BY <1>5 DEF stop_server, start_server, MainIdle, IsCall, srv
<1>6. CASE read_message(x) \/ get_connected_list(x) \/ ListAborts(x)
  BY <1>6, ServerAssumption DEF read_message, get_connected_list, ListAborts, frm, srv
<1>7. CASE StopSignals(x) \/ StopTable(x) \/ StopQueue(x)
  BY <1>7, ServerAssumption DEF StopSignals, StopTable, StopQueue, srv
<1>8. CASE \E fd \in Fds : StopFree(x, fd)
  <2>1. PICK fd \in Fds : StopFree(x, fd) BY <1>8
  <2> DEFINE c == table[fd]
  <2>2. /\ c \in Conns /\ pc[x] = "stop_free" /\ pc' = [pc EXCEPT ![x] = "stop_close"]
        /\ con' = [con EXCEPT ![x] = c] /\ cdata' = [cdata EXCEPT ![c] = "destroyed"]
        /\ owner' = [owner EXCEPT ![c] = NoFrame]
    BY <2>1 DEF StopFree, FreeEntry, Life
  <2> HIDE DEF c
  <2>3. cdata'[c] = "destroyed" /\ \A d \in Conns : d # c => cdata'[d] = cdata[d] /\ owner'[d] = owner[d]
    BY <2>2
  <2>4. pc'[x] = "stop_close" /\ \A y \in Frames : y # x => pc'[y] = pc[y] /\ con'[y] = con[y]
    BY <2>2
  <2> QED BY <2>2, <2>3, <2>4
<1>9. CASE StopClose(x)
  <2>1. /\ pc[x] = "stop_close" /\ pc' = [pc EXCEPT ![x] = "stop_free"] /\ owner' = owner
        /\ con' = [con EXCEPT ![x] = NoConn] /\ cdata' = [cdata EXCEPT ![con[x]] = "freed"]
    BY <1>9 DEF StopClose, CloseEntry, Life
  <2> QED BY <2>1
<1> QED BY <1>1, <1>2, <1>3, <1>4, <1>5, <1>6, <1>7, <1>8, <1>9
        DEF OwnSteps, KeepAliveCheck, Call, Finish

\* start_server frees no connection while there is none to free.
LEMMA StartNeutral ==
    ASSUME PlainStarts \/ StartsClean, EntryInv, NEW x \in Frames, Start(x)
    PROVE  Neutral
<1>0. LastTypes BY LastTyped DEF EntryInv
<1>1. /\ UNCHANGED <<con, owner, cdata>>
      /\ \/ UNCHANGED pc
         \/ /\ pc[x] \in StartLabels
            /\ \E l \in StartLabels \cup {"idle"} : pc' = [pc EXCEPT ![x] = l]
  BY StartTableKept DEF StartPlain, Race, Goto, frm, srv
<1>2. \A y \in Frames : \/ pc'[y] = pc[y]
                        \/ /\ pc[y] \in StartLabels
                           /\ pc'[y] \in StartLabels \cup {"idle"}
  BY <1>0, <1>1 DEF LastTypes, EntryTypes
<1> QED BY <1>0, <1>1, <1>2
        DEF LastTypes, EntryTypes, Neutral, Locked, Speaking, Departing, StartLabels

\* So is what the peers and the kernel do.
LEMMA KernelStepsNeutral == ASSUME EntryInv, KernelSteps PROVE Neutral
<1>0. LastTypes BY LastTyped DEF EntryInv
<1> USE <1>0 DEF LastTypes, EntryTypes, Neutral, Locked, Speaking, Departing, Gone
<1>1. CASE Peer BY <1>1 DEF Peer, Connect, Arrive, Fin, Expire, frm, srv
<1>2. CASE \E t \in Threads : TakeConnect(t)
  BY <1>2 DEF TakeConnect, Enter, Goto, Deliverable, srv
<1>3. CASE \E t \in Threads : TakeRead(t)
  <2>1. PICK t \in Threads : TakeRead(t) BY <1>3
  <2>2. UNCHANGED <<con, owner, cdata>> BY <2>1 DEF TakeRead, srv
  <2>3. /\ pc' = [pc EXCEPT ![<<t, "io">>] = "io_lock"] \/ pc' = pc
        /\ pc[<<t, "io">>] = "idle"
    BY <2>1 DEF TakeRead, Enter, Goto, Deliverable
  <2> QED BY <2>2, <2>3
<1> QED BY <1>1, <1>2, <1>3 DEF KernelSteps

-----------------------------------------------------------------------------
\* pthread_mutex_lock on condata->mutex: no other handler has the connection.
LEMMA LockLast ==
    ASSUME LastTypes, Last, NEW x \in Frames, Acquire(x), pc[x] = "io_mutex"
    PROVE  Last'
<1> USE DEF Last, LastTypes, EntryTypes
<1> DEFINE c == con[x]
<1>1. /\ owner[c] = NoFrame /\ owner' = [owner EXCEPT ![c] = x]
      /\ pc' = [pc EXCEPT ![x] = "io_check"] /\ UNCHANGED <<con, cdata, queue>>
  BY DEF Acquire, Lock, Wants, After, Goto, srv
<1>2. pc'[x] = "io_check" /\ \A y \in Frames : y # x => pc'[y] = pc[y] BY <1>1
<1>3. \A d \in Mutexes : d # c => owner'[d] = owner[d] BY <1>1
<1>4. Conns \subseteq Mutexes BY DEF Mutexes
<1>5. Sole'
  <2> SUFFICES ASSUME NEW y \in Frames, pc'[y] \in Locked, cdata[con[y]] = "live", y # x
               PROVE  owner'[con[y]] = y
    <3>1. owner'[c] = x BY <1>1, <1>4
    <3> QED BY <1>1, <3>1 DEF Sole
  <2>1. pc[y] \in Locked BY <1>2
  <2>2. owner[con[y]] = y /\ con[y] \in Conns BY <2>1 DEF Sole
  <2>3. con[y] # c BY <1>1, <2>2, ServerAssumption
  <2> QED BY <1>3, <1>4, <2>2, <2>3
<1>6. OneSpeaker' /\ Silent' /\ SaidGoes' /\ ClosedIsLast'
  BY <1>1, <1>2 DEF OneSpeaker, Silent, SaidGoes, ClosedIsLast, Said, Speaking, Departing
<1> QED BY <1>5, <1>6

\* The peek of a live connection: its mutex shows that it is the only handler,
\* and that nothing is reported for good.
LEMMA PeekLast ==
    ASSUME LastTypes, Last, NEW x \in Frames, IoPeek(x)
    PROVE  Last'
<1> USE DEF Last, LastTypes, EntryTypes
<1> DEFINE c == con[x]
<1>1. PICK l \in {"rd_lock", "rc_lock"} :
         /\ pc[x] = "io_check" /\ cdata[c] = "live" /\ pc' = [pc EXCEPT ![x] = l]
         /\ UNCHANGED <<con, cdata, queue, owner>>
  BY DEF IoPeek, At, Goto, srv
<1>2. pc'[x] = l /\ \A y \in Frames : y # x => pc'[y] = pc[y] BY <1>1
<1>3. c \in Conns /\ owner[c] = x BY <1>1 DEF Sole, Locked
<1>4. ASSUME NEW y \in Frames, pc[y] \in Locked, con[y] = c PROVE y = x
  BY <1>1, <1>3, <1>4 DEF Sole
<1>5. Sole' BY <1>1, <1>2 DEF Sole, Locked
<1>6. OneSpeaker' BY <1>1, <1>2, <1>4 DEF OneSpeaker, Locked, Speaking
<1>7. ~Said(c) BY <1>1, <1>3, <1>4 DEF SaidGoes, Gone, Locked, Departing
<1>8. Silent' BY <1>1, <1>2, <1>7 DEF Silent, Said, Speaking
<1>9. SaidGoes' /\ ClosedIsLast' BY <1>1, <1>2 DEF SaidGoes, ClosedIsLast, Said, Departing
<1> QED BY <1>5, <1>6, <1>8, <1>9

\* report_close: the first "Connection closed", and the handler goes on to
\* destroy the connection.
LEMMA CloseLast ==
    ASSUME LastTypes, rd \in [Conns -> Nat], Last, NEW x \in Frames, ReportPush(x)
    PROVE  Last'
<1> USE DEF Last, LastTypes, EntryTypes
<1> DEFINE c == con[x]
<1>1. /\ pc[x] = "rc_push" /\ pc' = [pc EXCEPT ![x] = "dc_lock"]
      /\ UNCHANGED <<con, cdata>> /\ owner' = [owner EXCEPT ![read_buff_mux] = NoFrame]
      /\ Push(c, "closed", rd[c])
  BY DEF ReportPush, At, Goto, Unlock
<1>2. pc'[x] = "dc_lock" /\ \A y \in Frames : y # x => pc'[y] = pc[y] BY <1>1
<1>3. c \in Conns /\ ~Said(c) /\ \A d \in Conns : owner'[d] = owner[d]
  BY <1>1, ServerAssumption DEF Silent, Locked, Speaking
<1>4. ClosedIsLast' /\ \A d \in Conns : Said(d)' => Said(d) \/ d = c
  <2>1. rd[c] \in Nat BY <1>3
  <2> QED BY <1>1, <1>3, <2>1, PushLast
<1>5. Sole' BY <1>1, <1>2, <1>3 DEF Sole, Locked
<1>6. OneSpeaker' BY <1>1, <1>2 DEF OneSpeaker, Speaking
<1>7. Silent'
  <2> SUFFICES ASSUME NEW y \in Frames, pc'[y] \in Speaking,
                      NEW i \in DOMAIN queue', queue'[i].from = con[y], queue'[i].what = "closed"
               PROVE  FALSE
    BY <1>1 DEF Silent, Said
  <2>1. y # x /\ pc[y] \in Speaking BY <1>2 DEF Speaking
  <2>2. con[y] \in Conns BY <2>1 DEF Speaking, Locked
  <2>3. con[y] # c BY <1>1, <2>1 DEF OneSpeaker, Speaking
  <2>4. PICK d \in Conns : d = con[y] BY <2>2
  <2>5. Said(d)' BY <2>4 DEF Said
  <2>6. Said(d) BY <1>4, <2>3, <2>4, <2>5
  <2> QED BY <2>1, <2>4, <2>6 DEF Silent
<1>8. SaidGoes'
  <2> SUFFICES ASSUME NEW d \in Conns, Said(d)'
               PROVE  cdata[d] \in Gone \/ \E y \in Frames : pc'[y] \in Departing /\ con[y] = d
    BY <1>1 DEF SaidGoes
  <2>1. CASE d = c BY <2>1, <1>2 DEF Departing
  <2>2. CASE Said(d)
    <3>1. \A y \in Frames : pc[y] \in Departing => pc'[y] \in Departing
      BY <1>1, <1>2 DEF Departing
    <3> QED BY <2>2, <3>1 DEF SaidGoes
  <2> QED BY <1>4, <2>1, <2>2
<1> QED BY <1>4, <1>5, <1>6, <1>7, <1>8
-----------------------------------------------------------------------------
\* io_handler speaks in order,
LEMMA IoHandlerLast == ASSUME EntryInv, Last, NEW x \in Frames, IoHandler(x) PROVE Last'
<1>0. LastTypes /\ ReadAccepted /\ Inv /\ rd \in [Conns -> Nat] /\ ClosedIsLast
  BY LastTyped DEF EntryInv, Entries, Inv, KernelTypes, Last
<1>1. CASE IoPeek(x) BY <1>0, <1>1, PeekLast
<1>2. CASE ReportPush(x) BY <1>0, <1>2, CloseLast
<1>3. CASE FetchObject(x)
  <2> DEFINE c == con[x]
  <2>1. /\ pc[x] = "fetch" /\ rd' = [rd EXCEPT ![c] = @ + 1]
        /\ Decoded(c) \ {"ka"} \subseteq {"msg", "bad"}
    BY <1>3 DEF FetchObject, Fetching, At, Decoded
  <2>7. PICK what \in {"msg", "bad"} : Push(c, what, rd'[c])
    BY <1>3, <2>1 DEF FetchObject
  <2>2. c \in Conns /\ ~Said(c) BY <1>0, <2>1 DEF LastTypes, Locked, Last, Silent, Speaking
  <2>3. rd'[c] \in Nat BY <1>0, <2>1, <2>2
  <2>4. ClosedIsLast' /\ \A d \in Conns : Said(d)' => Said(d) \/ (d = c /\ what = "closed")
    <3>1. what \in {"msg", "bad", "closed", "timeout"} BY <2>7
    <3> QED BY <1>0, <2>2, <2>3, <2>7, <3>1, PushLast DEF LastTypes
  <2>5. \A d \in Conns : Said(d)' => Said(d) BY <2>7, <2>4
  <2>6. Neutral BY <1>3, IoHandlerNeutral DEF FetchObject, Fetching, IoPeek, ReportPush, At
  <2> QED BY <1>0, <2>4, <2>5, <2>6, NeutralStep
<1>4. CASE ~IoPeek(x) /\ ~ReportPush(x) /\ ~FetchObject(x)
  <2>1. Neutral BY <1>4, IoHandlerNeutral
  <2>2. UNCHANGED queue
    <3>1. CASE IoLookup(x) \/ IoDestroyed(x) \/ ReportFails(x) \/ FetchNewline(x) \/ FetchEnd(x)
      BY <3>1 DEF IoLookup, IoDestroyed, ReportFails, FetchNewline, FetchEnd, srv
    <3>2. CASE \/ FetchKeepAlive(x) \/ FetchError(x) \/ DestroyFree(x) \/ DestroyMisses(x)
               \/ DestroyAgain(x) \/ DestroyClose(x) \/ UseAfterFree(x)
      BY <3>2 DEF FetchKeepAlive, FetchError, DestroyFree, DestroyMisses, DestroyAgain,
                  DestroyClose, UseAfterFree, srv
    <3> QED BY <1>4, <3>1, <3>2 DEF IoHandler
  <2> QED BY <1>0, <2>1, <2>2, SameQueue
<1> QED BY <1>1, <1>2, <1>3, <1>4

\* connect_handler says nothing,
LEMMA ConnectHandlerLast ==
    ASSUME EntryInv, Last, NEW x \in Frames, ConnectHandler(x)
    PROVE  Last'
<1>1. LastTypes /\ ReadAccepted BY LastTyped DEF EntryInv, Entries
<1>2. UNCHANGED queue
  BY DEF ConnectHandler, AcceptFails, AcceptAborts, Accept, Insert, InsertExits, InsertFails,
         InsertFree, Setup, srv
<1> QED BY <1>1, <1>2, ConnectHandlerNeutral, SameQueue

\* iter_keep_alives only reports timeouts, and read_message takes what is first.
LEMMA OwnStepsLast == ASSUME EntryInv, Last, NEW x \in Frames, OwnSteps(x) PROVE Last'
<1>0. LastTypes /\ ReadAccepted /\ Inv /\ ClosedIsLast /\ queue \in Seq(Reports)
  BY LastTyped DEF EntryInv, Entries, Last, LastTypes
<1>1. CASE Acquire(x) /\ pc[x] = "io_mutex" BY <1>0, <1>1, LockLast
<1>2. CASE ~(Acquire(x) /\ pc[x] = "io_mutex")
  <2>1. Neutral BY <1>2, OwnStepsNeutral
  <2>2. ASSUME ClosedIsLast' /\ \A c \in Conns : Said(c)' => Said(c) PROVE Last'
    BY <1>0, <2>1, <2>2, NeutralStep
  <2>3. CASE \E fd \in Fds : check_keep_alive(x, fd) /\ ~UNCHANGED queue
    <3>1. PICK fd \in Fds : check_keep_alive(x, fd) /\ ~UNCHANGED queue BY <2>3
    <3>2. table[fd] \in overdue /\ Push(table[fd], "timeout", rd[table[fd]])
      BY <3>1 DEF check_keep_alive
    <3>3. table[fd] \in Conns /\ rd[table[fd]] \in Nat
      BY <1>0, <3>2 DEF Inv, DataTypes, KernelTypes
    <3> QED BY <1>0, <2>2, <3>2, <3>3, PushLast
  <2>4. CASE read_message(x) \/ StopQueue(x)
    <3>1. queue' = <<>> \/ queue' = queue \/ (queue # <<>> /\ queue' = Tail(queue))
      BY <2>4 DEF read_message, StopQueue
    <3> QED BY <1>0, <2>2, <3>1, PopLast
  <2>5. CASE UNCHANGED queue BY <1>0, <2>1, <2>5, SameQueue
  <2>6. ASSUME ~read_message(x), ~StopQueue(x), ~(\E fd \in Fds : check_keep_alive(x, fd))
        PROVE  UNCHANGED queue
    <3>1. CASE \/ Acquire(x) \/ Tick(x) \/ iter_keep_alives(x) \/ TickDone(x) \/ stop_server(x)
               \/ start_server(x) \/ \E m \in {read_buff_mux, connections_mux} : CallLock(x, m)
      BY <3>1 DEF Acquire, Tick, iter_keep_alives, TickDone, stop_server, start_server, CallLock, srv
    <3>2. CASE \/ get_connected_list(x) \/ ListAborts(x) \/ StopSignals(x) \/ StopClose(x)
               \/ StopTable(x) \/ \E fd \in Fds : StopFree(x, fd)
      BY <3>2 DEF get_connected_list, ListAborts, StopSignals, StopClose, CloseEntry, StopTable,
                  StopFree, FreeEntry, srv
    <3> QED BY <2>6, <3>1, <3>2 DEF OwnSteps, KeepAliveCheck, Call, Finish
  <2> QED BY <2>3, <2>4, <2>5, <2>6
<1> QED BY <1>1, <1>2

\* start_server only discards reports.
LEMMA StartLast ==
    ASSUME PlainStarts \/ StartsClean, EntryInv, Last, NEW x \in Frames, Start(x)
    PROVE  Last'
<1>1. LastTypes /\ ReadAccepted /\ ClosedIsLast /\ queue \in Seq(Reports)
  BY LastTyped DEF EntryInv, Entries, Last, LastTypes
<1>2. queue' = queue \/ queue' = <<>> BY StartTableKept DEF StartPlain, Race, srv
<1>3. ClosedIsLast' /\ \A c \in Conns : Said(c)' => Said(c) BY <1>1, <1>2, PopLast
<1> QED BY <1>1, <1>3, StartNeutral, NeutralStep

LEMMA LastStep == (PlainStarts \/ StartsClean) /\ EntryInv /\ Last /\ [Next]_vars => Last'
<1> SUFFICES ASSUME PlainStarts \/ StartsClean, EntryInv, Last, [Next]_vars PROVE Last' OBVIOUS
<1>1. ASSUME NEW x \in Frames, Step(x) \/ Call(x) \/ Tick(x) PROVE Last'
  BY <1>1, IoHandlerLast, ConnectHandlerLast, OwnStepsLast, StartLast DEF Step, OwnSteps
<1>2. CASE KernelSteps
  <2>1. UNCHANGED queue
    BY <1>2 DEF KernelSteps, Peer, Connect, Arrive, Fin, Expire, TakeConnect, TakeRead, srv
  <2>2. LastTypes /\ ReadAccepted BY LastTyped DEF EntryInv, Entries
  <2> QED BY <1>2, <2>1, <2>2, KernelStepsNeutral, SameQueue
<1>3. CASE UNCHANGED vars
  <2>1. UNCHANGED <<pc, con, cdata, owner, queue>> BY <1>3 DEF vars, frm, srv
  <2> QED BY <2>1 DEF Last, Sole, OneSpeaker, Silent, SaidGoes, ClosedIsLast, Said
<1> QED BY <1>1, <1>2, <1>3 DEF Next, KernelSteps

\* "Connection closed" is reported once for a connection, and no message of it
\* comes later, on whichever threads its handlers run and although stop_server
\* destroys it under them, while start_server only follows stop_server and fails
\* at nothing but listen.
THEOREM ClosedComesLast == PlainStarts => (Spec => []ClosedIsLast)
<1> SUFFICES ASSUME PlainStarts PROVE Spec => []ClosedIsLast OBVIOUS
<1>1. Init => Last
  BY DEF Init, Last, Sole, OneSpeaker, Silent, SaidGoes, ClosedIsLast, Said, Locked, Speaking
<1>2. EntryInv /\ [Next]_vars => EntryInv' BY EntryInvStep
<1>3. EntryInv /\ Last /\ [Next]_vars => Last' BY LastStep
<1>4. Last => ClosedIsLast BY DEF Last
<1> QED BY EntryInit, <1>1, <1>2, <1>3, <1>4, PTL DEF Spec
-----------------------------------------------------------------------------
(* "Connection closed" is true of the connection: recv on an open connection *)
(* never comes back empty, because every handler that is on its way to it    *)
(* has an object to find.                                                    *)

\* A peer's writes each carry something that read_json_object returns for.
SegmentsSpeak == \A seg \in Segments : \E i \in DOMAIN seg : seg[i] # "nl"
\* io_handler before its lookup and after it, up to the end of its read.
FirstLook == {"io_lock", "io_lookup"}
Looking == {"io_mutex", "io_check", "rd_lock", "fetch"}
\* A READ signal for descriptor fd is pending, or its handler is about to look
\* fd up.
UnderWay(fd) == \/ \E i \in 1 .. Len(readSig) : readSig[i] = fd
                \/ \E x \in Frames : pc[x] \in FirstLook /\ sifd[x[1]] = fd
\* accept returns no number for which a signal is still under way.
FreshDescriptor ==
    \A fd \in Fds : sockOf[fd] = NoConn /\ sockOf'[fd] # NoConn => ~UnderWay(fd)

\* The signals raised for a connection and not yet taken, the handlers that may
\* still read from it, and what read_json_object has yet to return of it.
Signals(c) == {i \in 1 .. Len(readSig) : readSig[i] = cfd[c]}
Readers(c) == {x \in Frames : \/ pc[x] \in FirstLook /\ sifd[x[1]] = cfd[c]
                              \/ pc[x] \in Looking /\ con[x] = c}
Objects(c) == {p \in rd[c] + 1 .. Len(stream[c]) : stream[c][p] # "nl"}
Open == {c \in Conns : \E fd \in Fds : sockOf[fd] = c}
\* An open connection that its peer has not closed has an object for every
\* signal and every handler.
EnoughFor(c) == /\ IsFiniteSet(Readers(c))
                /\ Cardinality(Signals(c)) + Cardinality(Readers(c)) <= Cardinality(Objects(c))
Enough == \A c \in Open \ eof : EnoughFor(c)
\* report_close runs for a connection that the peer has closed.
EofReports == \A x \in Frames : pc[x] \in {"rc_lock", "rc_push"} => con[x] \in eof
\* An entry is under its ConnectionData's own descriptor,
OwnEntry == \A fd \in Fds : table[fd] # NoConn => cfd[table[fd]] = fd
\* and so is its socket,
OwnSocket == \A fd \in Fds : sockOf[fd] # NoConn => cfd[sockOf[fd]] = fd
\* which is open while it can raise signals and while the connection is live,
AsyncOpen == async \subseteq Open
LiveOpen == \A c \in Conns : cdata[c] = "live" => cfd[c] \in Fds /\ sockOf[cfd[c]] = c
\* a frame's condata has a descriptor,
ConKnown == \A x \in Frames : con[x] # NoConn => cfd[con[x]] \in Fds
\* and a connection that was never accepted has none.
Unset == /\ \A c \in Conns : cdata[c] = "none" => cfd[c] = 0
         /\ \A i \in 1 .. Len(backlog) :
              /\ cfd[backlog[i]] = 0
              /\ \A j \in 1 .. Len(backlog) : backlog[i] = backlog[j] => i = j
\* What these have to say of a state, but for read_buff.
Bound == EofReports /\ OwnEntry /\ OwnSocket /\ AsyncOpen /\ ConKnown /\ Unset
Counted == Enough /\ LiveOpen /\ Bound
CountTypes ==
    /\ pc \in [Frames -> Labels] /\ con \in [Frames -> Conns \cup {NoConn}]
    /\ sifd \in [Threads -> Fds \cup {0}] /\ table \in [Fds -> Conns \cup {NoConn}]
    /\ cfd \in [Conns -> Fds \cup {0}] /\ backlog \in Seq(Conns)
    /\ sockOf \in [Fds -> Conns \cup {NoConn}] /\ async \in SUBSET Conns
    /\ stream \in [Conns -> Seq(Kinds)] /\ rd \in [Conns -> Nat] /\ readSig \in Seq(Fds)
    /\ cdata \in [Conns -> {"none", "live", "destroyed", "freed"}]

LEMMA CountTyped == Inv => CountTypes
  BY DEF Inv, FrameTypes, DataTypes, KernelTypes, CountTypes

\* Signals and objects can be counted.
LEMMA Countable ==
    ASSUME CountTypes, NEW c \in Conns
    PROVE  /\ IsFiniteSet(Signals(c)) /\ Cardinality(Signals(c)) \in Nat
           /\ IsFiniteSet(Objects(c)) /\ Cardinality(Objects(c)) \in Nat
<1>1. Len(readSig) \in Int /\ rd[c] + 1 \in Int /\ Len(stream[c]) \in Int BY DEF CountTypes
<1>2. IsFiniteSet(1 .. Len(readSig)) /\ IsFiniteSet(rd[c] + 1 .. Len(stream[c]))
  BY <1>1, FS_Interval
<1>3. Signals(c) \in SUBSET (1 .. Len(readSig)) /\ Objects(c) \in SUBSET (rd[c] + 1 .. Len(stream[c]))
  BY DEF Signals, Objects
<1>4. IsFiniteSet(Signals(c)) /\ IsFiniteSet(Objects(c)) BY <1>2, <1>3, FS_Subset
<1> QED BY <1>4, FS_CardinalityType

LEMMA CountableNext ==
    ASSUME CountTypes', NEW c \in Conns
    PROVE  /\ IsFiniteSet(Signals(c)') /\ Cardinality(Signals(c)') \in Nat
           /\ IsFiniteSet(Objects(c)') /\ Cardinality(Objects(c)') \in Nat
<1>1. Len(readSig') \in Int /\ rd'[c] + 1 \in Int /\ Len(stream'[c]) \in Int BY DEF CountTypes
<1>2. IsFiniteSet(1 .. Len(readSig')) /\ IsFiniteSet(rd'[c] + 1 .. Len(stream'[c]))
  BY <1>1, FS_Interval
<1>3. /\ Signals(c)' \in SUBSET (1 .. Len(readSig'))
      /\ Objects(c)' \in SUBSET (rd'[c] + 1 .. Len(stream'[c]))
  BY DEF Signals, Objects
<1>4. IsFiniteSet(Signals(c)') /\ IsFiniteSet(Objects(c)') BY <1>2, <1>3, FS_Subset
<1> QED BY <1>4, FS_CardinalityType

\* Nothing more to be done, and nothing less to do it with.
LEMMA EnoughKept ==
    ASSUME CountTypes, CountTypes', NEW c \in Conns, EnoughFor(c),
           Signals(c)' \subseteq Signals(c), Readers(c)' \subseteq Readers(c),
           Objects(c) \subseteq Objects(c)'
    PROVE  EnoughFor(c)'
<1>1. /\ IsFiniteSet(Signals(c)) /\ Cardinality(Signals(c)) \in Nat
      /\ Cardinality(Objects(c)) \in Nat
  BY Countable
<1>2. /\ IsFiniteSet(Objects(c)') /\ Cardinality(Objects(c)') \in Nat
      /\ Cardinality(Signals(c)') \in Nat
  BY CountableNext
<1>3. IsFiniteSet(Readers(c)) /\ Cardinality(Readers(c)) \in Nat
  BY FS_CardinalityType DEF EnoughFor
<1>4. Cardinality(Signals(c)') <= Cardinality(Signals(c)) BY <1>1, FS_Subset
<1>5. IsFiniteSet(Readers(c)') /\ Cardinality(Readers(c)') <= Cardinality(Readers(c))
  BY <1>3, FS_Subset
<1>6. Cardinality(Readers(c)') \in Nat BY <1>5, FS_CardinalityType
<1>7. Cardinality(Objects(c)) <= Cardinality(Objects(c)') BY <1>2, FS_Subset
<1> QED BY <1>1, <1>2, <1>3, <1>4, <1>5, <1>6, <1>7 DEF EnoughFor

\* A handler that reads one object is done.
LEMMA EnoughRead ==
    ASSUME CountTypes, CountTypes', NEW c \in Conns, EnoughFor(c), NEW x \in Readers(c), NEW p,
           Signals(c)' \subseteq Signals(c), Readers(c)' \subseteq Readers(c) \ {x},
           Objects(c) \subseteq Objects(c)' \cup {p}
    PROVE  EnoughFor(c)'
<1>1. /\ IsFiniteSet(Signals(c)) /\ Cardinality(Signals(c)) \in Nat
      /\ Cardinality(Objects(c)) \in Nat
  BY Countable
<1>2. /\ IsFiniteSet(Objects(c)') /\ Cardinality(Objects(c)') \in Nat
      /\ Cardinality(Signals(c)') \in Nat
  BY CountableNext
<1>3. IsFiniteSet(Readers(c)) /\ Cardinality(Readers(c)) \in Nat
  BY FS_CardinalityType DEF EnoughFor
<1>4. Cardinality(Signals(c)') <= Cardinality(Signals(c)) BY <1>1, FS_Subset
<1>5. /\ IsFiniteSet(Readers(c) \ {x})
      /\ Cardinality(Readers(c) \ {x}) = Cardinality(Readers(c)) - 1
  BY <1>3, FS_RemoveElement
<1>6. /\ IsFiniteSet(Readers(c)') /\ Cardinality(Readers(c)') \in Nat
      /\ Cardinality(Readers(c)') <= Cardinality(Readers(c) \ {x})
  BY <1>5, FS_Subset, FS_CardinalityType
<1>7. Cardinality(Objects(c)) <= Cardinality(Objects(c)') + 1
  <2>1. /\ IsFiniteSet(Objects(c)' \cup {p})
        /\ \/ Cardinality(Objects(c)' \cup {p}) = Cardinality(Objects(c)')
           \/ Cardinality(Objects(c)' \cup {p}) = Cardinality(Objects(c)') + 1
    BY <1>2, FS_AddElement
  <2>2. Cardinality(Objects(c)) <= Cardinality(Objects(c)' \cup {p}) BY <2>1, FS_Subset
  <2> QED BY <1>1, <1>2, <2>1, <2>2
<1> QED BY <1>1, <1>2, <1>3, <1>4, <1>5, <1>6, <1>7 DEF EnoughFor

\* A signal that is taken becomes a handler, or nothing.
LEMMA EnoughTaken ==
    ASSUME CountTypes, CountTypes', NEW c \in Conns, EnoughFor(c), NEW x, UNCHANGED cfd,
           readSig # <<>>, readSig' = Tail(readSig), Objects(c) \subseteq Objects(c)',
           Readers(c)' \subseteq Readers(c) \cup {x},
           Head(readSig) # cfd[c] => Readers(c)' \subseteq Readers(c)
    PROVE  EnoughFor(c)'
<1>1. /\ IsFiniteSet(Signals(c)) /\ Cardinality(Signals(c)) \in Nat
      /\ Cardinality(Objects(c)) \in Nat
  BY Countable
<1>2. /\ IsFiniteSet(Objects(c)') /\ Cardinality(Objects(c)') \in Nat
      /\ Cardinality(Signals(c)') \in Nat
  BY CountableNext
<1>3. IsFiniteSet(Readers(c)) /\ Cardinality(Readers(c)) \in Nat
  BY FS_CardinalityType DEF EnoughFor
<1>4. Cardinality(Objects(c)) <= Cardinality(Objects(c)') BY <1>2, FS_Subset
<1>5. /\ Len(readSig') = Len(readSig) - 1 /\ Len(readSig) \in Nat \ {0}
      /\ Head(readSig) = readSig[1]
      /\ \A i \in 1 .. Len(readSig') : readSig'[i] = readSig[i + 1]
  BY DEF CountTypes
<1>6. ASSUME NEW T, IsFiniteSet(T), \A i \in Signals(c) : i # 1 => i \in T
      PROVE  Cardinality(Signals(c)') <= Cardinality(T)
  <2> DEFINE f == [i \in Signals(c)' |-> i + 1]
  <2>1. \A i \in Signals(c)' : i \in Nat /\ i + 1 \in T
    <3> SUFFICES ASSUME NEW i \in Signals(c)' PROVE i \in Nat /\ i + 1 \in T OBVIOUS
    <3>1. i \in 1 .. Len(readSig') /\ readSig'[i] = cfd[c] BY DEF Signals
    <3>2. i \in Nat /\ i + 1 # 1 /\ i + 1 \in 1 .. Len(readSig) BY <3>1, <1>5
    <3>3. readSig[i + 1] = cfd[c] BY <3>1, <1>5
    <3> QED BY <3>2, <3>3, <1>6 DEF Signals
  <2>2. f \in [Signals(c)' -> T] BY <2>1
  <2>3. \A i, j \in Signals(c)' : f[i] = f[j] => i = j BY <2>1
  <2> HIDE DEF f
  <2>4. f \in Injection(Signals(c)', T) BY <2>2, <2>3, Zenon DEF Injection, IsInjective
  <2> QED BY <1>6, <2>4, FS_Injection
<1>7. CASE Head(readSig) = cfd[c]
  <2>1. 1 \in Signals(c) BY <1>5, <1>7 DEF Signals
  <2>2. /\ IsFiniteSet(Signals(c) \ {1})
        /\ Cardinality(Signals(c) \ {1}) = Cardinality(Signals(c)) - 1
    BY <1>1, <2>1, FS_RemoveElement
  <2>3. Cardinality(Signals(c)') <= Cardinality(Signals(c) \ {1}) BY <2>2, <1>6
  <2>4. /\ IsFiniteSet(Readers(c) \cup {x})
        /\ \/ Cardinality(Readers(c) \cup {x}) = Cardinality(Readers(c))
           \/ Cardinality(Readers(c) \cup {x}) = Cardinality(Readers(c)) + 1
    BY <1>3, FS_AddElement
  <2>5. /\ IsFiniteSet(Readers(c)') /\ Cardinality(Readers(c)') \in Nat
        /\ Cardinality(Readers(c)') <= Cardinality(Readers(c) \cup {x})
    BY <2>4, FS_Subset, FS_CardinalityType
  <2> QED BY <1>1, <1>2, <1>3, <1>4, <2>2, <2>3, <2>4, <2>5 DEF EnoughFor
<1>8. CASE Head(readSig) # cfd[c]
  <2>1. Cardinality(Signals(c)') <= Cardinality(Signals(c)) BY <1>1, <1>6
  <2>2. /\ IsFiniteSet(Readers(c)') /\ Cardinality(Readers(c)') \in Nat
        /\ Cardinality(Readers(c)') <= Cardinality(Readers(c))
    BY <1>3, <1>8, FS_Subset, FS_CardinalityType
  <2> QED BY <1>1, <1>2, <1>3, <1>4, <2>1, <2>2 DEF EnoughFor
<1> QED BY <1>7, <1>8

\* A signal is raised for a segment, which carries an object.
LEMMA EnoughRaised ==
    ASSUME CountTypes, CountTypes', NEW c \in Conns, EnoughFor(c), NEW i, NEW p,
           p \notin Objects(c), Objects(c) \cup {p} \subseteq Objects(c)',
           Signals(c)' \subseteq Signals(c) \cup {i}, Readers(c)' \subseteq Readers(c)
    PROVE  EnoughFor(c)'
<1>1. /\ IsFiniteSet(Signals(c)) /\ Cardinality(Signals(c)) \in Nat
      /\ IsFiniteSet(Objects(c)) /\ Cardinality(Objects(c)) \in Nat
  BY Countable
<1>2. /\ IsFiniteSet(Objects(c)') /\ Cardinality(Objects(c)') \in Nat
      /\ Cardinality(Signals(c)') \in Nat
  BY CountableNext
<1>3. IsFiniteSet(Readers(c)) /\ Cardinality(Readers(c)) \in Nat
  BY FS_CardinalityType DEF EnoughFor
<1>4. Cardinality(Signals(c)') <= Cardinality(Signals(c)) + 1
  <2>1. /\ IsFiniteSet(Signals(c) \cup {i})
        /\ \/ Cardinality(Signals(c) \cup {i}) = Cardinality(Signals(c))
           \/ Cardinality(Signals(c) \cup {i}) = Cardinality(Signals(c)) + 1
    BY <1>1, FS_AddElement
  <2>2. Cardinality(Signals(c)') <= Cardinality(Signals(c) \cup {i}) BY <2>1, FS_Subset
  <2> QED BY <1>1, <1>2, <2>1, <2>2
<1>5. /\ IsFiniteSet(Readers(c)') /\ Cardinality(Readers(c)') \in Nat
      /\ Cardinality(Readers(c)') <= Cardinality(Readers(c))
  BY <1>3, FS_Subset, FS_CardinalityType
<1>6. Cardinality(Objects(c)) + 1 <= Cardinality(Objects(c)')
  <2>1. Cardinality(Objects(c) \cup {p}) = Cardinality(Objects(c)) + 1
    BY <1>1, FS_AddElement
  <2> QED BY <1>2, <2>1, FS_Subset
<1> QED BY <1>1, <1>2, <1>3, <1>4, <1>5, <1>6 DEF EnoughFor

\* A step of frame x that accepts nothing and raises nothing.
Proceeds(x) ==
    /\ UNCHANGED <<cfd, stream, readSig>> /\ eof \subseteq eof'
    /\ \A y \in Frames : y # x => /\ pc'[y] = pc[y] /\ con'[y] = con[y]
                                  /\ pc[y] \in FirstLook => sifd'[y[1]] = sifd[y[1]]
    /\ pc'[x] \in FirstLook => pc[x] \in FirstLook /\ sifd'[x[1]] = sifd[x[1]]
    /\ pc'[x] \in Looking => \/ pc[x] \in Looking /\ con'[x] = con[x]
                             \/ pc[x] \in FirstLook /\ cfd[con'[x]] = sifd[x[1]]
    /\ pc'[x] \in {"rc_lock", "rc_push"} => con'[x] \in eof
    /\ con'[x] # NoConn => con'[x] = con[x] \/ cfd[con'[x]] \in Fds
    /\ \A fd \in Fds : table'[fd] = table[fd] \/ table'[fd] = NoConn \/ cfd[table'[fd]] = fd
    /\ \A c \in Conns : cdata'[c] \in {"none", "live"} => cdata[c] = cdata'[c]
    /\ \A fd \in Fds : sockOf'[fd] = sockOf[fd] \/ sockOf'[fd] = NoConn
    /\ \A c \in async' : \/ c \in async /\ \A fd \in Fds : sockOf[fd] = c => sockOf'[fd] = c
                         \/ \E fd \in Fds : sockOf'[fd] = c
    /\ backlog' = backlog \/ backlog' = <<>> \/ (backlog # <<>> /\ backlog' = Tail(backlog))

\* No signal and no handler comes to a connection.
LEMMA ProceedsKeeps ==
    ASSUME CountTypes, CountTypes', Counted, NEW x \in Frames, Proceeds(x)
    PROVE  /\ Bound' /\ Open' \subseteq Open
           /\ \A c \in Conns : Signals(c)' = Signals(c) /\ Readers(c)' \subseteq Readers(c)
<1> USE DEF Counted, Bound, Proceeds
<1>1. EofReports'
  <2> SUFFICES ASSUME NEW y \in Frames, pc'[y] \in {"rc_lock", "rc_push"} PROVE con'[y] \in eof'
    BY DEF EofReports
  <2> QED BY DEF EofReports
<1>2. OwnEntry' BY DEF OwnEntry
<1>3. OwnSocket' /\ AsyncOpen' /\ Open' \subseteq Open
  <2>1. OwnSocket' BY DEF OwnSocket
  <2>2. Open' \subseteq Open BY ServerAssumption DEF Open
  <2>3. ASSUME NEW c \in async' PROVE c \in Open'
    <3>1. CASE c \in async /\ \A fd \in Fds : sockOf[fd] = c => sockOf'[fd] = c
      BY <3>1 DEF AsyncOpen, Open
    <3>2. CASE \E fd \in Fds : sockOf'[fd] = c BY <3>2, ServerAssumption DEF Open, CountTypes
    <3> QED BY <2>3, <3>1, <3>2
  <2>4. AsyncOpen' BY <2>3 DEF AsyncOpen
  <2> QED BY <2>1, <2>2, <2>4
<1>4. ConKnown'
  <2> SUFFICES ASSUME NEW y \in Frames, con'[y] # NoConn PROVE cfd'[con'[y]] \in Fds BY DEF ConKnown
  <2> QED BY DEF ConKnown
<1>5. Unset'
  <2>1. CASE backlog' = backlog BY <2>1 DEF Unset
  <2>2. CASE backlog' = <<>> BY <2>2 DEF Unset
  <2>3. CASE backlog # <<>> /\ backlog' = Tail(backlog)
    <3>1. /\ Len(backlog') = Len(backlog) - 1 /\ Len(backlog) \in Nat
          /\ \A i \in 1 .. Len(backlog') : i + 1 \in 1 .. Len(backlog) /\ backlog'[i] = backlog[i + 1]
      BY <2>3 DEF CountTypes
    <3> QED BY <3>1 DEF Unset
  <2> QED BY <2>1, <2>2, <2>3
<1>6. ASSUME NEW c \in Conns PROVE Signals(c)' = Signals(c) /\ Readers(c)' \subseteq Readers(c)
  <2>1. Signals(c)' = Signals(c) BY DEF Signals
  <2>2. ASSUME NEW y \in Readers(c)' PROVE y \in Readers(c)
    <3>1. y \in Frames /\ \/ pc'[y] \in FirstLook /\ sifd'[y[1]] = cfd[c]
                          \/ pc'[y] \in Looking /\ con'[y] = c
      BY DEF Readers
    <3>2. CASE pc'[y] \in FirstLook /\ sifd'[y[1]] = cfd[c] BY <3>1, <3>2 DEF Readers
    <3>3. CASE pc'[y] \in Looking /\ con'[y] = c BY <3>1, <3>3 DEF Readers
    <3> QED BY <3>1, <3>2, <3>3
  <2> QED BY <2>1, <2>2
<1> QED BY <1>1, <1>2, <1>3, <1>4, <1>5, <1>6

\* What is closed is not live any more.
LEMMA ProceedsLive ==
    ASSUME CountTypes, Counted, NEW x \in Frames, Proceeds(x), OwnClose
    PROVE  LiveOpen'
<1> SUFFICES ASSUME NEW c \in Conns, cdata'[c] = "live"
             PROVE  cfd[c] \in Fds /\ sockOf'[cfd[c]] = c
  BY DEF LiveOpen, Proceeds
<1>1. cfd[c] \in Fds /\ sockOf[cfd[c]] = c BY DEF Counted, LiveOpen, Proceeds
<1>2. sockOf'[cfd[c]] # NoConn BY <1>1, ServerAssumption DEF OwnClose
<1> QED BY <1>1, <1>2 DEF Proceeds

LEMMA ProceedsCounted ==
    ASSUME CountTypes, CountTypes', Counted, NEW x \in Frames, Proceeds(x), OwnClose,
           UNCHANGED rd
    PROVE  Counted'
<1>1. \A c \in Conns : Objects(c)' = Objects(c) BY DEF Proceeds, Objects
<1>2. Enough'
  <2> SUFFICES ASSUME NEW c \in Conns, c \in Open', c \notin eof' PROVE EnoughFor(c)' BY DEF Enough, Open
  <2>1. EnoughFor(c) BY ProceedsKeeps DEF Counted, Enough, Proceeds
  <2> QED BY <1>1, <2>1, ProceedsKeeps, EnoughKept
<1> QED BY <1>2, ProceedsKeeps, ProceedsLive DEF Counted

\* read_json_object takes a newline and goes on, or returns.
LEMMA ReadCounted ==
    ASSUME CountTypes, CountTypes', Counted, NEW x \in Frames, Proceeds(x), OwnClose,
           con[x] \in Conns, NEW kinds, Fetching(x, kinds),
           \/ kinds = {"nl"} /\ pc'[x] = pc[x]
           \/ pc'[x] \notin FirstLook \cup Looking
    PROVE  Counted'
<1> DEFINE d == con[x]
           p == rd[d] + 1
<1>1. /\ pc[x] = "fetch" /\ rd' = [rd EXCEPT ![d] = p] /\ p \in Nat
      /\ stream[d][p] \in kinds /\ UNCHANGED stream
  BY DEF Fetching, At, NextKind, CountTypes, Proceeds
<1>2. \A c \in Conns : c # d => Objects(c)' = Objects(c) BY <1>1 DEF Objects, CountTypes
<1>3. ASSUME NEW c \in Conns, c = d PROVE Objects(c) \subseteq Objects(c)' \cup {p}
  <2> SUFFICES ASSUME NEW q \in Objects(c), q # p PROVE q \in Objects(c)' OBVIOUS
  <2>1. q \in p .. Len(stream[c]) /\ stream[c][q] # "nl" BY <1>3 DEF Objects
  <2>2. rd'[c] = p /\ stream'[c] = stream[c] /\ Len(stream[c]) \in Nat BY <1>1, <1>3 DEF CountTypes
  <2>3. q \in rd'[c] + 1 .. Len(stream'[c]) BY <2>1, <2>2, <1>1
  <2>4. stream'[c][q] # "nl" BY <2>1, <2>2
  <2> QED BY <2>3, <2>4 DEF Objects
<1>4. x \in Readers(d) BY <1>1 DEF Readers, Looking
<1>5. Enough'
  <2> SUFFICES ASSUME NEW c \in Conns, c \in Open', c \notin eof' PROVE EnoughFor(c)' BY DEF Enough, Open
  <2>1. EnoughFor(c) /\ Signals(c)' \subseteq Signals(c) /\ Readers(c)' \subseteq Readers(c)
    BY ProceedsKeeps DEF Counted, Enough, Proceeds
  <2>2. CASE c # d BY <1>2, <2>1, <2>2, EnoughKept
  <2>3. CASE c = d /\ kinds = {"nl"} /\ pc'[x] = pc[x]
    <3>1. p \notin Objects(c) BY <1>1, <2>3 DEF Objects
    <3>2. Objects(c) \subseteq Objects(c)' BY <1>3, <2>3, <3>1
    <3> QED BY <2>1, <3>2, EnoughKept
  <2>4. CASE c = d /\ pc'[x] \notin FirstLook \cup Looking
    <3>1. x \notin Readers(c)' BY <2>4 DEF Readers
    <3>2. Readers(c)' \subseteq Readers(c) \ {x} BY <2>1, <3>1
    <3>3. x \in Readers(c) /\ Objects(c) \subseteq Objects(c)' \cup {p} BY <1>3, <1>4, <2>4
    <3> QED BY <2>1, <3>2, <3>3, EnoughRead
  <2> QED BY <2>2, <2>3, <2>4
<1> QED BY <1>5, ProceedsKeeps, ProceedsLive DEF Counted

\* The heart of the matter: while the peer has not closed, recv with MSG_PEEK
\* has something to return.
LEMMA NeverEmpty ==
    ASSUME CountTypes, Counted, NEW x \in Frames, pc[x] \in Looking, con[x] \in Conns \ eof,
           cdata[con[x]] = "live"
    PROVE  Unread(con[x])
<1> DEFINE c == con[x]
<1>1. EnoughFor(c) /\ x \in Readers(c) BY DEF Counted, Enough, LiveOpen, Open, Readers
<1>2. /\ Cardinality(Signals(c)) \in Nat /\ IsFiniteSet(Objects(c))
      /\ Cardinality(Objects(c)) \in Nat
  BY Countable
<1>3. Cardinality(Readers(c)) \in Nat /\ Cardinality(Readers(c)) # 0
  BY <1>1, FS_CardinalityType, FS_EmptySet DEF EnoughFor
<1>4. Objects(c) # {} BY <1>1, <1>2, <1>3, FS_EmptySet DEF EnoughFor
<1>5. PICK p \in rd[c] + 1 .. Len(stream[c]) : TRUE BY <1>4 DEF Objects
<1> QED BY <1>5 DEF Unread, CountTypes

\* Steps of io_handler and what it calls go no way back to the lookup.
LEMMA IoHandlerProceeds ==
    ASSUME Inv, Counted, NEW x \in Frames, IoHandler(x)
    PROVE  Proceeds(x)
<1>0. CountTypes BY CountTyped
<1> USE <1>0 DEF CountTypes, Counted, Bound, Proceeds, Looking, FirstLook, At, Goto, Return,
        ReadDone, Fetching, Life, Close,
        frm, srv, net, sig
<1>1. CASE IoLookup(x)
  <2>0. /\ pc[x] = "io_lookup" /\ x[2] = "io" /\ sifd[x[1]] \in Fds
    BY <1>1 DEF IoLookup, Inv, FramesKnow
  <2>1. ASSUME NEW y \in Frames, y # x, pc[y] \in FirstLook PROVE sifd'[y[1]] = sifd[y[1]]
    <3>1. y[2] = "io" BY <2>1 DEF Inv, FramesKnow
    <3>2. y[1] # x[1] BY <2>0, <2>1, <3>1, FrameParts
    <3>3. sifd' = [sifd EXCEPT ![x[1]] = 0] /\ y[1] \in Threads BY <1>1, FrameParts DEF IoLookup
    <3> QED BY <3>2, <3>3
  <2>2. CASE table[sifd[x[1]]] = NoConn
    <3>1. pc' = [pc EXCEPT ![x] = "idle"] /\ con' = [con EXCEPT ![x] = NoConn]
      BY <1>1, <2>2 DEF IoLookup
    <3> QED BY <1>1, <2>1, <3>1 DEF IoLookup
  <2>3. CASE table[sifd[x[1]]] # NoConn
    <3>1. /\ pc' = [pc EXCEPT ![x] = "io_mutex"]
          /\ con' = [con EXCEPT ![x] = table[sifd[x[1]]]]
      BY <1>1, <2>3 DEF IoLookup
    <3>2. cfd[table[sifd[x[1]]]] = sifd[x[1]] BY <2>0, <2>3 DEF OwnEntry
    <3> QED BY <1>1, <2>0, <2>1, <3>1, <3>2 DEF IoLookup
  <2> QED BY <2>2, <2>3
<1>2. CASE IoPeek(x)
  <2>1. /\ pc[x] = "io_check" /\ con[x] \in Conns /\ cdata[con[x]] = "live"
        /\ pc' = [pc EXCEPT ![x] = IF Unread(con[x]) THEN "rd_lock" ELSE "rc_lock"]
    BY <1>2 DEF IoPeek, Inv, FramesKnow, ConLabels
  <2>2. ~Unread(con[x]) => con[x] \in eof BY <2>1, NeverEmpty
  <2> QED BY <1>2, <2>1, <2>2 DEF IoPeek
<1>3. CASE IoDestroyed(x) \/ ReportFails(x) \/ ReportPush(x)
  BY <1>3 DEF IoDestroyed, ReportFails, ReportPush
<1>4. CASE FetchNewline(x) \/ FetchEnd(x) \/ FetchObject(x)
  BY <1>4 DEF FetchNewline, FetchEnd, FetchObject
<1>5. CASE FetchKeepAlive(x) \/ FetchError(x)
  BY <1>5 DEF FetchKeepAlive, FetchError
<1>6. CASE DestroyFree(x)
  <2>1. PICK fd \in Fds : /\ table[fd] # NoConn /\ table' = [table EXCEPT ![fd] = NoConn]
                          /\ con' = [con EXCEPT ![x] = table[fd]]
                          /\ cdata' = [cdata EXCEPT ![table[fd]] = "destroyed"]
    BY <1>6 DEF DestroyFree, Inv, FramesKnow, ConLabels
  <2>2. cfd[table[fd]] \in Fds BY <2>1 DEF OwnEntry
  <2> QED BY <1>6, <2>1, <2>2 DEF DestroyFree
<1>7. CASE DestroyMisses(x) BY <1>7 DEF DestroyMisses
<1>8. CASE DestroyAgain(x) \/ DestroyClose(x)
  <2>1. /\ pc' = [pc EXCEPT ![x] = "idle"] /\ con' = [con EXCEPT ![x] = NoConn]
        /\ UNCHANGED <<sifd, cfd, stream, readSig, eof, table, backlog>>
        /\ cdata' = cdata \/ cdata' = [cdata EXCEPT ![con[x]] = "freed"]
        /\ \/ UNCHANGED <<sockOf, async>>
           \/ /\ sockOf' = [sockOf EXCEPT ![cfd[con[x]]] = NoConn]
              /\ async' = async \ {sockOf[cfd[con[x]]]}
    BY <1>8 DEF DestroyAgain, DestroyClose
  <2> QED BY <2>1
<1>9. CASE UseAfterFree(x) BY <1>9 DEF UseAfterFree, EofReports
<1> QED BY <1>1, <1>2, <1>3, <1>4, <1>5, <1>6, <1>7, <1>8, <1>9 DEF IoHandler

\* connect_handler raises nothing; accept is treated below.
LEMMA ConnectHandlerProceeds ==
    ASSUME Inv, NEW x \in Frames, ConnectHandler(x), ~Accept(x)
    PROVE  Proceeds(x) /\ UNCHANGED rd
<1>0. CountTypes BY CountTyped
<1> USE <1>0 DEF CountTypes, Counted, Bound, Proceeds, Looking, FirstLook, At, Goto, Return, Life, Close,
       frm, srv, net, sig
<1>1. CASE AcceptFails(x) \/ AcceptAborts(x) BY <1>1 DEF AcceptFails, AcceptAborts, CanAccept
<1>2. CASE Insert(x)
  <2>1. con[x] \in Conns /\ cfd[con[x]] \in Fds /\ table' = [table EXCEPT ![cfd[con[x]]] = con[x]]
    BY <1>2 DEF Insert, Inv, FramesKnow, ConLabels
  <2> QED BY <1>2, <2>1 DEF Insert
<1>3. CASE InsertExits(x) \/ InsertFails(x) BY <1>3 DEF InsertExits, InsertFails
<1>4. CASE InsertFree(x) BY <1>4 DEF InsertFree
<1>5. CASE Setup(x)
  <2>1. /\ pc' = [pc EXCEPT ![x] = "idle"] /\ con' = [con EXCEPT ![x] = NoConn]
        /\ UNCHANGED <<sifd, cfd, stream, rd, readSig, eof, table, backlog, cdata, sockOf>>
        /\ async' = async \cup ({sockOf[cfd[con[x]]]} \ {NoConn})
    BY <1>5 DEF Setup
  <2>2. cfd[con[x]] \in Fds BY <1>5 DEF Setup, Inv, FramesKnow, ConLabels
  <2> QED BY <2>1, <2>2
<1> QED BY <1>1, <1>2, <1>3, <1>4, <1>5 DEF ConnectHandler

\* Nor do the calls and the timer; a mutex is waited for on the way.
LEMMA OwnStepsProceed ==
    ASSUME Inv, Counted, NEW x \in Frames, OwnSteps(x)
    PROVE  Proceeds(x) /\ UNCHANGED rd
<1>0. CountTypes BY CountTyped
<1> USE <1>0 DEF CountTypes, Counted, Bound, Proceeds, Looking, FirstLook, At, Goto, Return, Life, Close,
       frm, srv, net, sig
<1>1. CASE Acquire(x)
  <2>1. /\ pc' = [pc EXCEPT ![x] = After(pc[x])] /\ pc[x] \in WaitLabels
        /\ UNCHANGED <<con, sifd, cfd, stream, readSig, eof, table, cdata, backlog, rd, sockOf, async>>
    BY <1>1 DEF Acquire, Waiting
  <2>2. /\ pc'[x] \in FirstLook => pc[x] = "io_lock"
        /\ pc'[x] \in Looking => pc[x] \in {"io_mutex", "rd_lock"}
        /\ pc'[x] \in {"rc_lock", "rc_push"} => pc[x] = "rc_lock"
    BY <2>1 DEF WaitLabels, After
  <2> QED BY <2>1, <2>2 DEF EofReports
<1>2. CASE KeepAliveCheck(x) \/ Tick(x)
  BY <1>2 DEF KeepAliveCheck, iter_keep_alives, TickDone, check_keep_alive, Tick
<1>3. CASE Call(x)
  <2>1. /\ \E l \in {"st_queue", "rm_pop", "gl_list", "stop_conn"} : pc' = [pc EXCEPT ![x] = l]
        /\ UNCHANGED <<con, sifd, cfd, stream, readSig, eof, cdata, backlog, rd, sockOf, async>>
        /\ \A fd \in Fds : table'[fd] = table[fd] \/ table'[fd] = NoConn
    <3>1. CASE \E m \in {read_buff_mux, connections_mux} : CallLock(x, m)
      BY <3>1 DEF CallLock
    <3>2. CASE stop_server(x) BY <3>2 DEF stop_server
    <3>3. CASE start_server(x) BY <3>3 DEF start_server
    <3> QED BY <1>3, <3>1, <3>2, <3>3 DEF Call
  <2> QED BY <2>1
<1>4. CASE read_message(x) \/ get_connected_list(x) \/ ListAborts(x) \/ StopSignals(x)
  BY <1>4 DEF read_message, get_connected_list, ListAborts, StopSignals
<1>5. CASE \E fd \in Fds : StopFree(x, fd)
  <2>1. PICK fd \in Fds : FreeEntry(x, fd, "stop_free", "stop_close") BY <1>5 DEF StopFree
  <2>2. /\ table[fd] # NoConn /\ table' = [table EXCEPT ![fd] = NoConn]
        /\ con' = [con EXCEPT ![x] = table[fd]]
        /\ cdata' = [cdata EXCEPT ![table[fd]] = "destroyed"]
        /\ pc' = [pc EXCEPT ![x] = "stop_close"]
        /\ UNCHANGED <<sifd, cfd, stream, readSig, eof, backlog, rd, sockOf, async>>
    BY <2>1 DEF FreeEntry
  <2>3. cfd[table[fd]] \in Fds BY <2>2 DEF OwnEntry
  <2> QED BY <2>2, <2>3
<1>6. CASE StopClose(x) \/ StopTable(x) \/ StopQueue(x)
  BY <1>6 DEF StopClose, CloseEntry, StopTable, StopQueue
<1> QED BY <1>1, <1>2, <1>3, <1>4, <1>5, <1>6 DEF OwnSteps, Finish

\* Nor does start_server, whatever it discards.
LEMMA StartProceeds ==
    ASSUME Inv, Counted, NEW x \in Frames, Start(x)
    PROVE  Proceeds(x) /\ UNCHANGED rd
<1>0. CountTypes BY CountTyped
<1> USE <1>0 DEF CountTypes, Counted, Bound, Proceeds, Looking, FirstLook, At, Goto, Life, Close,
       frm, srv, net, sig
<1>1. CASE StartPlain(x)
  <2>1. /\ \E l \in StartLabels \cup {"idle"} : pc' = [pc EXCEPT ![x] = l]
        /\ \A fd \in Fds : table'[fd] = table[fd] \/ table'[fd] = NoConn
        /\ UNCHANGED <<con, sifd, cfd, stream, readSig, eof, cdata, backlog, rd, sockOf, async>>
    BY <1>1 DEF StartPlain
  <2> QED BY <2>1 DEF StartLabels
<1>2. CASE Race(x) BY <1>2 DEF Race, EofReports
<1>3. CASE \E fd \in Fds : UndoFree(x, fd)
  <2>1. PICK fd \in Fds : FreeEntry(x, fd, "undo_free", "undo_close") BY <1>3 DEF UndoFree
  <2>2. /\ table[fd] # NoConn /\ table' = [table EXCEPT ![fd] = NoConn]
        /\ con' = [con EXCEPT ![x] = table[fd]]
        /\ cdata' = [cdata EXCEPT ![table[fd]] = "destroyed"]
        /\ pc' = [pc EXCEPT ![x] = "undo_close"]
        /\ UNCHANGED <<sifd, cfd, stream, readSig, eof, backlog, rd, sockOf, async>>
    BY <2>1 DEF FreeEntry
  <2>3. cfd[table[fd]] \in Fds BY <2>2 DEF OwnEntry
  <2> QED BY <2>2, <2>3
<1>4. CASE UndoClose(x) BY <1>4 DEF UndoClose, CloseEntry
<1> QED BY <1>1, <1>2, <1>3, <1>4, StartShape

\* A descriptor for which no signal is under way begins with none.
LEMMA AcceptCounted ==
    ASSUME Inv, CountTypes', Counted, FreshDescriptor, NEW x \in Frames, Accept(x)
    PROVE  Counted'
<1>0. CountTypes BY CountTyped
<1> USE <1>0 DEF CountTypes, Counted, Bound
<1> DEFINE c == Head(backlog)
<1>1. PICK fd \in Fds : /\ sockOf[fd] = NoConn /\ sockOf' = [sockOf EXCEPT ![fd] = c]
                        /\ cfd' = [cfd EXCEPT ![c] = fd]
  BY <1>0 DEF Accept, FreeFd
<1>2. /\ c = backlog[1] /\ Len(backlog) \in Nat \ {0} /\ c \in Conns /\ backlog' = Tail(backlog)
      /\ Len(backlog') = Len(backlog) - 1
      /\ \A i \in 1 .. Len(backlog') : i + 1 \in 1 .. Len(backlog) /\ backlog'[i] = backlog[i + 1]
  BY DEF Accept, CanAccept
<1>3. cfd[c] = 0 /\ fd # 0 /\ fd \in Nat /\ c # NoConn BY <1>2, ServerAssumption DEF Unset
<1>4. ~UnderWay(fd)
  <2>1. sockOf'[fd] = c BY <1>1
  <2> QED BY <1>1, <1>3, <2>1 DEF FreshDescriptor
<1>5. /\ pc[x] = "cn_accept" /\ pc' = [pc EXCEPT ![x] = "cn_lock"]
      /\ con' = [con EXCEPT ![x] = c] /\ cdata' = [cdata EXCEPT ![c] = "live"]
      /\ UNCHANGED <<sifd, table, stream, rd, eof, async, readSig>>
  BY DEF Accept, At, Goto, Life, sig
<1>6. cfd'[c] = fd /\ \A d \in Conns : d # c => cfd'[d] = cfd[d] BY <1>1, <1>2
<1>7. Enough'
  <2> SUFFICES ASSUME NEW d \in Conns, d \in Open', d \notin eof PROVE EnoughFor(d)'
    BY <1>5 DEF Enough, Open
  <2>1. CASE d = c
    <3>1. Signals(d)' = {} BY <1>4, <1>5, <1>6, <2>1 DEF Signals, UnderWay
    <3>2. ASSUME NEW y \in Readers(d)' PROVE FALSE
      <4>1. y \in Frames /\ \/ pc'[y] \in FirstLook /\ sifd[y[1]] = fd
                            \/ pc'[y] \in Looking /\ con'[y] = d
        BY <1>5, <1>6, <2>1 DEF Readers
      <4>2. pc'[y] = pc[y] /\ y # x BY <1>5, <4>1 DEF FirstLook, Looking
      <4>3. CASE pc'[y] \in FirstLook /\ sifd[y[1]] = fd BY <1>4, <4>1, <4>2, <4>3 DEF UnderWay
      <4>4. CASE pc'[y] \in Looking /\ con'[y] = d
        <5>1. con[y] = c BY <1>5, <2>1, <4>1, <4>2, <4>4
        <5> QED BY <1>3, <4>1, <5>1, ServerAssumption DEF ConKnown
      <4> QED BY <4>1, <4>3, <4>4
    <3>3. Readers(d)' = {} BY <3>2
    <3>4. Cardinality(Objects(d)') \in Nat BY CountableNext
    <3>5. /\ IsFiniteSet(Readers(d)') /\ Cardinality(Readers(d)') = 0 /\ Cardinality(Signals(d)') = 0
      BY <3>1, <3>3, FS_EmptySet
    <3> QED BY <3>4, <3>5 DEF EnoughFor
  <2>2. CASE d # c
    <3>1. EnoughFor(d) BY <1>1, <1>5, <2>2 DEF Enough, Open
    <3>2. Signals(d)' = Signals(d) /\ Objects(d)' = Objects(d)
      BY <1>5, <1>6, <2>2 DEF Signals, Objects
    <3>3. Readers(d)' \subseteq Readers(d)
      <4> SUFFICES ASSUME NEW y \in Frames,
                          \/ pc'[y] \in FirstLook /\ sifd[y[1]] = cfd[d]
                          \/ pc'[y] \in Looking /\ con'[y] = d
                   PROVE  y \in Readers(d)
        BY <1>5, <1>6, <2>2 DEF Readers
      <4>1. y # x /\ pc'[y] = pc[y] /\ con'[y] = con[y] BY <1>5 DEF FirstLook, Looking
      <4> QED BY <4>1 DEF Readers
    <3> QED BY <3>1, <3>2, <3>3, EnoughKept
  <2> QED BY <2>1, <2>2
<1>8. EofReports' BY <1>5 DEF EofReports
<1>9. (OwnEntry /\ OwnSocket /\ AsyncOpen /\ LiveOpen)'
  <2>1. \A g \in Fds : g # 0 BY ServerAssumption
  <2>2. OwnEntry'
    <3> SUFFICES ASSUME NEW f \in Fds, table[f] # NoConn PROVE cfd'[table[f]] = f
      BY <1>5 DEF OwnEntry
    <3>1. table[f] \in Conns /\ cfd[table[f]] = f /\ f # 0 BY <2>1 DEF OwnEntry
    <3> QED BY <1>3, <1>6, <3>1
  <2>3. OwnSocket'
    <3> SUFFICES ASSUME NEW f \in Fds, sockOf'[f] # NoConn PROVE cfd'[sockOf'[f]] = f
      BY DEF OwnSocket
    <3>1. CASE f = fd BY <1>1, <1>6, <3>1
    <3>2. CASE f # fd
      <4>1. sockOf'[f] = sockOf[f] /\ sockOf[f] \in Conns /\ cfd[sockOf[f]] = f
        BY <1>1, <3>2 DEF OwnSocket
      <4> QED BY <1>3, <1>6, <2>1, <4>1
    <3> QED BY <3>1, <3>2
  <2>4. \A d \in Open : d \in Open' BY <1>1, <1>3, ServerAssumption DEF Open
  <2>5. AsyncOpen' BY <1>5, <2>4 DEF AsyncOpen
  <2>6. LiveOpen'
    <3> SUFFICES ASSUME NEW d \in Conns, cdata'[d] = "live"
                 PROVE  cfd'[d] \in Fds /\ sockOf'[cfd'[d]] = d
      BY DEF LiveOpen
    <3>1. CASE d = c BY <1>1, <1>6, <3>1
    <3>2. CASE d # c
      <4>1. cfd'[d] = cfd[d] /\ cfd[d] \in Fds /\ sockOf[cfd[d]] = d
        BY <1>5, <1>6, <3>2 DEF LiveOpen
      <4> QED BY <1>1, <4>1, ServerAssumption
    <3> QED BY <3>1, <3>2
  <2> QED BY <2>2, <2>3, <2>5, <2>6
<1>11. ConKnown'
  <2> SUFFICES ASSUME NEW y \in Frames, con'[y] # NoConn PROVE cfd'[con'[y]] \in Fds BY DEF ConKnown
  <2>1. CASE y = x BY <1>1, <1>2, <1>5, <2>1
  <2>2. CASE y # x
    <3>1. con'[y] = con[y] /\ con[y] \in Conns /\ cfd[con[y]] \in Fds BY <1>5, <2>2 DEF ConKnown
    <3> QED BY <1>1, <1>6, <3>1
  <2> QED BY <2>1, <2>2
<1>12. Unset'
  <2>1. \A i \in 1 .. Len(backlog') : backlog'[i] # c BY <1>2 DEF Unset
  <2>2. \A i \in 1 .. Len(backlog') : backlog'[i] \in Conns BY <1>2
  <2>3. \A i \in 1 .. Len(backlog') : cfd'[backlog'[i]] = 0 BY <1>2, <1>6, <2>1, <2>2 DEF Unset
  <2>4. \A i, j \in 1 .. Len(backlog') : backlog'[i] = backlog'[j] => i = j BY <1>2 DEF Unset
  <2>5. \A d \in Conns : cdata'[d] = "none" => cfd'[d] = 0 BY <1>5, <1>6 DEF Unset
  <2> QED BY <2>3, <2>4, <2>5 DEF Unset
<1> QED BY <1>7, <1>8, <1>9, <1>11, <1>12

\* Two open connections have different descriptors.
LEMMA Distinct ==
    ASSUME CountTypes, Counted, NEW c \in Open, NEW d \in async, cfd[c] = cfd[d]
    PROVE  c = d
<1>1. PICK f \in Fds, g \in Fds : sockOf[f] = c /\ sockOf[g] = d
  BY DEF Counted, Bound, AsyncOpen, Open
<1>2. c # NoConn /\ d # NoConn BY ServerAssumption DEF Open, CountTypes
<1> QED BY <1>1, <1>2 DEF Counted, Bound, OwnSocket

\* Signals are raised behind those that are pending.
LEMMA Raised ==
    ASSUME NEW S, NEW s \in Seq(S), NEW e \in S, NEW n \in Nat, NEW t, t = s \o [i \in 1 .. n |-> e]
    PROVE  /\ Len(t) = Len(s) + n /\ \A i \in 1 .. Len(s) : t[i] = s[i]
           /\ \A i \in 1 .. Len(t) : i \notin 1 .. Len(s) => t[i] = e
<1> DEFINE f == [i \in 1 .. n |-> e]
<1>1. f \in Seq(S) /\ Len(f) = n /\ \A i \in 1 .. n : f[i] = e BY Fill
<1> HIDE DEF f
<1>2. /\ t = s \o f /\ Len(s) \in Nat /\ Len(t) = Len(s) + n BY <1>1 DEF f
<1>3. \A i \in 1 .. Len(s) : t[i] = s[i] BY <1>1, <1>2
<1>4. ASSUME NEW i \in 1 .. Len(t), i \notin 1 .. Len(s) PROVE t[i] = e
  <2>1. i - Len(s) \in 1 .. n /\ t[i] = f[i - Len(s)] BY <1>1, <1>2, <1>4
  <2> QED BY <1>1, <2>1
<1> QED BY <1>2, <1>3, <1>4

\* The kernel raises one signal for a segment, any number for a FIN, and hands
\* them to a thread one by one.
LEMMA ArriveCounted ==
    ASSUME SegmentsSpeak, Inv, ReadSent, CountTypes', Counted,
           NEW d \in Conns, NEW seg \in Segments, Arrive(d, seg)
    PROVE  Counted'
<1>0. CountTypes BY CountTyped
<1> USE <1>0 DEF CountTypes, Counted, Bound
<1>1. /\ d \notin eof /\ stream' = [stream EXCEPT ![d] = @ \o seg]
      /\ UNCHANGED <<pc, con, sifd, table, cfd, cdata, backlog, rd, eof, sockOf, async>>
      /\ readSig' = IF d \in async THEN readSig \o [i \in 1 .. 1 |-> cfd[d]] ELSE readSig
  BY DEF Arrive, MaySend, Raise, frm, srv
<1>2. seg \in Seq(Kinds) /\ Len(seg) \in Nat /\ Len(stream[d]) \in Nat /\ Len(readSig) \in Nat
      /\ rd[d] \in Nat /\ rd[d] <= Len(stream[d])
  BY ServerAssumption DEF ReadSent
<1>3. PICK k \in 1 .. Len(seg) : seg[k] # "nl" BY <1>2 DEF SegmentsSpeak
<1>4. /\ stream'[d] = stream[d] \o seg /\ Len(stream'[d]) = Len(stream[d]) + Len(seg)
      /\ \A p \in 1 .. Len(stream[d]) : stream'[d][p] = stream[d][p]
      /\ stream'[d][Len(stream[d]) + k] = seg[k]
  BY <1>1, <1>2, <1>3
<1>5. \A c \in Conns : c # d => stream'[c] = stream[c] BY <1>1
<1>6. \A c \in Conns : Readers(c)' = Readers(c) BY <1>1 DEF Readers
<1>7. ASSUME NEW c \in Conns
      PROVE  /\ Objects(c) \subseteq Objects(c)'
             /\ c = d => /\ Len(stream[d]) + k \in Objects(c)'
                         /\ Len(stream[d]) + k \notin Objects(c)
  <2>1. CASE c # d BY <1>1, <1>5, <2>1 DEF Objects
  <2>2. CASE c = d
    <3>1. ASSUME NEW p \in Objects(c) PROVE p \in Objects(c)'
      <4>1. p \in rd[c] + 1 .. Len(stream[c]) /\ stream[c][p] # "nl" BY DEF Objects
      <4>2. p \in 1 .. Len(stream[c]) /\ p \in rd'[c] + 1 .. Len(stream'[c])
        BY <1>1, <1>2, <1>4, <2>2, <4>1
      <4> QED BY <1>4, <2>2, <4>1, <4>2 DEF Objects
    <3>2. Len(stream[d]) + k \in rd'[c] + 1 .. Len(stream'[c]) BY <1>1, <1>2, <1>3, <1>4, <2>2
    <3>3. Len(stream[d]) + k \notin rd[c] + 1 .. Len(stream[c]) BY <1>2, <1>3, <2>2
    <3> QED BY <1>3, <1>4, <2>2, <3>1, <3>2, <3>3 DEF Objects
  <2> QED BY <2>1, <2>2
<1>8. /\ \A i \in 1 .. Len(readSig) : readSig'[i] = readSig[i]
      /\ \A i \in 1 .. Len(readSig') : \/ i \in 1 .. Len(readSig)
                                       \/ i = Len(readSig) + 1 /\ readSig'[i] = cfd[d]
  <2>1. CASE d \in async
    <3>1. cfd[d] \in Fds BY <2>1 DEF Inv, Placed
    <3>2. [i \in 1 .. 1 |-> cfd[d]] \in Seq(Fds) /\ Len([i \in 1 .. 1 |-> cfd[d]]) = 1
      BY <3>1, Fill
    <3>3. readSig' = readSig \o [i \in 1 .. 1 |-> cfd[d]] BY <1>1, <2>1
    <3> QED BY <1>2, <3>2, <3>3
  <2>2. CASE d \notin async BY <1>1, <2>2
  <2> QED BY <2>1, <2>2
<1>9. Enough'
  <2> SUFFICES ASSUME NEW c \in Conns, c \in Open, c \notin eof PROVE EnoughFor(c)'
    BY <1>1 DEF Enough, Open
  <2>1. CASE c = d
    <3>1. Signals(c)' \subseteq Signals(c) \cup {Len(readSig) + 1} BY <1>1, <1>8 DEF Signals
    <3> DEFINE p == Len(stream[d]) + k
    <3>2. EnoughFor(c) BY DEF Enough
    <3>3. p \notin Objects(c) /\ Objects(c) \cup {p} \subseteq Objects(c)' BY <1>7, <2>1
    <3>4. Readers(c)' \subseteq Readers(c) BY <1>6
    <3> HIDE DEF p
    <3> QED BY <3>1, <3>2, <3>3, <3>4, EnoughRaised
  <2>2. CASE c # d
    <3>1. Signals(c)' \subseteq Signals(c)
      <4> SUFFICES ASSUME NEW i \in 1 .. Len(readSig'), readSig'[i] = cfd[c] PROVE i \in Signals(c)
        BY <1>1 DEF Signals
      <4>1. CASE i \in 1 .. Len(readSig) BY <1>8, <4>1 DEF Signals
      <4>2. CASE i \notin 1 .. Len(readSig)
        <5>1. readSig'[i] = cfd[d] /\ d \in async BY <1>1, <1>8, <4>2
        <5> QED BY <2>2, <5>1, Distinct
      <4> QED BY <4>1, <4>2
    <3> QED BY <1>6, <1>7, <3>1, EnoughKept DEF Enough
  <2> QED BY <2>1, <2>2
<1>11. LiveOpen' /\ Bound'
  BY <1>1 DEF LiveOpen, EofReports, OwnEntry, OwnSocket, AsyncOpen, Open, ConKnown, Unset
<1> QED BY <1>9, <1>11

LEMMA FinCounted ==
    ASSUME Inv, CountTypes', Counted, NEW d \in Conns, NEW n \in 1 .. FinSignals, Fin(d, n)
    PROVE  Counted'
<1>0. CountTypes BY CountTyped
<1> USE <1>0 DEF CountTypes, Counted, Bound
<1>1. /\ eof' = eof \cup {d}
      /\ UNCHANGED <<pc, con, sifd, table, cfd, cdata, backlog, rd, stream, sockOf, async>>
      /\ readSig' = IF d \in async THEN readSig \o [i \in 1 .. n |-> cfd[d]] ELSE readSig
  BY DEF Fin, Raise, frm, srv
<1>2. n \in Nat /\ Len(readSig) \in Nat BY ServerAssumption
<1>3. \A i \in 1 .. Len(readSig') : \/ i \in 1 .. Len(readSig) /\ readSig'[i] = readSig[i]
                                    \/ readSig'[i] = cfd[d]
  <2>1. CASE d \in async
    <3>1. cfd[d] \in Fds BY <2>1 DEF Inv, Placed
    <3>2. readSig' = readSig \o [i \in 1 .. n |-> cfd[d]] BY <1>1, <2>1
    <3> QED BY <1>2, <3>1, <3>2, Raised
  <2>2. CASE d \notin async BY <1>1, <2>2
  <2> QED BY <2>1, <2>2
<1>4. Enough'
  <2> SUFFICES ASSUME NEW c \in Conns, c \in Open, c \notin eof, c # d PROVE EnoughFor(c)'
    BY <1>1 DEF Enough, Open
  <2>1. Signals(c)' \subseteq Signals(c)
    <3> SUFFICES ASSUME NEW i \in 1 .. Len(readSig'), readSig'[i] = cfd[c] PROVE i \in Signals(c)
      BY <1>1 DEF Signals
    <3>1. CASE i \in 1 .. Len(readSig) /\ readSig'[i] = readSig[i] BY <3>1 DEF Signals
    <3>2. CASE ~(i \in 1 .. Len(readSig) /\ readSig'[i] = readSig[i])
      <4>1. readSig'[i] = cfd[d] /\ d \in async BY <1>1, <1>3, <3>2
      <4> QED BY <4>1, Distinct
    <3> QED BY <3>1, <3>2
  <2>2. Readers(c)' = Readers(c) /\ Objects(c)' = Objects(c) BY <1>1 DEF Readers, Objects
  <2> QED BY <2>1, <2>2, EnoughKept DEF Enough
<1>6. LiveOpen' /\ Bound'
  BY <1>1 DEF LiveOpen, EofReports, OwnEntry, OwnSocket, AsyncOpen, Open, ConKnown, Unset
<1> QED BY <1>4, <1>6

LEMMA TakeCounted ==
    ASSUME Inv, CountTypes', Counted, NEW t \in Threads, TakeRead(t)
    PROVE  Counted'
<1>0. CountTypes BY CountTyped
<1> USE <1>0 DEF CountTypes, Counted, Bound
<1> DEFINE x == <<t, "io">>
<1>1. /\ readSig # <<>> /\ readSig' = Tail(readSig) /\ pc[x] = "idle" /\ x \in Frames
      /\ UNCHANGED <<con, table, cfd, cdata, backlog, rd, stream, eof, sockOf, async>>
      /\ \/ /\ pc' = [pc EXCEPT ![x] = "io_lock"]
            /\ sifd' = [sifd EXCEPT ![t] = Head(readSig)]
         \/ UNCHANGED <<pc, sifd>>
  BY DEF TakeRead, Deliverable, Enter, Goto, srv, net, Frames, Levels
<1>2. /\ Head(readSig) = readSig[1] /\ Len(readSig) \in Nat \ {0} /\ Len(readSig') = Len(readSig) - 1
      /\ \A i \in 1 .. Len(readSig') : i + 1 \in 1 .. Len(readSig) /\ readSig'[i] = readSig[i + 1]
  BY <1>1
<1>3. ASSUME NEW y \in Frames, y # x
      PROVE  pc'[y] = pc[y] /\ (pc[y] \in FirstLook => sifd'[y[1]] = sifd[y[1]])
  <2>1. pc[y] \in FirstLook => y[1] # t
    <3> SUFFICES ASSUME pc[y] \in FirstLook, y[1] = t PROVE FALSE OBVIOUS
    <3>1. y[2] = "io" BY DEF Inv, FramesKnow, FirstLook
    <3> QED BY <1>3, <3>1, FrameParts
  <2>2. y[1] \in Threads BY FrameParts
  <2>3. CASE UNCHANGED <<pc, sifd>> BY <2>3
  <2>4. CASE pc' = [pc EXCEPT ![x] = "io_lock"] /\ sifd' = [sifd EXCEPT ![t] = Head(readSig)]
    <3>1. pc'[y] = pc[y] BY <1>3, <2>4
    <3>2. y[1] # t => sifd'[y[1]] = sifd[y[1]] BY <2>2, <2>4
    <3> QED BY <2>1, <3>1, <3>2
  <2> QED BY <1>1, <2>3, <2>4
<1>4. pc'[x] \in FirstLook => sifd'[x[1]] = Head(readSig)
  BY <1>1 DEF FirstLook
<1>5. pc'[x] \notin Looking BY <1>1 DEF Looking
<1>6. Enough'
  <2> SUFFICES ASSUME NEW c \in Conns, c \in Open, c \notin eof PROVE EnoughFor(c)'
    BY <1>1 DEF Enough, Open
  <2>1. Objects(c)' = Objects(c) BY <1>1 DEF Objects
  <2>2. Readers(c)' \subseteq Readers(c) \cup {x}
    <3> SUFFICES ASSUME NEW y \in Frames, y # x,
                        \/ pc'[y] \in FirstLook /\ sifd'[y[1]] = cfd[c]
                        \/ pc'[y] \in Looking /\ con[y] = c
                 PROVE  y \in Readers(c)
      BY <1>1 DEF Readers
    <3> QED BY <1>3 DEF Readers
  <2>3. Head(readSig) # cfd[c] => x \notin Readers(c)' BY <1>1, <1>4, <1>5 DEF Readers
  <2>4. Head(readSig) # cfd[c] => Readers(c)' \subseteq Readers(c) BY <2>2, <2>3
  <2>5. EnoughFor(c) /\ UNCHANGED cfd BY <1>1 DEF Enough
  <2> QED BY <1>1, <2>1, <2>2, <2>4, <2>5, EnoughTaken
<1>8. EofReports' BY <1>1 DEF EofReports
<1>9. (LiveOpen /\ OwnEntry /\ OwnSocket /\ AsyncOpen /\ ConKnown /\ Unset)'
  BY <1>1 DEF LiveOpen, OwnEntry, OwnSocket, AsyncOpen, Open, ConKnown, Unset
<1> QED BY <1>6, <1>8, <1>9

LEMMA KernelStepsCounted ==
    ASSUME SegmentsSpeak, Inv, ReadSent, CountTypes', Counted, KernelSteps
    PROVE  Counted'
<1>0. CountTypes BY CountTyped
<1>1. CASE \E c \in Conns : Connect(c)
  <2>1. PICK c \in Conns : Connect(c) BY <1>1
  <2>2. /\ backlog' = Append(backlog, c) /\ cfd[c] = 0 /\ \A i \in DOMAIN backlog : backlog[i] # c
        /\ UNCHANGED <<pc, con, sifd, table, cfd, cdata, rd, stream, eof, readSig, sockOf, async>>
    BY <2>1 DEF Connect, Connected, Counted, Bound, Unset, frm, srv
  <2>3. \A d \in Conns : Signals(d)' = Signals(d) /\ Readers(d)' = Readers(d) /\ Objects(d)' = Objects(d)
    BY <2>2 DEF Signals, Readers, Objects
  <2>4. Enough' BY <1>0, <2>2, <2>3, EnoughKept DEF Enough, Open, Counted
  <2>5. /\ Len(backlog') = Len(backlog) + 1 /\ Len(backlog) \in Nat /\ DOMAIN backlog = 1 .. Len(backlog)
        /\ \A i \in 1 .. Len(backlog) : backlog'[i] = backlog[i]
        /\ backlog'[Len(backlog) + 1] = c
    BY <1>0, <2>2 DEF CountTypes
  <2>6. Unset'
    <3>1. \A i \in 1 .. Len(backlog') : i \in 1 .. Len(backlog) \/ i = Len(backlog) + 1 BY <2>5
    <3> QED BY <2>2, <2>5, <3>1 DEF Unset, Counted, Bound
  <2>7. (LiveOpen /\ EofReports /\ OwnEntry /\ OwnSocket /\ AsyncOpen /\ ConKnown)'
    BY <2>2 DEF Counted, Bound, LiveOpen, EofReports, OwnEntry, OwnSocket, AsyncOpen, Open, ConKnown
  <2> QED BY <2>4, <2>6, <2>7 DEF Counted, Bound
<1>2. CASE \E c \in Conns : \E seg \in Segments : Arrive(c, seg) BY <1>2, ArriveCounted
<1>3. CASE \E c \in Conns : \E n \in 1 .. FinSignals : Fin(c, n) BY <1>3, FinCounted
<1>4. CASE \E t \in Threads : TakeRead(t) BY <1>4, TakeCounted
<1>5. CASE (\E c \in Conns : Expire(c)) \/ \E t \in Threads : TakeConnect(t)
  <2>1. /\ UNCHANGED <<con, sifd, table, cfd, cdata, backlog, rd, stream, eof, readSig, sockOf, async>>
        /\ \/ UNCHANGED pc
           \/ \E t \in Threads : pc' = [pc EXCEPT ![<<t, "conn">>] = "cn_accept"]
    BY <1>5 DEF Expire, TakeConnect, Enter, Goto, frm, srv, net, sig
  <2>2. \A y \in Frames : pc'[y] = pc[y] \/ pc'[y] = "cn_accept" BY <1>0, <2>1 DEF CountTypes
  <2>3. \A d \in Conns : /\ Signals(d)' = Signals(d) /\ Objects(d)' = Objects(d)
                         /\ Readers(d)' \subseteq Readers(d)
    BY <2>1, <2>2 DEF Signals, Readers, Objects, FirstLook, Looking
  <2>4. Enough' BY <1>0, <2>1, <2>3, EnoughKept DEF Enough, Open, Counted
  <2>5. LiveOpen' /\ Bound'
    BY <2>1, <2>2 DEF Counted, Bound, LiveOpen, EofReports, OwnEntry, OwnSocket, AsyncOpen, Open,
                      ConKnown, Unset
  <2> QED BY <2>4, <2>5 DEF Counted
<1> QED BY <1>1, <1>2, <1>3, <1>4, <1>5 DEF KernelSteps, Peer

\* A report of another kind, or of a connection that the peer has closed.
LEMMA QueueTells ==
    ASSUME queue \in Seq(Reports), eof \subseteq eof', ClosedMeansEof,
           \/ queue' = queue \/ queue' = <<>> \/ (queue # <<>> /\ queue' = Tail(queue))
           \/ \E c \in Conns, p \in Nat, w \in {"msg", "bad", "closed", "timeout"} :
                Push(c, w, p) /\ (w = "closed" => c \in eof)
    PROVE  ClosedMeansEof'
<1>1. CASE queue' = queue BY <1>1 DEF ClosedMeansEof
<1>2. CASE queue' = <<>> BY <1>2 DEF ClosedMeansEof
<1>3. CASE queue # <<>> /\ queue' = Tail(queue)
  <2>1. \A i \in DOMAIN queue' : i + 1 \in DOMAIN queue /\ queue'[i] = queue[i + 1] BY <1>3
  <2> QED BY <2>1 DEF ClosedMeansEof
<1>4. CASE \E c \in Conns, p \in Nat, w \in {"msg", "bad", "closed", "timeout"} :
             Push(c, w, p) /\ (w = "closed" => c \in eof)
  <2>1. PICK c \in Conns, p \in Nat, w \in {"msg", "bad", "closed", "timeout"} :
               Push(c, w, p) /\ (w = "closed" => c \in eof)
    BY <1>4
  <2> DEFINE r == [from |-> c, what |-> w, pos |-> p]
  <2>2. CASE queue' = queue BY <1>1, <2>2
  <2>3. CASE queue' = Append(queue, r)
    <3>1. r \in Reports BY DEF Reports
    <3>2. \A i \in DOMAIN queue' : \/ i \in DOMAIN queue /\ queue'[i] = queue[i]
                                   \/ queue'[i] = r
      BY <2>3, <3>1
    <3> QED BY <2>1, <3>2 DEF ClosedMeansEof
  <2> QED BY <2>1, <2>2, <2>3 DEF Push
<1> QED BY <1>1, <1>2, <1>3, <1>4

LEMMA ClosedStep ==
    ASSUME ~AllocFails, SegmentsSpeak, SockInv, ReadSent, Counted, ClosedMeansEof,
           [Next]_vars, FreshDescriptor
    PROVE  Counted' /\ ClosedMeansEof'
<1>0. /\ CountTypes /\ CountTypes' /\ OwnClose /\ Inv /\ queue \in Seq(Reports)
      /\ table \in [Fds -> Conns \cup {NoConn}]
  <2>1. Inv /\ Inv' BY StepInv DEF SockInv
  <2>2. CountTypes BY <2>1, CountTyped
  <2>3. CountTypes' BY <2>1 DEF Inv, FrameTypes, DataTypes, KernelTypes, CountTypes
  <2> QED BY <2>1, <2>2, <2>3, SocketsStep DEF Inv, DataTypes
<1>1. ASSUME NEW x \in Frames, IoHandler(x) PROVE Counted' /\ ClosedMeansEof'
  <2>1. Proceeds(x) BY <1>0, <1>1, IoHandlerProceeds
  <2>2. ASSUME pc[x] = "fetch" \/ pc[x] = "rc_push" PROVE con[x] \in Conns /\ rd[con[x]] \in Nat
    BY <1>0, <2>2 DEF Inv, FramesKnow, ConLabels, CountTypes
  <2>3. ClosedMeansEof'
    <3>1. CASE ReportPush(x)
      <4>1. pc[x] = "rc_push" /\ Push(con[x], "closed", rd[con[x]]) BY <3>1 DEF ReportPush, At
      <4>2. con[x] \in eof BY <4>1 DEF Counted, Bound, EofReports
      <4> QED BY <1>0, <2>1, <2>2, <4>1, <4>2, QueueTells DEF Proceeds
    <3>2. CASE FetchObject(x)
      <4>3. pc[x] = "fetch" /\ Decoded(con[x]) \ {"ka"} \subseteq {"msg", "bad"}
        BY <3>2 DEF FetchObject, Fetching, At, Decoded
      <4>1. pc[x] = "fetch" /\ \E what \in {"msg", "bad"} : Push(con[x], what, rd'[con[x]])
        BY <3>2, <4>3 DEF FetchObject
      <4>2. rd'[con[x]] \in Nat BY <1>0, <2>2, <4>1 DEF CountTypes
      <4> QED BY <1>0, <2>1, <2>2, <4>1, <4>2, QueueTells DEF Proceeds
    <3>3. CASE \/ IoLookup(x) \/ IoDestroyed(x) \/ IoPeek(x) \/ ReportFails(x)
               \/ FetchNewline(x) \/ FetchEnd(x)
      <4>1. UNCHANGED queue
        BY <3>3 DEF IoLookup, IoDestroyed, IoPeek, ReportFails, FetchNewline, FetchEnd, srv
      <4> QED BY <1>0, <2>1, <4>1, QueueTells DEF Proceeds
    <3>4. CASE \/ FetchKeepAlive(x) \/ FetchError(x) \/ DestroyFree(x) \/ DestroyMisses(x)
               \/ DestroyAgain(x) \/ DestroyClose(x) \/ UseAfterFree(x)
      <4>1. UNCHANGED queue
        BY <3>4 DEF FetchKeepAlive, FetchError, DestroyFree, DestroyMisses, DestroyAgain,
                    DestroyClose, UseAfterFree, srv
      <4> QED BY <1>0, <2>1, <4>1, QueueTells DEF Proceeds
    <3> QED BY <1>1, <3>1, <3>2, <3>3, <3>4 DEF IoHandler
  <2>4. Counted'
    <3>1. CASE UNCHANGED rd BY <1>0, <2>1, <3>1, ProceedsCounted
    <3>2. CASE FetchNewline(x)
      <4>1. Fetching(x, {"nl"}) /\ pc'[x] = pc[x] BY <3>2 DEF FetchNewline, frm
      <4>2. con[x] \in Conns BY <2>2, <4>1 DEF Fetching, At
      <4> QED BY <1>0, <2>1, <4>1, <4>2, ReadCounted
    <3>3. CASE FetchObject(x) \/ FetchKeepAlive(x) \/ (FetchError(x) /\ Fetching(x, {"frag"}))
      <4>1. PICK kinds \in {{"msg", "bad", "ka"}, {"ka"}, {"frag"}} : Fetching(x, kinds)
        BY <3>3 DEF FetchObject, FetchKeepAlive
      <4>2. con[x] \in Conns BY <2>2, <4>1 DEF Fetching, At
      <4>3. pc'[x] \in {"idle", "dc_lock"}
        BY <1>0, <3>3 DEF FetchObject, FetchKeepAlive, FetchError, ReadDone, Return, Goto, CountTypes
      <4>4. pc'[x] \notin FirstLook \cup Looking BY <4>3 DEF FirstLook, Looking
      <4> QED BY <1>0, <2>1, <4>1, <4>2, <4>4, ReadCounted
    <3>4. CASE ~UNCHANGED rd
      <4>1. ~(\/ IoLookup(x) \/ IoDestroyed(x) \/ IoPeek(x) \/ ReportFails(x)
              \/ ReportPush(x) \/ FetchEnd(x))
        BY <3>4 DEF IoLookup, IoDestroyed, IoPeek, ReportFails, ReportPush, FetchEnd, net
      <4>2. ~(\/ DestroyFree(x) \/ DestroyMisses(x) \/ DestroyAgain(x) \/ DestroyClose(x)
              \/ UseAfterFree(x))
        BY <3>4 DEF DestroyFree, DestroyMisses, DestroyAgain, DestroyClose, UseAfterFree, net
      <4>3. FetchError(x) => Fetching(x, {"frag"}) BY <3>4 DEF FetchError
      <4> QED BY <1>1, <3>2, <3>3, <4>1, <4>2, <4>3 DEF IoHandler
    <3> QED BY <3>1, <3>4
  <2> QED BY <2>3, <2>4
<1>2. ASSUME NEW x \in Frames, ConnectHandler(x) PROVE Counted' /\ ClosedMeansEof'
  <2>1. Counted'
    <3>1. CASE Accept(x) BY <1>0, <3>1, AcceptCounted
    <3>2. CASE ~Accept(x)
      BY <1>0, <1>2, <3>2, ConnectHandlerProceeds, ProceedsCounted
    <3> QED BY <3>1, <3>2
  <2>2. UNCHANGED queue /\ eof \subseteq eof'
    BY <1>2 DEF ConnectHandler, AcceptFails, AcceptAborts, Accept, Insert, InsertExits, InsertFails,
                InsertFree, Setup, srv, net
  <2> QED BY <1>0, <2>1, <2>2, QueueTells
<1>3. ASSUME NEW x \in Frames, OwnSteps(x) PROVE Counted' /\ ClosedMeansEof'
  <2>1. Proceeds(x) /\ UNCHANGED rd BY <1>0, <1>3, OwnStepsProceed
  <2>2. Counted' BY <1>0, <2>1, ProceedsCounted
  <2>3. CASE \E fd \in Fds : check_keep_alive(x, fd) /\ ~UNCHANGED queue
    <3>1. PICK fd \in Fds : check_keep_alive(x, fd) /\ ~UNCHANGED queue BY <2>3
    <3>2. /\ table[fd] \in overdue /\ Push(table[fd], "timeout", rd[table[fd]])
      BY <3>1 DEF check_keep_alive
    <3>3. table[fd] \in Conns /\ rd[table[fd]] \in Nat
      BY <1>0, <3>2 DEF Inv, DataTypes, CountTypes
    <3> QED BY <1>0, <2>1, <2>2, <3>2, <3>3, QueueTells DEF Proceeds
  <2>4. CASE read_message(x) \/ StopQueue(x)
    <3>1. queue' = <<>> \/ queue' = queue \/ (queue # <<>> /\ queue' = Tail(queue))
      BY <2>4 DEF read_message, StopQueue
    <3> QED BY <1>0, <2>1, <2>2, <3>1, QueueTells DEF Proceeds
  <2>5. ASSUME ~read_message(x), ~StopQueue(x), ~(\E fd \in Fds : check_keep_alive(x, fd))
        PROVE  UNCHANGED queue
    <3>1. CASE \/ Acquire(x) \/ Tick(x) \/ iter_keep_alives(x) \/ TickDone(x) \/ stop_server(x)
               \/ start_server(x) \/ \E m \in {read_buff_mux, connections_mux} : CallLock(x, m)
      BY <3>1 DEF Acquire, Tick, iter_keep_alives, TickDone, stop_server, start_server, CallLock, srv
    <3>2. CASE \/ get_connected_list(x) \/ ListAborts(x) \/ StopSignals(x) \/ StopClose(x)
               \/ StopTable(x) \/ \E fd \in Fds : StopFree(x, fd)
      BY <3>2 DEF get_connected_list, ListAborts, StopSignals, StopClose, CloseEntry, StopTable,
                  StopFree, FreeEntry, srv
    <3> QED BY <1>3, <2>5, <3>1, <3>2 DEF OwnSteps, KeepAliveCheck, Call, Finish
  <2>6. CASE UNCHANGED queue BY <1>0, <2>1, <2>2, <2>6, QueueTells DEF Proceeds
  <2> QED BY <2>3, <2>4, <2>5, <2>6
<1>6. ASSUME NEW x \in Frames, Start(x) PROVE Counted' /\ ClosedMeansEof'
  <2>1. Proceeds(x) /\ UNCHANGED rd BY <1>0, <1>6, StartProceeds
  <2>2. Counted' BY <1>0, <2>1, ProceedsCounted
  <2>3. queue' = queue \/ queue' = <<>>
    BY <1>0, <1>6, StartShape
       DEF StartPlain, Race, UndoFree, FreeEntry, UndoClose, CloseEntry, srv
  <2> QED BY <1>0, <2>1, <2>2, <2>3, QueueTells DEF Proceeds
<1>4. CASE KernelSteps
  <2>1. Counted' BY <1>0, <1>4, KernelStepsCounted
  <2>2. UNCHANGED queue /\ eof \subseteq eof'
    BY <1>4 DEF KernelSteps, Peer, Connect, Arrive, Fin, Expire, TakeConnect, TakeRead, srv, net
  <2> QED BY <1>0, <2>1, <2>2, QueueTells
<1>5. CASE UNCHANGED vars
  <2>1. UNCHANGED <<pc, con, sifd, table, queue, cdata, cfd, backlog, sockOf, stream, rd,
                  eof, async, readSig>>
    BY <1>5 DEF vars, frm, srv, net, sig
  <2>2. \A c \in Conns : Signals(c)' = Signals(c) /\ Readers(c)' = Readers(c) /\ Objects(c)' = Objects(c)
    BY <2>1 DEF Signals, Readers, Objects
  <2>3. Enough' BY <1>0, <2>1, <2>2, EnoughKept DEF Enough, Open, Counted
  <2>4. (LiveOpen /\ EofReports /\ OwnEntry /\ OwnSocket /\ AsyncOpen /\ ConKnown /\ Unset)'
    BY <2>1 DEF Counted, Bound, LiveOpen, EofReports, OwnEntry, OwnSocket, AsyncOpen, Open,
                 ConKnown, Unset
  <2>5. ClosedMeansEof' BY <2>1 DEF ClosedMeansEof
  <2> QED BY <2>3, <2>4, <2>5 DEF Counted, Bound
<1> QED BY <1>1, <1>2, <1>3, <1>4, <1>5, <1>6 DEF Next, Step, OwnSteps, KernelSteps

\* "Connection closed" is reported of connections that their peers closed, on
\* any number of threads and connections and across stop_server: provided that
\* every segment carries an object (a lone newline raises a signal too), that
\* malloc does not fail, and that accept returns no descriptor for which a READ
\* signal of its last owner is still under way.
THEOREM ClosedTellsTruth ==
    ~AllocFails /\ SegmentsSpeak => (Spec /\ [][FreshDescriptor]_vars => []ClosedMeansEof)
<1> SUFFICES ASSUME ~AllocFails, SegmentsSpeak
             PROVE  Spec /\ [][FreshDescriptor]_vars => []ClosedMeansEof
  OBVIOUS
<1>1. Init => SockInv /\ Order /\ Counted /\ ClosedMeansEof
  <2> SUFFICES ASSUME Init PROVE Order /\ Counted /\ ClosedMeansEof BY SockInit
  <2>1. Order BY ServerAssumption DEF Init, Order, NullQueue, ReadSent, Behind, Ordered, Complete
  <2>2. ClosedMeansEof BY DEF Init, ClosedMeansEof
  <2>3. Open = {} BY ServerAssumption DEF Init, Open
  <2>4. Enough BY <2>3 DEF Enough
  <2>5. LiveOpen /\ EofReports /\ OwnEntry /\ OwnSocket /\ AsyncOpen /\ ConKnown /\ Unset
    BY EmptySeq DEF Init, LiveOpen, EofReports, OwnEntry, OwnSocket, AsyncOpen, ConKnown, Unset
  <2> QED BY <2>1, <2>2, <2>4, <2>5 DEF Counted, Bound
<1>2. SockInv /\ [Next]_vars => SockInv' BY SockStep
<1>3. SockInv /\ Order /\ [Next]_vars => Order' BY OrderStep DEF SockInv
<1>4. SockInv /\ Order /\ Counted /\ ClosedMeansEof /\ [Next]_vars /\ [FreshDescriptor]_vars
        => Counted' /\ ClosedMeansEof'
  <2> SUFFICES ASSUME SockInv, Order, Counted, ClosedMeansEof, [Next]_vars, [FreshDescriptor]_vars
               PROVE  Counted' /\ ClosedMeansEof'
    OBVIOUS
  <2>1. UNCHANGED vars => FreshDescriptor BY DEF vars, net, FreshDescriptor
  <2> QED BY <2>1, ClosedStep DEF Order
<1> QED BY <1>1, <1>2, <1>3, <1>4, PTL DEF Spec
=============================================================================
