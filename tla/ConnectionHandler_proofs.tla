----------------------- MODULE ConnectionHandler_proofs -----------------------
(***************************************************************************)
(* Proofs about ConnectionHandler, for every stream the server may send    *)
(* and however it is cut into reads.                                       *)
(*                                                                         *)
(* Each method is an operator on the record handler. Parsing(h) is what    *)
(* holds while one of them runs on an open connection; Settled(h) is what  *)
(* holds between handlers; and Progress(h, g) is what a method may do to   *)
(* the messages that the owner has seen. A lemma per method takes Parsing  *)
(* and what the method needs to Settled and Progress. At the end a second  *)
(* round of lemmas shows where in the stream the methods are (Located).    *)
(***************************************************************************)
EXTENDS ConnectionHandler, Recursions, TLAPS

\* The server begins with a login response that has a body. The handler does
\* not insist on it; what it promises about its timer depends on it.
LoginFirst ==
    \A s \in Streams : Len(s.msgs) > 0 => s.msgs[1].tag = "login" /\ s.msgs[1].size > 0

\* No body is so small that the read for its header may reach beyond its end.
NoSmallBodies ==
    \A s \in Streams : \A i \in 1..Len(s.msgs) :
        s.msgs[i].size = 0 \/ s.msgs[i].varint + s.msgs[i].size >= SizeMax

\* The record is well-formed, and the bytes are in order.
Framed(h) ==
    /\ h \in HandlerStates
    /\ h.checks
    /\ h.base <= h.at
    /\ h.at <= h.got

\* The handshake is complete as soon as a message was delivered.
Greeted(h) == LoginFirst => (h.handshake_complete <=> h.delivered # << >>)

Parsing(h) ==
    /\ Framed(h)
    /\ h.open
    /\ h.reading = "none"
    /\ h.posted = 0
    /\ Greeted(h)

\* msg is the message after those delivered.
InMessage(h) == h.msg = Len(h.delivered) + 1 /\ h.msg <= Len(h.stream.msgs)

\* The body of the message is not complete.
InBody(h) ==
    /\ h.message_size = Message(h).size
    /\ h.message_size > 0
    /\ h.message_size >= PacketLimit => h.payload < h.message_size

\* What WaitForData(state) may rely on.
Expecting(h, state) ==
    /\ state = "VERSION_TAG_AND_SIZE" => h.delivered = << >>
    /\ state = "TAG_AND_SIZE" => h.delivered # << >>
    /\ state \in {"SIZE", "PROTO_BYTES"} => InMessage(h)
    /\ state = "PROTO_BYTES" => InBody(h)
    /\ LoginFirst => (h.timer <=> \/ ~ h.handshake_complete
                                  \/ state \in {"SIZE", "PROTO_BYTES"})

\* Between two messages.
Between(h) ==
    /\ h.delivered # << >>
    /\ Unread(h) < SizeMax
    /\ LoginFirst => ~ h.timer

\* A pending read never asks for more than its state may use.
ReadBounded(h) ==
    /\ h.limit > 0
    /\ Unread(h) + h.limit = MaxBytesNeeded(h, h.reading)

ExactlyOne(h) ==
    (IF h.reading = "none" THEN 0 ELSE 1) + h.posted = IF h.open THEN 1 ELSE 0

\* The inductive invariant.
Settled(h) ==
    /\ Framed(h)
    /\ ExactlyOne(h)
    /\ h.open => Greeted(h)
    /\ ~ h.open => h.got = 0 /\ ~ h.timer /\ h.output = "none"
    /\ h.reading # "none" => Expecting(h, h.reading) /\ ReadBounded(h)
    /\ h.posted > 0 => Between(h)

\* What one handler does to the messages: it delivers the next one, waits, or
\* ends the connection with one report.
Progress(h, g) ==
    /\ g.stream = h.stream
    /\ \/ g.open /\ g.delivered = h.delivered /\ g.reports = h.reports
       \/ /\ g.open /\ g.reports = h.reports
          /\ Len(h.delivered) < Len(h.stream.msgs)
          /\ g.delivered # << >>
          /\ NoSmallBodies =>
                 g.delivered = Append(h.delivered, h.stream.msgs[Len(h.delivered) + 1])
       \/ ~ g.open /\ g.delivered = h.delivered /\ g.reports = h.reports + 1

Done(h, g) == Settled(g) /\ Progress(h, g)

-----------------------------------------------------------------------------

\* The assumption on the constants, as arithmetic facts.
LEMMA Sizes ==
    /\ SizeMax \in Nat /\ SizeMax > 0
    /\ PacketLimit \in Nat /\ SizeMax <= PacketLimit
    /\ BufferSize \in Nat /\ 2 + SizeMax <= BufferSize
BY HandlerAssumption

\* The fields the proofs compute with.
LEMMA FieldTypes ==
    ASSUME NEW h \in HandlerStates
    PROVE  /\ h.base \in Nat /\ h.at \in Nat /\ h.got \in Nat
           /\ h.limit \in Nat /\ h.posted \in Nat /\ h.reports \in Nat
           /\ h.msg \in Nat /\ h.message_size \in Nat /\ h.payload \in Nat
           /\ h.size_packet_so_far \in Nat /\ h.size_packet_so_far < SizeMax
           /\ h.delivered \in Seq(Messages) /\ h.stream \in Streams
           /\ h.stream.msgs \in Seq(Messages)
<1>1. h.size_packet_so_far \in 0..(SizeMax - 1) /\ h.stream \in Streams
  BY DEF HandlerStates
<1>2. h.stream.msgs \in Seq(Messages)
  BY <1>1, HandlerAssumption
<1>3. h.size_packet_so_far \in Nat /\ h.size_packet_so_far < SizeMax
  BY <1>1, Sizes
<1>4. QED
  BY <1>1, <1>2, <1>3 DEF HandlerStates

\* The message whose tag was read.
LEMMA MessageType ==
    ASSUME NEW h \in HandlerStates, InMessage(h)
    PROVE  /\ Message(h) \in Messages
           /\ Message(h) = h.stream.msgs[Len(h.delivered) + 1]
           /\ Message(h).varint \in Nat /\ Message(h).varint > 0
           /\ Message(h).size \in Nat
           /\ Message(h).parses \in BOOLEAN
           /\ NoSmallBodies => \/ Message(h).size = 0
                               \/ Message(h).varint + Message(h).size >= SizeMax
<1>1. h.stream \in Streams /\ h.stream.msgs \in Seq(Messages) /\ h.delivered \in Seq(Messages)
  BY FieldTypes
<1>2. h.msg \in 1..Len(h.stream.msgs)
  BY <1>1 DEF InMessage
<1>3. Message(h) \in Messages
  BY <1>1, <1>2 DEF Message
<1>4. /\ Message(h).varint \in 1..(SizeMax + 1) /\ Message(h).size \in Nat
      /\ Message(h).parses \in BOOLEAN
  BY <1>3 DEF Messages
<1>5. Message(h).varint \in Nat /\ Message(h).varint > 0
  BY <1>4, Sizes
<1>6. QED
  BY <1>1, <1>2, <1>3, <1>4, <1>5 DEF Message, InMessage, NoSmallBodies

\* The smaller of two numbers.
LEMMA MinOfTwo ==
    ASSUME NEW a \in Nat, NEW b \in Nat
    PROVE  Min({a, b}) = IF a <= b THEN a ELSE b
<1> DEFINE m == IF a <= b THEN a ELSE b
<1>1. m \in {a, b} /\ \A y \in {a, b} : m <= y
  OBVIOUS
<1>2. \A x \in {a, b} : (\A y \in {a, b} : x <= y) => x = m
  OBVIOUS
<1> HIDE DEF m
<1>3. Min({a, b}) \in {a, b} /\ \A y \in {a, b} : Min({a, b}) <= y
  BY <1>1 DEF Min
<1>4. Min({a, b}) = m
  BY <1>2, <1>3
<1>5. QED
  BY <1>4 DEF m

\* How many bytes of a body are asked for at once.
LEMMA BytesNeededLemma ==
    ASSUME NEW h \in HandlerStates, h.message_size > 0,
           h.message_size >= PacketLimit => h.payload < h.message_size
    PROVE  /\ BytesNeeded(h) \in Nat /\ BytesNeeded(h) > 0
           /\ h.message_size < PacketLimit => BytesNeeded(h) = h.message_size
           /\ h.message_size >= PacketLimit =>
                  /\ h.payload + BytesNeeded(h) <= h.message_size
                  /\ h.payload = 0 => BytesNeeded(h) = PacketLimit
<1>1. h.message_size \in Nat /\ h.payload \in Nat
  BY FieldTypes
<1>2. CASE h.message_size < PacketLimit
  BY <1>1, <1>2, Sizes DEF BytesNeeded
<1>3. CASE h.message_size >= PacketLimit
  <2>1. h.message_size - h.payload \in Nat
    BY <1>1, <1>3
  <2>2. BytesNeeded(h) = IF h.message_size - h.payload <= PacketLimit
                         THEN h.message_size - h.payload ELSE PacketLimit
    BY <1>1, <1>3, <2>1, Sizes, MinOfTwo DEF BytesNeeded
  <2>3. QED
    BY <1>1, <1>3, <2>1, <2>2, Sizes
<1>4. QED
  BY <1>1, <1>2, <1>3, Sizes

-----------------------------------------------------------------------------

\* An ended connection is settled.
LEMMA CloseLemma ==
    ASSUME NEW h \in HandlerStates, h.checks
    PROVE  LET g == CloseConnection(h)
           IN  /\ Settled(g) /\ ~ g.open
               /\ g.stream = h.stream /\ g.delivered = h.delivered
               /\ g.reports = h.reports
<1> DEFINE g == CloseConnection(h)
<1>1. g = [h EXCEPT !.timer = FALSE, !.handshake_complete = FALSE, !.msg = 0,
              !.message_size = 0, !.size_packet_so_far = 0, !.payload = 0,
              !.open = FALSE, !.reading = "none", !.limit = 0,
              !.base = 0, !.at = 0, !.got = 0, !.output = "none", !.posted = 0]
  BY DEF CloseConnection
<1> HIDE DEF g
<1>2. 0 \in 0..(SizeMax - 1)
  BY Sizes
<1>3. g \in HandlerStates
  BY <1>1, <1>2 DEF HandlerStates
<1>4. /\ ~ g.open /\ g.reading = "none" /\ g.posted = 0 /\ ~ g.timer
      /\ g.base = 0 /\ g.at = 0 /\ g.got = 0 /\ g.checks /\ g.output = "none"
      /\ g.stream = h.stream /\ g.delivered = h.delivered /\ g.reports = h.reports
  BY <1>1 DEF HandlerStates
<1>5. Settled(g)
  BY <1>3, <1>4 DEF Settled, Framed, ExactlyOne
<1>6. QED
  BY <1>4, <1>5 DEF g

\* A failure ends the connection with one report.
LEMMA FailLemma ==
    ASSUME NEW h \in HandlerStates, h.checks
    PROVE  Done(h, Fail(h))
<1> DEFINE c == CloseConnection(h)
           g == Fail(h)
<1>1. /\ Settled(c) /\ ~ c.open /\ c.stream = h.stream
      /\ c.delivered = h.delivered /\ c.reports = h.reports
  BY CloseLemma
<1>2. c \in HandlerStates
  BY <1>1 DEF Settled, Framed
<1> DEFINE n == c.reports + 1
<1>n. n \in Nat
  BY <1>2, FieldTypes
<1>3. g = [c EXCEPT !.reports = n]
  BY DEF Fail
<1> HIDE DEF c, g, n
<1>4. g \in HandlerStates
  BY <1>2, <1>3, <1>n DEF HandlerStates
<1>5. /\ g.open = c.open /\ g.reading = c.reading /\ g.posted = c.posted
      /\ g.timer = c.timer /\ g.base = c.base /\ g.at = c.at /\ g.got = c.got
      /\ g.checks = c.checks /\ g.stream = c.stream /\ g.delivered = c.delivered
      /\ g.reports = c.reports + 1 /\ g.output = c.output
  BY <1>2, <1>3 DEF HandlerStates, n
<1>6. c.reading = "none" /\ c.posted = 0
  BY <1>1, <1>2, FieldTypes DEF Settled, ExactlyOne
<1>7. Settled(g)
  BY <1>1, <1>4, <1>5, <1>6 DEF Settled, Framed, ExactlyOne
<1>8. QED
  BY <1>1, <1>5, <1>7 DEF Done, Progress, g

\* Refresh leaves one pending read, or fails when the buffer has no room.
LEMMA RefreshLemma ==
    ASSUME NEW h, Parsing(h), NEW state \in ProcessingStates, NEW limit \in Nat,
           limit > 0, Unread(h) + limit = MaxBytesNeeded(h, state), Expecting(h, state)
    PROVE  Done(h, Refresh(h, state, limit))
<1> DEFINE g == Refresh(h, state, limit)
<1>1. h \in HandlerStates /\ h.checks
  BY DEF Parsing, Framed
<1>2. CASE limit > BufferSize - (h.got - h.base)
  BY <1>1, <1>2, FailLemma DEF Refresh
<1>3. CASE ~ (limit > BufferSize - (h.got - h.base))
  <2>1. g = [h EXCEPT !.checks = TRUE, !.reading = state, !.limit = limit]
    BY <1>1, <1>3 DEF Refresh, Parsing, HandlerStates
  <2> HIDE DEF g
  <2>2. g \in HandlerStates
    BY <1>1, <2>1 DEF HandlerStates
  <2>3. /\ g.open = h.open /\ g.reading = state /\ g.limit = limit
        /\ g.posted = h.posted /\ g.timer = h.timer /\ g.base = h.base
        /\ g.at = h.at /\ g.got = h.got /\ g.checks
        /\ g.stream = h.stream /\ g.delivered = h.delivered
        /\ g.reports = h.reports /\ g.handshake_complete = h.handshake_complete
        /\ g.msg = h.msg /\ g.message_size = h.message_size /\ g.payload = h.payload
        /\ g.size_packet_so_far = h.size_packet_so_far
    BY <1>1, <2>1 DEF HandlerStates
  <2>4. state # "none"
    BY DEF ProcessingStates
  <2>5. Framed(g) /\ Greeted(g) /\ ExactlyOne(g)
    BY <2>2, <2>3, <2>4 DEF Parsing, Framed, Greeted, ExactlyOne
  <2>6. Expecting(g, state)
    BY <2>3 DEF Expecting, InMessage, InBody, Message
  <2>7. BytesNeeded(g) = BytesNeeded(h) /\ Unread(g) = Unread(h)
    BY <2>3 DEF BytesNeeded, Unread
  <2>8. MaxBytesNeeded(g, state) = MaxBytesNeeded(h, state)
    BY <2>7 DEF MaxBytesNeeded
  <2>9. Settled(g)
    BY <2>3, <2>4, <2>5, <2>6, <2>7, <2>8 DEF Settled, ReadBounded, Parsing
  <2>10. QED
    BY <2>3, <2>9 DEF Done, Progress, Parsing, g
<1>4. QED
  BY <1>2, <1>3

\* What happens to a record that says the same of the messages happens to this one.
LEMMA DoneCarries ==
    ASSUME NEW h, NEW g, NEW x, Done(g, x), g.stream = h.stream,
           g.delivered = h.delivered, g.reports = h.reports
    PROVE  Done(h, x)
BY DEF Done, Progress

\* The unread bytes have been taken out of the buffer: p of the body so far.
Taken(h, p, t) == [h EXCEPT !.timer = t, !.at = h.got, !.base = h.got, !.payload = p]

LEMMA TakenLemma ==
    ASSUME NEW h, Parsing(h), NEW p \in Nat, NEW t \in BOOLEAN
    PROVE  LET g == Taken(h, p, t)
           IN  /\ Parsing(g) /\ g.timer = t /\ Unread(g) = 0 /\ g.payload = p
               /\ g.stream = h.stream /\ g.delivered = h.delivered
               /\ g.reports = h.reports /\ g.msg = h.msg
               /\ g.message_size = h.message_size
<1> DEFINE g == Taken(h, p, t)
<1>1. h \in HandlerStates /\ h.got \in Nat
  BY FieldTypes DEF Parsing, Framed
<1>2. g = [h EXCEPT !.timer = t, !.at = h.got, !.base = h.got, !.payload = p]
  BY DEF Taken
<1> HIDE DEF g
<1>3. g \in HandlerStates
  BY <1>1, <1>2 DEF HandlerStates
<1>4. /\ g.open = h.open /\ g.reading = h.reading /\ g.posted = h.posted
      /\ g.timer = t /\ g.base = h.got /\ g.at = h.got /\ g.got = h.got
      /\ g.checks = h.checks /\ g.stream = h.stream /\ g.delivered = h.delivered
      /\ g.reports = h.reports /\ g.handshake_complete = h.handshake_complete
      /\ g.msg = h.msg /\ g.message_size = h.message_size /\ g.payload = p
  BY <1>1, <1>2 DEF HandlerStates
<1>5. Parsing(g)
  BY <1>1, <1>3, <1>4 DEF Parsing, Framed, Greeted
<1>6. Unread(g) = 0
  BY <1>1, <1>4 DEF Unread
<1>7. QED
  BY <1>4, <1>5, <1>6 DEF g

\* A delivered message is followed by the search for the next.
LEMMA DeliverLemma ==
    ASSUME NEW h, Parsing(h), ~ h.timer, InMessage(h), Unread(h) < SizeMax,
           NEW bytes \in Nat, bytes = 0 <=> Message(h).size = 0,
           NoSmallBodies => bytes = Message(h).size
    PROVE  Done(h, DeliverMessage(h, bytes))
<1> DEFINE m == [Message(h) EXCEPT !.size = bytes]
           d == Append(h.delivered, m)
           c == h.handshake_complete \/ (bytes > 0 /\ Message(h).tag = "login")
           g == DeliverMessage(h, bytes)
<1>1. h \in HandlerStates /\ h.checks /\ h.open /\ h.reading = "none" /\ h.posted = 0
  BY DEF Parsing, Framed
<1>2. /\ Message(h) \in Messages
      /\ Message(h) = h.stream.msgs[Len(h.delivered) + 1]
      /\ Message(h).size \in Nat
  BY <1>1, MessageType
<1>3. /\ h.delivered \in Seq(Messages) /\ h.stream.msgs \in Seq(Messages)
      /\ h.stream \in Streams
  BY <1>1, FieldTypes
<1>4. m \in Messages /\ (bytes = Message(h).size => m = Message(h))
  BY <1>2 DEF Messages
<1>5. g = [h EXCEPT !.posted = 1, !.delivered = d, !.handshake_complete = c]
  BY <1>1 DEF DeliverMessage
<1>6. c \in BOOLEAN
  BY <1>1 DEF HandlerStates
<1>7. d \in Seq(Messages) /\ d # << >>
  BY <1>3, <1>4
<1>8. Len(h.delivered) < Len(h.stream.msgs)
  BY <1>3 DEF InMessage
<1>9. LoginFirst => c
  <2>1. SUFFICES ASSUME LoginFirst PROVE c
    OBVIOUS
  <2>2. CASE h.delivered = << >>
    <3>1. Len(h.delivered) + 1 = 1 /\ Len(h.stream.msgs) > 0
      BY <1>3, <1>8, <2>2
    <3>2. h.stream.msgs[1].tag = "login" /\ h.stream.msgs[1].size > 0
      BY <1>3, <2>1, <3>1 DEF LoginFirst
    <3>3. Message(h).tag = "login" /\ Message(h).size > 0
      BY <1>2, <3>1, <3>2
    <3>4. bytes > 0
      BY <1>2, <3>3
    <3>5. QED
      BY <3>3, <3>4
  <2>3. CASE h.delivered # << >>
    BY <2>1, <2>3 DEF Parsing, Greeted
  <2>4. QED
    BY <2>2, <2>3
<1>10. NoSmallBodies => d = Append(h.delivered, h.stream.msgs[Len(h.delivered) + 1])
  BY <1>2, <1>4
<1> HIDE DEF m, d, c, g
<1>11. g \in HandlerStates
  BY <1>1, <1>5, <1>6, <1>7 DEF HandlerStates
<1>12. /\ g.open = h.open /\ g.reading = h.reading /\ g.posted = 1
       /\ g.timer = h.timer /\ g.base = h.base /\ g.at = h.at /\ g.got = h.got
       /\ g.checks = h.checks /\ g.stream = h.stream /\ g.delivered = d
       /\ g.reports = h.reports /\ g.handshake_complete = c
  BY <1>1, <1>5 DEF HandlerStates
<1>13. Framed(g) /\ Greeted(g) /\ ExactlyOne(g)
  BY <1>1, <1>7, <1>9, <1>11, <1>12 DEF Parsing, Framed, Greeted, ExactlyOne
<1>14. Between(g)
  BY <1>7, <1>12 DEF Between, Unread
<1>15. Settled(g)
  BY <1>1, <1>12, <1>13, <1>14 DEF Settled
<1>16. QED
  BY <1>1, <1>7, <1>8, <1>10, <1>12, <1>15 DEF Done, Progress, g

\* OnGotMessageBytes, given as many bytes as it waited for.
LEMMA BytesLemma ==
    ASSUME NEW h, Parsing(h), InMessage(h), h.message_size = Message(h).size,
           h.message_size = 0 => Unread(h) < SizeMax,
           h.message_size > 0 /\ h.message_size < PacketLimit =>
               /\ Unread(h) >= h.message_size
               /\ NoSmallBodies => Unread(h) = h.message_size,
           h.message_size >= PacketLimit => h.payload + Unread(h) <= h.message_size
    PROVE  Done(h, OnGotMessageBytes(h))
<1> DEFINE g == [h EXCEPT !.timer = FALSE]
           copied == [TakeUnread(g) EXCEPT !.payload = @ + Unread(g),
                                           !.checks = @ /\ g.payload + Unread(g) <= g.message_size]
           more == [RebuildBuffer(copied) EXCEPT !.timer = TRUE]
           p == h.payload + Unread(h)
<1>1. h \in HandlerStates /\ h.checks
  BY DEF Parsing, Framed
<1>2. /\ h.at \in Nat /\ h.got \in Nat /\ h.base \in Nat /\ h.payload \in Nat
      /\ h.message_size \in Nat /\ h.at <= h.got
  BY <1>1, FieldTypes DEF Parsing, Framed
<1>3. Unread(h) \in Nat /\ p \in Nat
  BY <1>2 DEF Unread
<1>4. /\ g \in HandlerStates /\ ~ g.timer /\ g.checks /\ g.open = h.open
      /\ g.reading = h.reading /\ g.posted = h.posted /\ g.base = h.base
      /\ g.at = h.at /\ g.got = h.got /\ g.stream = h.stream
      /\ g.delivered = h.delivered /\ g.reports = h.reports /\ g.msg = h.msg
      /\ g.handshake_complete = h.handshake_complete
      /\ g.message_size = h.message_size /\ g.payload = h.payload
  BY <1>1 DEF HandlerStates
<1> HIDE DEF g
<1>5. Parsing(g) /\ InMessage(g) /\ Message(g) = Message(h) /\ Unread(g) = Unread(h)
  BY <1>4 DEF Parsing, Framed, Greeted, InMessage, Message, Unread
<1>6. Done(h, Fail(g))
  BY <1>4, FailLemma, DoneCarries
<1>7. Message(h).size \in Nat
  BY <1>1, MessageType
<1>8. ASSUME NEW n \in Nat, NEW t \in BOOLEAN
      PROVE  LET r == Taken(g, n, t)
             IN  /\ Parsing(r) /\ InMessage(r) /\ Message(r) = Message(h)
                 /\ r.timer = t /\ Unread(r) = 0 /\ r.payload = n
                 /\ r.stream = h.stream /\ r.delivered = h.delivered
                 /\ r.reports = h.reports /\ r.message_size = h.message_size
  <2> DEFINE r == Taken(g, n, t)
  <2>1. /\ Parsing(r) /\ r.timer = t /\ Unread(r) = 0 /\ r.payload = n
        /\ r.stream = g.stream /\ r.delivered = g.delivered
        /\ r.reports = g.reports /\ r.msg = g.msg /\ r.message_size = g.message_size
    BY <1>5, <1>8, TakenLemma
  <2> HIDE DEF r
  <2>2. InMessage(r) /\ Message(r) = Message(h)
    BY <1>4, <1>5, <2>1 DEF InMessage, Message
  <2>3. QED
    BY <1>4, <2>1, <2>2 DEF r
<1>9. ASSUME NEW n \in Nat, NEW bytes \in Nat, bytes = 0 <=> Message(h).size = 0,
             NoSmallBodies => bytes = Message(h).size
      PROVE  Done(h, DeliverMessage(Taken(g, n, FALSE), bytes))
  <2> DEFINE r == Taken(g, n, FALSE)
  <2>1. /\ Parsing(r) /\ InMessage(r) /\ Message(r) = Message(h)
        /\ ~ r.timer /\ Unread(r) = 0
        /\ r.stream = h.stream /\ r.delivered = h.delivered /\ r.reports = h.reports
    BY <1>8, <1>9
  <2> HIDE DEF r
  <2>2. Unread(r) < SizeMax
    BY <2>1, Sizes
  <2>3. Done(r, DeliverMessage(r, bytes))
    BY <1>9, <2>1, <2>2, DeliverLemma
  <2>4. Done(h, DeliverMessage(r, bytes))
    BY <2>1, <2>3, DoneCarries
  <2>5. QED
    BY <2>4 DEF r
<1>10. CASE Message(g).tag = "invalid"
  BY <1>6, <1>10 DEF OnGotMessageBytes, g
<1>11. CASE Message(g).tag # "invalid" /\ h.message_size = 0
  <2>1. Done(g, DeliverMessage(g, 0))
    <3>1. Message(g).size = 0 /\ Unread(g) < SizeMax
      BY <1>5, <1>11
    <3>2. QED
      BY <1>4, <1>5, <3>1, DeliverLemma
  <2>2. OnGotMessageBytes(h) = DeliverMessage(g, 0)
    BY <1>4, <1>11 DEF OnGotMessageBytes, g
  <2>3. QED
    BY <1>4, <2>1, <2>2, DoneCarries
<1>12. CASE Message(g).tag # "invalid" /\ h.message_size > 0 /\ h.message_size < PacketLimit
  <2>1. RebuildBuffer(TakeUnread(g)) = Taken(g, h.payload, FALSE)
    BY <1>1, <1>4 DEF RebuildBuffer, TakeUnread, Taken, HandlerStates
  <2>2. Done(h, DeliverMessage(Taken(g, h.payload, FALSE), Unread(h)))
    <3>1. Unread(h) # 0 /\ Message(h).size # 0
      BY <1>2, <1>3, <1>12
    <3>2. NoSmallBodies => Unread(h) = Message(h).size
      BY <1>12
    <3>3. QED
      BY <1>2, <1>3, <1>9, <3>1, <3>2
  <2>3. h.message_size # 0
    BY <1>2, <1>12
  <2>4. QED
    BY <1>4, <1>5, <1>6, <1>12, <2>1, <2>2, <2>3 DEF OnGotMessageBytes, g
<1>13. CASE Message(g).tag # "invalid" /\ h.message_size >= PacketLimit
  <2>1. h.message_size # 0 /\ ~ (h.message_size < PacketLimit) /\ p <= h.message_size
    BY <1>2, <1>13, Sizes
  <2>2. copied = [g EXCEPT !.at = h.got, !.payload = p, !.checks = TRUE]
    BY <1>1, <1>4, <1>5, <2>1 DEF TakeUnread, HandlerStates
  <2> HIDE DEF p, copied
  <2>3. copied.payload = p
    BY <1>4, <2>2 DEF HandlerStates
  <2>4. RebuildBuffer(copied) = Taken(g, p, FALSE)
    BY <1>1, <1>4, <2>2, ZenonT(30) DEF RebuildBuffer, Taken, HandlerStates
  <2>5. more = Taken(g, p, TRUE)
    BY <1>1, <1>4, <2>2 DEF RebuildBuffer, Taken, HandlerStates
  <2>6. CASE p < h.message_size
    <3> DEFINE r == Taken(g, p, TRUE)
    <3>1. /\ Parsing(r) /\ InMessage(r) /\ Message(r) = Message(h)
          /\ r.timer /\ Unread(r) = 0 /\ r.payload = p
          /\ r.stream = h.stream /\ r.delivered = h.delivered
          /\ r.reports = h.reports /\ r.message_size = h.message_size
      BY <1>3, <1>8
    <3>2. OnGotMessageBytes(h) = Refresh(r, "PROTO_BYTES", BytesNeeded(r))
      BY <1>4, <1>13, <2>1, <2>3, <2>5, <2>6 DEF OnGotMessageBytes, g, copied
    <3> HIDE DEF r
    <3>3. r \in HandlerStates
      BY <3>1 DEF Parsing, Framed
    <3>4. r.message_size > 0 /\ r.payload < r.message_size
      BY <1>2, <2>1, <2>6, <3>1
    <3>5. BytesNeeded(r) \in Nat /\ BytesNeeded(r) > 0
      BY <3>3, <3>4, BytesNeededLemma
    <3>6. Expecting(r, "PROTO_BYTES")
      BY <3>1, <3>4 DEF Expecting, InBody
    <3>7. Unread(r) + BytesNeeded(r) = MaxBytesNeeded(r, "PROTO_BYTES")
      BY <3>1, <3>5 DEF MaxBytesNeeded
    <3>8. Done(r, Refresh(r, "PROTO_BYTES", BytesNeeded(r)))
      BY <3>1, <3>5, <3>6, <3>7, RefreshLemma DEF ProcessingStates
    <3>9. QED
      BY <3>1, <3>2, <3>8, DoneCarries
  <2>7. CASE ~ (p < h.message_size)
    <3>1. p = h.message_size
      BY <1>2, <1>3, <2>1, <2>7
    <3>2. Done(h, DeliverMessage(Taken(g, p, FALSE), p))
      BY <1>3, <1>9, <3>1
    <3>3. QED
      BY <1>4, <1>6, <1>13, <2>1, <2>3, <2>4, <2>7, <3>2 DEF OnGotMessageBytes, g, copied
  <2>8. QED
    BY <2>6, <2>7
<1>14. QED
  BY <1>2, <1>10, <1>11, <1>12, <1>13, Sizes

\* WaitForData(MCS_PROTO_BYTES) once the size is known: the bytes at hand are
\* what the read for the header brought beyond it.
LEMMA WaitForBytesLemma ==
    ASSUME NEW h, Parsing(h), InMessage(h), h.message_size = Message(h).size,
           h.message_size > 0, h.payload = 0, Unread(h) + Message(h).varint <= SizeMax
    PROVE  Done(h, WaitForBytes(h))
<1> DEFINE g == [h EXCEPT !.timer = TRUE]
<1>1. h \in HandlerStates /\ h.checks
  BY DEF Parsing, Framed
<1>2. /\ h.at \in Nat /\ h.got \in Nat /\ h.payload \in Nat
      /\ h.message_size \in Nat /\ h.at <= h.got
  BY <1>1, FieldTypes DEF Parsing, Framed
<1>3. Unread(h) \in Nat
  BY <1>2 DEF Unread
<1>4. /\ g \in HandlerStates /\ g.timer /\ g.checks /\ g.open = h.open
      /\ g.reading = h.reading /\ g.posted = h.posted /\ g.base = h.base
      /\ g.at = h.at /\ g.got = h.got /\ g.stream = h.stream
      /\ g.delivered = h.delivered /\ g.reports = h.reports /\ g.msg = h.msg
      /\ g.handshake_complete = h.handshake_complete
      /\ g.message_size = h.message_size /\ g.payload = h.payload
  BY <1>1 DEF HandlerStates
<1>5. WaitForBytes(h) = IF BytesNeeded(g) > Unread(g)
                        THEN Refresh(g, "PROTO_BYTES", BytesNeeded(g) - Unread(g))
                        ELSE OnGotMessageBytes(g)
  BY DEF WaitForBytes
<1> HIDE DEF g
<1>6. Parsing(g) /\ InMessage(g) /\ Message(g) = Message(h) /\ Unread(g) = Unread(h)
  BY <1>4 DEF Parsing, Framed, Greeted, InMessage, Message, Unread
<1>7. /\ Message(h).varint \in Nat /\ Message(h).varint > 0
      /\ NoSmallBodies => \/ Message(h).size = 0
                          \/ Message(h).varint + Message(h).size >= SizeMax
  BY <1>1, MessageType
<1>8. g.message_size \in Nat /\ g.message_size > 0 /\ g.payload = 0
  BY <1>2, <1>4
<1>9. /\ BytesNeeded(g) \in Nat /\ BytesNeeded(g) > 0
      /\ g.message_size < PacketLimit => BytesNeeded(g) = g.message_size
      /\ g.message_size >= PacketLimit => BytesNeeded(g) = PacketLimit
  BY <1>4, <1>8, BytesNeededLemma
<1>10. CASE BytesNeeded(g) > Unread(g)
  <2> DEFINE limit == BytesNeeded(g) - Unread(g)
  <2>1. limit \in Nat /\ limit > 0 /\ Unread(g) + limit = BytesNeeded(g)
    BY <1>3, <1>6, <1>9, <1>10
  <2> HIDE DEF limit
  <2>2. Expecting(g, "PROTO_BYTES")
    BY <1>4, <1>6, <1>8 DEF Expecting, InBody
  <2>3. Unread(g) + limit = MaxBytesNeeded(g, "PROTO_BYTES")
    BY <2>1 DEF MaxBytesNeeded
  <2>4. Done(g, Refresh(g, "PROTO_BYTES", limit))
    BY <1>6, <2>1, <2>2, <2>3, RefreshLemma DEF ProcessingStates
  <2>5. QED
    BY <1>4, <1>5, <1>10, <2>4, DoneCarries DEF limit
<1>11. CASE ~ (BytesNeeded(g) > Unread(g))
  <2>1. g.message_size < PacketLimit /\ Unread(g) >= g.message_size
    BY <1>3, <1>6, <1>7, <1>8, <1>9, <1>11, Sizes
  <2>2. NoSmallBodies => Unread(g) = g.message_size
    BY <1>3, <1>4, <1>6, <1>7, <1>8, <2>1, Sizes
  <2>3. g.message_size # 0 /\ ~ (g.message_size >= PacketLimit)
    BY <1>8, <2>1, Sizes
  <2>4. g.message_size = Message(g).size
    BY <1>4, <1>6
  <2>5. Done(g, OnGotMessageBytes(g))
    BY <1>6, <2>1, <2>2, <2>3, <2>4, BytesLemma
  <2>6. QED
    BY <1>4, <1>5, <1>11, <2>5, DoneCarries
<1>12. QED
  BY <1>10, <1>11

\* OnGotMessageSize, with a part of the size packet at least.
LEMMA SizeLemma ==
    ASSUME NEW h, Parsing(h), InMessage(h), Unread(h) > 0, Unread(h) <= SizeMax,
           LoginFirst => h.timer
    PROVE  Done(h, OnGotMessageSize(h))
<1> DEFINE v == Message(h).varint
           size == Message(h).size
<1>1. h \in HandlerStates /\ h.checks
  BY DEF Parsing, Framed
<1>2. h.at \in Nat /\ h.got \in Nat /\ h.base \in Nat /\ h.at <= h.got /\ h.base <= h.at
  BY <1>1, FieldTypes DEF Parsing, Framed
<1>3. Unread(h) \in Nat
  BY <1>2 DEF Unread
<1>4. v \in Nat /\ v > 0 /\ size \in Nat
  BY <1>1, MessageType
<1>5. CASE Unread(h) >= v /\ v <= SizeMax
  <2> DEFINE at == h.at + v
             g == [h EXCEPT !.at = at, !.message_size = size,
                            !.size_packet_so_far = 0, !.payload = 0]
  <2>1. /\ at \in Nat /\ at <= h.got /\ h.base <= at
        /\ h.got - at = Unread(h) - v /\ 0 \in 0..(SizeMax - 1)
    BY <1>2, <1>4, <1>5, Sizes DEF Unread
  <2>2. OnGotMessageSize(h) = IF g.message_size > 0 THEN WaitForBytes(g)
                              ELSE OnGotMessageBytes(g)
    BY <1>5 DEF OnGotMessageSize
  <2>3. g = [h EXCEPT !.at = at, !.message_size = size,
                      !.size_packet_so_far = 0, !.payload = 0]
    OBVIOUS
  <2> HIDE DEF at, g, size
  <2>4. g \in HandlerStates
    BY <1>1, <1>4, <2>1, <2>3 DEF HandlerStates
  <2>5. /\ g.checks /\ g.open = h.open /\ g.reading = h.reading
        /\ g.posted = h.posted /\ g.base = h.base /\ g.at = at /\ g.got = h.got
        /\ g.stream = h.stream /\ g.delivered = h.delivered
        /\ g.reports = h.reports /\ g.msg = h.msg
        /\ g.handshake_complete = h.handshake_complete
        /\ g.message_size = size /\ g.payload = 0
    BY <1>1, <2>3 DEF HandlerStates
  <2>6. /\ Parsing(g) /\ InMessage(g) /\ Message(g) = Message(h)
    BY <2>1, <2>4, <2>5 DEF Parsing, Framed, Greeted, InMessage, Message
  <2>7. Unread(g) = Unread(h) - v
    BY <2>1, <2>5 DEF Unread
  <2>8. g.message_size = Message(g).size
    BY <2>5, <2>6 DEF size
  <2>9. Unread(g) + Message(g).varint <= SizeMax /\ Unread(g) < SizeMax
    BY <1>3, <1>4, <2>6, <2>7, Sizes
  <2>10. CASE g.message_size > 0
    BY <2>2, <2>5, <2>6, <2>8, <2>9, <2>10, WaitForBytesLemma, DoneCarries
  <2>11. CASE ~ (g.message_size > 0)
    <3>1. g.message_size = 0 /\ ~ (g.message_size >= PacketLimit) /\ ~ (g.message_size > 0)
      BY <1>4, <2>5, <2>11, Sizes
    <3>2. Done(g, OnGotMessageBytes(g))
      BY <2>6, <2>8, <2>9, <3>1, BytesLemma
    <3>3. QED
      BY <2>2, <2>5, <2>11, <3>2, DoneCarries
  <2>12. QED
    BY <2>10, <2>11
<1>6. CASE ~ (Unread(h) >= v /\ v <= SizeMax) /\ Unread(h) >= SizeMax
  <2>1. OnGotMessageSize(h) = Fail(h)
    BY <1>6 DEF OnGotMessageSize
  <2>2. QED
    BY <1>1, <2>1, FailLemma
<1>7. CASE ~ (Unread(h) >= v /\ v <= SizeMax) /\ ~ (Unread(h) >= SizeMax)
  <2> DEFINE u == Unread(h)
             g == [h EXCEPT !.size_packet_so_far = u, !.checks = h.checks /\ Unread(h) > 0]
             limit == SizeMax - u
  <2>1. OnGotMessageSize(h) = Refresh(g, "SIZE", limit)
    BY <1>7 DEF OnGotMessageSize, SizePacketSoFar
  <2>2. g = [h EXCEPT !.size_packet_so_far = u, !.checks = TRUE]
    <3>1. (h.checks /\ Unread(h) > 0) = TRUE
      BY <1>1
    <3>2. QED
      BY <3>1
  <2>3. u \in 0..(SizeMax - 1) /\ limit \in Nat /\ limit > 0 /\ u + limit = SizeMax
    BY <1>3, <1>7, Sizes
  <2> HIDE DEF u, g, limit
  <2>4. g \in HandlerStates
    BY <1>1, <2>2, <2>3 DEF HandlerStates
  <2>5. /\ g.checks /\ g.open = h.open /\ g.reading = h.reading
        /\ g.posted = h.posted /\ g.base = h.base /\ g.at = h.at /\ g.got = h.got
        /\ g.stream = h.stream /\ g.delivered = h.delivered /\ g.timer = h.timer
        /\ g.reports = h.reports /\ g.msg = h.msg
        /\ g.handshake_complete = h.handshake_complete
    BY <1>1, <2>2 DEF HandlerStates
  <2>6. Parsing(g) /\ Expecting(g, "SIZE")
    BY <2>4, <2>5 DEF Parsing, Framed, Greeted, Expecting, InMessage
  <2>7. Unread(g) + limit = MaxBytesNeeded(g, "SIZE")
    BY <2>3, <2>5 DEF MaxBytesNeeded, Unread, u
  <2>8. Done(g, Refresh(g, "SIZE", limit))
    BY <2>3, <2>6, <2>7, RefreshLemma DEF ProcessingStates
  <2>9. QED
    BY <2>1, <2>5, <2>8, DoneCarries
<1>8. QED
  BY <1>5, <1>6, <1>7

\* OnGotMessageTag, with the first byte of the size packet at least.
LEMMA TagLemma ==
    ASSUME NEW h, Parsing(h), Unread(h) >= 2, Unread(h) <= 1 + SizeMax
    PROVE  Done(h, OnGotMessageTag(h))
<1> DEFINE next == Len(h.delivered) + 1
           at == h.at + 1
           g == [h EXCEPT !.at = at, !.msg = next, !.timer = TRUE]
<1>1. h \in HandlerStates /\ h.checks
  BY DEF Parsing, Framed
<1>2. /\ h.at \in Nat /\ h.got \in Nat /\ h.base \in Nat /\ h.at <= h.got /\ h.base <= h.at
      /\ h.delivered \in Seq(Messages)
  BY <1>1, FieldTypes DEF Parsing, Framed
<1>3. CASE ~ (next <= Len(h.stream.msgs) /\ h.at = StartOf(h.stream, next))
  <2>1. OnGotMessageTag(h) = Fail(h)
    BY <1>3 DEF OnGotMessageTag
  <2>2. QED
    BY <1>1, <2>1, FailLemma
<1>4. CASE next <= Len(h.stream.msgs) /\ h.at = StartOf(h.stream, next)
  <2>1. OnGotMessageTag(h) = OnGotMessageSize(g)
    BY <1>4 DEF OnGotMessageTag
  <2>2. /\ at \in Nat /\ next \in Nat /\ h.base <= at /\ at <= h.got
        /\ h.got - at > 0 /\ h.got - at <= SizeMax
    BY <1>2, Sizes, SMTT(30) DEF Unread
  <2>3. g = [h EXCEPT !.at = at, !.msg = next, !.timer = TRUE]
    OBVIOUS
  <2> HIDE DEF at, g
  <2>4. g \in HandlerStates
    <3> HIDE DEF next
    <3>1. QED
      BY <1>1, <2>2, <2>3 DEF HandlerStates
  <2>5. /\ g.checks /\ g.open = h.open /\ g.reading = h.reading
        /\ g.posted = h.posted /\ g.base = h.base /\ g.at = at /\ g.got = h.got
        /\ g.stream = h.stream /\ g.delivered = h.delivered /\ g.timer
        /\ g.reports = h.reports /\ g.msg = next
        /\ g.handshake_complete = h.handshake_complete
    BY <1>1, <2>3 DEF HandlerStates
  <2>6. Parsing(g) /\ InMessage(g) /\ Unread(g) > 0 /\ Unread(g) <= SizeMax
    BY <1>4, <2>2, <2>4, <2>5 DEF Parsing, Framed, Greeted, InMessage, Unread
  <2>7. Done(g, OnGotMessageSize(g))
    BY <2>5, <2>6, SizeLemma
  <2>8. QED
    BY <2>1, <2>5, <2>7, DoneCarries
<1>5. QED
  BY <1>3, <1>4

\* OnGotVersion, with the tag and the first byte of the size packet at least.
LEMMA VersionLemma ==
    ASSUME NEW h, Parsing(h), Unread(h) >= 3, Unread(h) <= 2 + SizeMax
    PROVE  Done(h, OnGotVersion(h))
<1> DEFINE at == h.at + 1
           g == RebuildBuffer([h EXCEPT !.at = at])
<1>1. h \in HandlerStates /\ h.checks
  BY DEF Parsing, Framed
<1>2. h.at \in Nat /\ h.got \in Nat
  BY <1>1, FieldTypes
<1>3. at \in Nat /\ at <= h.got /\ h.got - at >= 2 /\ h.got - at <= 1 + SizeMax
  BY <1>2, Sizes DEF Unread
<1>4. OnGotVersion(h) = IF h.stream.version THEN OnGotMessageTag(g) ELSE Fail(h)
  BY DEF OnGotVersion
<1> HIDE DEF at
<1>5. g = [h EXCEPT !.at = at, !.base = at]
  BY <1>1 DEF RebuildBuffer, HandlerStates
<1> HIDE DEF g
<1>6. g \in HandlerStates
  BY <1>1, <1>3, <1>5 DEF HandlerStates
<1>7. /\ g.checks /\ g.open = h.open /\ g.reading = h.reading
      /\ g.posted = h.posted /\ g.base = at /\ g.at = at /\ g.got = h.got
      /\ g.stream = h.stream /\ g.delivered = h.delivered
      /\ g.reports = h.reports /\ g.handshake_complete = h.handshake_complete
  BY <1>1, <1>5 DEF HandlerStates
<1>8. Parsing(g) /\ Unread(g) >= 2 /\ Unread(g) <= 1 + SizeMax
  BY <1>3, <1>6, <1>7 DEF Parsing, Framed, Greeted, Unread
<1>9. Done(h, OnGotMessageTag(g))
  BY <1>7, <1>8, TagLemma, DoneCarries
<1>10. QED
  BY <1>1, <1>4, <1>9, FailLemma

\* WaitForData: it reads more, or hands what it has to the method of the state.
LEMMA WaitForDataLemma ==
    ASSUME NEW h, Parsing(h), NEW state \in ProcessingStates, Expecting(h, state),
           Unread(h) <= MaxBytesNeeded(h, state)
    PROVE  Done(h, WaitForData(h, state))
<1> DEFINE min == MinBytesNeeded(h, state)
           max == MaxBytesNeeded(h, state)
<1>1. h \in HandlerStates /\ h.checks
  BY DEF Parsing, Framed
<1>2. h.at \in Nat /\ h.got \in Nat /\ h.at <= h.got
  BY <1>1, FieldTypes DEF Parsing, Framed
<1>3. Unread(h) \in Nat
  BY <1>2 DEF Unread
<1>4. \/ state = "VERSION_TAG_AND_SIZE" /\ min = 3 /\ max = 2 + SizeMax
      \/ state = "TAG_AND_SIZE" /\ min = 2 /\ max = 1 + SizeMax
      \/ state = "SIZE" /\ min = h.size_packet_so_far + 1 /\ max = SizeMax
      \/ state = "PROTO_BYTES" /\ min = BytesNeeded(h) /\ max = BytesNeeded(h)
  BY DEF ProcessingStates, MinBytesNeeded, MaxBytesNeeded
<1>5. state = "PROTO_BYTES" =>
          /\ BytesNeeded(h) \in Nat /\ BytesNeeded(h) > 0
          /\ h.message_size < PacketLimit => BytesNeeded(h) = h.message_size
          /\ h.message_size >= PacketLimit => h.payload + BytesNeeded(h) <= h.message_size
  BY <1>1, BytesNeededLemma DEF Expecting, InBody
<1>6. min \in Nat /\ max \in Nat /\ min > 0 /\ min <= max
  <2>1. h.size_packet_so_far \in Nat /\ h.size_packet_so_far < SizeMax
    BY <1>1, FieldTypes
  <2> HIDE DEF min, max
  <2>2. QED
    BY <1>4, <1>5, <2>1, Sizes
<1>7. CASE min > Unread(h)
  <2> DEFINE g == IF state = "PROTO_BYTES" THEN [h EXCEPT !.timer = TRUE] ELSE h
             limit == max - Unread(h)
  <2>1. WaitForData(h, state) = Refresh(g, state, limit)
    BY <1>7 DEF WaitForData
  <2>2. limit \in Nat /\ limit > 0 /\ Unread(h) + limit = max
    <3> HIDE DEF min, max
    <3>1. QED
      BY <1>3, <1>6, <1>7
  <2>3. /\ g \in HandlerStates /\ g.checks /\ g.open = h.open
        /\ g.reading = h.reading /\ g.posted = h.posted /\ g.base = h.base
        /\ g.at = h.at /\ g.got = h.got /\ g.stream = h.stream
        /\ g.delivered = h.delivered /\ g.reports = h.reports /\ g.msg = h.msg
        /\ g.handshake_complete = h.handshake_complete
        /\ g.message_size = h.message_size /\ g.payload = h.payload
        /\ state = "PROTO_BYTES" => g.timer
        /\ state # "PROTO_BYTES" => g.timer = h.timer
    BY <1>1 DEF HandlerStates
  <2> HIDE DEF g, limit
  <2>4. Parsing(g) /\ Unread(g) = Unread(h)
    BY <2>3 DEF Parsing, Framed, Greeted, Unread
  <2>5. Expecting(g, state)
    BY <2>3 DEF Expecting, InMessage, InBody, Message
  <2>6. MaxBytesNeeded(g, state) = max
    BY <2>3 DEF MaxBytesNeeded, BytesNeeded
  <2>7. Done(g, Refresh(g, state, limit))
    BY <2>2, <2>4, <2>5, <2>6, RefreshLemma
  <2>8. QED
    BY <2>1, <2>3, <2>7, DoneCarries
<1>8. CASE ~ (min > Unread(h))
  <2>1. Unread(h) >= min /\ Unread(h) <= max
    BY <1>3, <1>6, <1>8
  <2>2. CASE state = "VERSION_TAG_AND_SIZE"
    <3>1. WaitForData(h, state) = OnGotVersion(h)
      BY <1>8, <2>2 DEF WaitForData
    <3>2. Unread(h) >= 3 /\ Unread(h) <= 2 + SizeMax
      BY <1>4, <2>1, <2>2
    <3>3. QED
      BY <3>1, <3>2, VersionLemma
  <2>3. CASE state = "TAG_AND_SIZE"
    <3>1. WaitForData(h, state) = OnGotMessageTag(h)
      BY <1>8, <2>3 DEF WaitForData
    <3>2. Unread(h) >= 2 /\ Unread(h) <= 1 + SizeMax
      BY <1>4, <2>1, <2>3
    <3>3. QED
      BY <3>1, <3>2, TagLemma
  <2>4. CASE state = "SIZE"
    <3>1. WaitForData(h, state) = OnGotMessageSize(h)
      BY <1>8, <2>4 DEF WaitForData
    <3>2. Unread(h) > 0 /\ Unread(h) <= SizeMax
      <4> HIDE DEF min, max
      <4>1. QED
        BY <1>3, <1>4, <1>6, <2>1, <2>4
    <3>3. InMessage(h) /\ (LoginFirst => h.timer)
      BY <2>4 DEF Expecting
    <3>4. QED
      BY <3>1, <3>2, <3>3, SizeLemma
  <2>5. CASE state = "PROTO_BYTES"
    <3>1. WaitForData(h, state) = OnGotMessageBytes(h)
      BY <1>8, <2>5 DEF WaitForData
    <3>2. Unread(h) = BytesNeeded(h)
      <4> HIDE DEF min, max
      <4>1. QED
        BY <1>3, <1>4, <1>5, <2>1, <2>5
    <3>3. InMessage(h) /\ h.message_size = Message(h).size /\ h.message_size > 0
      BY <2>5 DEF Expecting, InBody
    <3>4. h.message_size \in Nat /\ h.payload \in Nat
      BY <1>1, FieldTypes
    <3>5. /\ h.message_size # 0
          /\ h.message_size < PacketLimit => Unread(h) = h.message_size
          /\ h.message_size < PacketLimit => Unread(h) >= h.message_size
          /\ h.message_size >= PacketLimit => h.payload + Unread(h) <= h.message_size
      BY <1>5, <2>5, <3>2, <3>3, <3>4
    <3>6. QED
      BY <3>1, <3>3, <3>5, BytesLemma
  <2>6. QED
    BY <2>2, <2>3, <2>4, <2>5 DEF ProcessingStates
<1>9. QED
  BY <1>7, <1>8

-----------------------------------------------------------------------------

\* What every state of the handler satisfies.
HandlerIInv == Settled(handler) /\ connections \in 0..MaxConnections

\* Before the first connection.
LEMMA InitSettled ==
    ASSUME HandlerInit
    PROVE  HandlerIInv
<1>1. PICK s \in Streams :
           handler = [open |-> FALSE, handshake_complete |-> FALSE, timer |-> FALSE,
                      reading |-> "none", limit |-> 0, posted |-> 0,
                      msg |-> 0, message_size |-> 0, size_packet_so_far |-> 0,
                      payload |-> 0, base |-> 0, at |-> 0, got |-> 0,
                      output |-> "none", stream |-> s, delivered |-> << >>,
                      reports |-> 0, checks |-> TRUE]
  BY DEF HandlerInit
<1>2. 0 \in 0..(SizeMax - 1) /\ << >> \in Seq(Messages)
  BY Sizes
<1>3. handler \in HandlerStates
  BY <1>1, <1>2 DEF HandlerStates
<1>4. Settled(handler)
  BY <1>1, <1>3 DEF Settled, Framed, ExactlyOne
<1>5. connections \in 0..MaxConnections
  BY HandlerAssumption DEF HandlerInit
<1>6. QED
  BY <1>4, <1>5 DEF HandlerIInv

\* Init and the Login it calls: the version is waited for, in an empty buffer.
LEMMA ConnectedLemma ==
    ASSUME NEW h, Settled(h), ~ h.open, NEW s \in Streams
    PROVE  LET g == Connected(h, s)
           IN  /\ Settled(g) /\ g.open /\ g.stream = s
               /\ g.delivered = << >> /\ g.reports = 0
<1> DEFINE c == [h EXCEPT !.open = TRUE, !.output = "FLUSHING", !.timer = TRUE,
                          !.handshake_complete = FALSE, !.msg = 0, !.message_size = 0,
                          !.posted = 0, !.stream = s, !.delivered = << >>, !.reports = 0]
           g == Refresh(c, "VERSION_TAG_AND_SIZE", 2 + SizeMax)
<1>1. h \in HandlerStates /\ h.checks
  BY DEF Settled, Framed
<1>2. /\ h.base \in Nat /\ h.at \in Nat /\ h.got = 0 /\ h.base <= h.at /\ h.at <= h.got
      /\ h.posted \in Nat
  BY <1>1, FieldTypes DEF Settled, Framed
<1>3. h.base = 0 /\ h.at = 0 /\ h.reading = "none"
  BY <1>2 DEF Settled, ExactlyOne
<1>4. c \in HandlerStates
  <2>1. << >> \in Seq(Messages)
    OBVIOUS
  <2>2. QED
    BY <1>1, <2>1 DEF HandlerStates
<1>5. /\ c.open /\ c.timer /\ ~ c.handshake_complete /\ c.posted = 0
      /\ c.reading = "none" /\ c.base = 0 /\ c.at = 0 /\ c.got = 0 /\ c.checks
      /\ c.stream = s /\ c.delivered = << >> /\ c.reports = 0
  BY <1>1, <1>2, <1>3 DEF HandlerStates
<1>6. Connected(h, s) = WaitForData(c, "VERSION_TAG_AND_SIZE")
  BY DEF Connected
<1> HIDE DEF c
<1>7. Parsing(c) /\ Expecting(c, "VERSION_TAG_AND_SIZE") /\ Unread(c) = 0
  BY <1>4, <1>5 DEF Parsing, Framed, Greeted, Expecting, Unread
<1>8. /\ MinBytesNeeded(c, "VERSION_TAG_AND_SIZE") = 3
      /\ MaxBytesNeeded(c, "VERSION_TAG_AND_SIZE") = 2 + SizeMax
  BY DEF MinBytesNeeded, MaxBytesNeeded
<1>9. 2 + SizeMax \in Nat /\ 2 + SizeMax > 0 /\ 2 + SizeMax - 0 = 2 + SizeMax /\ 3 > 0
  BY Sizes
<1>10. Connected(h, s) = g
  BY <1>6, <1>7, <1>8, <1>9 DEF WaitForData
<1>11. Done(c, g)
  BY <1>7, <1>8, <1>9, RefreshLemma DEF ProcessingStates
<1>12. ~ (2 + SizeMax > BufferSize - (c.got - c.base))
  BY <1>5, Sizes
<1>13. g.open /\ g.stream = s /\ g.delivered = << >> /\ g.reports = 0
  BY <1>4, <1>5, <1>12 DEF Refresh, HandlerStates
<1>14. QED
  BY <1>10, <1>11, <1>13 DEF Done

\* A read that brings bytes.
LEMMA ReadMoreLemma ==
    ASSUME Settled(handler), ReadMore
    PROVE  handler.open /\ Done(handler, handler')
<1>1. PICK n \in 1..handler.limit :
          handler' = WaitForData([handler EXCEPT !.got = @ + n, !.reading = "none", !.limit = 0],
                                 handler.reading)
  BY DEF ReadMore
<1> DEFINE h == handler
           got == h.got + n
           g == [h EXCEPT !.got = got, !.reading = "none", !.limit = 0]
<1>2. h \in HandlerStates /\ h.checks /\ h.reading # "none"
  BY DEF Settled, Framed, ReadMore
<1>3. /\ h.base \in Nat /\ h.at \in Nat /\ h.got \in Nat /\ h.limit \in Nat
      /\ h.posted \in Nat /\ h.base <= h.at /\ h.at <= h.got
  BY <1>2, FieldTypes DEF Settled, Framed
<1>4. /\ h.open /\ h.posted = 0 /\ Greeted(h)
      /\ Expecting(h, h.reading) /\ ReadBounded(h)
  BY <1>2, <1>3 DEF Settled, ExactlyOne
<1>5. h.reading \in ProcessingStates
  BY <1>2 DEF HandlerStates
<1>6. got \in Nat /\ h.at <= got /\ got - h.at <= Unread(h) + h.limit
  BY <1>1, <1>3 DEF Unread
<1>7. handler' = WaitForData(g, h.reading)
  BY <1>1
<1> HIDE DEF h, got
<1>8. g \in HandlerStates
  BY <1>2, <1>6 DEF HandlerStates
<1>9. /\ g.checks /\ g.open = h.open /\ g.reading = "none"
      /\ g.posted = h.posted /\ g.base = h.base /\ g.at = h.at /\ g.got = got
      /\ g.stream = h.stream /\ g.delivered = h.delivered /\ g.timer = h.timer
      /\ g.reports = h.reports /\ g.msg = h.msg
      /\ g.handshake_complete = h.handshake_complete
      /\ g.message_size = h.message_size /\ g.payload = h.payload
  BY <1>2 DEF HandlerStates
<1> HIDE DEF g
<1>10. Parsing(g)
  <2>1. Framed(g)
    BY <1>3, <1>6, <1>8, <1>9 DEF Framed
  <2>2. Greeted(g)
    BY <1>4, <1>9 DEF Greeted
  <2>3. QED
    BY <1>4, <1>9, <2>1, <2>2 DEF Parsing
<1>11. Expecting(g, h.reading)
  BY <1>4, <1>9 DEF Expecting, InMessage, InBody, Message
<1>12. MaxBytesNeeded(g, h.reading) = MaxBytesNeeded(h, h.reading)
  BY <1>9 DEF MaxBytesNeeded, BytesNeeded
<1>13. Unread(g) <= MaxBytesNeeded(g, h.reading)
  BY <1>4, <1>6, <1>9, <1>12 DEF ReadBounded, Unread
<1>14. Done(g, handler')
  BY <1>5, <1>7, <1>10, <1>11, <1>13, WaitForDataLemma
<1>15. Done(h, handler')
  BY <1>9, <1>14, DoneCarries
<1>16. QED
  BY <1>4, <1>15 DEF h

\* The search for the next message begins.
LEMMA GetNextMessageLemma ==
    ASSUME Settled(handler), GetNextMessage
    PROVE  handler.open /\ Done(handler, handler')
<1> DEFINE h == handler
           g == [h EXCEPT !.posted = 0, !.checks = TRUE, !.msg = 0, !.message_size = 0]
<1>1. h \in HandlerStates /\ h.checks /\ h.posted > 0
  BY DEF Settled, Framed, GetNextMessage
<1>2. /\ h.base \in Nat /\ h.at \in Nat /\ h.got \in Nat /\ h.posted \in Nat
      /\ h.base <= h.at /\ h.at <= h.got
  BY <1>1, FieldTypes DEF Settled, Framed
<1>3. h.open /\ h.posted = 1 /\ h.reading = "none" /\ Greeted(h) /\ Between(h)
  BY <1>1, <1>2 DEF Settled, ExactlyOne
<1>4. handler' = WaitForData(g, "TAG_AND_SIZE")
  <2>1. handler.posted - 1 = 0
    BY <1>3
  <2>2. (handler.checks /\ handler.open /\ handler.reading = "none") = TRUE
    BY <1>1, <1>3
  <2>3. QED
    BY <2>1, <2>2 DEF GetNextMessage
<1> HIDE DEF h
<1>5. g \in HandlerStates
  BY <1>1 DEF HandlerStates
<1>6. /\ g.checks /\ g.open = h.open /\ g.reading = h.reading
      /\ g.posted = 0 /\ g.base = h.base /\ g.at = h.at /\ g.got = h.got
      /\ g.stream = h.stream /\ g.delivered = h.delivered /\ g.timer = h.timer
      /\ g.reports = h.reports /\ g.handshake_complete = h.handshake_complete
  BY <1>1 DEF HandlerStates
<1> HIDE DEF g
<1>7. Parsing(g)
  BY <1>2, <1>3, <1>5, <1>6 DEF Parsing, Framed, Greeted
<1>8. Expecting(g, "TAG_AND_SIZE")
  BY <1>3, <1>6 DEF Expecting, Between, Greeted
<1>9. Unread(g) <= MaxBytesNeeded(g, "TAG_AND_SIZE")
  BY <1>2, <1>3, <1>6, Sizes DEF Between, Unread, MaxBytesNeeded
<1>10. Done(g, handler')
  BY <1>4, <1>7, <1>8, <1>9, WaitForDataLemma DEF ProcessingStates
<1>11. Done(h, handler')
  BY <1>6, <1>10, DoneCarries
<1>12. QED
  BY <1>3, <1>11 DEF h

\* The output stream has no part in what is read.
LEMMA OutputLemma ==
    ASSUME NEW h, Settled(h), h.output # "none", NEW o \in {"EMPTY", "FLUSHING"}
    PROVE  LET g == [h EXCEPT !.output = o]
           IN  /\ Settled(g) /\ g.open = h.open /\ g.stream = h.stream
               /\ g.delivered = h.delivered /\ g.reports = h.reports
<1> DEFINE g == [h EXCEPT !.output = o]
<1>1. h \in HandlerStates /\ h.open
  BY DEF Settled, Framed, HandlerStates
<1>2. g \in HandlerStates
  BY <1>1 DEF HandlerStates
<1>3. /\ g.checks = h.checks /\ g.open = h.open /\ g.reading = h.reading
      /\ g.posted = h.posted /\ g.base = h.base /\ g.at = h.at /\ g.got = h.got
      /\ g.stream = h.stream /\ g.delivered = h.delivered /\ g.timer = h.timer
      /\ g.reports = h.reports /\ g.handshake_complete = h.handshake_complete
      /\ g.msg = h.msg /\ g.message_size = h.message_size /\ g.payload = h.payload
      /\ g.limit = h.limit
  BY <1>1 DEF HandlerStates
<1> HIDE DEF g
<1>4. Framed(g) /\ ExactlyOne(g) /\ Greeted(g)
  BY <1>1, <1>2, <1>3 DEF Settled, Framed, ExactlyOne, Greeted
<1>5. g.reading # "none" => Expecting(g, g.reading)
  BY <1>3 DEF Settled, Expecting, InMessage, InBody, Message
<1>6. g.reading # "none" => ReadBounded(g)
  BY <1>3 DEF Settled, ReadBounded, Unread, MaxBytesNeeded, BytesNeeded
<1>7. g.posted > 0 => Between(g)
  BY <1>3 DEF Settled, Between, Unread
<1>8. Settled(g)
  BY <1>1, <1>3, <1>4, <1>5, <1>6, <1>7 DEF Settled
<1>9. QED
  BY <1>3, <1>8 DEF g

-----------------------------------------------------------------------------

\* What a step may do: end the connection, begin one, or go on with it as
\* Progress says.
HandlerStep ==
    \/ /\ ~ handler.open /\ handler'.open /\ handler'.stream \in Streams
       /\ handler'.delivered = << >> /\ handler'.reports = 0
    \/ handler.open /\ Progress(handler, handler')
    \/ /\ handler.open /\ ~ handler'.open /\ handler'.stream = handler.stream
       /\ handler'.delivered = handler.delivered /\ handler'.reports = handler.reports
    \/ /\ handler'.open = handler.open /\ handler'.stream = handler.stream
       /\ handler'.delivered = handler.delivered /\ handler'.reports = handler.reports

\* Every step keeps the invariant and does one of these.
LEMMA StepSettled ==
    ASSUME HandlerIInv, [HandlerNext]_handlerVars
    PROVE  HandlerIInv' /\ HandlerStep
<1>1. Settled(handler) /\ handler \in HandlerStates /\ handler.checks
  BY DEF HandlerIInv, Settled, Framed
<1>2. connections \in 0..MaxConnections /\ MaxConnections \in Nat
  BY HandlerAssumption DEF HandlerIInv
<1>3. ASSUME handler' = Fail(handler), handler.open, UNCHANGED connections
      PROVE  HandlerIInv' /\ HandlerStep
  <2>1. Done(handler, handler')
    BY <1>1, <1>3, FailLemma
  <2>2. QED
    BY <1>2, <1>3, <2>1 DEF Done, HandlerIInv, HandlerStep
<1>4. CASE InitConnection
  <2>1. PICK s \in Streams : handler' = Connected(handler, s)
    BY <1>4 DEF InitConnection
  <2>2. ~ handler.open /\ connections' \in 0..MaxConnections
    BY <1>2, <1>4 DEF InitConnection
  <2>3. /\ Settled(handler') /\ handler'.open /\ handler'.stream = s
        /\ handler'.delivered = << >> /\ handler'.reports = 0
    BY <1>1, <2>1, <2>2, ConnectedLemma
  <2>4. QED
    BY <2>1, <2>2, <2>3 DEF HandlerIInv, HandlerStep
<1>5. CASE ReadMore
  <2>1. handler.open /\ Done(handler, handler')
    BY <1>1, <1>5, ReadMoreLemma
  <2>2. QED
    BY <1>2, <1>5, <2>1 DEF ReadMore, Done, HandlerIInv, HandlerStep
<1>6. CASE ReadFails
  <2>1. handler.open
    BY <1>1, <1>6, FieldTypes DEF ReadFails, Settled, ExactlyOne
  <2>2. QED
    BY <1>3, <1>6, <2>1 DEF ReadFails
<1>7. CASE GetNextMessage
  <2>1. handler.open /\ Done(handler, handler')
    BY <1>1, <1>7, GetNextMessageLemma
  <2>2. QED
    BY <1>2, <1>7, <2>1 DEF GetNextMessage, Done, HandlerIInv, HandlerStep
<1>8. CASE SendMessage
  <2>1. handler.output # "none" /\ handler' = [handler EXCEPT !.output = "FLUSHING"]
    BY <1>8 DEF SendMessage, CanSendMessage
  <2>2. /\ Settled(handler') /\ handler'.open = handler.open
        /\ handler'.stream = handler.stream /\ handler'.delivered = handler.delivered
        /\ handler'.reports = handler.reports
    BY <1>1, <2>1, OutputLemma
  <2>3. QED
    BY <1>2, <1>8, <2>2 DEF SendMessage, HandlerIInv, HandlerStep
<1>9. CASE FlushDone
  <2>1. handler.output # "none" /\ handler' = [handler EXCEPT !.output = "EMPTY"]
    BY <1>9 DEF FlushDone
  <2>2. /\ Settled(handler') /\ handler'.open = handler.open
        /\ handler'.stream = handler.stream /\ handler'.delivered = handler.delivered
        /\ handler'.reports = handler.reports
    BY <1>1, <2>1, OutputLemma
  <2>3. QED
    BY <1>2, <1>9, <2>2 DEF FlushDone, HandlerIInv, HandlerStep
<1>10. CASE FlushFails
  <2>1. handler.open
    BY <1>1, <1>10 DEF FlushFails, Settled
  <2>2. QED
    BY <1>3, <1>10, <2>1 DEF FlushFails
<1>11. CASE OnTimeout
  <2>1. handler.open
    BY <1>1, <1>11 DEF OnTimeout, Settled
  <2>2. QED
    BY <1>3, <1>11, <2>1 DEF OnTimeout
<1>12. CASE Reset
  <2>1. handler.open /\ handler' = CloseConnection(handler)
    BY <1>12 DEF Reset
  <2>2. /\ Settled(handler') /\ ~ handler'.open /\ handler'.stream = handler.stream
        /\ handler'.delivered = handler.delivered /\ handler'.reports = handler.reports
    BY <1>1, <2>1, CloseLemma
  <2>3. QED
    BY <1>2, <1>12, <2>1, <2>2 DEF Reset, HandlerIInv, HandlerStep
<1>13. CASE Finished \/ UNCHANGED handlerVars
  <2>1. UNCHANGED <<handler, connections>>
    BY <1>13 DEF Finished, handlerVars
  <2>2. QED
    BY <1>1, <1>2, <2>1 DEF HandlerIInv, HandlerStep
<1>14. QED
  BY <1>4, <1>5, <1>6, <1>7, <1>8, <1>9, <1>10, <1>11, <1>12, <1>13 DEF HandlerNext

\* The invariant holds in every behaviour of the handler.
LEMMA HandlerSettled == HandlerSpec => []HandlerIInv
<1>1. HandlerInit => HandlerIInv
  BY InitSettled
<1>2. HandlerIInv /\ [HandlerNext]_handlerVars => HandlerIInv'
  BY StepSettled
<1>3. QED
  BY <1>1, <1>2, PTL DEF HandlerSpec

\* No CHECK or DCHECK on the input path fails, whatever the server sends,
\* however its bytes are cut into reads and whatever fails when.
THEOREM InputChecksHold == HandlerSpec => []HandlerChecksHold
<1>1. HandlerIInv => HandlerChecksHold
  BY DEF HandlerIInv, Settled, Framed, HandlerChecksHold, HandlerTypeOK
<1>2. QED
  BY <1>1, HandlerSettled, PTL

\* An open connection always has one pending read or one posted
\* GetNextMessage, and a closed one has neither.
THEOREM NeverUnread == HandlerSpec => []OneReader
<1>1. HandlerIInv => OneReader
  BY DEF HandlerIInv, Settled, ExactlyOne, OneReader
<1>2. QED
  BY <1>1, HandlerSettled, PTL

\* The read timer runs through the handshake and from a tag to the end of its
\* message and at no other time, given a server that begins with its login
\* response.
THEOREM TimerFollowsPolicy == LoginFirst => (HandlerSpec => []TimeoutPolicy)
<1> SUFFICES ASSUME LoginFirst PROVE HandlerSpec => []TimeoutPolicy
  OBVIOUS
<1>1. HandlerIInv => TimeoutPolicy
  <2> SUFFICES ASSUME HandlerIInv PROVE TimeoutPolicy
    OBVIOUS
  <2>1. Settled(handler) /\ handler \in HandlerStates
    BY DEF HandlerIInv, Settled, Framed
  <2>2. handler.posted \in Nat
    BY <2>1, FieldTypes
  <2>3. CASE ~ handler.open
    BY <2>1, <2>3 DEF Settled, TimeoutPolicy
  <2>4. CASE handler.open /\ handler.reading = "none"
    <3>1. handler.posted > 0
      BY <2>1, <2>2, <2>4 DEF Settled, ExactlyOne
    <3>2. ~ handler.timer /\ handler.handshake_complete
      BY <2>1, <2>4, <3>1 DEF Settled, Between, Greeted
    <3>3. QED
      BY <2>4, <3>2 DEF TimeoutPolicy
  <2>5. CASE handler.open /\ handler.reading # "none"
    BY <2>1, <2>5 DEF Settled, Expecting, TimeoutPolicy
  <2>6. QED
    BY <2>3, <2>4, <2>5
<1>2. QED
  BY <1>1, HandlerSettled, PTL

\* However the bytes are cut into reads, the owner is handed whole messages in
\* order, at most one report of a failure, and nothing of a connection that has
\* ended, as long as the server sends no body so small that the read for its
\* header reaches beyond it.
THEOREM StreamImplemented == NoSmallBodies => (HandlerSpec => ImplementsMessageStream)
<1> SUFFICES ASSUME NoSmallBodies PROVE HandlerSpec => ImplementsMessageStream
  OBVIOUS
<1>1. HandlerInit => Promised!StreamInit
  <2> SUFFICES ASSUME HandlerInit PROVE Promised!StreamInit
    OBVIOUS
  <2>1. /\ ~ handler.open /\ handler.stream \in Streams
        /\ handler.delivered = << >> /\ handler.reports = 0
    BY DEF HandlerInit
  <2>2. QED
    BY <2>1 DEF Promised!StreamInit
<1>2. HandlerIInv /\ [HandlerNext]_handlerVars => [Promised!StreamNext]_(Promised!streamVars)
  <2> SUFFICES ASSUME HandlerIInv, [HandlerNext]_handlerVars
               PROVE  [Promised!StreamNext]_(Promised!streamVars)
    OBVIOUS
  <2>1. HandlerStep
    BY StepSettled
  <2>2. CASE /\ ~ handler.open /\ handler'.open /\ handler'.stream \in Streams
             /\ handler'.delivered = << >> /\ handler'.reports = 0
    BY <2>2 DEF Promised!StreamNext, Promised!OpenStream
  <2>3. CASE handler.open /\ Progress(handler, handler')
    <3>1. CASE /\ handler'.open /\ handler'.delivered = handler.delivered
               /\ handler'.reports = handler.reports
      BY <2>3, <3>1 DEF Progress, Promised!streamVars
    <3>2. CASE /\ handler'.open /\ handler'.reports = handler.reports
               /\ Len(handler.delivered) < Len(handler.stream.msgs)
               /\ handler'.delivered # << >>
               /\ handler'.delivered = Append(handler.delivered,
                                             handler.stream.msgs[Len(handler.delivered) + 1])
      BY <2>3, <3>2 DEF Progress, Promised!StreamNext, Promised!Deliver
    <3>3. CASE /\ ~ handler'.open /\ handler'.delivered = handler.delivered
               /\ handler'.reports = handler.reports + 1
      BY <2>3, <3>3 DEF Progress, Promised!StreamNext, Promised!ReportFailure
    <3>4. QED
      BY <2>3, <3>1, <3>2, <3>3 DEF Progress
  <2>4. CASE /\ handler.open /\ ~ handler'.open /\ handler'.stream = handler.stream
             /\ handler'.delivered = handler.delivered /\ handler'.reports = handler.reports
    BY <2>4 DEF Promised!StreamNext, Promised!CloseStream
  <2>5. CASE /\ handler'.open = handler.open /\ handler'.stream = handler.stream
             /\ handler'.delivered = handler.delivered /\ handler'.reports = handler.reports
    BY <2>5 DEF Promised!streamVars
  <2>6. QED
    BY <2>1, <2>2, <2>3, <2>4, <2>5 DEF HandlerStep
<1>3. QED
  BY <1>1, <1>2, HandlerSettled, PTL DEF HandlerSpec, ImplementsMessageStream, Promised!StreamSpec

-----------------------------------------------------------------------------
(***************************************************************************)
(* A sound stream is read to its end                                       *)
(***************************************************************************)

\* The server sends nothing wrong.
Clean(s) ==
    /\ s.version
    /\ \A i \in 1..Len(s.msgs) :
           LET msg == s.msgs[i]
           IN  msg.parses /\ msg.tag # "invalid" /\ msg.varint <= SizeMax

\* The buffer has room for a header, and for what is read at once of a body, behind
\* the empty messages in a row that are kept in it.
RoomForMessages ==
    \A s \in Streams : \A n \in 1..(Len(s.msgs) + 1), k \in 1..(Len(s.msgs) + 1) :
        k <= n /\ (\A i \in k..(n - 1) : s.msgs[i].size = 0) =>
            /\ StartOf(s, n) + 1 + SizeMax <= BufferSize + StartOf(s, k)
            /\ n <= Len(s.msgs) =>
                   StartOf(s, n) + 1 + s.msgs[n].varint
                       + (IF s.msgs[n].size < PacketLimit THEN s.msgs[n].size ELSE PacketLimit)
                     <= BufferSize + StartOf(s, k)

\* How StartOf goes through the messages.
LEMMA StartSteps ==
    ASSUME NEW s \in Streams, NEW k \in Nat, k <= Len(s.msgs)
    PROVE  \E f \in [0..k -> Nat] :
               /\ f[0] = 1
               /\ \A n \in 1..k : f[n] = f[n - 1] + 1 + s.msgs[n].varint + s.msgs[n].size
               /\ StartOf(s, k + 1) = f[k]
<1> DEFINE add(n) == s.msgs[n].varint + s.msgs[n].size
           G == [n \in 1..k |-> [y \in Nat |-> y + 1 + add(n)]]
           F(f) == [i \in 0..k |->
                      IF i = 0 THEN 1 ELSE f[i - 1] + 1 + s.msgs[i].varint + s.msgs[i].size]
<1>1. \A n \in 1..k : s.msgs[n].varint \in Nat /\ s.msgs[n].size \in Nat /\ add(n) \in Nat
  <2>1. s.msgs \in Seq(Messages)
    BY HandlerAssumption
  <2>2. \A n \in 1..k : s.msgs[n] \in Messages
    BY <2>1
  <2>3. \A n \in 1..k : s.msgs[n].varint \in 1..(SizeMax + 1) /\ s.msgs[n].size \in Nat
    BY <2>2 DEF Messages
  <2>4. SizeMax \in Nat
    BY Sizes
  <2>5. \A n \in 1..k : s.msgs[n].varint \in Nat /\ s.msgs[n].size \in Nat
    BY <2>3, <2>4
  <2>6. QED
    BY <2>5
<1>2. \A n \in 1..k : \A y \in Nat :
          G[n][y] \in Nat /\ G[n][y] = y + 1 + s.msgs[n].varint + s.msgs[n].size
  BY <1>1
<1> HIDE DEF G, add
<1>3. PICK f \in [0..k -> Nat] : f[0] = 1 /\ \A n \in 1..k : f[n] = G[n][f[n - 1]]
  <2>1. StaysIn(G, Nat, k)
    BY <1>2 DEF StaysIn
  <2>2. 1 \in Nat
    OBVIOUS
  <2>3. \E f \in [0..k -> Nat] : Solution(f, 1, G, k)
    BY <2>1, <2>2, Recursion
  <2>4. QED
    BY <2>3 DEF Solution
<1>4. ASSUME NEW n \in 1..k
      PROVE  f[n] = f[n - 1] + 1 + s.msgs[n].varint + s.msgs[n].size
  <2>1. n - 1 \in 0..k
    OBVIOUS
  <2>2. f[n - 1] \in Nat /\ f[n] = G[n][f[n - 1]]
    BY <1>3, <2>1
  <2>3. QED
    BY <1>2, <2>2
<1>5. f = F(f)
  <2>1. ASSUME NEW n \in 0..k PROVE f[n] = F(f)[n]
    <3>1. CASE n = 0
      BY <1>3, <3>1
    <3>2. CASE n # 0
      <4>1. n \in 1..k
        BY <3>2
      <4>2. QED
        BY <1>4, <3>2, <4>1
    <3>3. QED
      BY <3>1, <3>2
  <2>2. f = [n \in 0..k |-> f[n]]
    BY <1>3
  <2>3. QED
    BY <2>1, <2>2
<1> DEFINE ended == CHOOSE g : g = F(g)
<1>6. ended = F(ended)
  BY <1>5
<1>7. StartOf(s, k + 1) = ended[k]
  <2>1. (k + 1) - 1 = k
    OBVIOUS
  <2>2. QED
    BY <2>1 DEF StartOf
<1> HIDE DEF ended
<1>8. /\ ended[0] = 1
      /\ \A n \in 1..k : ended[n] = ended[n - 1] + 1 + s.msgs[n].varint + s.msgs[n].size
  <2>1. \A n \in 0..k : F(ended)[n] =
            IF n = 0 THEN 1 ELSE ended[n - 1] + 1 + s.msgs[n].varint + s.msgs[n].size
    OBVIOUS
  <2> HIDE DEF F
  <2>2. \A n \in 0..k : ended[n] =
            IF n = 0 THEN 1 ELSE ended[n - 1] + 1 + s.msgs[n].varint + s.msgs[n].size
    BY <1>6, <2>1, Zenon
  <2>3. QED
    BY <2>2
<1> DEFINE S == {n \in Nat : n <= k => ended[n] = f[n]}
<1>9. 0 \in S
  BY <1>3, <1>8
<1>10. ASSUME NEW n \in Nat, n \in S PROVE n + 1 \in S
  <2>1. SUFFICES ASSUME n + 1 <= k PROVE ended[n + 1] = f[n + 1]
    OBVIOUS
  <2>2. n + 1 \in 1..k /\ (n + 1) - 1 = n /\ ended[n] = f[n]
    BY <1>10, <2>1
  <2>3. QED
    BY <1>4, <1>8, <2>2
<1>11. ended[k] = f[k]
  <2> HIDE DEF S
  <2>1. k \in S
    BY <1>9, <1>10, Induct
  <2>2. QED
    BY <2>1 DEF S
<1>12. QED
  BY <1>3, <1>4, <1>7, <1>11

\* Where the messages begin.
LEMMA StartLemma ==
    ASSUME NEW s \in Streams
    PROVE  /\ StartOf(s, 1) = 1
           /\ \A n \in 1..(Len(s.msgs) + 1) : StartOf(s, n) \in Nat
           /\ \A n \in 1..Len(s.msgs) :
                  StartOf(s, n + 1) = StartOf(s, n) + 1 + s.msgs[n].varint + s.msgs[n].size
<1> DEFINE E(f, k) == /\ f[0] = 1
                      /\ \A n \in 1..k : f[n] = f[n - 1] + 1 + s.msgs[n].varint + s.msgs[n].size
                      /\ StartOf(s, k + 1) = f[k]
<1>1. Len(s.msgs) \in Nat
  BY HandlerAssumption
<1>2. \A k \in 0..Len(s.msgs) : \E f \in [0..k -> Nat] : E(f, k)
  BY <1>1, StartSteps
<1>3. StartOf(s, 1) = 1
  <2>1. PICK f \in [0..0 -> Nat] : E(f, 0)
    <3> HIDE DEF E
    <3>1. 0 \in 0..Len(s.msgs)
      BY <1>1
    <3>2. QED
      BY <1>2, <3>1
  <2>2. 0 + 1 = 1
    OBVIOUS
  <2>3. StartOf(s, 0 + 1) = 1
    BY <2>1
  <2>4. QED
    BY <2>2, <2>3, Zenon
<1>4. ASSUME NEW n \in 1..(Len(s.msgs) + 1) PROVE StartOf(s, n) \in Nat
  <2>1. n - 1 \in 0..Len(s.msgs) /\ (n - 1) + 1 = n
    BY <1>1
  <2>2. PICK f \in [0..(n - 1) -> Nat] : E(f, n - 1)
    BY <1>2, <2>1
  <2>3. QED
    BY <2>1, <2>2
<1>5. ASSUME NEW n \in 1..Len(s.msgs)
      PROVE  StartOf(s, n + 1) = StartOf(s, n) + 1 + s.msgs[n].varint + s.msgs[n].size
  <2>1. n \in 0..Len(s.msgs) /\ n - 1 \in 0..Len(s.msgs) /\ (n - 1) + 1 = n
    BY <1>1
  <2>2. PICK f \in [0..n -> Nat] : E(f, n)
    BY <1>2, <2>1
  <2>3. PICK g \in [0..(n - 1) -> Nat] : E(g, n - 1)
    BY <1>2, <2>1
  <2> DEFINE S == {m \in Nat : m <= n - 1 => f[m] = g[m]}
  <2>4. 0 \in S
    BY <2>2, <2>3
  <2>5. ASSUME NEW m \in Nat, m \in S PROVE m + 1 \in S
    <3>1. SUFFICES ASSUME m + 1 <= n - 1 PROVE f[m + 1] = g[m + 1]
      OBVIOUS
    <3>2. m + 1 \in 1..n /\ m + 1 \in 1..(n - 1) /\ (m + 1) - 1 = m /\ f[m] = g[m]
      BY <2>5, <3>1
    <3>3. QED
      BY <2>2, <2>3, <3>2
  <2>6. f[n - 1] = g[n - 1]
    <3> HIDE DEF S
    <3>1. n - 1 \in Nat
      OBVIOUS
    <3>2. n - 1 \in S
      BY <2>4, <2>5, <3>1, Induct
    <3>3. n - 1 <= n - 1
      BY <3>1
    <3>4. QED
      BY <3>2, <3>3 DEF S
  <2>7. n \in 1..n
    OBVIOUS
  <2>8. StartOf(s, n + 1) = f[n - 1] + 1 + s.msgs[n].varint + s.msgs[n].size
    BY <2>2, <2>7
  <2>9. StartOf(s, n) = g[n - 1]
    BY <2>1, <2>3
  <2>10. QED
    BY <2>6, <2>8, <2>9
<1>6. QED
  BY <1>3, <1>4, <1>5


\* The buffer begins with a message, and has no body of those before message n.
Kept(h, n) ==
    \E k \in 1..n : /\ h.base = StartOf(h.stream, k)
                    /\ \A i \in k..(n - 1) : h.stream.msgs[i].size = 0

\* Where the next byte to be parsed is in the stream, when WaitForData(state) is called
\* or a read is pending for it.
Located(h, state) ==
    LET s == h.stream
        n == Len(h.delivered) + 1
    IN  /\ n <= Len(s.msgs) + 1
        /\ h.got <= StartOf(s, Len(s.msgs) + 1)
        /\ state = "VERSION_TAG_AND_SIZE" => h.at = 0 /\ h.base = 0
        /\ state = "TAG_AND_SIZE" => h.at = StartOf(s, n) /\ Kept(h, n)
        /\ state = "SIZE" => h.at = StartOf(s, n) + 1 /\ Kept(h, n)
        /\ state = "PROTO_BYTES" =>
               /\ h.at + h.message_size = StartOf(s, n + 1) + h.payload
               /\ \/ h.payload = 0 /\ Kept(h, n)
                  \/ h.base = h.at /\ h.message_size >= PacketLimit

\* What a method leaves on a clean stream.
Lasts(g) ==
    /\ g.open
    /\ g.reading # "none" => Located(g, g.reading)
    /\ g.posted > 0 => Located(g, "TAG_AND_SIZE")

\* The stream is read at the right places, and the buffer is large enough for it.
Readable(h) == Clean(h.stream) /\ NoSmallBodies /\ RoomForMessages

\* The message of a clean stream whose tag was read.
LEMMA CleanMessage ==
    ASSUME NEW h \in HandlerStates, InMessage(h), Clean(h.stream)
    PROVE  /\ Message(h).parses /\ Message(h).tag # "invalid"
           /\ Message(h).varint <= SizeMax
           /\ h.msg = Len(h.delivered) + 1 /\ Len(h.delivered) + 1 \in 1..Len(h.stream.msgs)
           /\ Message(h) = h.stream.msgs[Len(h.delivered) + 1]
           /\ StartOf(h.stream, Len(h.delivered) + 1) \in Nat
           /\ StartOf(h.stream, Len(h.delivered) + 2)
                = StartOf(h.stream, Len(h.delivered) + 1) + 1 + Message(h).varint + Message(h).size
<1> DEFINE s == h.stream
           n == Len(h.delivered) + 1
<1>1. s \in Streams /\ s.msgs \in Seq(Messages) /\ h.delivered \in Seq(Messages)
  BY FieldTypes
<1>2. h.msg = n /\ n \in 1..Len(s.msgs)
  BY <1>1 DEF InMessage
<1>3. Message(h) = s.msgs[n]
  BY <1>2 DEF Message
<1>4. Message(h).parses /\ Message(h).tag # "invalid" /\ Message(h).varint <= SizeMax
  BY <1>2, <1>3 DEF Clean
<1>5. n + 1 = Len(h.delivered) + 2 /\ n \in 1..(Len(s.msgs) + 1)
  BY <1>1, <1>2
<1> HIDE DEF n
<1>6. StartOf(s, n) \in Nat
  BY <1>1, <1>5, StartLemma
<1>7. StartOf(s, n + 1) = StartOf(s, n) + 1 + s.msgs[n].varint + s.msgs[n].size
  BY <1>1, <1>2, StartLemma
<1>8. StartOf(s, Len(h.delivered) + 2) = StartOf(s, n + 1)
  BY <1>5
<1>9. StartOf(s, Len(h.delivered) + 2) = StartOf(s, n) + 1 + Message(h).varint + Message(h).size
  BY <1>3, <1>7, <1>8
<1>10. QED
  BY <1>2, <1>3, <1>4, <1>6, <1>9 DEF n

\* There is room in the buffer for what WaitForData(state) may read.
LEMMA RoomLemma ==
    ASSUME NEW h, Parsing(h), Readable(h), NEW state \in ProcessingStates,
           Expecting(h, state), Located(h, state)
    PROVE  h.at + MaxBytesNeeded(h, state) <= BufferSize + h.base
<1> DEFINE s == h.stream
           n == Len(h.delivered) + 1
<1>1. h \in HandlerStates /\ s \in Streams /\ h.delivered \in Seq(Messages)
      /\ h.at \in Nat /\ h.base \in Nat /\ h.message_size \in Nat /\ h.payload \in Nat
      /\ s.msgs \in Seq(Messages)
  BY FieldTypes DEF Parsing, Framed
<1>2. n \in 1..(Len(s.msgs) + 1) /\ n \in Nat
  BY <1>1 DEF Located
<1>3. StartOf(s, n) \in Nat
  BY <1>1, <1>2, StartLemma
<1>4. ASSUME Kept(h, n)
      PROVE  /\ StartOf(s, n) + 1 + SizeMax <= BufferSize + h.base
             /\ n <= Len(s.msgs) =>
                   StartOf(s, n) + 1 + s.msgs[n].varint
                       + (IF s.msgs[n].size < PacketLimit THEN s.msgs[n].size ELSE PacketLimit)
                     <= BufferSize + h.base
  <2>1. PICK k \in 1..n : h.base = StartOf(s, k) /\ \A i \in k..(n - 1) : s.msgs[i].size = 0
    BY <1>4 DEF Kept
  <2>2. k \in 1..(Len(s.msgs) + 1) /\ k <= n
    BY <1>1, <1>2
  <2> HIDE DEF n, s
  <2>3. QED
    BY <1>1, <1>2, <2>1, <2>2 DEF Readable, RoomForMessages
<1>5. CASE state = "VERSION_TAG_AND_SIZE"
  BY <1>5, Sizes DEF Located, MaxBytesNeeded
<1>6. CASE state = "TAG_AND_SIZE"
  <2>1. h.at = StartOf(s, n) /\ Kept(h, n) /\ MaxBytesNeeded(h, state) = 1 + SizeMax
    BY <1>6 DEF Located, MaxBytesNeeded
  <2> HIDE DEF n, s
  <2>2. QED
    BY <1>1, <1>3, <1>4, <2>1, Sizes
<1>7. CASE state = "SIZE"
  <2>1. h.at = StartOf(s, n) + 1 /\ Kept(h, n) /\ MaxBytesNeeded(h, state) = SizeMax
    BY <1>7 DEF Located, MaxBytesNeeded
  <2> HIDE DEF n, s
  <2>2. QED
    BY <1>1, <1>3, <1>4, <2>1, Sizes
<1>8. CASE state = "PROTO_BYTES"
  <2>1. InMessage(h) /\ h.message_size = Message(h).size /\ h.message_size > 0
        /\ (h.message_size >= PacketLimit => h.payload < h.message_size)
    BY <1>8 DEF Expecting, InBody
  <2>2. /\ h.at + h.message_size = StartOf(s, n + 1) + h.payload
        /\ \/ h.payload = 0 /\ Kept(h, n)
           \/ h.base = h.at /\ h.message_size >= PacketLimit
    BY <1>8 DEF Located
  <2>3. /\ n \in 1..Len(s.msgs) /\ Message(h) = s.msgs[n]
        /\ StartOf(s, n + 1) = StartOf(s, n) + 1 + s.msgs[n].varint + s.msgs[n].size
    BY <1>1, <2>1, StartLemma, CleanMessage DEF Readable
  <2>4. MaxBytesNeeded(h, state) = BytesNeeded(h)
    BY <1>8 DEF MaxBytesNeeded
  <2>5. /\ BytesNeeded(h) \in Nat
        /\ h.message_size < PacketLimit => BytesNeeded(h) = h.message_size
        /\ h.message_size >= PacketLimit /\ h.payload = 0 => BytesNeeded(h) = PacketLimit
    BY <1>1, <2>1, BytesNeededLemma
  <2>6. Message(h).varint \in Nat
    BY <1>1, <2>1, MessageType
  <2> HIDE DEF n, s
  <2>7. CASE h.payload = 0 /\ Kept(h, n)
    <3> DEFINE w == IF s.msgs[n].size < PacketLimit THEN s.msgs[n].size ELSE PacketLimit
    <3>1. StartOf(s, n) + 1 + s.msgs[n].varint + w <= BufferSize + h.base
      BY <1>1, <1>2, <1>4, <2>3, <2>7
    <3>2. w = BytesNeeded(h)
      BY <1>1, <2>1, <2>3, <2>5, <2>7, Sizes
    <3>3. h.at = StartOf(s, n) + 1 + s.msgs[n].varint
      <4> HIDE DEF w
      <4>1. h.message_size = s.msgs[n].size /\ s.msgs[n].varint \in Nat
        BY <2>1, <2>3, <2>6
      <4>2. StartOf(s, n + 1) = StartOf(s, n) + 1 + s.msgs[n].varint + h.message_size
        BY <2>3, <4>1
      <4>3. h.at + h.message_size = StartOf(s, n + 1) + 0
        BY <2>2, <2>7
      <4>4. h.at \in Nat /\ h.message_size \in Nat
        BY <1>1
      <4>5. s.msgs[n].varint \in Nat
        BY <4>1
      <4>6. QED
        BY <1>3, <4>2, <4>3, <4>4, <4>5
    <3> HIDE DEF w
    <3>4. QED
      BY <2>4, <3>1, <3>2, <3>3
  <2>8. CASE h.base = h.at /\ h.message_size >= PacketLimit
    <3>1. BytesNeeded(h) <= PacketLimit
      <4>1. h.message_size - h.payload \in Nat
        BY <1>1, <2>1, <2>8
      <4>2. QED
        BY <1>1, <2>8, <4>1, Sizes, MinOfTwo DEF BytesNeeded
    <3>2. PacketLimit <= BufferSize
      <4>1. /\ StartOf(s, n) + 1 + s.msgs[n].varint + PacketLimit <= BufferSize + StartOf(s, n)
        <5>1. \A i \in n..(n - 1) : s.msgs[i].size = 0
          BY <1>2
        <5>2. ~ (s.msgs[n].size < PacketLimit) /\ n <= n /\ n <= Len(s.msgs)
          BY <1>1, <2>1, <2>3, <2>8, Sizes
        <5>3. QED
          BY <1>1, <1>2, <5>1, <5>2 DEF Readable, RoomForMessages
      <4>2. QED
        BY <1>3, <2>3, <2>6, <4>1, Sizes
    <3>3. QED
      BY <1>1, <2>4, <2>5, <2>8, <3>1, <3>2, Sizes
  <2>9. QED
    BY <2>2, <2>7, <2>8
<1>9. QED
  BY <1>5, <1>6, <1>7, <1>8 DEF ProcessingStates

\* A read is pending for more of the stream.
LEMMA RefreshLasts ==
    ASSUME NEW h, Parsing(h), Readable(h), NEW state \in ProcessingStates, NEW limit \in Nat,
           Unread(h) + limit = MaxBytesNeeded(h, state), Expecting(h, state),
           Located(h, state)
    PROVE  Lasts(Refresh(h, state, limit))
<1> DEFINE g == Refresh(h, state, limit)
<1>1. h \in HandlerStates /\ h.checks /\ h.open /\ h.posted = 0
  BY DEF Parsing, Framed
<1>2. h.at \in Nat /\ h.base \in Nat /\ h.got \in Nat /\ h.at <= h.got /\ h.base <= h.at
  BY <1>1, FieldTypes DEF Parsing, Framed
<1>3. ~ (limit > BufferSize - (h.got - h.base))
  <2>1. h.at + MaxBytesNeeded(h, state) <= BufferSize + h.base
    BY RoomLemma
  <2> DEFINE m == MaxBytesNeeded(h, state)
  <2>2. m = (h.got - h.at) + limit
    BY DEF Unread
  <2> HIDE DEF m
  <2>3. h.at + m <= BufferSize + h.base
    BY <2>1 DEF m
  <2>4. QED
    BY <1>2, <2>2, <2>3, Sizes
<1>4. g = [h EXCEPT !.checks = @ /\ h.reading = "none" /\ limit > 0,
                    !.reading = state, !.limit = limit]
  BY <1>3 DEF Refresh
<1> HIDE DEF g
<1>5. /\ g.open /\ g.reading = state /\ g.posted = 0 /\ g.base = h.base /\ g.at = h.at
      /\ g.got = h.got /\ g.stream = h.stream /\ g.delivered = h.delivered
      /\ g.message_size = h.message_size /\ g.payload = h.payload
  BY <1>1, <1>4 DEF HandlerStates
<1>6. Located(g, state)
  BY <1>5 DEF Located, Kept
<1>7. QED
  BY <1>5, <1>6 DEF Lasts, g

\* The message ends where the next one begins.
LEMMA DeliverLasts ==
    ASSUME NEW h, Parsing(h), InMessage(h), NEW bytes,
           h.got <= StartOf(h.stream, Len(h.stream.msgs) + 1),
           h.at = StartOf(h.stream, Len(h.delivered) + 2), Kept(h, Len(h.delivered) + 2)
    PROVE  Lasts(DeliverMessage(h, bytes))
<1> DEFINE m == [Message(h) EXCEPT !.size = bytes]
           d == Append(h.delivered, m)
           c == h.handshake_complete \/ (bytes > 0 /\ Message(h).tag = "login")
           g == DeliverMessage(h, bytes)
<1>1. h \in HandlerStates /\ h.open /\ h.reading = "none" /\ h.posted = 0
  BY DEF Parsing, Framed
<1>2. g = [h EXCEPT !.posted = 1, !.delivered = d, !.handshake_complete = c]
  BY <1>1 DEF DeliverMessage
<1>3. h.delivered \in Seq(Messages) /\ h.stream.msgs \in Seq(Messages)
  BY <1>1, FieldTypes
<1>4. Len(d) + 1 = Len(h.delivered) + 2 /\ Len(d) + 1 <= Len(h.stream.msgs) + 1
  <2> HIDE DEF m
  <2>1. Len(d) = Len(h.delivered) + 1
    BY <1>3
  <2>2. QED
    BY <1>3, <2>1 DEF InMessage
<1> HIDE DEF d, c, g
<1>5. /\ g.open /\ g.reading = "none" /\ g.base = h.base /\ g.at = h.at
      /\ g.got = h.got /\ g.stream = h.stream /\ g.delivered = d
  BY <1>1, <1>2 DEF HandlerStates
<1>6. Located(g, "TAG_AND_SIZE")
  BY <1>4, <1>5 DEF Located, Kept
<1>7. QED
  BY <1>5, <1>6 DEF Lasts, g


\* OnGotMessageBytes, given as many bytes as it waited for.
LEMMA BytesLasts ==
    ASSUME NEW h, Parsing(h), Readable(h), InMessage(h), h.message_size = Message(h).size,
           h.message_size > 0 /\ h.message_size < PacketLimit => Unread(h) = h.message_size,
           h.message_size >= PacketLimit => h.payload + Unread(h) <= h.message_size,
           Located(h, "PROTO_BYTES")
    PROVE  Lasts(OnGotMessageBytes(h))
<1> DEFINE g == [h EXCEPT !.timer = FALSE]
           copied == [TakeUnread(g) EXCEPT !.payload = @ + Unread(g),
                                           !.checks = @ /\ g.payload + Unread(g) <= g.message_size]
           more == [RebuildBuffer(copied) EXCEPT !.timer = TRUE]
           p == h.payload + Unread(h)
           end == StartOf(h.stream, Len(h.delivered) + 2)
<1>1. h \in HandlerStates /\ h.checks
  BY DEF Parsing, Framed
<1>2. /\ h.at \in Nat /\ h.got \in Nat /\ h.base \in Nat /\ h.payload \in Nat
      /\ h.message_size \in Nat /\ h.at <= h.got /\ Len(h.delivered) \in Nat
  BY <1>1, FieldTypes DEF Parsing, Framed
<1>3. Unread(h) \in Nat /\ p \in Nat /\ h.got = h.at + Unread(h)
  BY <1>2 DEF Unread
<1>4. /\ g \in HandlerStates /\ ~ g.timer /\ g.checks /\ g.open = h.open
      /\ g.reading = h.reading /\ g.posted = h.posted /\ g.base = h.base
      /\ g.at = h.at /\ g.got = h.got /\ g.stream = h.stream
      /\ g.delivered = h.delivered /\ g.reports = h.reports /\ g.msg = h.msg
      /\ g.handshake_complete = h.handshake_complete
      /\ g.message_size = h.message_size /\ g.payload = h.payload
  BY <1>1 DEF HandlerStates
<1> HIDE DEF g
<1>5. Parsing(g) /\ InMessage(g) /\ Message(g) = Message(h) /\ Unread(g) = Unread(h)
  BY <1>4 DEF Parsing, Framed, Greeted, InMessage, Message, Unread
<1>6. /\ Message(h).parses /\ Message(h).tag # "invalid"
      /\ Len(h.delivered) + 1 \in 1..Len(h.stream.msgs)
      /\ Message(h) = h.stream.msgs[Len(h.delivered) + 1]
      /\ end \in Nat
  <2>1. Len(h.delivered) + 2 \in 1..(Len(h.stream.msgs) + 1) /\ h.stream \in Streams
    BY <1>1, <1>2, FieldTypes, CleanMessage DEF Readable
  <2>2. QED
    BY <1>1, <2>1, StartLemma, CleanMessage DEF Readable
<1>7. /\ h.got <= StartOf(h.stream, Len(h.stream.msgs) + 1)
      /\ h.at + h.message_size = end + h.payload
      /\ \/ h.payload = 0 /\ Kept(h, Len(h.delivered) + 1)
         \/ h.base = h.at /\ h.message_size >= PacketLimit
  <2>1. (Len(h.delivered) + 1) + 1 = Len(h.delivered) + 2
    BY <1>2
  <2>2. h.at + h.message_size = StartOf(h.stream, (Len(h.delivered) + 1) + 1) + h.payload
    BY DEF Located
  <2>3. h.at + h.message_size = end + h.payload
    BY <2>1, <2>2, Zenon
  <2>4. QED
    BY <2>3 DEF Located
<1>e. /\ end \in Nat /\ h.at + h.message_size = end + h.payload
      /\ \/ h.payload = 0
         \/ h.message_size >= PacketLimit
  BY <1>6, <1>7
<1> HIDE DEF end
<1>8. ASSUME NEW n \in Nat, NEW t \in BOOLEAN
      PROVE  LET r == Taken(g, n, t)
             IN  /\ Parsing(r) /\ InMessage(r) /\ Message(r) = Message(h)
                 /\ r.timer = t /\ Unread(r) = 0 /\ r.payload = n
                 /\ r.stream = h.stream /\ r.delivered = h.delivered
                 /\ r.message_size = h.message_size
                 /\ r.at = h.got /\ r.base = h.got /\ r.got = h.got
  <2> DEFINE r == Taken(g, n, t)
  <2>1. /\ Parsing(r) /\ r.timer = t /\ Unread(r) = 0 /\ r.payload = n
        /\ r.stream = g.stream /\ r.delivered = g.delivered
        /\ r.reports = g.reports /\ r.msg = g.msg /\ r.message_size = g.message_size
    BY <1>5, <1>8, TakenLemma
  <2>2. r.at = g.got /\ r.base = g.got /\ r.got = g.got
    BY <1>4 DEF Taken, HandlerStates
  <2> HIDE DEF r
  <2>3. InMessage(r) /\ Message(r) = Message(h)
    BY <1>4, <1>5, <2>1 DEF InMessage, Message
  <2>4. QED
    BY <1>4, <2>1, <2>2, <2>3 DEF r
<1>9. ASSUME NEW n \in Nat, NEW bytes, h.got = end
      PROVE  Lasts(DeliverMessage(Taken(g, n, FALSE), bytes))
  <2> DEFINE r == Taken(g, n, FALSE)
  <2>1. /\ Parsing(r) /\ InMessage(r) /\ r.stream = h.stream /\ r.delivered = h.delivered
        /\ r.at = h.got /\ r.base = h.got /\ r.got = h.got
    BY <1>8, <1>9
  <2> HIDE DEF r
  <2>2. Kept(r, Len(r.delivered) + 2)
    <3>1. Len(h.delivered) + 2 \in 1..(Len(h.delivered) + 2)
      BY <1>2
    <3>2. \A i \in (Len(h.delivered) + 2)..((Len(h.delivered) + 2) - 1) :
              h.stream.msgs[i].size = 0
      BY <1>2
    <3>3. QED
      BY <1>9, <2>1, <3>1, <3>2 DEF Kept, end
  <2>3. r.at = StartOf(r.stream, Len(r.delivered) + 2)
    BY <1>9, <2>1 DEF end
  <2>4. r.got <= StartOf(r.stream, Len(r.stream.msgs) + 1)
    BY <1>7, <2>1
  <2>5. Lasts(DeliverMessage(r, bytes))
    BY <2>1, <2>2, <2>3, <2>4, DeliverLasts
  <2>6. QED
    BY <2>5 DEF r
<1>10. CASE h.message_size = 0
  <2>a. h.payload = 0
    BY <1>2, <1>e, <1>10, Sizes
  <2>1. h.payload = 0 /\ Kept(h, Len(h.delivered) + 1) /\ h.at = end
    BY <1>2, <1>e, <1>7, <1>10, <2>a, Sizes
  <2>2. Kept(g, Len(g.delivered) + 2)
    <3>1. PICK k \in 1..(Len(h.delivered) + 1) :
              /\ h.base = StartOf(h.stream, k)
              /\ \A i \in k..((Len(h.delivered) + 1) - 1) : h.stream.msgs[i].size = 0
      BY <2>1 DEF Kept
    <3>2. k \in 1..(Len(h.delivered) + 2)
      BY <1>2
    <3>3. ASSUME NEW i \in k..((Len(h.delivered) + 2) - 1)
          PROVE  h.stream.msgs[i].size = 0
      <4>1. i \in k..((Len(h.delivered) + 1) - 1) \/ i = Len(h.delivered) + 1
        BY <1>2
      <4>2. QED
        BY <1>6, <1>10, <3>1, <4>1
    <3>4. QED
      BY <1>4, <3>1, <3>2, <3>3 DEF Kept
  <2>3. /\ g.got <= StartOf(g.stream, Len(g.stream.msgs) + 1)
        /\ g.at = StartOf(g.stream, Len(g.delivered) + 2)
    BY <1>4, <1>7, <2>1 DEF end
  <2>4. Lasts(DeliverMessage(g, 0))
    BY <1>5, <2>2, <2>3, DeliverLasts
  <2>5. OnGotMessageBytes(h) = DeliverMessage(g, 0)
    BY <1>4, <1>5, <1>6, <1>10 DEF OnGotMessageBytes, g
  <2>6. QED
    BY <2>4, <2>5
<1>11. CASE h.message_size > 0 /\ h.message_size < PacketLimit
  <2>1. RebuildBuffer(TakeUnread(g)) = Taken(g, h.payload, FALSE)
    BY <1>1, <1>4 DEF RebuildBuffer, TakeUnread, Taken, HandlerStates
  <2>2. h.payload = 0 /\ Unread(h) = h.message_size
    BY <1>2, <1>7, <1>11, Sizes
  <2>3. h.got = end
    BY <1>2, <1>3, <1>6, <1>7, <2>2
  <2>4. Lasts(DeliverMessage(Taken(g, h.payload, FALSE), Unread(h)))
    BY <1>2, <1>9, <2>3
  <2>5. h.message_size # 0
    BY <1>2, <1>11
  <2>6. QED
    BY <1>4, <1>5, <1>6, <1>11, <2>1, <2>4, <2>5 DEF OnGotMessageBytes, g
<1>12. CASE h.message_size >= PacketLimit
  <2>1. h.message_size # 0 /\ ~ (h.message_size < PacketLimit) /\ p <= h.message_size
    BY <1>2, <1>12, Sizes
  <2>2. copied = [g EXCEPT !.at = h.got, !.payload = p, !.checks = TRUE]
    BY <1>1, <1>4, <1>5, <2>1 DEF TakeUnread, HandlerStates
  <2>3. h.got + h.message_size = end + p
    <3> DEFINE u == Unread(h)
    <3>1. u \in Nat /\ h.got = h.at + u /\ h.at + h.message_size = end + h.payload
      BY <1>3, <1>e
    <3> HIDE DEF u
    <3>2. h.got + h.message_size = (h.at + h.message_size) + u
      BY <1>2, <3>1
    <3>3. h.got + h.message_size = (end + h.payload) + u
      BY <3>1, <3>2
    <3>4. (end + h.payload) + u = end + (h.payload + u)
      BY <1>2, <1>e, <3>1
    <3>5. QED
      BY <3>3, <3>4 DEF u
  <2> HIDE DEF p, copied
  <2>4. copied.payload = p
    BY <1>4, <2>2 DEF HandlerStates
  <2>5. RebuildBuffer(copied) = Taken(g, p, FALSE)
    BY <1>1, <1>4, <2>2, ZenonT(30) DEF RebuildBuffer, Taken, HandlerStates
  <2>6. more = Taken(g, p, TRUE)
    BY <1>1, <1>4, <2>2 DEF RebuildBuffer, Taken, HandlerStates
  <2>7. Message(g).tag # "invalid" /\ Message(g).parses
    BY <1>5, <1>6
  <2>8. CASE p < h.message_size
    <3> DEFINE r == Taken(g, p, TRUE)
    <3>1. /\ Parsing(r) /\ InMessage(r) /\ Message(r) = Message(h)
          /\ r.timer /\ Unread(r) = 0 /\ r.payload = p
          /\ r.stream = h.stream /\ r.delivered = h.delivered
          /\ r.message_size = h.message_size
          /\ r.at = h.got /\ r.base = h.got /\ r.got = h.got
      BY <1>3, <1>8
    <3>2. OnGotMessageBytes(h) = Refresh(r, "PROTO_BYTES", BytesNeeded(r))
      BY <1>4, <2>1, <2>4, <2>6, <2>7, <2>8 DEF OnGotMessageBytes, g, copied
    <3> HIDE DEF r
    <3>3. r \in HandlerStates
      BY <3>1 DEF Parsing, Framed
    <3>4. r.message_size > 0 /\ r.payload < r.message_size
      BY <1>2, <2>1, <2>8, <3>1
    <3>5. BytesNeeded(r) \in Nat /\ BytesNeeded(r) > 0
      BY <3>3, <3>4, BytesNeededLemma
    <3>6. Expecting(r, "PROTO_BYTES")
      BY <3>1, <3>4 DEF Expecting, InBody
    <3>7. Unread(r) + BytesNeeded(r) = MaxBytesNeeded(r, "PROTO_BYTES")
      BY <3>1, <3>5 DEF MaxBytesNeeded
    <3>8. Located(r, "PROTO_BYTES")
      <4>1. r.at + r.message_size = StartOf(r.stream, (Len(r.delivered) + 1) + 1) + r.payload
        <5>1. (Len(h.delivered) + 1) + 1 = Len(h.delivered) + 2
          BY <1>2
        <5>2. QED
          BY <2>3, <3>1, <5>1 DEF end
      <4>2. Len(r.delivered) + 1 <= Len(r.stream.msgs) + 1
        BY <3>1 DEF Located
      <4>3. QED
        BY <1>7, <1>12, <3>1, <4>1, <4>2 DEF Located
    <3>9. Readable(r)
      BY <3>1 DEF Readable
    <3>10. Lasts(Refresh(r, "PROTO_BYTES", BytesNeeded(r)))
      BY <3>1, <3>5, <3>6, <3>7, <3>8, <3>9, RefreshLasts DEF ProcessingStates
    <3>11. QED
      BY <3>2, <3>10
  <2>9. CASE ~ (p < h.message_size)
    <3>1. p = h.message_size /\ h.got = end
      BY <1>2, <1>3, <1>e, <2>1, <2>3, <2>9
    <3>2. Lasts(DeliverMessage(Taken(g, p, FALSE), p))
      BY <1>3, <1>9, <3>1
    <3>3. QED
      BY <1>4, <2>1, <2>4, <2>5, <2>7, <2>9, <3>2 DEF OnGotMessageBytes, g, copied
  <2>10. QED
    BY <2>8, <2>9
<1>13. QED
  BY <1>2, <1>10, <1>11, <1>12, Sizes


\* WaitForData(MCS_PROTO_BYTES) once the size is known.
LEMMA WaitForBytesLasts ==
    ASSUME NEW h, Parsing(h), Readable(h), InMessage(h), h.message_size = Message(h).size,
           h.message_size > 0, h.payload = 0, Unread(h) + Message(h).varint <= SizeMax,
           Located(h, "PROTO_BYTES")
    PROVE  Lasts(WaitForBytes(h))
<1> DEFINE g == [h EXCEPT !.timer = TRUE]
<1>1. h \in HandlerStates /\ h.checks
  BY DEF Parsing, Framed
<1>2. /\ h.at \in Nat /\ h.got \in Nat /\ h.payload \in Nat
      /\ h.message_size \in Nat /\ h.at <= h.got
  BY <1>1, FieldTypes DEF Parsing, Framed
<1>3. Unread(h) \in Nat
  BY <1>2 DEF Unread
<1>4. /\ g \in HandlerStates /\ g.timer /\ g.checks /\ g.open = h.open
      /\ g.reading = h.reading /\ g.posted = h.posted /\ g.base = h.base
      /\ g.at = h.at /\ g.got = h.got /\ g.stream = h.stream
      /\ g.delivered = h.delivered /\ g.reports = h.reports /\ g.msg = h.msg
      /\ g.handshake_complete = h.handshake_complete
      /\ g.message_size = h.message_size /\ g.payload = h.payload
  BY <1>1 DEF HandlerStates
<1>5. WaitForBytes(h) = IF BytesNeeded(g) > Unread(g)
                        THEN Refresh(g, "PROTO_BYTES", BytesNeeded(g) - Unread(g))
                        ELSE OnGotMessageBytes(g)
  BY DEF WaitForBytes
<1> HIDE DEF g
<1>6. Parsing(g) /\ InMessage(g) /\ Message(g) = Message(h) /\ Unread(g) = Unread(h)
  BY <1>4 DEF Parsing, Framed, Greeted, InMessage, Message, Unread
<1>7. Readable(g) /\ Located(g, "PROTO_BYTES")
  BY <1>4 DEF Readable, Located, Kept
<1>8. /\ Message(h).varint \in Nat /\ Message(h).varint > 0
      /\ Message(h).size = 0 \/ Message(h).varint + Message(h).size >= SizeMax
  BY <1>1, MessageType DEF Readable
<1>9. g.message_size \in Nat /\ g.message_size > 0 /\ g.payload = 0
  BY <1>2, <1>4
<1>10. /\ BytesNeeded(g) \in Nat /\ BytesNeeded(g) > 0
       /\ g.message_size < PacketLimit => BytesNeeded(g) = g.message_size
       /\ g.message_size >= PacketLimit => BytesNeeded(g) = PacketLimit
  BY <1>4, <1>9, BytesNeededLemma
<1>11. CASE BytesNeeded(g) > Unread(g)
  <2> DEFINE limit == BytesNeeded(g) - Unread(g)
  <2>1. limit \in Nat /\ Unread(g) + limit = BytesNeeded(g)
    BY <1>3, <1>6, <1>10, <1>11
  <2> HIDE DEF limit
  <2>2. Expecting(g, "PROTO_BYTES")
    BY <1>4, <1>6, <1>9 DEF Expecting, InBody
  <2>3. Unread(g) + limit = MaxBytesNeeded(g, "PROTO_BYTES")
    BY <2>1 DEF MaxBytesNeeded
  <2>4. Lasts(Refresh(g, "PROTO_BYTES", limit))
    BY <1>6, <1>7, <2>1, <2>2, <2>3, RefreshLasts DEF ProcessingStates
  <2>5. QED
    BY <1>5, <1>11, <2>4 DEF limit
<1>12. CASE ~ (BytesNeeded(g) > Unread(g))
  <2>1. g.message_size < PacketLimit /\ Unread(g) >= g.message_size
    BY <1>3, <1>6, <1>8, <1>9, <1>10, <1>12, Sizes
  <2>2. Unread(g) = g.message_size
    BY <1>3, <1>4, <1>6, <1>8, <1>9, <2>1, Sizes
  <2>3. ~ (g.message_size >= PacketLimit)
    BY <1>9, <2>1, Sizes
  <2>4. g.message_size = Message(g).size
    BY <1>4, <1>6
  <2>5. Lasts(OnGotMessageBytes(g))
    BY <1>6, <1>7, <2>2, <2>3, <2>4, BytesLasts
  <2>6. QED
    BY <1>5, <1>12, <2>5
<1>13. QED
  BY <1>11, <1>12

\* OnGotMessageSize, with a part of the size packet at least.
LEMMA SizeLasts ==
    ASSUME NEW h, Parsing(h), Readable(h), InMessage(h), Unread(h) > 0,
           Unread(h) <= SizeMax, LoginFirst => h.timer, Located(h, "SIZE")
    PROVE  Lasts(OnGotMessageSize(h))
<1> DEFINE v == Message(h).varint
           size == Message(h).size
           n == Len(h.delivered) + 1
<1>1. h \in HandlerStates /\ h.checks
  BY DEF Parsing, Framed
<1>2. /\ h.at \in Nat /\ h.got \in Nat /\ h.base \in Nat /\ h.at <= h.got /\ h.base <= h.at
      /\ Len(h.delivered) \in Nat
  BY <1>1, FieldTypes DEF Parsing, Framed
<1>3. Unread(h) \in Nat
  BY <1>2 DEF Unread
<1>4. v \in Nat /\ v > 0 /\ v <= SizeMax /\ size \in Nat
  BY <1>1, MessageType, CleanMessage DEF Readable
<1>5. CASE Unread(h) >= v
  <2> DEFINE at == h.at + v
             g == [h EXCEPT !.at = at, !.message_size = size,
                            !.size_packet_so_far = 0, !.payload = 0]
  <2>1. /\ at \in Nat /\ at <= h.got /\ h.base <= at
        /\ h.got - at = Unread(h) - v /\ 0 \in 0..(SizeMax - 1)
    BY <1>2, <1>4, <1>5, Sizes DEF Unread
  <2>2. OnGotMessageSize(h) = IF g.message_size > 0 THEN WaitForBytes(g)
                              ELSE OnGotMessageBytes(g)
    BY <1>4, <1>5 DEF OnGotMessageSize
  <2>3. at + size = StartOf(h.stream, n + 1) + 0
    <3>1. StartOf(h.stream, n) \in Nat /\ h.at = StartOf(h.stream, n) + 1
      BY <1>1, CleanMessage DEF Readable, Located
    <3>2. StartOf(h.stream, Len(h.delivered) + 2) = StartOf(h.stream, n) + 1 + v + size
      BY <1>1, CleanMessage DEF Readable
    <3>3. n + 1 = Len(h.delivered) + 2
      BY <1>2
    <3>4. StartOf(h.stream, n + 1) = StartOf(h.stream, n) + 1 + v + size
      BY <3>2, <3>3, Zenon
    <3> HIDE DEF n, v, size
    <3>5. QED
      BY <1>2, <1>4, <3>1, <3>4
  <2>4. g = [h EXCEPT !.at = at, !.message_size = size,
                      !.size_packet_so_far = 0, !.payload = 0]
    OBVIOUS
  <2> HIDE DEF at, g, size
  <2>5. g \in HandlerStates
    BY <1>1, <1>4, <2>1, <2>4 DEF HandlerStates
  <2>6. /\ g.checks /\ g.open = h.open /\ g.reading = h.reading
        /\ g.posted = h.posted /\ g.base = h.base /\ g.at = at /\ g.got = h.got
        /\ g.stream = h.stream /\ g.delivered = h.delivered
        /\ g.reports = h.reports /\ g.msg = h.msg
        /\ g.handshake_complete = h.handshake_complete
        /\ g.message_size = size /\ g.payload = 0
    BY <1>1, <2>4 DEF HandlerStates
  <2>7. /\ Parsing(g) /\ InMessage(g) /\ Message(g) = Message(h)
    BY <2>1, <2>5, <2>6 DEF Parsing, Framed, Greeted, InMessage, Message
  <2>8. Unread(g) = Unread(h) - v
    BY <2>1, <2>6 DEF Unread
  <2>9. g.message_size = Message(g).size
    BY <2>6, <2>7 DEF size
  <2>10. Unread(g) + Message(g).varint <= SizeMax
    BY <1>3, <1>4, <2>7, <2>8, Sizes
  <2>11. Readable(g) /\ Located(g, "PROTO_BYTES")
    BY <2>3, <2>6 DEF Readable, Located, Kept
  <2>12. CASE g.message_size > 0
    BY <2>2, <2>6, <2>7, <2>9, <2>10, <2>11, <2>12, WaitForBytesLasts
  <2>13. CASE ~ (g.message_size > 0)
    <3>1. ~ (g.message_size >= PacketLimit)
      BY <1>4, <2>6, <2>13, Sizes
    <3>2. Lasts(OnGotMessageBytes(g))
      BY <2>7, <2>9, <2>11, <2>13, <3>1, BytesLasts
    <3>3. QED
      BY <2>2, <2>13, <3>2
  <2>14. QED
    BY <2>12, <2>13
<1>6. CASE ~ (Unread(h) >= v)
  <2> DEFINE u == Unread(h)
             g == [h EXCEPT !.size_packet_so_far = u, !.checks = h.checks /\ Unread(h) > 0]
             limit == SizeMax - u
  <2>1. ~ (Unread(h) >= SizeMax)
    BY <1>3, <1>4, <1>6, Sizes
  <2>2. OnGotMessageSize(h) = Refresh(g, "SIZE", limit)
    BY <1>6, <2>1 DEF OnGotMessageSize, SizePacketSoFar
  <2>3. g = [h EXCEPT !.size_packet_so_far = u, !.checks = TRUE]
    <3>1. (h.checks /\ Unread(h) > 0) = TRUE
      BY <1>1
    <3>2. QED
      BY <3>1
  <2>4. u \in 0..(SizeMax - 1) /\ limit \in Nat /\ u + limit = SizeMax
    BY <1>3, <2>1, Sizes
  <2> HIDE DEF u, g, limit
  <2>5. g \in HandlerStates
    BY <1>1, <2>3, <2>4 DEF HandlerStates
  <2>6. /\ g.checks /\ g.open = h.open /\ g.reading = h.reading
        /\ g.posted = h.posted /\ g.base = h.base /\ g.at = h.at /\ g.got = h.got
        /\ g.stream = h.stream /\ g.delivered = h.delivered /\ g.timer = h.timer
        /\ g.reports = h.reports /\ g.msg = h.msg
        /\ g.handshake_complete = h.handshake_complete
    BY <1>1, <2>3 DEF HandlerStates
  <2>7. Parsing(g) /\ Expecting(g, "SIZE")
    BY <2>5, <2>6 DEF Parsing, Framed, Greeted, Expecting, InMessage
  <2>8. Unread(g) + limit = MaxBytesNeeded(g, "SIZE")
    BY <2>4, <2>6 DEF MaxBytesNeeded, Unread, u
  <2>9. Readable(g) /\ Located(g, "SIZE")
    BY <2>6 DEF Readable, Located, Kept
  <2>10. Lasts(Refresh(g, "SIZE", limit))
    BY <2>4, <2>7, <2>8, <2>9, RefreshLasts DEF ProcessingStates
  <2>11. QED
    BY <2>2, <2>10
<1>7. QED
  BY <1>5, <1>6

\* OnGotMessageTag, with the first byte of the size packet at least: a message begins
\* here, since the server has sent this byte.
LEMMA TagLasts ==
    ASSUME NEW h, Parsing(h), Readable(h), Unread(h) >= 2, Unread(h) <= 1 + SizeMax,
           Located(h, "TAG_AND_SIZE")
    PROVE  Lasts(OnGotMessageTag(h))
<1> DEFINE next == Len(h.delivered) + 1
           at == h.at + 1
           g == [h EXCEPT !.at = at, !.msg = next, !.timer = TRUE]
<1>1. h \in HandlerStates /\ h.checks
  BY DEF Parsing, Framed
<1>2. /\ h.at \in Nat /\ h.got \in Nat /\ h.base \in Nat /\ h.at <= h.got /\ h.base <= h.at
      /\ h.delivered \in Seq(Messages) /\ h.stream.msgs \in Seq(Messages)
  BY <1>1, FieldTypes DEF Parsing, Framed
<1>3. /\ h.at = StartOf(h.stream, next) /\ next <= Len(h.stream.msgs) + 1
      /\ h.got <= StartOf(h.stream, Len(h.stream.msgs) + 1)
  BY DEF Located
<1>4. next # Len(h.stream.msgs) + 1
  <2>1. SUFFICES ASSUME next = Len(h.stream.msgs) + 1 PROVE FALSE
    OBVIOUS
  <2>2. h.got <= h.at
    BY <1>3, <2>1
  <2>3. QED
    BY <1>2, <2>2 DEF Unread
<1>5. next <= Len(h.stream.msgs)
  BY <1>2, <1>3, <1>4
<1>6. OnGotMessageTag(h) = OnGotMessageSize(g)
  BY <1>3, <1>5 DEF OnGotMessageTag
<1>7. /\ at \in Nat /\ next \in Nat /\ h.base <= at /\ at <= h.got
      /\ h.got - at > 0 /\ h.got - at <= SizeMax
  BY <1>2, Sizes, SMTT(30) DEF Unread
<1>8. g = [h EXCEPT !.at = at, !.msg = next, !.timer = TRUE]
  OBVIOUS
<1> HIDE DEF at, g
<1>9. g \in HandlerStates
  <2> HIDE DEF next
  <2>1. QED
    BY <1>1, <1>7, <1>8 DEF HandlerStates
<1>10. /\ g.checks /\ g.open = h.open /\ g.reading = h.reading
       /\ g.posted = h.posted /\ g.base = h.base /\ g.at = at /\ g.got = h.got
       /\ g.stream = h.stream /\ g.delivered = h.delivered /\ g.timer
       /\ g.reports = h.reports /\ g.msg = next
       /\ g.handshake_complete = h.handshake_complete
  BY <1>1, <1>8 DEF HandlerStates
<1>11. Parsing(g) /\ InMessage(g) /\ Unread(g) > 0 /\ Unread(g) <= SizeMax
  BY <1>5, <1>7, <1>9, <1>10 DEF Parsing, Framed, Greeted, InMessage, Unread
<1>12. Readable(g) /\ Located(g, "SIZE")
  BY <1>3, <1>10 DEF Readable, Located, Kept, at
<1>13. Lasts(OnGotMessageSize(g))
  BY <1>10, <1>11, <1>12, SizeLasts
<1>14. QED
  BY <1>6, <1>13

\* OnGotVersion, with the tag and the first byte of the size packet at least.
LEMMA VersionLasts ==
    ASSUME NEW h, Parsing(h), Readable(h), Unread(h) >= 3, Unread(h) <= 2 + SizeMax,
           h.delivered = << >>, Located(h, "VERSION_TAG_AND_SIZE")
    PROVE  Lasts(OnGotVersion(h))
<1> DEFINE at == h.at + 1
           g == RebuildBuffer([h EXCEPT !.at = at])
<1>1. h \in HandlerStates /\ h.checks
  BY DEF Parsing, Framed
<1>2. h.at = 0 /\ h.got \in Nat /\ h.stream \in Streams /\ h.stream.msgs \in Seq(Messages)
  BY <1>1, FieldTypes DEF Located
<1>3. at = 1 /\ at <= h.got /\ h.got - at >= 2 /\ h.got - at <= 1 + SizeMax
  BY <1>2, Sizes DEF Unread
<1>4. OnGotVersion(h) = OnGotMessageTag(g)
  BY DEF OnGotVersion, Readable, Clean
<1> HIDE DEF at
<1>5. g = [h EXCEPT !.at = at, !.base = at]
  BY <1>1 DEF RebuildBuffer, HandlerStates
<1> HIDE DEF g
<1>6. g \in HandlerStates
  BY <1>1, <1>3, <1>5 DEF HandlerStates
<1>7. /\ g.checks /\ g.open = h.open /\ g.reading = h.reading
      /\ g.posted = h.posted /\ g.base = 1 /\ g.at = 1 /\ g.got = h.got
      /\ g.stream = h.stream /\ g.delivered = << >>
      /\ g.reports = h.reports /\ g.handshake_complete = h.handshake_complete
  BY <1>1, <1>3, <1>5 DEF HandlerStates
<1>8. Parsing(g) /\ Unread(g) >= 2 /\ Unread(g) <= 1 + SizeMax
  BY <1>3, <1>6, <1>7 DEF Parsing, Framed, Greeted, Unread
<1>9. Located(g, "TAG_AND_SIZE")
  <2>1. Len(g.delivered) + 1 = 1 /\ StartOf(g.stream, 1) = 1
    BY <1>2, <1>7, StartLemma
  <2>2. Kept(g, 1)
    <3>1. 1 \in 1..1 /\ \A i \in 1..(1 - 1) : g.stream.msgs[i].size = 0
      OBVIOUS
    <3>2. QED
      BY <1>7, <2>1, <3>1 DEF Kept
  <2>3. 1 <= Len(g.stream.msgs) + 1 /\ g.got <= StartOf(g.stream, Len(g.stream.msgs) + 1)
    BY <1>2, <1>7 DEF Located
  <2>4. QED
    BY <1>7, <2>1, <2>2, <2>3 DEF Located
<1>10. Readable(g)
  BY <1>7 DEF Readable
<1>11. QED
  BY <1>4, <1>8, <1>9, <1>10, TagLasts

\* WaitForData: it reads more, or hands what it has to the method of the state.
LEMMA WaitForDataLasts ==
    ASSUME NEW h, Parsing(h), Readable(h), NEW state \in ProcessingStates,
           Expecting(h, state), Unread(h) <= MaxBytesNeeded(h, state), Located(h, state)
    PROVE  Lasts(WaitForData(h, state))
<1> DEFINE min == MinBytesNeeded(h, state)
           max == MaxBytesNeeded(h, state)
<1>1. h \in HandlerStates /\ h.checks
  BY DEF Parsing, Framed
<1>2. h.at \in Nat /\ h.got \in Nat /\ h.at <= h.got
  BY <1>1, FieldTypes DEF Parsing, Framed
<1>3. Unread(h) \in Nat
  BY <1>2 DEF Unread
<1>4. \/ state = "VERSION_TAG_AND_SIZE" /\ min = 3 /\ max = 2 + SizeMax
      \/ state = "TAG_AND_SIZE" /\ min = 2 /\ max = 1 + SizeMax
      \/ state = "SIZE" /\ min = h.size_packet_so_far + 1 /\ max = SizeMax
      \/ state = "PROTO_BYTES" /\ min = BytesNeeded(h) /\ max = BytesNeeded(h)
  BY DEF ProcessingStates, MinBytesNeeded, MaxBytesNeeded
<1>5. state = "PROTO_BYTES" =>
          /\ BytesNeeded(h) \in Nat /\ BytesNeeded(h) > 0
          /\ h.message_size < PacketLimit => BytesNeeded(h) = h.message_size
          /\ h.message_size >= PacketLimit => h.payload + BytesNeeded(h) <= h.message_size
  BY <1>1, BytesNeededLemma DEF Expecting, InBody
<1>6. min \in Nat /\ max \in Nat /\ min > 0 /\ min <= max
  <2>1. h.size_packet_so_far \in Nat /\ h.size_packet_so_far < SizeMax
    BY <1>1, FieldTypes
  <2> HIDE DEF min, max
  <2>2. QED
    BY <1>4, <1>5, <2>1, Sizes
<1>7. CASE min > Unread(h)
  <2> DEFINE g == IF state = "PROTO_BYTES" THEN [h EXCEPT !.timer = TRUE] ELSE h
             limit == max - Unread(h)
  <2>1. WaitForData(h, state) = Refresh(g, state, limit)
    BY <1>7 DEF WaitForData
  <2>2. limit \in Nat /\ Unread(h) + limit = max
    <3> HIDE DEF min, max
    <3>1. QED
      BY <1>3, <1>6, <1>7
  <2>3. /\ g \in HandlerStates /\ g.checks /\ g.open = h.open
        /\ g.reading = h.reading /\ g.posted = h.posted /\ g.base = h.base
        /\ g.at = h.at /\ g.got = h.got /\ g.stream = h.stream
        /\ g.delivered = h.delivered /\ g.reports = h.reports /\ g.msg = h.msg
        /\ g.handshake_complete = h.handshake_complete
        /\ g.message_size = h.message_size /\ g.payload = h.payload
        /\ state = "PROTO_BYTES" => g.timer
        /\ state # "PROTO_BYTES" => g.timer = h.timer
    BY <1>1 DEF HandlerStates
  <2> HIDE DEF g, limit
  <2>4. Parsing(g) /\ Unread(g) = Unread(h)
    BY <2>3 DEF Parsing, Framed, Greeted, Unread
  <2>5. Expecting(g, state)
    BY <2>3 DEF Expecting, InMessage, InBody, Message
  <2>6. MaxBytesNeeded(g, state) = max
    BY <2>3 DEF MaxBytesNeeded, BytesNeeded
  <2>7. Readable(g) /\ Located(g, state)
    BY <2>3 DEF Readable, Located, Kept
  <2>8. QED
    BY <2>1, <2>2, <2>4, <2>5, <2>6, <2>7, RefreshLasts
<1>8. CASE ~ (min > Unread(h))
  <2>1. Unread(h) >= min /\ Unread(h) <= max
    BY <1>3, <1>6, <1>8
  <2>2. CASE state = "VERSION_TAG_AND_SIZE"
    <3>1. WaitForData(h, state) = OnGotVersion(h)
      BY <1>8, <2>2 DEF WaitForData
    <3>2. Unread(h) >= 3 /\ Unread(h) <= 2 + SizeMax /\ h.delivered = << >>
      BY <1>4, <2>1, <2>2 DEF Expecting
    <3>3. QED
      BY <2>2, <3>1, <3>2, VersionLasts
  <2>3. CASE state = "TAG_AND_SIZE"
    <3>1. WaitForData(h, state) = OnGotMessageTag(h)
      BY <1>8, <2>3 DEF WaitForData
    <3>2. Unread(h) >= 2 /\ Unread(h) <= 1 + SizeMax
      BY <1>4, <2>1, <2>3
    <3>3. QED
      BY <2>3, <3>1, <3>2, TagLasts
  <2>4. CASE state = "SIZE"
    <3>1. WaitForData(h, state) = OnGotMessageSize(h)
      BY <1>8, <2>4 DEF WaitForData
    <3>2. Unread(h) > 0 /\ Unread(h) <= SizeMax
      <4> HIDE DEF min, max
      <4>1. QED
        BY <1>3, <1>4, <1>6, <2>1, <2>4
    <3>3. InMessage(h) /\ (LoginFirst => h.timer)
      BY <2>4 DEF Expecting
    <3>4. QED
      BY <2>4, <3>1, <3>2, <3>3, SizeLasts
  <2>5. CASE state = "PROTO_BYTES"
    <3>1. WaitForData(h, state) = OnGotMessageBytes(h)
      BY <1>8, <2>5 DEF WaitForData
    <3>2. Unread(h) = BytesNeeded(h)
      <4> HIDE DEF min, max
      <4>1. QED
        BY <1>3, <1>4, <1>5, <2>1, <2>5
    <3>3. InMessage(h) /\ h.message_size = Message(h).size /\ h.message_size > 0
      BY <2>5 DEF Expecting, InBody
    <3>4. h.message_size \in Nat /\ h.payload \in Nat
      BY <1>1, FieldTypes
    <3>5. /\ h.message_size < PacketLimit => Unread(h) = h.message_size
          /\ h.message_size >= PacketLimit => h.payload + Unread(h) <= h.message_size
      BY <1>5, <2>5, <3>2, <3>3, <3>4
    <3>6. QED
      BY <2>5, <3>1, <3>3, <3>5, BytesLasts
  <2>6. QED
    BY <2>2, <2>3, <2>4, <2>5 DEF ProcessingStates
<1>9. QED
  BY <1>7, <1>8


\* A read that brings bytes.
LEMMA ReadMoreLasts ==
    ASSUME Settled(handler), Readable(handler), Lasts(handler), ReadMore
    PROVE  Lasts(handler')
<1>1. PICK n \in 1..handler.limit :
          /\ handler.got + n <= StartOf(handler.stream, Len(handler.stream.msgs) + 1)
          /\ handler' = WaitForData([handler EXCEPT !.got = @ + n, !.reading = "none", !.limit = 0],
                                    handler.reading)
  BY DEF ReadMore
<1> DEFINE h == handler
           got == h.got + n
           g == [h EXCEPT !.got = got, !.reading = "none", !.limit = 0]
<1>2. h \in HandlerStates /\ h.checks /\ h.reading # "none"
  BY DEF Settled, Framed, ReadMore
<1>3. /\ h.base \in Nat /\ h.at \in Nat /\ h.got \in Nat /\ h.limit \in Nat
      /\ h.posted \in Nat /\ h.base <= h.at /\ h.at <= h.got
  BY <1>2, FieldTypes DEF Settled, Framed
<1>4. /\ h.open /\ h.posted = 0 /\ Greeted(h)
      /\ Expecting(h, h.reading) /\ ReadBounded(h)
  BY <1>2, <1>3 DEF Settled, ExactlyOne
<1>5. h.reading \in ProcessingStates /\ Located(h, h.reading)
  BY <1>2 DEF HandlerStates, Lasts
<1>6. /\ got \in Nat /\ h.at <= got /\ got - h.at <= Unread(h) + h.limit
      /\ got <= StartOf(h.stream, Len(h.stream.msgs) + 1)
  BY <1>1, <1>3 DEF Unread
<1>7. handler' = WaitForData(g, h.reading)
  BY <1>1
<1> HIDE DEF h, got
<1>8. g \in HandlerStates
  BY <1>2, <1>6 DEF HandlerStates
<1>9. /\ g.checks /\ g.open = h.open /\ g.reading = "none"
      /\ g.posted = h.posted /\ g.base = h.base /\ g.at = h.at /\ g.got = got
      /\ g.stream = h.stream /\ g.delivered = h.delivered /\ g.timer = h.timer
      /\ g.reports = h.reports /\ g.msg = h.msg
      /\ g.handshake_complete = h.handshake_complete
      /\ g.message_size = h.message_size /\ g.payload = h.payload
  BY <1>2 DEF HandlerStates
<1> HIDE DEF g
<1>10. Parsing(g)
  <2>1. Framed(g)
    BY <1>3, <1>6, <1>8, <1>9 DEF Framed
  <2>2. Greeted(g)
    BY <1>4, <1>9 DEF Greeted
  <2>3. QED
    BY <1>4, <1>9, <2>1, <2>2 DEF Parsing
<1>11. Expecting(g, h.reading)
  BY <1>4, <1>9 DEF Expecting, InMessage, InBody, Message
<1>12. MaxBytesNeeded(g, h.reading) = MaxBytesNeeded(h, h.reading)
  BY <1>9 DEF MaxBytesNeeded, BytesNeeded
<1>13. Unread(g) <= MaxBytesNeeded(g, h.reading)
  BY <1>4, <1>6, <1>9, <1>12 DEF ReadBounded, Unread
<1>14. Readable(g) /\ Located(g, h.reading)
  <2>1. Readable(h)
    BY DEF h
  <2>2. QED
    BY <1>5, <1>6, <1>9, <2>1 DEF Readable, Located, Kept
<1>15. QED
  BY <1>5, <1>7, <1>10, <1>11, <1>13, <1>14, WaitForDataLasts

\* The search for the next message.
LEMMA GetNextMessageLasts ==
    ASSUME Settled(handler), Readable(handler), Lasts(handler), GetNextMessage
    PROVE  Lasts(handler')
<1> DEFINE h == handler
           g == [h EXCEPT !.posted = 0, !.checks = TRUE, !.msg = 0, !.message_size = 0]
<1>1. h \in HandlerStates /\ h.checks /\ h.posted > 0
  BY DEF Settled, Framed, GetNextMessage
<1>2. /\ h.base \in Nat /\ h.at \in Nat /\ h.got \in Nat /\ h.posted \in Nat
      /\ h.base <= h.at /\ h.at <= h.got
  BY <1>1, FieldTypes DEF Settled, Framed
<1>3. h.open /\ h.posted = 1 /\ h.reading = "none" /\ Greeted(h) /\ Between(h)
  BY <1>1, <1>2 DEF Settled, ExactlyOne
<1>4. handler' = WaitForData(g, "TAG_AND_SIZE")
  <2>1. handler.posted - 1 = 0
    BY <1>3
  <2>2. (handler.checks /\ handler.open /\ handler.reading = "none") = TRUE
    BY <1>1, <1>3
  <2>3. QED
    BY <2>1, <2>2 DEF GetNextMessage
<1>5. Located(h, "TAG_AND_SIZE") /\ Readable(h)
  BY <1>1 DEF Lasts
<1> HIDE DEF h
<1>6. g \in HandlerStates
  BY <1>1 DEF HandlerStates
<1>7. /\ g.checks /\ g.open = h.open /\ g.reading = h.reading
      /\ g.posted = 0 /\ g.base = h.base /\ g.at = h.at /\ g.got = h.got
      /\ g.stream = h.stream /\ g.delivered = h.delivered /\ g.timer = h.timer
      /\ g.reports = h.reports /\ g.handshake_complete = h.handshake_complete
  BY <1>1 DEF HandlerStates
<1> HIDE DEF g
<1>8. Parsing(g)
  BY <1>2, <1>3, <1>6, <1>7 DEF Parsing, Framed, Greeted
<1>9. Expecting(g, "TAG_AND_SIZE")
  BY <1>3, <1>7 DEF Expecting, Between, Greeted
<1>10. Unread(g) <= MaxBytesNeeded(g, "TAG_AND_SIZE")
  BY <1>2, <1>3, <1>7, Sizes DEF Between, Unread, MaxBytesNeeded
<1>11. Readable(g) /\ Located(g, "TAG_AND_SIZE")
  BY <1>5, <1>7 DEF Readable, Located, Kept
<1>12. QED
  BY <1>4, <1>8, <1>9, <1>10, <1>11, WaitForDataLasts DEF ProcessingStates

\* A connection begins at the beginning of its stream.
LEMMA ConnectedLasts ==
    ASSUME NEW h, Settled(h), ~ h.open, NEW s \in Streams,
           Clean(s), NoSmallBodies, RoomForMessages
    PROVE  Lasts(Connected(h, s))
<1> DEFINE c == [h EXCEPT !.open = TRUE, !.output = "FLUSHING", !.timer = TRUE,
                          !.handshake_complete = FALSE, !.msg = 0, !.message_size = 0,
                          !.posted = 0, !.stream = s, !.delivered = << >>, !.reports = 0]
<1>1. h \in HandlerStates /\ h.checks
  BY DEF Settled, Framed
<1>2. /\ h.base \in Nat /\ h.at \in Nat /\ h.got = 0 /\ h.base <= h.at /\ h.at <= h.got
      /\ h.posted \in Nat
  BY <1>1, FieldTypes DEF Settled, Framed
<1>3. h.base = 0 /\ h.at = 0 /\ h.reading = "none"
  BY <1>2 DEF Settled, ExactlyOne
<1>4. c \in HandlerStates
  <2>1. << >> \in Seq(Messages)
    OBVIOUS
  <2>2. QED
    BY <1>1, <2>1 DEF HandlerStates
<1>5. /\ c.open /\ c.timer /\ ~ c.handshake_complete /\ c.posted = 0
      /\ c.reading = "none" /\ c.base = 0 /\ c.at = 0 /\ c.got = 0 /\ c.checks
      /\ c.stream = s /\ c.delivered = << >> /\ c.reports = 0
  BY <1>1, <1>2, <1>3 DEF HandlerStates
<1>6. Connected(h, s) = WaitForData(c, "VERSION_TAG_AND_SIZE")
  BY DEF Connected
<1> HIDE DEF c
<1>7. Parsing(c) /\ Expecting(c, "VERSION_TAG_AND_SIZE") /\ Unread(c) = 0
  BY <1>4, <1>5 DEF Parsing, Framed, Greeted, Expecting, Unread
<1>8. Unread(c) <= MaxBytesNeeded(c, "VERSION_TAG_AND_SIZE")
  BY <1>7, Sizes DEF MaxBytesNeeded
<1>9. Located(c, "VERSION_TAG_AND_SIZE")
  <2>1. s.msgs \in Seq(Messages)
    BY HandlerAssumption
  <2>2. Len(s.msgs) + 1 \in 1..(Len(s.msgs) + 1) /\ 0 + 1 <= Len(s.msgs) + 1
    BY <2>1
  <2>3. StartOf(s, Len(s.msgs) + 1) \in Nat
    BY <2>2, StartLemma
  <2>4. Len(c.delivered) = 0
    BY <1>5
  <2>5. QED
    BY <1>5, <2>2, <2>3, <2>4 DEF Located
<1>10. Readable(c)
  BY <1>5 DEF Readable
<1>11. QED
  BY <1>6, <1>7, <1>8, <1>9, <1>10, WaitForDataLasts DEF ProcessingStates

Lasting(h) == h.open /\ Clean(h.stream) => Lasts(h)

LEMMA StepLasting ==
    ASSUME NoSmallBodies, RoomForMessages, HandlerIInv, Lasting(handler),
           [HandlerNext]_handlerVars
    PROVE  /\ Lasting(handler')
           /\ (ReadMore \/ GetNextMessage) /\ Clean(handler.stream) => handler'.open
<1>1. Settled(handler) /\ handler \in HandlerStates
  BY DEF HandlerIInv, Settled, Framed
<1>2. handler.open /\ Clean(handler.stream) => Readable(handler) /\ Lasts(handler)
  BY DEF Lasting, Readable
<1>3. CASE ReadMore
  <2>1. handler.open /\ handler'.stream = handler.stream
    BY <1>1, <1>3, ReadMoreLemma DEF Done, Progress
  <2>2. Clean(handler.stream) => Lasts(handler')
    BY <1>1, <1>2, <1>3, <2>1, ReadMoreLasts
  <2>3. QED
    BY <2>1, <2>2 DEF Lasting, Lasts
<1>4. CASE GetNextMessage
  <2>1. handler.open /\ handler'.stream = handler.stream
    BY <1>1, <1>4, GetNextMessageLemma DEF Done, Progress
  <2>2. Clean(handler.stream) => Lasts(handler')
    BY <1>1, <1>2, <1>4, <2>1, GetNextMessageLasts
  <2>3. QED
    BY <2>1, <2>2 DEF Lasting, Lasts
<1>5. CASE InitConnection /\ ~ (ReadMore \/ GetNextMessage)
  <2>1. PICK s \in Streams : handler' = Connected(handler, s)
    BY <1>5 DEF InitConnection
  <2>2. ~ handler.open
    BY <1>5 DEF InitConnection
  <2>3. handler'.stream = s
    BY <1>1, <2>1, <2>2, ConnectedLemma
  <2>4. QED
    BY <1>1, <1>5, <2>1, <2>2, <2>3, ConnectedLasts DEF Lasting
<1>6. ASSUME handler' = Fail(handler), ~ (ReadMore \/ GetNextMessage)
      PROVE  Lasting(handler')
  <2>1. ~ handler'.open
    BY <1>1, <1>6 DEF Fail, CloseConnection, HandlerStates
  <2>2. QED
    BY <2>1 DEF Lasting
<1>7. CASE (ReadFails \/ FlushFails \/ OnTimeout) /\ ~ (ReadMore \/ GetNextMessage)
  <2>1. handler' = Fail(handler)
    BY <1>7 DEF ReadFails, FlushFails, OnTimeout
  <2>2. QED
    BY <1>6, <1>7, <2>1
<1>8. CASE Reset /\ ~ (ReadMore \/ GetNextMessage)
  <2>1. ~ handler'.open
    BY <1>1, <1>8 DEF Reset, CloseConnection, HandlerStates
  <2>2. QED
    BY <1>8, <2>1 DEF Lasting
<1>9. CASE (SendMessage \/ FlushDone) /\ ~ (ReadMore \/ GetNextMessage)
  <2>1. \E o : handler' = [handler EXCEPT !.output = o]
    BY <1>9 DEF SendMessage, FlushDone
  <2>2. /\ handler'.open = handler.open /\ handler'.reading = handler.reading
        /\ handler'.posted = handler.posted /\ handler'.base = handler.base
        /\ handler'.at = handler.at /\ handler'.got = handler.got
        /\ handler'.stream = handler.stream /\ handler'.delivered = handler.delivered
        /\ handler'.message_size = handler.message_size
        /\ handler'.payload = handler.payload
    BY <1>1, <2>1 DEF HandlerStates
  <2>3. Lasting(handler')
    BY <2>2 DEF Lasting, Lasts, Located, Kept
  <2>4. QED
    BY <1>9, <2>3
<1>10. CASE (Finished \/ UNCHANGED handlerVars) /\ ~ (ReadMore \/ GetNextMessage)
  <2>1. handler' = handler
    BY <1>10 DEF Finished, handlerVars
  <2>2. QED
    BY <1>10, <2>1
<1>11. QED
  BY <1>3, <1>4, <1>5, <1>7, <1>8, <1>9, <1>10 DEF HandlerNext

\* A connection on which the server sends nothing wrong is never ended by reading it:
\* framing does not lose its place, however the bytes are cut into reads, and the buffer
\* does not run out of room, as long as no body is so small that the read for its header
\* reaches beyond it and the empty messages in a row leave room for the next one.
THEOREM SoundStreamRead ==
    NoSmallBodies /\ RoomForMessages => (HandlerSpec => SoundStreamSurvives)
<1> SUFFICES ASSUME NoSmallBodies, RoomForMessages
             PROVE  HandlerSpec => SoundStreamSurvives
  OBVIOUS
<1> DEFINE A == /\ ReadMore \/ GetNextMessage
                /\ handler.stream.version
                /\ \A i \in 1..Len(handler.stream.msgs) :
                       LET msg == handler.stream.msgs[i]
                       IN  msg.parses /\ msg.tag # "invalid" /\ msg.varint <= SizeMax
                => handler'.open
           I == HandlerIInv /\ Lasting(handler)
<1>1. HandlerInit => I
  <2>1. HandlerInit => ~ handler.open
    BY DEF HandlerInit
  <2>2. QED
    BY <2>1, InitSettled DEF Lasting
<1>2. I /\ [HandlerNext]_handlerVars => I' /\ [A]_handlerVars
  <2>1. SUFFICES ASSUME I, [HandlerNext]_handlerVars PROVE I' /\ A
    OBVIOUS
  <2>2. HandlerIInv' /\ Lasting(handler')
    BY <2>1, StepSettled, StepLasting
  <2>3. (ReadMore \/ GetNextMessage) /\ Clean(handler.stream) => handler'.open
    BY <2>1, StepLasting
  <2>4. A
    BY <2>3 DEF Clean
  <2>5. QED
    BY <2>2, <2>4
<1> HIDE DEF A, I
<1>3. HandlerSpec => [][A]_handlerVars
  BY <1>1, <1>2, PTL DEF HandlerSpec
<1>4. QED
  BY <1>3 DEF SoundStreamSurvives, A

===============================================================================
