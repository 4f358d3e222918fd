-------------------------- MODULE ConnectionHandler --------------------------
(***************************************************************************)
(* ConnectionHandlerImpl over SocketInputStream and SocketOutputStream     *)
(* (google_apis/gcm/engine/connection_handler_impl, base/socket_stream):   *)
(* the login handshake, the framing of messages out of reads that end      *)
(* anywhere, the read timeout, and the end of a connection.                *)
(*                                                                         *)
(* All of it runs on one sequence. The methods call one another down to a  *)
(* Refresh, which always completes later; each is an operator on the       *)
(* record handler. The bytes of a connection are numbered: base is the     *)
(* first byte in the input buffer, at the next to be parsed (next_pos_ is  *)
(* at - base) and got the end of what was read, and what a byte means      *)
(* follows from the sizes of the messages the server sends.                *)
(***************************************************************************)
EXTENDS Naturals, Sequences, FiniteSetsExt

CONSTANTS
    SizeMax,         \* kSizePacketLenMax
    PacketLimit,     \* kDefaultDataPacketLimit
    BufferSize,      \* kDefaultBufferSize of socket_stream.cc
    Streams,         \* what the server may send: [version : BOOLEAN, msgs]
    MaxConnections   \* calls of Init

\* A message: its tag, the bytes of its size packet (more than SizeMax when the
\* varint does not end), the size of its body, and whether the body parses.
Messages == [tag : {"login", "data", "invalid"}, varint : 1..(SizeMax + 1),
             size : Nat, parses : BOOLEAN]

ASSUME HandlerAssumption ==
    /\ SizeMax \in Nat \ {0}
    /\ PacketLimit \in Nat \ {0}
    /\ BufferSize \in Nat \ {0}
    /\ SizeMax <= PacketLimit      \* 5 and 4 KB
    /\ 2 + SizeMax <= BufferSize   \* 5 and 8 KB
    /\ MaxConnections \in Nat
    /\ Streams # {}
    /\ \A s \in Streams : s.version \in BOOLEAN /\ s.msgs \in Seq(Messages)

VARIABLES handler, connections

handlerVars == <<handler, connections>>

\* The state that WaitForData was called in, while its read is pending.
ProcessingStates == {"VERSION_TAG_AND_SIZE", "TAG_AND_SIZE", "SIZE", "PROTO_BYTES"}

\* The first byte of message k (the version packet is byte 0), and of what
\* follows the last one: ended[i] is the end of message i.
StartOf(s, k) ==
    LET ended[i \in 0..(k - 1)] ==
            IF i = 0 THEN 1 ELSE ended[i - 1] + 1 + s.msgs[i].varint + s.msgs[i].size
    IN  ended[k - 1]

Unread(h) == h.got - h.at

\* posted counts the GetNextMessage tasks whose weak pointer is valid, reading
\* is the pending read if any and limit its read_size_; msg is the number of
\* the message whose tag was read; checks remembers whether every CHECK and
\* DCHECK held.
HandlerStates ==
    [open : BOOLEAN, handshake_complete : BOOLEAN, timer : BOOLEAN,
     reading : ProcessingStates \union {"none"}, limit : Nat, posted : Nat,
     msg : Nat, message_size : Nat, size_packet_so_far : 0..(SizeMax - 1), payload : Nat,
     base : Nat, at : Nat, got : Nat, output : {"none", "EMPTY", "FLUSHING"},
     stream : Streams, delivered : Seq(Messages),
     reports : Nat, checks : BOOLEAN]

\* Mutant: the read timer survives the connection.
CloseConnectionTimed(h) ==
    [h EXCEPT !.handshake_complete = FALSE, !.open = FALSE, !.output = "none",
              !.reading = "none", !.posted = 0]

\* Mutant: the weak pointers survive the connection, and with them the tasks.
CloseConnectionValid(h) ==
    [h EXCEPT !.timer = FALSE, !.handshake_complete = FALSE, !.open = FALSE,
              !.output = "none", !.reading = "none"]

\* The streams go, with their callbacks, and so do the weak pointers.
CloseConnection(h) ==
    [h EXCEPT !.timer = FALSE, !.handshake_complete = FALSE, !.msg = 0,
              !.message_size = 0, !.size_packet_so_far = 0, !.payload = 0,
              !.open = FALSE, !.reading = "none", !.limit = 0,
              !.base = 0, !.at = 0, !.got = 0, !.output = "none", !.posted = 0]

\* Mutant: an error is reported and nobody closes the connection.
ReportOnly(h) == [h EXCEPT !.reports = @ + 1]

\* connection_callback_ with an error, by a handler that has closed the
\* connection or leaves that to its owner: the factory's answer to an error is
\* to Reset the handler.
Fail(h) == [CloseConnection(h) EXCEPT !.reports = @ + 1]

(***************************************************************************)
(* SocketInputStream                                                       *)
(***************************************************************************)

\* Refresh, called by WaitForData, with the errors WaitForData finds afterwards.
Refresh(h, state, limit) ==
    IF limit > BufferSize - (h.got - h.base)
    THEN Fail(h)
    ELSE [h EXCEPT !.checks = @ /\ h.reading = "none" /\ limit > 0,
                   !.reading = state,
                   !.limit = limit]

\* Mutant: consumed bytes keep their place in the buffer.
LeaveBuffer(h) == h

RebuildBuffer(h) == [h EXCEPT !.base = h.at]

(***************************************************************************)
(* The incoming messages                                                   *)
(***************************************************************************)
Message(h) == h.stream.msgs[h.msg]

BytesNeeded(h) ==
    IF h.message_size < PacketLimit THEN h.message_size
    ELSE Min({h.message_size - h.payload, PacketLimit})

\* Next hands every unread byte of the buffer to whoever parses or copies it,
\* whether or not the byte belongs to the message.
TakeUnread(h) == [h EXCEPT !.at = h.got]

\* Mutant: nothing asks for what follows an empty message.
DeliverMessageLast(h, bytes) ==
    [h EXCEPT !.posted = IF bytes = 0 THEN @ ELSE @ + 1,
              !.delivered = Append(@, [Message(h) EXCEPT !.size = bytes]),
              !.handshake_complete = @ \/ (bytes > 0 /\ Message(h).tag = "login")]

\* The message, made of the given number of bytes, goes to read_callback_, and
\* the search for the next one is posted. What the owner does in the callback
\* (send, Reset) follows as a step of its own: nothing of the handler runs after
\* the callback.
DeliverMessage(h, bytes) ==
    [h EXCEPT !.posted = @ + 1,
              !.delivered = Append(@, [Message(h) EXCEPT !.size = bytes]),
              !.handshake_complete = @ \/ (bytes > 0 /\ Message(h).tag = "login")]

OnGotMessageBytes(h) ==
    LET g == [h EXCEPT !.timer = FALSE]
        copied == [TakeUnread(g) EXCEPT !.payload = @ + Unread(g),
                                        !.checks = @ /\ g.payload + Unread(g) <= g.message_size]
    IN  IF Message(g).tag = "invalid" THEN Fail(g)
        ELSE IF g.message_size = 0 THEN DeliverMessage(g, 0)
        ELSE IF g.message_size < PacketLimit
        THEN IF Message(g).parses
             THEN DeliverMessage(RebuildBuffer(TakeUnread(g)), Unread(g))
             ELSE Fail(g)
        ELSE IF copied.payload < g.message_size
        THEN LET more == [RebuildBuffer(copied) EXCEPT !.timer = TRUE]
             IN  Refresh(more, "PROTO_BYTES", BytesNeeded(more))
        ELSE IF Message(g).parses THEN DeliverMessage(RebuildBuffer(copied), copied.payload)
        ELSE Fail(g)

\* WaitForData(MCS_PROTO_BYTES).
WaitForBytes(h) ==
    LET g == [h EXCEPT !.timer = TRUE]
    IN  IF BytesNeeded(g) > Unread(g)
        THEN Refresh(g, "PROTO_BYTES", BytesNeeded(g) - Unread(g))
        ELSE OnGotMessageBytes(g)

SizePacketSoFar(h) == Unread(h)

\* ReadVarint32 takes the size packet, or fails: for good when it had SizeMax
\* bytes, else the bytes are put back and WaitForData(MCS_SIZE) reads on.
OnGotMessageSize(h) ==
    IF Unread(h) >= Message(h).varint /\ Message(h).varint <= SizeMax
    THEN LET g == [h EXCEPT !.at = @ + Message(h).varint,
                            !.message_size = Message(h).size,
                            !.size_packet_so_far = 0,
                            !.payload = 0]
         IN  IF g.message_size > 0 THEN WaitForBytes(g) ELSE OnGotMessageBytes(g)
    ELSE IF Unread(h) >= SizeMax THEN Fail(h)
    ELSE Refresh([h EXCEPT !.size_packet_so_far = SizePacketSoFar(h),
                           !.checks = @ /\ Unread(h) > 0],
                 "SIZE", SizeMax - Unread(h))

\* A tag that is read anywhere but at the start of a message is garbage; the
\* connection cannot recover, and the model ends it.
OnGotMessageTag(h) ==
    LET next == Len(h.delivered) + 1
    IN  IF next <= Len(h.stream.msgs) /\ h.at = StartOf(h.stream, next)
        THEN OnGotMessageSize([h EXCEPT !.at = @ + 1, !.msg = next, !.timer = TRUE])
        ELSE Fail(h)

OnGotVersion(h) ==
    IF h.stream.version
    THEN OnGotMessageTag(RebuildBuffer([h EXCEPT !.at = @ + 1]))
    ELSE Fail(h)

MinBytesNeeded(h, state) ==
    CASE state = "VERSION_TAG_AND_SIZE" -> 3
      [] state = "TAG_AND_SIZE" -> 2
      [] state = "SIZE" -> h.size_packet_so_far + 1
      [] state = "PROTO_BYTES" -> BytesNeeded(h)

\* Mutant: room for the version packet in every header.
MaxBytesWithVersion(h, state) ==
    CASE state = "VERSION_TAG_AND_SIZE" -> 2 + SizeMax
      [] state = "TAG_AND_SIZE" -> 2 + SizeMax
      [] state = "SIZE" -> SizeMax
      [] state = "PROTO_BYTES" -> BytesNeeded(h)

MaxBytesNeeded(h, state) ==
    CASE state = "VERSION_TAG_AND_SIZE" -> 2 + SizeMax
      [] state = "TAG_AND_SIZE" -> 1 + SizeMax
      [] state = "SIZE" -> SizeMax
      [] state = "PROTO_BYTES" -> BytesNeeded(h)

WaitForData(h, state) ==
    IF MinBytesNeeded(h, state) > Unread(h)
    THEN Refresh(IF state = "PROTO_BYTES" THEN [h EXCEPT !.timer = TRUE] ELSE h,
                 state, MaxBytesNeeded(h, state) - Unread(h))
    ELSE CASE state = "VERSION_TAG_AND_SIZE" -> OnGotVersion(h)
           [] state = "TAG_AND_SIZE" -> OnGotMessageTag(h)
           [] state = "SIZE" -> OnGotMessageSize(h)
           [] state = "PROTO_BYTES" -> OnGotMessageBytes(h)

(***************************************************************************)
(* The actions                                                             *)
(***************************************************************************)
HandlerInit ==
    /\ connections = 0
    /\ \E s \in Streams :
           handler = [open |-> FALSE, handshake_complete |-> FALSE, timer |-> FALSE,
                      reading |-> "none", limit |-> 0, posted |-> 0,
                      msg |-> 0, message_size |-> 0, size_packet_so_far |-> 0,
                      payload |-> 0, base |-> 0, at |-> 0, got |-> 0,
                      output |-> "none", stream |-> s, delivered |-> << >>,
                      reports |-> 0, checks |-> TRUE]

\* Init with the Login it calls: the factory closes a connection before it opens
\* the next. stream, delivered and reports begin anew with the connection.
Connected(h, s) ==
    WaitForData([h EXCEPT !.open = TRUE, !.output = "FLUSHING", !.timer = TRUE,
                          !.handshake_complete = FALSE, !.msg = 0, !.message_size = 0,
                          !.posted = 0, !.stream = s, !.delivered = << >>, !.reports = 0],
                "VERSION_TAG_AND_SIZE")

InitConnection ==
    /\ ~ handler.open
    /\ connections < MaxConnections
    /\ connections' = connections + 1
    /\ \E s \in Streams : handler' = Connected(handler, s)

\* SocketInputStream::ReadMore with some of the bytes the server sends, then the
\* WaitForData that was waiting for them.
ReadMore ==
    /\ handler.reading # "none"
    /\ \E n \in 1..handler.limit :
           /\ handler.got + n <= StartOf(handler.stream, Len(handler.stream.msgs) + 1)
           /\ handler' = WaitForData([handler EXCEPT !.got = @ + n, !.reading = "none", !.limit = 0],
                                     handler.reading)
    /\ UNCHANGED connections

\* ReadMore with an error or the end of the stream: WaitForData finds it CLOSED.
ReadFails ==
    /\ handler.reading # "none"
    /\ handler' = Fail(handler)
    /\ UNCHANGED connections

GetNextMessage ==
    /\ handler.posted > 0
    /\ handler' = WaitForData(
           [handler EXCEPT !.posted = @ - 1,
                           !.checks = @ /\ handler.open /\ handler.reading = "none",
                           !.msg = 0,
                           !.message_size = 0],
           "TAG_AND_SIZE")
    /\ UNCHANGED connections

CanSendMessage(h) == h.handshake_complete /\ h.output = "EMPTY"

SendMessage ==
    /\ CanSendMessage(handler)
    /\ handler' = [handler EXCEPT !.output = "FLUSHING"]
    /\ UNCHANGED connections

\* WriteMore has written everything; OnMessageSent tells the owner.
FlushDone ==
    /\ handler.output = "FLUSHING"
    /\ handler' = [handler EXCEPT !.output = "EMPTY"]
    /\ UNCHANGED connections

FlushFails ==
    /\ handler.output = "FLUSHING"
    /\ handler' = Fail(handler)
    /\ UNCHANGED connections

OnTimeout ==
    /\ handler.timer
    /\ handler' = Fail(handler)
    /\ UNCHANGED connections

\* The owner ends the connection: a network change, a heartbeat failure, a Close
\* from the server or a login that was refused.
Reset ==
    /\ handler.open
    /\ handler' = CloseConnection(handler)
    /\ UNCHANGED connections

\* All connections that the bound allows have been used up.
Finished == ~ handler.open /\ connections = MaxConnections /\ UNCHANGED handlerVars

HandlerNext ==
    \/ InitConnection
    \/ ReadMore
    \/ ReadFails
    \/ GetNextMessage
    \/ SendMessage
    \/ FlushDone
    \/ FlushFails
    \/ OnTimeout
    \/ Reset
    \/ Finished

HandlerSpec == HandlerInit /\ [][HandlerNext]_handlerVars

\* Posted tasks run, and bytes that have arrived wake the watcher of the pipe.
HandlerFairSpec ==
    /\ HandlerSpec
    /\ WF_handlerVars(ReadMore)
    /\ WF_handlerVars(GetNextMessage)

(***************************************************************************)
(* Properties                                                              *)
(***************************************************************************)

\* The type of the handler's state.
HandlerTypeOK == handler \in HandlerStates /\ connections \in 0..MaxConnections

\* No CHECK or DCHECK on the input path fails: no Refresh while a read is
\* pending or for nothing, no BackUp of nothing, no task that finds its stream
\* gone or busy, no more payload than the message has. And the state has its type.
HandlerChecksHold == HandlerTypeOK /\ handler.checks

\* An open connection has exactly one way on, a pending read or a posted
\* GetNextMessage, and a closed one has none: never is a connection left
\* without a reader, or are bytes taken by two.
OneReader ==
    (IF handler.reading = "none" THEN 0 ELSE 1) + handler.posted
        = IF handler.open THEN 1 ELSE 0

\* The timeout policy of read_timeout_timer_: it runs throughout the handshake
\* and from the tag of a message to its end, and never while a connection is
\* idle or closed.
TimeoutPolicy ==
    handler.timer <=> /\ handler.open
                      /\ \/ ~ handler.handshake_complete
                         \/ handler.reading \in {"SIZE", "PROTO_BYTES"}

\* A connection on which the server sends nothing wrong does not end by being
\* read: framing never loses its place, and the buffer never runs out of room.
SoundStreamSurvives ==
    [][ /\ ReadMore \/ GetNextMessage
        /\ handler.stream.version
        /\ \A i \in 1..Len(handler.stream.msgs) :
               LET msg == handler.stream.msgs[i]
               IN  msg.parses /\ msg.tag # "invalid" /\ msg.varint <= SizeMax
        => handler'.open ]_handlerVars

Promised == INSTANCE MessageStream WITH
    phase <- IF ~ handler.open THEN "closed"
             ELSE IF handler.delivered = << >> THEN "login" ELSE "open",
    stream <- handler.stream,
    delivered <- handler.delivered,
    reports <- handler.reports

\* However the bytes are cut into reads, and whatever fails when, the owner sees
\* what MessageStream allows: whole messages in order, one report of a failure
\* at most, nothing from a connection that has ended.
ImplementsMessageStream == Promised!StreamSpec

\* While a connection lasts, every message the server has sent on it is
\* delivered in the end.
EverythingDelivered ==
    \A n \in 1..MaxConnections :
        (connections = n /\ handler.open)
            ~> (\/ ~ handler.open
                \/ Len(handler.delivered) = Len(handler.stream.msgs))

===============================================================================
