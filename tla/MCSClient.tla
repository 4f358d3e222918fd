------------------------------ MODULE MCSClient ------------------------------
(***************************************************************************)
(* MCSClient (google_apis/gcm/engine/mcs_client): the reliable message     *)
(* queue between applications and the MCS server.                          *)
(*                                                                         *)
(* Everything runs on one sequence and the handlers call each other        *)
(* (HandlePacketFromWire -> SendMessage -> MaybeSendMessage ->             *)
(* SendPacketToWire), so each method is an operator from the client's      *)
(* record before the call to its record after it. MCSSystem turns them     *)
(* into actions and adds the wire, the server and the store.               *)
(*                                                                         *)
(* A client record c has                                                   *)
(*   state       state_                                                    *)
(*   to_send, to_resend   packets [body, pid, hdr, sid]: the message, the  *)
(*               persistent id the client keeps for it (0: not reliable),  *)
(*               the persistent id inside its protobuf, its stream id      *)
(*   keymap      collapse_key_map_: the pid of the packet a key maps to    *)
(*   out, in     stream_id_out_, stream_id_in_                             *)
(*   last_in     last_server_to_device_stream_id_received_                 *)
(*   unacked     unacked_server_ids_, oldest first                         *)
(*   acked       acked_server_ids_ as a set of [sid, id]                   *)
(*   restored    restored_unackeds_server_ids_                             *)
(*   conn, flush the connection handler: down, in the handshake or open,   *)
(*               and the packet its output stream is flushing, if any      *)
(*   posted      the number of posted MaybeSendMessage tasks               *)
(*   deliver     posted message_received_callback_ tasks, oldest first     *)
(*   storeq      operations handed to the store and not yet executed       *)
(*   ticks       base::TimeTicks::Now(), which makes the persistent ids    *)
(*   expired     the messages whose TTL is over by clock_                  *)
(*   status      what message_sent_callback_ was told of each message      *)
(***************************************************************************)
EXTENDS Naturals, Sequences, FiniteSets

CONSTANTS
    Messages,     \* the messages applications send
    ZeroTtl,      \* those with ttl == 0
    Oversized,    \* those above kMaxMessageBytes
    Keys,         \* collapse keys
    KeyOf,        \* the collapse key of each message, or NoKey
    NoKey,
    MaxSendQueue, \* kMaxSendQueueSize
    AckEvery      \* kUnackedMessageBeforeStreamAck

Control == {"StreamAck", "HeartbeatPing", "HeartbeatAck", "IdleReply"}

ASSUME ClientAssumption ==
    /\ Messages \cap (Control \cup {"Login"}) = {}
    /\ ZeroTtl \subseteq Messages
    /\ Oversized \subseteq Messages
    /\ NoKey \notin Keys
    /\ KeyOf \in [Messages -> Keys \cup {NoKey}]
    /\ MaxSendQueue \in Nat
    /\ AckEvery \in Nat \ {0}

\* GetTTL(body) > 0
IsReliable(body) == body \in Messages \ ZeroTtl

Key(body) == IF body \in Messages THEN KeyOf[body] ELSE NoKey

HasTTLExpired(c, body) == IsReliable(body) /\ body \in c.expired

Statuses == {"QUEUED", "SENT", "QUEUE_SIZE_LIMIT_REACHED",
             "APP_QUEUE_SIZE_LIMIT_REACHED", "MESSAGE_TOO_LARGE",
             "NO_CONNECTION_ON_ZERO_TTL", "TTL_EXCEEDED"}

Bodies(packets) == {packets[i].body : i \in 1..Len(packets)}

Pids(packets) == {packets[i].pid : i \in 1..Len(packets)} \ {0}

\* NotifyMessageSendStatus, for a set of messages at once.
Notify(c, bodies, status) ==
    [c EXCEPT !.status = [m \in Messages |->
                            IF m \in bodies THEN @[m] \cup {status} ELSE @[m]]]

\* A call of the store: it takes effect later, in order. An empty list of ids
\* changes nothing.
Store(c, op) ==
    IF op.ids = {} THEN c ELSE [c EXCEPT !.storeq = Append(@, op)]

Op(kind, ids, body, hdr) == [kind |-> kind, ids |-> ids, body |-> body, hdr |-> hdr]

RemoveOutgoing(ids) == Op("removeOut", ids, NoKey, 0)

\* The length of the longest prefix of s all of whose elements satisfy Test.
PrefixLength(s, Test(_)) ==
    CHOOSE n \in 0..Len(s) :
        /\ \A i \in 1..n : Test(s[i])
        /\ n < Len(s) => ~ Test(s[n + 1])

Reachable(c) == c.conn = "open" /\ c.flush = << >>

(***************************************************************************)
(* Sending                                                                 *)
(***************************************************************************)

PopMessageForSend(c) ==
    LET key == Key(Head(c.to_send).body)
    IN  [c EXCEPT !.to_send = Tail(@),
                  !.keymap = [k \in Keys |-> IF k = key THEN 0 ELSE @[k]]]

AckedIds(c) == {a.id : a \in c.acked}

UnackedIds(c) == {c.unacked[i] : i \in 1..Len(c.unacked)}

\* Mutant: ids are forgotten when their acknowledgement is sent.
DropAcknowledged(c) == [c EXCEPT !.unacked = << >>, !.last_in = c.in]

\* The packet being sent, which has stream id out, acknowledges all that was
\* received: the ids that were waiting for that are kept under its stream id.
MarkAcknowledged(c) ==
    IF c.in = c.last_in THEN c
    ELSE [c EXCEPT !.last_in = c.in, !.unacked = << >>,
                   !.acked = @ \cup {[sid |-> c.out, id |-> i] : i \in UnackedIds(c)}]

SendPacketToWire(c, packet) ==
    LET d == MarkAcknowledged([c EXCEPT !.out = @ + 1])
    IN  [d EXCEPT
          !.to_resend = IF packet.pid # 0 THEN Append(@, [packet EXCEPT !.sid = d.out])
                        ELSE @,
          !.flush = <<[body |-> packet.body, hdr |-> packet.hdr, last |-> c.in,
                       ids |-> {}]>>]

MaybeSendMessage(c) ==
    IF c.to_send = << >> \/ ~ Reachable(c) THEN c
    ELSE LET packet == Head(c.to_send)
             d == PopMessageForSend(c)
         IN  IF HasTTLExpired(c, packet.body)
             THEN [Store(Notify(d, {packet.body}, "TTL_EXCEEDED"),
                         RemoveOutgoing({packet.pid}))
                     EXCEPT !.posted = @ + 1]
             ELSE SendPacketToWire(d, packet)

\* Mutant: a collapse is not written to the store.
CollapseInMemory(c, body) ==
    LET pid == c.keymap[Key(body)]
    IN  [c EXCEPT !.to_send = [i \in 1..Len(@) |->
            IF @[i].pid = pid THEN [@[i] EXCEPT !.body = body] ELSE @[i]]]

\* The message takes the place, and the persistent id, of the queued one with
\* its collapse key. The store is given the message without that id.
Collapse(c, body) ==
    LET pid == c.keymap[Key(body)]
        new(p) == IF p.pid = pid THEN [p EXCEPT !.body = body, !.hdr = pid] ELSE p
    IN  Store([c EXCEPT !.to_send = [i \in 1..Len(@) |-> new(@[i])]],
              Op("overwrite", {pid}, body, 0))

Enqueue(c, body, pid) ==
    MaybeSendMessage(
        Notify([c EXCEPT !.to_send = Append(@, [body |-> body, pid |-> pid,
                                                hdr |-> pid, sid |-> 0])],
               {body}, "QUEUED"))

\* A message with ttl > 0: GetNextPersistentId and AddOutgoingMessage, which
\* refuses the message when its application has too many (accepted is FALSE).
SendReliable(c, body, accepted) ==
    LET key == Key(body)
        pid == c.ticks + 1
        d == [c EXCEPT !.ticks = pid]
    IN  IF key # NoKey /\ c.keymap[key] # 0 THEN Collapse(c, body)
        ELSE IF ~ accepted THEN Notify(d, {body}, "APP_QUEUE_SIZE_LIMIT_REACHED")
        ELSE LET e == Store(d, Op("addOut", {pid}, body, pid))
             IN  Enqueue([e EXCEPT !.keymap = [k \in Keys |->
                                       IF k = key THEN pid ELSE @[k]]],
                         body, pid)

SendMessage(c, body, accepted) ==
    IF Len(c.to_send) > MaxSendQueue THEN Notify(c, {body}, "QUEUE_SIZE_LIMIT_REACHED")
    ELSE IF body \in Oversized THEN Notify(c, {body}, "MESSAGE_TOO_LARGE")
    ELSE IF IsReliable(body) THEN SendReliable(c, body, accepted)
    ELSE IF ~ Reachable(c) THEN Notify(c, {body}, "NO_CONNECTION_ON_ZERO_TTL")
    ELSE Enqueue(c, body, 0)

\* The client's own messages have ttl == 0.
SendControl(c, body) == SendMessage(c, body, TRUE)

(***************************************************************************)
(* Connecting                                                              *)
(***************************************************************************)

\* ConnectionFactory::SignalConnectionReset, as far as the client sees it.
SignalConnectionReset(c) == [c EXCEPT !.conn = "down", !.flush = << >>]

\* The server ids the client still has to acknowledge, or has acknowledged
\* without a confirmation.
TrackedIds(c) == UnackedIds(c) \cup AckedIds(c) \cup c.restored

\* The packets with one of these messages, in their order.
WithBody(packets, bodies) ==
    LET select[n \in 0..Len(packets)] ==
            IF n = 0 THEN << >>
            ELSE IF packets[n].body \in bodies THEN Append(select[n - 1], packets[n])
            ELSE select[n - 1]
    IN  select[Len(packets)]

\* Everything starts over, with the messages of queue that are still worth
\* sending.
StartOver(c, queue) ==
    LET worth == {b \in Bodies(queue) : IsReliable(b) /\ ~ HasTTLExpired(c, b)}
        dropped == {i \in 1..Len(queue) : queue[i].body \notin worth}
        d == [c EXCEPT
                !.in = 0, !.out = 1, !.last_in = 0,
                !.unacked = << >>,
                !.acked = {[sid |-> 1, id |-> i] : i \in TrackedIds(c)},
                !.restored = {},
                !.to_resend = << >>,
                !.to_send = WithBody(queue, worth),
                !.keymap = [k \in Keys |->
                              IF \E b \in Bodies(queue) : Key(b) = k THEN 0 ELSE @[k]],
                !.state = "CONNECTING",
                !.conn = "handshake",
                !.flush = << >>]
    IN  Store(Notify(d, {queue[i].body : i \in dropped}, "TTL_EXCEEDED"),
              RemoveOutgoing({queue[i].pid : i \in dropped} \ {0}))

\* Mutant: packets to send again go behind the new ones.
ResendLast(c) == StartOver(c, c.to_send \o c.to_resend)

ResetStateAndBuildLoginRequest(c) == StartOver(c, c.to_resend \o c.to_send)

\* Mutant: the login request leaves out ids acknowledged without a confirmation.
LoginWithUnacked(c) == [body |-> "Login", hdr |-> 0, last |-> 0, ids |-> UnackedIds(c)]

LoginRequest(c) == [body |-> "Login", hdr |-> 0, last |-> 0, ids |-> TrackedIds(c)]

(***************************************************************************)
(* Receiving                                                               *)
(***************************************************************************)

\* Mutant: confirmed ids stay in the store.
ConfirmInMemory(c, device_stream_id) ==
    [c EXCEPT !.acked = {a \in @ : a.sid > device_stream_id}]

HandleServerConfirmedReceipt(c, device_stream_id) ==
    LET confirmed == {a \in c.acked : a.sid <= device_stream_id}
    IN  Store([c EXCEPT !.acked = @ \ confirmed],
              Op("removeIn", {a.id : a \in confirmed}, NoKey, 0))

\* How many of the packets awaiting an acknowledgement have it by now.
Acknowledged(packets, last) == PrefixLength(packets, LAMBDA p : p.sid <= last)

HandleStreamAck(c, last) ==
    LET n == Acknowledged(c.to_resend, last)
        done == SubSeq(c.to_resend, 1, n)
        d == [c EXCEPT !.to_resend = SubSeq(@, n + 1, Len(@))]
    IN  HandleServerConfirmedReceipt(
            Store(Notify(d, Bodies(done), "SENT"), RemoveOutgoing(Pids(done))), last)

\* The stream id of a packet on to_send_ is the one of its last sending.
LastStreamId(packets) ==
    CHOOSE n \in {packets[i].sid : i \in 1..Len(packets)} \cup {0} :
        \A i \in 1..Len(packets) : packets[i].sid <= n

\* How many packets from the front on have one of these persistent ids.
Named(packets, ids) == PrefixLength(packets, LAMBDA p : p.pid \in ids)

\* Mutant: packets the SelectiveAck does not name are not put back to be sent.
SelectiveAckDropsRest(c, ids) ==
    LET n == Named(c.to_resend, ids)
        done == SubSeq(c.to_resend, 1, n)
    IN  [Notify(c, Bodies(done), "SENT") EXCEPT !.to_resend = << >>, !.posted = @ + 1]

HandleSelectiveAck(c, ids) ==
    LET n == Named(c.to_resend, ids)
        first == SubSeq(c.to_resend, 1, n)
        rest == ids \ Pids(first)
        k == Named(c.to_send, rest)
        second == SubSeq(c.to_send, 1, k)
        done == first \o second
        d == [c EXCEPT
                !.to_resend = << >>,
                !.to_send = SubSeq(c.to_resend, n + 1, Len(c.to_resend))
                            \o SubSeq(@, k + 1, Len(@)),
                !.keymap = [key \in Keys |->
                              IF \E b \in Bodies(second) : Key(b) = key THEN 0
                              ELSE @[key]],
                !.posted = @ + 1]
        e == HandleServerConfirmedReceipt(Notify(d, Bodies(done), "SENT"),
                                          LastStreamId(done))
    IN  Store(e, RemoveOutgoing(Pids(done)))

\* What every packet does before its type is looked at.
CountPacket(c, packet) ==
    LET d == IF packet.last # 0 THEN HandleStreamAck(c, packet.last) ELSE c
        e == [d EXCEPT !.in = @ + 1]
        f == IF packet.id = 0 THEN e
             ELSE Store([e EXCEPT !.unacked = Append(@, packet.id)],
                        Op("addIn", {packet.id}, NoKey, 0))
    IN  IF packet.imm \/ (Len(f.unacked) > 0 /\ Len(f.unacked) % AckEvery = 0)
        THEN SendControl(f, "StreamAck") ELSE f

\* Mutant: no MaybeSendMessage is posted after the login.
LoginWithoutTask(c) == [c EXCEPT !.state = "CONNECTED", !.in = 1]

\* Mutant: the login response counts on top of the packet it came in.
LoginCountedTwice(c) ==
    [c EXCEPT !.state = "CONNECTED", !.in = @ + 1,
              !.posted = IF c.to_send = << >> THEN @ ELSE @ + 1]

\* (The login response also goes to message_received_callback_, which has
\* nothing to do with the queues.)
HandleLoginResponse(c) ==
    [c EXCEPT !.state = "CONNECTED", !.in = 1,
              !.posted = IF c.to_send = << >> THEN @ ELSE @ + 1]

HandlePacketFromWire(c, packet) ==
    LET d == CountPacket(c, packet)
    IN  CASE packet.tag = "LoginResponse" -> HandleLoginResponse(d)
          [] packet.tag = "LoginError" ->
               SignalConnectionReset([d EXCEPT !.state = "UNINITIALIZED"])
          [] packet.tag = "HeartbeatPing" -> SendControl(d, "HeartbeatAck")
          [] packet.tag = "Close" -> SignalConnectionReset([d EXCEPT !.state = "LOADED"])
          [] packet.tag = "SelectiveAck" -> HandleSelectiveAck(d, packet.ids)
          [] packet.tag = "IdleNotification" -> SendControl(d, "IdleReply")
          [] packet.tag = "Data" -> [d EXCEPT !.deliver = Append(@, packet.id)]
          [] packet.tag \in {"HeartbeatAck", "StreamAck"} -> d

==============================================================================
