------------------------------ MODULE MCSSystem ------------------------------
(***************************************************************************)
(* MCSClient with what surrounds it: its connection, the MCS server at the *)
(* other end, the GCM store under it, and the process, which may stop and  *)
(* start again with what the store holds.                                  *)
(*                                                                         *)
(* The server is external. It is modelled from what the client's code and  *)
(* its unit tests take for granted: it counts the packets of a connection, *)
(* puts that count into what it sends, forgets a message for the device    *)
(* once the device has acknowledged it, by stream id or by its persistent  *)
(* id in a login request, and sends it again on later connections until    *)
(* then.                                                                   *)
(***************************************************************************)
EXTENDS MCSClient

CONSTANTS
    ServerIds,        \* persistent ids of the messages the server has for the device
    BaseTicks,        \* TimeTicks when the first process starts
    MaxConnections,   \* bound on logins
    MaxRestarts,      \* bound on crashes of the client's process
    Reboots,          \* whether a restart may be one of the machine
    MaxSelectiveAcks, \* bound on SelectiveAcks
    MaxServerControl, \* bound on pings, idle notifications, closes, login errors
    MaxHeartbeats,    \* bound on the client's own pings
    MaxExpired        \* bound on messages whose TTL runs out

ASSUME SystemAssumption ==
    /\ 0 \notin ServerIds
    /\ {BaseTicks, MaxConnections, MaxRestarts, MaxSelectiveAcks,
        MaxServerControl, MaxHeartbeats, MaxExpired} \subseteq Nat
    /\ Reboots \in BOOLEAN

VARIABLES
    mcs,        \* the client's record, see MCSClient
    db,         \* the store on disk: outgoing [pid, body, hdr], incoming ids
    to_server,  \* packets on the wire to the server, oldest first
    to_client,  \* packets on the wire to the client
    srv,        \* the server
    delivered,  \* how often each server message reached the application
    asked,      \* the messages applications have sent, oldest first
    used        \* how much of each bound is used up

vars == <<mcs, db, to_server, to_client, srv, delivered, asked, used>>

(***************************************************************************)
(* The client's process starts: MCSClient::Initialize with what the store  *)
(* loaded, then MCSClient::Login.                                          *)
(***************************************************************************)

\* The restored packets in the order of their persistent ids, read as numbers.
InOrderOfPid(entries) ==
    LET sorted == CHOOSE s \in [1..Cardinality(entries) -> entries] :
                      \A i, j \in DOMAIN s : i < j => s[i] # s[j] /\ s[i].pid <= s[j].pid
    IN  [i \in DOMAIN sorted |-> [body |-> sorted[i].body, pid |-> sorted[i].pid,
                                  hdr |-> sorted[i].hdr, sid |-> 0]]

NewestWithKey(entries, key) ==
    LET same == {e.pid : e \in {x \in entries : Key(x.body) = key}}
    IN  IF same = {} THEN 0 ELSE CHOOSE p \in same : \A q \in same : q <= p

\* entries: the stored messages to send, keyed: those registered by their key.
Restore(store, entries, keyed, ticks, expired, status) ==
    LET c == [state |-> "CONNECTING",
              to_send |-> InOrderOfPid(entries), to_resend |-> << >>,
              keymap |-> [k \in Keys |-> NewestWithKey(keyed, k)],
              out |-> 1, in |-> 0, last_in |-> 0,
              unacked |-> << >>, acked |-> {}, restored |-> store.in,
              conn |-> "down", flush |-> << >>,
              posted |-> 0, deliver |-> << >>, storeq |-> << >>,
              ticks |-> ticks, expired |-> expired, status |-> status]
        old == store.out \ entries
    IN  Store(Notify(c, {e.body : e \in old}, "TTL_EXCEEDED"),
              RemoveOutgoing({e.pid : e \in old}))

Unexpired(store, expired) == {e \in store.out : e.body \notin expired}

\* Mutant: expired messages enter collapse_key_map_, too.
InitializeWithExpiredKeys(store, ticks, expired, status) ==
    Restore(store, Unexpired(store, expired), store.out, ticks, expired, status)

Initialize(store, ticks, expired, status) ==
    LET entries == Unexpired(store, expired)
    IN  Restore(store, entries, entries, ticks, expired, status)

EmptyStore == [out |-> {}, in |-> {}]

Init ==
    /\ db = EmptyStore
    /\ mcs = Initialize(EmptyStore, BaseTicks, {}, [m \in Messages |-> {}])
    /\ to_server = << >>
    /\ to_client = << >>
    /\ srv = [up |-> FALSE, in |-> 0, told |-> 0, log |-> << >>,
              got |-> {}, bodies |-> {}, forgotten |-> {}]
    /\ delivered = [i \in ServerIds |-> 0]
    /\ asked = << >>
    /\ used = [connections |-> 0, restarts |-> 0, selective |-> 0, control |-> 0,
               heartbeats |-> 0]

Client(c) ==
    mcs' = c /\ UNCHANGED <<db, to_server, to_client, srv, delivered, asked, used>>

(***************************************************************************)
(* The client                                                              *)
(***************************************************************************)

\* An application sends a message it has not sent before; the store may refuse it.
AppSend ==
    \E m \in Messages, accepted \in BOOLEAN :
        /\ \A i \in 1..Len(asked) : asked[i] # m
        /\ asked' = Append(asked, m)
        /\ mcs' = SendMessage(mcs, m, accepted)
        /\ UNCHANGED <<db, to_server, to_client, srv, delivered, used>>

\* A posted MaybeSendMessage runs.
RunMaybeSend ==
    /\ mcs.posted > 0
    /\ Client(MaybeSendMessage([mcs EXCEPT !.posted = @ - 1]))

\* A posted message_received_callback_ runs.
Deliver ==
    /\ mcs.deliver # << >>
    /\ mcs' = [mcs EXCEPT !.deliver = Tail(@)]
    /\ delivered' = [delivered EXCEPT ![Head(mcs.deliver)] = @ + 1]
    /\ UNCHANGED <<db, to_server, to_client, srv, used, asked>>

\* Mutant: the end of a flush does not look at the queue.
FlushDoneWithoutNext ==
    /\ mcs.flush # << >>
    /\ to_server' = Append(to_server, Head(mcs.flush))
    /\ mcs' = [mcs EXCEPT !.flush = << >>]
    /\ UNCHANGED <<db, to_client, srv, delivered, used, asked>>

\* The output stream is empty again: OnMessageSent calls MaybeSendMessage.
FlushDone ==
    /\ mcs.flush # << >>
    /\ to_server' = Append(to_server, Head(mcs.flush))
    /\ mcs' = MaybeSendMessage([mcs EXCEPT !.flush = << >>])
    /\ UNCHANGED <<db, to_client, srv, delivered, used, asked>>

\* HeartbeatManager triggers MCSClient::SendHeartbeat.
SendHeartbeat ==
    /\ mcs.state = "CONNECTED"
    /\ used.heartbeats < MaxHeartbeats
    /\ used' = [used EXCEPT !.heartbeats = @ + 1]
    /\ mcs' = SendControl(mcs, "HeartbeatPing")
    /\ UNCHANGED <<db, to_server, to_client, srv, delivered, asked>>

\* clock_ passes the end of a message's TTL.
Expire ==
    \E m \in Messages \ ZeroTtl :
        /\ m \notin mcs.expired
        /\ Cardinality(mcs.expired) < MaxExpired
        /\ Client([mcs EXCEPT !.expired = @ \cup {m}])

\* The connection breaks: what the server had sent is lost, what the client had
\* written may still arrive.
Disconnect ==
    /\ mcs.conn # "down"
    /\ mcs' = SignalConnectionReset(mcs)
    /\ to_client' = << >>
    /\ UNCHANGED <<db, to_server, srv, delivered, used, asked>>

\* The factory has a new socket: InitHandler asks for the login request and the
\* handler sends it.
Reconnect ==
    /\ mcs.conn = "down"
    /\ used.connections < MaxConnections
    /\ used' = [used EXCEPT !.connections = @ + 1]
    /\ mcs' = ResetStateAndBuildLoginRequest(mcs)
    /\ to_server' = <<LoginRequest(mcs)>>
    /\ to_client' = << >>
    /\ srv' = [srv EXCEPT !.up = FALSE]
    /\ UNCHANGED <<db, delivered, asked>>

\* The handler hands the next packet to the client; a login response also
\* completes the handshake, and a reset empties the wire.
Receive ==
    /\ mcs.conn # "down"
    /\ to_client # << >>
    /\ LET packet == Head(to_client)
           c == IF packet.tag \in {"LoginResponse", "LoginError"}
                THEN [mcs EXCEPT !.conn = "open"] ELSE mcs
       IN  /\ mcs' = HandlePacketFromWire(c, packet)
           /\ to_client' = IF mcs'.conn = "down" THEN << >> ELSE Tail(to_client)
    /\ UNCHANGED <<db, to_server, srv, delivered, used, asked>>

(***************************************************************************)
(* The store executes its operations in order, on its own sequence.        *)
(***************************************************************************)
Applied(store, op) ==
    CASE op.kind = "addOut" ->
           [store EXCEPT !.out = @ \cup {[pid |-> p, body |-> op.body, hdr |-> op.hdr] :
                                           p \in op.ids}]
      [] op.kind = "overwrite" ->
           [store EXCEPT !.out = {e \in @ : e.pid \notin op.ids} \cup
                                 {[pid |-> p, body |-> op.body, hdr |-> op.hdr] :
                                    p \in op.ids}]
      [] op.kind = "removeOut" ->
           [store EXCEPT !.out = {e \in @ : e.pid \notin op.ids}]
      [] op.kind = "addIn" -> [store EXCEPT !.in = @ \cup op.ids]
      [] op.kind = "removeIn" -> [store EXCEPT !.in = @ \ op.ids]

StoreStep ==
    /\ mcs.storeq # << >>
    /\ db' = Applied(db, Head(mcs.storeq))
    /\ mcs' = [mcs EXCEPT !.storeq = Tail(@)]
    /\ UNCHANGED <<to_server, to_client, srv, delivered, used, asked>>

\* The process stops anywhere between two handlers and starts again. TimeTicks
\* goes on counting, unless the machine was restarted too.
Restart ==
    \E ticks \in {mcs.ticks} \cup (IF Reboots THEN {0} ELSE {}) :
        /\ used.restarts < MaxRestarts
        /\ used' = [used EXCEPT !.restarts = @ + 1]
        /\ mcs' = Initialize(db, ticks, mcs.expired, mcs.status)
        /\ to_client' = << >>
        /\ UNCHANGED <<db, to_server, srv, delivered, asked>>

(***************************************************************************)
(* The server (external)                                                   *)
(***************************************************************************)
Packet(tag, id, imm, ids) ==
    [tag |-> tag, id |-> id, imm |-> imm, ids |-> ids, last |-> srv.in]

ServerSends(packet) ==
    /\ srv.up
    /\ mcs.conn # "down"
    /\ to_client' = Append(to_client, packet)
    /\ srv' = [srv EXCEPT !.log = Append(@, packet.id), !.told = srv.in]
    /\ UNCHANGED <<mcs, db, to_server, delivered, asked>>

\* The login request acknowledges the ids it lists; the response has stream id 1.
ServerLogin ==
    /\ to_server # << >>
    /\ Head(to_server).body = "Login"
    /\ to_server' = Tail(to_server)
    /\ \/ /\ srv' = [srv EXCEPT !.up = TRUE, !.in = 1, !.told = 1, !.log = <<0>>,
                                !.forgotten = @ \cup Head(to_server).ids]
          /\ to_client' = <<[tag |-> "LoginResponse", id |-> 0, imm |-> FALSE,
                             ids |-> {}, last |-> 1]>>
          /\ UNCHANGED used
       \/ /\ used.control < MaxServerControl
          /\ used' = [used EXCEPT !.control = @ + 1]
          /\ to_client' = <<[tag |-> "LoginError", id |-> 0, imm |-> FALSE,
                             ids |-> {}, last |-> 0]>>
          /\ UNCHANGED srv
    /\ UNCHANGED <<mcs, db, delivered, asked>>

\* Any other packet: its stream id is its position on the connection, and its
\* last_stream_id_received acknowledges what the server sent up to there.
ServerReceives ==
    /\ to_server # << >>
    /\ srv.up
    /\ LET packet == Head(to_server)
       IN  srv' = [srv EXCEPT
                     !.in = @ + 1,
                     !.got = @ \cup ({packet.hdr} \ {0}),
                     !.bodies = @ \cup ({packet.body} \cap Messages),
                     !.forgotten = @ \cup
                         ({srv.log[i] : i \in {j \in DOMAIN srv.log : j <= packet.last}}
                             \ {0})]
    /\ to_server' = Tail(to_server)
    /\ UNCHANGED <<mcs, db, to_client, delivered, used, asked>>

ServerSendsData ==
    \E id \in ServerIds, imm \in BOOLEAN :
        /\ id \notin srv.forgotten
        /\ \A i \in 1..Len(srv.log) : srv.log[i] # id
        /\ ServerSends(Packet("Data", id, imm, {}))
        /\ UNCHANGED used

\* A packet that says nothing but how far the server has read.
ServerSendsStreamAck ==
    /\ srv.told < srv.in
    /\ ServerSends(Packet("StreamAck", 0, FALSE, {}))
    /\ UNCHANGED used

ServerSendsSelectiveAck ==
    /\ srv.got # {}
    /\ used.selective < MaxSelectiveAcks
    /\ used' = [used EXCEPT !.selective = @ + 1]
    /\ ServerSends(Packet("SelectiveAck", 0, FALSE, srv.got))

ServerSendsControl ==
    \E tag \in {"HeartbeatPing", "IdleNotification", "Close"} :
        /\ used.control < MaxServerControl
        /\ used' = [used EXCEPT !.control = @ + 1]
        /\ ServerSends(Packet(tag, 0, FALSE, {}))

Next ==
    \/ AppSend
    \/ RunMaybeSend
    \/ Deliver
    \/ FlushDone
    \/ SendHeartbeat
    \/ Expire
    \/ Disconnect
    \/ Reconnect
    \/ Receive
    \/ StoreStep
    \/ Restart
    \/ ServerLogin
    \/ ServerReceives
    \/ ServerSendsData
    \/ ServerSendsStreamAck
    \/ ServerSendsSelectiveAck
    \/ ServerSendsControl

Spec == Init /\ [][Next]_vars

(***************************************************************************)
(* Fairness: posted tasks run, the socket's and the store's callbacks      *)
(* come, the factory goes on connecting (ConnectionFactory shows that),    *)
(* and a connected server reads, answers and sends what it has. Nothing is *)
(* assumed of the applications, the heartbeat timer or the failures.       *)
(***************************************************************************)
FairSpec ==
    /\ Spec
    /\ WF_vars(RunMaybeSend) /\ WF_vars(Deliver) /\ WF_vars(FlushDone)
    /\ WF_vars(Receive) /\ WF_vars(StoreStep) /\ WF_vars(Reconnect)
    /\ WF_vars(ServerLogin) /\ WF_vars(ServerReceives)
    /\ WF_vars(ServerSendsData) /\ WF_vars(ServerSendsStreamAck)

(***************************************************************************)
(* Properties                                                              *)
(***************************************************************************)
Queue == mcs.to_resend \o mcs.to_send

PacketType(p) ==
    /\ p.body \in Messages \cup Control
    /\ p.pid \in Nat /\ p.hdr \in Nat /\ p.sid \in Nat
    /\ p.pid # 0 <=> IsReliable(p.body)

\* The types of the client's state and of the wire.
TypeOK ==
    /\ mcs.state \in {"UNINITIALIZED", "LOADED", "CONNECTING", "CONNECTED"}
    /\ \A i \in 1..Len(Queue) : PacketType(Queue[i])
    /\ mcs.keymap \in [Keys -> Nat]
    /\ mcs.out \in Nat /\ mcs.in \in Nat /\ mcs.last_in \in Nat
    /\ TrackedIds(mcs) \subseteq ServerIds
    /\ mcs.conn \in {"down", "handshake", "open"}
    /\ Len(mcs.flush) <= 1
    /\ mcs.status \in [Messages -> SUBSET Statuses]
    /\ delivered \in [ServerIds -> Nat]
    /\ srv.got \subseteq Nat /\ srv.bodies \subseteq Messages

\* collapse_key_map_ holds raw pointers: each points to a packet that is still
\* on to_send_ and has that key.
KeyMapPointsIntoQueue ==
    \A k \in Keys : mcs.keymap[k] # 0 =>
        \E i \in 1..Len(mcs.to_send) :
            /\ mcs.to_send[i].pid = mcs.keymap[k]
            /\ Key(mcs.to_send[i].body) = k

\* HandleStreamAck and HandleSelectiveAck pop prefixes, which is right only if
\* the packets awaiting an acknowledgement are in the order of their stream ids
\* and all reliable packets are in the order of their persistent ids (unless the
\* machine was restarted and TimeTicks is still behind those of stored messages).
QueuesOrdered ==
    /\ \A i, j \in 1..Len(mcs.to_resend) :
           i < j => mcs.to_resend[i].sid < mcs.to_resend[j].sid
    /\ \A i \in 1..Len(mcs.to_resend) : mcs.to_resend[i].sid <= mcs.out
    /\ (\A i \in 1..Len(Queue) : Queue[i].pid <= mcs.ticks) =>
           \A i, j \in 1..Len(Queue) :
               i < j /\ Queue[i].pid # 0 /\ Queue[j].pid # 0 => Queue[i].pid < Queue[j].pid

\* The client's queues are sound: of their type, in order, and safe to point into.
QueuesSound == TypeOK /\ KeyMapPointsIntoQueue /\ QueuesOrdered

\* Whenever something can be sent, something is about to: with an idle open
\* connection and a queued packet a MaybeSendMessage is posted.
NoStall ==
    Reachable(mcs) /\ mcs.state = "CONNECTED" /\ mcs.to_send # << >> => mcs.posted > 0

\* What a store will hold once it has executed these operations.
After(store, ops) ==
    LET after[n \in 0..Len(ops)] ==
            IF n = 0 THEN store ELSE Applied(after[n - 1], ops[n])
    IN  after[Len(ops)]

\* What the store will hold once it has executed all operations handed to it.
Drained == After(db, mcs.storeq)

\* The store follows the queues: a restart after the last write finds exactly
\* the unacknowledged messages, with the contents that would have been sent.
OutgoingStoreInSync ==
    {<<e.pid, e.body>> : e \in Drained.out}
        = {<<Queue[i].pid, Queue[i].body>> : i \in {j \in 1..Len(Queue) : Queue[j].pid # 0}}

\* The store holds exactly the ids of received messages whose acknowledgement
\* the server has not confirmed.
IncomingStoreInSync == Drained.in = TrackedIds(mcs)

Supersedes(m, old) ==
    \E i, j \in 1..Len(asked) :
        i < j /\ asked[i] = old /\ asked[j] = m /\ Key(m) = Key(old) /\ Key(m) # NoKey

\* A message is reported SENT only if the server has received it, or a later
\* message with its collapse key in its place.
SentMeansReceived ==
    \A m \in Messages : "SENT" \in mcs.status[m] =>
        m \in srv.bodies \/ \E n \in srv.bodies : Supersedes(n, m)

Received == {id \in ServerIds : \/ delivered[id] > 0
                                \/ \E i \in 1..Len(mcs.deliver) : mcs.deliver[i] = id}

\* The server forgets a message only after the device has received it: the
\* client's count of the server's packets agrees with the server's.
ForgottenMeansReceived == srv.forgotten \subseteq Received

Copies(id) == delivered[id] + Cardinality({i \in 1..Len(mcs.deliver) : mcs.deliver[i] = id})

\* No server message reaches the application twice while the process lives.
DeliveredOnce == \A id \in ServerIds : Copies(id) <= 1

\* What mcs_client.h says of acked_server_ids_: an id stays tracked until the
\* server has confirmed its acknowledgement, so that the next login repeats it.
AcksTrackedUntilConfirmed == Received \ srv.forgotten \subseteq TrackedIds(mcs)

StaysConnected == <>[](mcs.conn # "down")

\* Once connections stop breaking, every accepted message is reported SENT or
\* expired, or was replaced: no handler leaves the queue without a posted task
\* or a flush that will look at it again.
AcceptedIsResolved ==
    StaysConnected =>
        \A m \in Messages \ ZeroTtl :
            "QUEUED" \in mcs.status[m]
                ~> \/ mcs.status[m] \cap {"SENT", "TTL_EXCEEDED"} # {}
                   \/ \E n \in Messages : Supersedes(n, m)

\* Once connections stop breaking, every message the server has for the device
\* reaches the application, whatever was lost on earlier connections.
ServerMessagesDelivered ==
    StaysConnected => \A id \in ServerIds : <>(delivered[id] > 0)

Refusals == {"QUEUE_SIZE_LIMIT_REACHED", "APP_QUEUE_SIZE_LIMIT_REACHED",
             "MESSAGE_TOO_LARGE"}

\* How far a message has come, by what the application was told of it and by
\* where the client still has it.
Life(m) ==
    LET ends == mcs.status[m] \cap {"SENT", "TTL_EXCEEDED"}
    IN  IF \A i \in 1..Len(asked) : asked[i] # m THEN "new"
        ELSE IF ends = {"SENT"} THEN "sent"
        ELSE IF ends = {"TTL_EXCEEDED"} THEN "expired"
        ELSE IF ends # {} THEN "contradicted"
        ELSE IF m \in Bodies(Queue) THEN "waiting"
        ELSE IF mcs.status[m] \cap Refusals # {} THEN "refused"
        ELSE IF \E n \in Messages : Supersedes(n, m) THEN "replaced"
        ELSE "forgotten"

SharesKey(m, n) == Key(m) = Key(n) /\ Key(m) # NoKey

Promised == INSTANCE ReliableQueue WITH
    Reliable <- Messages \ ZeroTtl,
    SameKey <- SharesKey,
    life <- [m \in Messages \ ZeroTtl |-> Life(m)],
    arrived <- srv.bodies \ ZeroTtl

\* While the process lives, the client keeps the promise of ReliableQueue: no
\* order of breaks, acknowledgements, collapses and resends makes a reliable
\* message vanish, end twice, or be reported sent before the server has it.
ImplementsReliableQueue == Promised!Spec

==============================================================================
