------------------------ MODULE HeartbeatSystem_proofs ------------------------
(***************************************************************************)
(* Proofs about the connection factory, for every backoff policy, every    *)
(* number of endpoints and both features, and about the heartbeat manager  *)
(* and the connection it watches, for every interval, poll period, suspend *)
(* threshold and set of platforms.                                         *)
(*                                                                         *)
(* The first part is about the factory alone, whatever its environment.    *)
(* Its methods are operators on the factory record, so the invariant is    *)
(* stated of a record too: Consistent(f) is what holds between handlers,   *)
(* and a lemma per method says which records it takes to consistent ones.  *)
(*                                                                         *)
(* The second part is about the composition. Its inductive invariant has   *)
(* three parts: the factory's own (IInv), what holds of the manager by     *)
(* itself (Timed), and how the manager's timer bounds what is unknown of   *)
(* the connection (Watched).                                               *)
(***************************************************************************)
EXTENDS HeartbeatSystem, TLAPS

\* A record whose timers and checks are in order, whatever its connection does.
Sound(f) ==
    /\ f \in FactoryStates
    /\ f.checks
    /\ Len(f.tasks) = IF f.waiting_for_backoff THEN 1 ELSE 0

\* A pending connect has closed the handler and opened an event, and the two
\* flags for a handshake, the factory's and the handler's, agree.
Linked(f) ==
    /\ f.connecting => f.handler = "closed" /\ f.event # "none"
    /\ f.handshake_in_progress <=> f.handler = "handshake"
    /\ f.handler = "handshake" => f.log = f.reported

UnderWay(f) ==
    \/ f.connecting
    \/ f.handler \in {"handshake", "open", "flushing"}
    \/ f.waiting_for_backoff
    \/ f.waiting_for_network_online /\ AvoidOffline

\* The inductive invariant.
Consistent(f) ==
    /\ Sound(f)
    /\ Linked(f)
    /\ f.handler = "null" => ~ f.waiting_for_backoff
    /\ f.handler # "null" => UnderWay(f)

IInv == Consistent(factory)

\* A record with no connection and none under way.
Disconnected(f) ==
    /\ f.handler = "closed"
    /\ ~ f.connecting
    /\ ~ f.handshake_in_progress

USE ConstantsAssumption

-----------------------------------------------------------------------------

\* A failure keeps a backoff entry within its bounds.
LEMMA InformType ==
    ASSUME NEW b \in BackoffEntries
    PROVE  InformOfFailure(b) \in BackoffEntries
BY DEF InformOfFailure, BackoffEntries, SmallerOf, LargerOf

\* Closing the socket leaves nothing of a connection behind.
LEMMA CloseSocketLemma ==
    ASSUME NEW f, Sound(f), f.handler # "null", ~ f.connecting
    PROVE  /\ Sound(CloseSocket(f))
           /\ Disconnected(CloseSocket(f))
           /\ ~ CloseSocket(f).socket
           /\ CloseSocket(f).waiting_for_backoff = f.waiting_for_backoff
           /\ CloseSocket(f).waiting_for_network_online = f.waiting_for_network_online
BY DEF Sound, Disconnected, CloseSocket, FactoryStates, HandlerStates

\* A connection attempt on a closed socket passes its checks.
LEMMA ConnectImplLemma ==
    ASSUME NEW f, Sound(f), Disconnected(f), ~ f.socket,
           ~ (f.waiting_for_network_online /\ AvoidOffline),
           NEW ignore \in BOOLEAN
    PROVE  Consistent(ConnectImpl(f, ignore))
<1> DEFINE g == ConnectImpl(f, ignore)
<1>1. g = [f EXCEPT !.checks = TRUE, !.connecting = TRUE, !.socket = TRUE,
                    !.ignore_failure = ignore, !.event = "started"]
  BY DEF Sound, Disconnected, ConnectImpl, StartConnection, StartConnectionAttempt,
         IsEndpointReachable, FactoryStates
<1> HIDE DEF g
<1>2. /\ g \in FactoryStates
      /\ g.checks /\ g.connecting
      /\ g.handler = f.handler /\ g.event = "started" /\ g.tasks = f.tasks
      /\ g.waiting_for_backoff = f.waiting_for_backoff
      /\ g.handshake_in_progress = f.handshake_in_progress
  BY <1>1 DEF Sound, FactoryStates, EventStates
<1>3. Consistent(g)
  BY <1>2 DEF Sound, Consistent, Disconnected, Linked, UnderWay
<1>4. QED
  BY <1>3 DEF g

\* ConnectWithBackoff, called from Connect or as the delayed task (which is no
\* longer in the queue when it runs), ends with one task iff it is waiting.
LEMMA ConnectWithBackoffLemma ==
    ASSUME NEW f \in FactoryStates, f.checks, f.tasks = << >>, Linked(f),
           f.handler # "null"
    PROVE  Consistent(ConnectWithBackoff(f))
<1> DEFINE h == [f EXCEPT !.waiting_for_backoff = FALSE]
<1>1. CASE f.connecting \/ f.handshake_in_progress \/ IsEndpointReachable(f)
  <2>1. ConnectWithBackoff(f) = h
    BY <1>1 DEF ConnectWithBackoff
  <2>2. Sound(h) /\ Linked(h) /\ h.handler = f.handler
    BY DEF Sound, Linked, FactoryStates
  <2>3. UnderWay(h)
    BY <1>1, <2>2 DEF UnderWay, Linked, FactoryStates, IsEndpointReachable
  <2>4. QED
    BY <2>1, <2>2, <2>3 DEF Consistent
<1>2. CASE /\ ~ (f.connecting \/ f.handshake_in_progress \/ IsEndpointReachable(f))
           /\ ShouldRejectRequest(f.backoff)
  <2> DEFINE g == [f EXCEPT !.waiting_for_backoff = TRUE, !.tasks = <<f.backoff.rem>>]
  <2>1. f.backoff.rem \in 0..MaxDelay
    BY DEF FactoryStates, BackoffEntries
  <2>2. ConnectWithBackoff(f) = g
    BY <1>2, <2>1 DEF ConnectWithBackoff, FactoryStates
  <2>3. g \in FactoryStates
    <3>1. <<f.backoff.rem>> \in Seq(0..MaxDelay)
      BY <2>1
    <3>2. QED
      BY <3>1 DEF FactoryStates
  <2>4. /\ g.checks /\ g.waiting_for_backoff /\ Len(g.tasks) = 1
        /\ Linked(g) /\ g.handler = f.handler
    BY DEF Linked, FactoryStates
  <2>5. QED
    BY <2>2, <2>3, <2>4 DEF Consistent, Sound, UnderWay
<1>3. CASE /\ ~ (f.connecting \/ f.handshake_in_progress \/ IsEndpointReachable(f))
           /\ ~ ShouldRejectRequest(f.backoff)
  <2>1. Sound(h) /\ h.handler # "null" /\ ~ h.connecting /\ ~ h.waiting_for_backoff
    BY <1>3 DEF Sound, FactoryStates
  <2> DEFINE g == CloseSocket(h)
  <2>2. /\ Sound(g) /\ Disconnected(g) /\ ~ g.socket
        /\ ~ g.waiting_for_backoff
    BY <2>1, CloseSocketLemma
  <2>3. CASE g.waiting_for_network_online /\ AvoidOffline
    <3>1. ConnectWithBackoff(f) = g
      BY <1>3, <2>3 DEF ConnectWithBackoff
    <3>2. QED
      BY <2>2, <2>3, <3>1 DEF Consistent, Disconnected, Linked, UnderWay
  <2>4. CASE ~ (g.waiting_for_network_online /\ AvoidOffline)
    <3>1. ConnectWithBackoff(f) = ConnectImpl(g, FALSE)
      BY <1>3, <2>4 DEF ConnectWithBackoff
    <3>2. QED
      BY <2>2, <2>4, <3>1, ConnectImplLemma
  <2>5. QED
    BY <2>3, <2>4
<1>4. QED
  BY <1>1, <1>2, <1>3

\* Connect, called with nothing connected, leaves something under way.
LEMMA ConnectLemma ==
    ASSUME NEW f, Sound(f), f.handler \in {"null", "closed"}, ~ f.connecting,
           ~ f.handshake_in_progress
    PROVE  Consistent(Connect(f))
<1> DEFINE g == [f EXCEPT !.handler = IF @ = "null" THEN "closed" ELSE @]
<1>1. Sound(g) /\ Disconnected(g) /\ Linked(g)
  BY DEF Sound, Disconnected, Linked, FactoryStates, HandlerStates
<1>2. CASE g.waiting_for_backoff
  <2>1. Connect(f) = g
    BY <1>2 DEF Connect
  <2>2. QED
    BY <1>1, <1>2, <2>1 DEF Consistent, UnderWay, Disconnected
<1>3. CASE ~ g.waiting_for_backoff
  <2>1. Connect(f) = ConnectWithBackoff(g)
    BY <1>1, <1>3 DEF Connect, Disconnected, IsEndpointReachable
  <2>2. g \in FactoryStates /\ g.checks /\ Len(g.tasks) = 0 /\ g.handler # "null"
    BY <1>1, <1>3 DEF Sound, Disconnected
  <2>3. g.tasks = << >>
    BY <2>2 DEF FactoryStates
  <2>4. QED
    BY <1>1, <2>1, <2>2, <2>3, ConnectWithBackoffLemma
<1>4. QED
  BY <1>2, <1>3

\* Ending the event in progress touches the event and its log only.
LEMMA EndEventLemma ==
    ASSUME NEW f, Sound(f), NEW reason \in ResetReasons,
           reason = "LOGIN_FAILURE" => f.event = "success"
    PROVE  LET g == EndEvent(f, reason)
           IN  /\ Sound(g)
               /\ g.handler = f.handler
               /\ g.connecting = f.connecting
               /\ g.waiting_for_backoff = f.waiting_for_backoff
<1> DEFINE g == EndEvent(f, reason)
           newLog == [completed |-> SmallerOf(f.log.completed + 1, MaxEvents),
                      discarded |-> f.log.discarded \/ f.log.completed = MaxEvents]
<1>1. CASE ~ IsEventInProgress(f)
  BY <1>1 DEF EndEvent
<1>2. CASE IsEventInProgress(f)
  <2>1. newLog \in EventLogs
    BY DEF Sound, FactoryStates, EventLogs, SmallerOf
  <2>2. f.checks = TRUE
    BY DEF Sound, FactoryStates
  <2>3. g = [f EXCEPT !.checks = TRUE, !.log = newLog, !.event = "none"]
    <3>1. CASE reason = "LOGIN_FAILURE"
      <4> DEFINE h == ConnectionLoginFailed(f)
      <4>1. h = [f EXCEPT !.checks = TRUE, !.event = "failed"]
        BY <2>2, <3>1 DEF ConnectionLoginFailed, Sound, FactoryStates
      <4>2. h.checks = TRUE /\ IsEventInProgress(h) /\ h.log = f.log
        BY <4>1 DEF IsEventInProgress, Sound, FactoryStates
      <4>3. g = EndConnectionAttempt(h)
        BY <1>2, <3>1 DEF EndEvent
      <4>4. EndConnectionAttempt(h) = [h EXCEPT !.checks = TRUE, !.log = newLog,
                                                !.event = "none"]
        BY <4>1, <4>2 DEF EndConnectionAttempt, Sound, FactoryStates
      <4> HIDE DEF g, h, newLog
      <4>5. g = [h EXCEPT !.checks = TRUE, !.log = newLog, !.event = "none"]
        BY <4>3, <4>4
      <4>6. QED
        BY <4>1, <4>5 DEF Sound, FactoryStates
    <3>2. CASE reason # "LOGIN_FAILURE"
      BY <1>2, <2>2, <3>2 DEF EndEvent, EndConnectionAttempt, Sound, FactoryStates
    <3>3. QED
      BY <3>1, <3>2
  <2> HIDE DEF g, newLog
  <2>4. "none" \in EventStates
    BY DEF EventStates
  <2>5. g \in FactoryStates
    BY <2>1, <2>3, <2>4 DEF Sound, FactoryStates
  <2>6. /\ g.checks /\ g.handler = f.handler /\ g.connecting = f.connecting
        /\ g.waiting_for_backoff = f.waiting_for_backoff /\ g.tasks = f.tasks
    BY <2>3 DEF Sound, FactoryStates
  <2>7. Sound(g)
    BY <2>5, <2>6 DEF Sound
  <2>8. QED
    BY <2>6, <2>7 DEF g
<1>3. QED
  BY <1>1, <1>2

\* Restoring the previous backoff keeps the record well-formed.
LEMMA ReconnectAfterLemma ==
    ASSUME NEW f, Sound(f), Disconnected(f), NEW reason \in ResetReasons
    PROVE  Consistent(ReconnectAfter(f, reason))
<1> DEFINE g == IF reason = "LOGIN_FAILURE" \/ ShouldRestorePreviousBackoff(f)
                THEN RestorePreviousBackoff(f) ELSE f
           h == [g EXCEPT !.login_age = ResetWindow + 1]
<1>1. Sound(g) /\ Disconnected(g)
  <2>1. InformOfFailure(f.previous) \in BackoffEntries
    BY InformType DEF Sound, FactoryStates
  <2>2. Sound(RestorePreviousBackoff(f)) /\ Disconnected(RestorePreviousBackoff(f))
    BY <2>1 DEF Sound, Disconnected, RestorePreviousBackoff, FactoryStates
  <2>3. QED
    BY <2>2
<1>2. ReconnectAfter(f, reason) = Connect(h)
  BY DEF ReconnectAfter
<1> HIDE DEF g
<1>3. ResetWindow + 1 \in 0..(ResetWindow + 1)
  OBVIOUS
<1>4. h \in FactoryStates
  BY <1>1, <1>3 DEF Sound, FactoryStates
<1>5. Sound(h) /\ Disconnected(h)
  BY <1>1, <1>4 DEF Sound, Disconnected, FactoryStates
<1>6. QED
  BY <1>2, <1>5, ConnectLemma DEF Disconnected

\* A reset, signalled at any time and for any reason, keeps the invariant.
LEMMA SignalConnectionResetLemma ==
    ASSUME NEW f, Sound(f), NEW reason \in ResetReasons,
           f.handler = "null" \/ f.connecting => Consistent(f),
           reason = "LOGIN_FAILURE" => f.event = "success"
    PROVE  Consistent(SignalConnectionReset(f, reason))
<1> DEFINE e == EndEvent(f, reason)
           g == CloseSocket(e)
<1>1. CASE f.handler = "null" \/ f.connecting
  BY <1>1 DEF SignalConnectionReset
<1>2. CASE ~ (f.handler = "null" \/ f.connecting)
  <2>1. Sound(e) /\ e.handler # "null" /\ ~ e.connecting
    BY <1>2, EndEventLemma
  <2>2. Sound(g) /\ Disconnected(g) /\ ~ g.socket
    BY <2>1, CloseSocketLemma
  <2> HIDE DEF g
  <2>3. SignalConnectionReset(f, reason) =
          IF g.waiting_for_network_online /\ AvoidOffline THEN g
          ELSE IF reason = "NETWORK_CHANGE" THEN ConnectImpl(g, TRUE)
          ELSE IF g.waiting_for_backoff THEN g
          ELSE ReconnectAfter(g, reason)
    BY <1>2 DEF SignalConnectionReset, g
  <2>4. CASE \/ g.waiting_for_network_online /\ AvoidOffline
             \/ reason # "NETWORK_CHANGE" /\ g.waiting_for_backoff
    BY <2>2, <2>3, <2>4 DEF Consistent, Disconnected, Linked, UnderWay
  <2>5. CASE /\ ~ (g.waiting_for_network_online /\ AvoidOffline)
             /\ reason = "NETWORK_CHANGE"
    BY <2>2, <2>3, <2>5, ConnectImplLemma
  <2>6. CASE /\ ~ (g.waiting_for_network_online /\ AvoidOffline)
             /\ reason # "NETWORK_CHANGE"
             /\ ~ g.waiting_for_backoff
    BY <2>2, <2>3, <2>6, ReconnectAfterLemma
  <2>7. QED
    BY <2>4, <2>5, <2>6
<1>3. QED
  BY <1>1, <1>2

-----------------------------------------------------------------------------

\* The initial state satisfies the invariant.
LEMMA InitConsistent == Init => IInv
<1> SUFFICES ASSUME Init PROVE IInv
  OBVIOUS
<1>1. factory \in FactoryStates
  BY DEF Init, FactoryStates, HandlerStates, EventStates, BackoffEntries,
         FreshBackoff, EventLogs, EmptyLog
<1>2. QED
  BY <1>1 DEF Init, IInv, Consistent, Sound, Linked, UnderWay

\* One lemma per group of actions: each keeps the invariant.
LEMMA ClientConnectStep == IInv /\ ClientConnect => IInv'
<1> SUFFICES ASSUME IInv, ClientConnect PROVE Consistent(factory')
  BY DEF IInv
<1>1. /\ Sound(factory) /\ factory.handler = "null" /\ ~ factory.connecting
      /\ ~ factory.handshake_in_progress
  BY DEF IInv, ClientConnect, Consistent, Linked
<1>2. QED
  BY <1>1, ConnectLemma DEF ClientConnect

\* The delayed backoff task is the only one, and runs when it has left the queue.
LEMMA BackoffExpiredShape ==
    ASSUME IInv, BackoffExpired
    PROVE  \E i \in 1..Len(factory.tasks) :
               LET g == WithoutTask(factory, i)
               IN  /\ factory.tasks[i] = 0
                   /\ g \in FactoryStates
                   /\ g.checks /\ g.tasks = << >> /\ Linked(g)
                   /\ g.handler = factory.handler /\ g.handler # "null"
                   /\ g.connecting = factory.connecting
                   /\ factory' = ConnectWithBackoff(g)
<1>1. PICK i \in 1..Len(factory.tasks) :
          /\ factory.tasks[i] = 0
          /\ factory' = ConnectWithBackoff(WithoutTask(factory, i))
  BY DEF BackoffExpired
<1> DEFINE t == factory.tasks
           g == WithoutTask(factory, i)
<1>2. t \in Seq(0..MaxDelay) /\ (Len(t) = 0 \/ Len(t) = 1)
  BY DEF IInv, Consistent, Sound, FactoryStates
<1>3. i = 1 /\ Len(t) = 1
  <2>1. i \in Nat /\ 1 <= i /\ i <= Len(t)
    BY <1>2
  <2> HIDE DEF t
  <2>2. Len(t) = 1
    BY <1>2, <2>1
  <2>3. QED
    BY <2>1, <2>2
<1>4. SubSeq(t, 1, i - 1) \o SubSeq(t, i + 1, Len(t)) = << >>
  BY <1>2, <1>3
<1>5. g = [factory EXCEPT !.tasks = << >>]
  BY <1>4 DEF WithoutTask, IInv, Consistent, Sound, FactoryStates
<1>6. << >> \in Seq(0..MaxDelay)
  OBVIOUS
<1>7. /\ g \in FactoryStates /\ g.checks /\ g.tasks = << >>
      /\ g.handler = factory.handler /\ g.connecting = factory.connecting
  BY <1>5, <1>6 DEF IInv, Consistent, Sound, FactoryStates
<1>8. Linked(g)
  BY <1>5 DEF IInv, Consistent, Sound, Linked, FactoryStates
<1>9. g.handler # "null"
  BY <1>3, <1>7 DEF IInv, Consistent, Sound
<1>10. QED
  BY <1>1, <1>7, <1>8, <1>9

\* So it keeps the invariant, also when it has become stale.
LEMMA BackoffExpiredStep == IInv /\ BackoffExpired => IInv'
BY BackoffExpiredShape, ConnectWithBackoffLemma DEF IInv

\* The record on which OnConnectDone with an error calls Connect.
AttemptFailed(r) ==
    LET f == EndConnectionAttempt(ConnectionAttemptFailed(CloseSocket(r)))
    IN  [f EXCEPT !.backoff = IF f.ignore_failure /\ SpareCanary
                              THEN @ ELSE InformOfFailure(@),
                  !.next_endpoint = NextEndpoint(@),
                  !.connecting = FALSE]

\* OnConnectDone with an error ends the attempt and connects again.
LEMMA ConnectFailsShape ==
    ASSUME IInv, ConnectFails
    PROVE  LET h == AttemptFailed(factory)
           IN  /\ Sound(h) /\ h.handler = "closed" /\ ~ h.connecting
               /\ ~ h.handshake_in_progress
               /\ factory' = Connect(h)
<1> DEFINE f == EndConnectionAttempt(ConnectionAttemptFailed(CloseSocket(factory)))
           b == IF f.ignore_failure /\ SpareCanary
                THEN f.backoff ELSE InformOfFailure(f.backoff)
           n == NextEndpoint(f.next_endpoint)
           h == [f EXCEPT !.backoff = b, !.next_endpoint = n, !.connecting = FALSE]
           newLog == [completed |-> SmallerOf(factory.log.completed + 1, MaxEvents),
                      discarded |-> factory.log.discarded
                                    \/ factory.log.completed = MaxEvents]
<1>1. /\ Sound(factory) /\ factory.checks = TRUE
      /\ factory.connecting /\ factory.handler = "closed"
  BY DEF IInv, ConnectFails, Consistent, Sound, Linked, FactoryStates
<1>2. newLog \in EventLogs
  BY <1>1 DEF Sound, FactoryStates, EventLogs, SmallerOf
<1>3. f = [factory EXCEPT !.handler = "closed", !.socket = FALSE,
                          !.handshake_in_progress = FALSE, !.checks = TRUE,
                          !.log = newLog, !.event = "none"]
  <2> DEFINE c == ConnectionAttemptFailed(CloseSocket(factory))
  <2>1. c = [factory EXCEPT !.handler = "closed", !.socket = FALSE,
                            !.handshake_in_progress = FALSE, !.event = "failed"]
    BY <1>1 DEF ConnectionAttemptFailed, CloseSocket, Sound, FactoryStates
  <2>2. c.checks = TRUE /\ IsEventInProgress(c) /\ c.log = factory.log
    BY <1>1, <2>1 DEF IsEventInProgress, Sound, FactoryStates
  <2>3. f = [c EXCEPT !.checks = TRUE, !.log = newLog, !.event = "none"]
    BY <2>1, <2>2 DEF EndConnectionAttempt, Sound, FactoryStates
  <2>4. QED
    BY <2>1, <2>3 DEF Sound, FactoryStates
<1>4. factory' = Connect(h) /\ h = AttemptFailed(factory)
  BY DEF ConnectFails, AttemptFailed
<1> HIDE DEF f, newLog
<1>5. /\ Sound(f) /\ f.handler = "closed" /\ ~ f.handshake_in_progress
  BY <1>1, <1>2, <1>3 DEF Sound, FactoryStates, EventStates, HandlerStates
<1>6. b \in BackoffEntries /\ n \in 0..(Endpoints - 1)
  BY <1>5, InformType DEF Sound, FactoryStates, NextEndpoint
<1> HIDE DEF b, n
<1>7. /\ Sound(h) /\ h.handler = "closed" /\ ~ h.connecting
      /\ ~ h.handshake_in_progress
  BY <1>5, <1>6 DEF Sound, FactoryStates
<1>8. QED
  BY <1>4, <1>7

\* So the next attempt is under way, or waits.
LEMMA ConnectFailsStep == IInv /\ ConnectFails => IInv'
BY ConnectFailsShape, ConnectLemma DEF IInv

\* OnConnectDone with net::OK starts the handshake with the events reported.
LEMMA ConnectSucceedsStep == IInv /\ ConnectSucceeds => IInv'
<1> SUFFICES ASSUME IInv, ConnectSucceeds PROVE Consistent(factory')
  BY DEF IInv
<1>1. Sound(factory')
  <2>1. 0 \in 0..(Endpoints - 1)
    OBVIOUS
  <2>2. factory' \in FactoryStates
    BY <2>1 DEF IInv, ConnectSucceeds, WriteToLoginRequest, Consistent, Sound, FactoryStates, HandlerStates
  <2>3. QED
    BY <2>2 DEF IInv, ConnectSucceeds, WriteToLoginRequest, Consistent, Sound, FactoryStates
<1>2. /\ factory'.handler = "handshake" /\ factory'.handshake_in_progress
      /\ ~ factory'.connecting /\ factory'.log = factory'.reported
  BY DEF IInv, ConnectSucceeds, WriteToLoginRequest, Consistent, Sound, FactoryStates
<1>3. QED
  BY <1>1, <1>2 DEF Consistent, Linked, UnderWay

\* The record the handler leaves when the handshake is complete, before
\* MCSClient has seen the login response.
LoggedIn == ConnectionHandlerSucceeded([factory EXCEPT !.handler = "open"])

\* The end of the handshake passes its checks and leaves a successful event.
LEMMA LoggedInLemma ==
    ASSUME IInv, factory.handler = "handshake"
    PROVE  /\ Sound(LoggedIn) /\ LoggedIn.handler = "open" /\ ~ LoggedIn.connecting
           /\ ~ LoggedIn.handshake_in_progress /\ LoggedIn.event = "success"
<1>1. /\ Sound(factory) /\ ~ factory.connecting /\ factory.checks = TRUE
  BY DEF IInv, Consistent, Sound, Linked, FactoryStates
<1>2. LoggedIn = [factory EXCEPT !.handler = "open", !.checks = TRUE,
                                 !.handshake_in_progress = FALSE,
                                 !.login_age = 0, !.previous = factory.backoff,
                                 !.backoff = FreshBackoff,
                                 !.event = "success", !.log = EmptyLog]
  BY <1>1 DEF LoggedIn, ConnectionHandlerSucceeded, ConnectionAttemptSucceeded,
              Sound, FactoryStates
<1>3. /\ FreshBackoff \in BackoffEntries /\ EmptyLog \in EventLogs
      /\ 0 \in 0..(ResetWindow + 1)
  BY DEF FreshBackoff, BackoffEntries, EmptyLog, EventLogs
<1>4. QED
  BY <1>1, <1>2, <1>3 DEF Sound, FactoryStates, HandlerStates, EventStates

\* An accepted login leaves an open connection.
LEMMA LoginAcceptedStep == IInv /\ LoginAccepted => IInv'
<1> SUFFICES ASSUME IInv, LoginAccepted PROVE Consistent(factory')
  BY DEF IInv
<1>1. /\ Sound(LoggedIn) /\ LoggedIn.handler = "open" /\ ~ LoggedIn.connecting
      /\ ~ LoggedIn.handshake_in_progress
  BY LoggedInLemma DEF LoginAccepted
<1>2. factory' = [LoggedIn EXCEPT !.heartbeat = TRUE]
  BY DEF LoginAccepted, LoggedIn
<1>3. /\ Sound(factory') /\ factory'.handler = "open" /\ ~ factory'.connecting
      /\ ~ factory'.handshake_in_progress
  BY <1>1, <1>2 DEF Sound, FactoryStates
<1>4. QED
  BY <1>3 DEF Consistent, Linked, UnderWay

\* A refused login is a reset of a connection whose event was successful.
LEMMA LoginRefusedStep == IInv /\ LoginRefused => IInv'
<1> SUFFICES ASSUME IInv, LoginRefused PROVE Consistent(factory')
  BY DEF IInv
<1>1. /\ Sound(LoggedIn) /\ LoggedIn.handler = "open" /\ ~ LoggedIn.connecting
      /\ LoggedIn.event = "success"
  BY LoggedInLemma DEF LoginRefused
<1>2. factory' = SignalConnectionReset(LoggedIn, "LOGIN_FAILURE")
  BY DEF LoginRefused, LoggedIn
<1>3. QED
  BY <1>1, <1>2, SignalConnectionResetLemma DEF ResetReasons

\* The record that ConnectionHandlerCallback with an error resets.
HandlerGone(r) ==
    LET f == [r EXCEPT !.handler = "closed"]
    IN  [f EXCEPT !.checks = @ /\ ~ f.connecting,
                  !.backoff = IF f.handshake_in_progress
                              THEN InformOfFailure(@) ELSE @,
                  !.handshake_in_progress = FALSE]

\* A failure of the handler, in the handshake or later, leads to a reset.
LEMMA HandlerFailsShape ==
    ASSUME IInv, HandlerFails
    PROVE  LET g == HandlerGone(factory)
           IN  /\ Sound(g) /\ g.handler = "closed" /\ ~ g.connecting
               /\ factory' = SignalConnectionReset(g, "SOCKET_FAILURE")
<1> DEFINE f == [factory EXCEPT !.handler = "closed"]
           b == IF f.handshake_in_progress THEN InformOfFailure(f.backoff)
                ELSE f.backoff
           g == [factory EXCEPT !.handler = "closed", !.checks = TRUE,
                                !.backoff = b, !.handshake_in_progress = FALSE]
<1>1. Sound(factory) /\ ~ factory.connecting /\ factory.checks = TRUE
  BY DEF IInv, HandlerFails, Consistent, Sound, Linked, FactoryStates
<1>2. b \in BackoffEntries
  <2>1. f.backoff \in BackoffEntries
    BY <1>1 DEF Sound, FactoryStates
  <2>2. QED
    BY <2>1, InformType
<1>3. factory' = SignalConnectionReset(g, "SOCKET_FAILURE") /\ g = HandlerGone(factory)
  <2>1. [f EXCEPT !.checks = @ /\ ~ f.connecting, !.backoff = b,
                  !.handshake_in_progress = FALSE] = g
    BY <1>1 DEF Sound, FactoryStates
  <2>2. QED
    BY <2>1 DEF HandlerFails, ConnectionHandlerFailed, HandlerGone
<1> HIDE DEF b
<1>4. Sound(g) /\ g.handler = "closed" /\ ~ g.connecting
  BY <1>1, <1>2 DEF Sound, FactoryStates, HandlerStates
<1>5. QED
  BY <1>3, <1>4

\* So it keeps the invariant.
LEMMA HandlerFailsStep == IInv /\ HandlerFails => IInv'
BY HandlerFailsShape, SignalConnectionResetLemma DEF IInv, ResetReasons

\* Sending and flushing keep the connection.
LEMMA StreamStep == IInv /\ (SendMessage \/ FlushDone) => IInv'
<1> SUFFICES ASSUME IInv, SendMessage \/ FlushDone PROVE Consistent(factory')
  BY DEF IInv
<1>1. PICK s \in {"open", "flushing"} : factory' = [factory EXCEPT !.handler = s]
  BY DEF SendMessage, FlushDone
<1>2. factory.handler \in {"open", "flushing"}
  BY DEF SendMessage, FlushDone, IsEndpointReachable
<1>3. /\ Sound(factory') /\ factory'.handler = s
      /\ ~ factory'.connecting /\ ~ factory'.handshake_in_progress
  BY <1>1, <1>2 DEF IInv, Consistent, Sound, Linked, FactoryStates, HandlerStates
<1>4. QED
  BY <1>3 DEF Consistent, Linked, UnderWay

\* The resets MCSClient signals keep the invariant.
LEMMA ClientResetStep == IInv /\ (ServerClose \/ HeartbeatReset) => IInv'
<1> SUFFICES ASSUME IInv, ServerClose \/ HeartbeatReset PROVE Consistent(factory')
  BY DEF IInv
<1>1. CASE ServerClose
  BY <1>1, SignalConnectionResetLemma DEF ServerClose, ResetReasons, IInv, Consistent
<1>2. CASE HeartbeatReset
  <2> DEFINE f == [factory EXCEPT !.heartbeat = FALSE]
  <2>1. PICK reason \in ResetReasons \ {"LOGIN_FAILURE"} :
            factory' = SignalConnectionReset(f, reason)
    BY <1>2 DEF HeartbeatReset, ResetReasons
  <2>2. /\ Sound(f) /\ Linked(f) /\ f.handler = factory.handler
        /\ f.connecting = factory.connecting
        /\ f.waiting_for_backoff = factory.waiting_for_backoff
    BY DEF IInv, Consistent, Sound, Linked, FactoryStates
  <2> HIDE DEF f
  <2>3. f.handler = "null" \/ f.connecting => Consistent(f)
    BY <2>2 DEF IInv, Consistent, UnderWay
  <2>4. QED
    BY <2>1, <2>2, <2>3, SignalConnectionResetLemma
<1>3. QED
  BY <1>1, <1>2

\* Network changes, which alone may leave nothing under way, keep the invariant.
LEMMA NetworkStep == IInv /\ (OnNetworkLost \/ OnNetworkChanged) => IInv'
<1> SUFFICES ASSUME IInv, OnNetworkLost \/ OnNetworkChanged PROVE Consistent(factory')
  BY DEF IInv
<1>1. PICK offline \in BOOLEAN :
          factory' = SignalConnectionReset(
              [factory EXCEPT !.waiting_for_network_online = offline],
              "NETWORK_CHANGE")
  BY DEF OnNetworkLost, OnNetworkChanged
<1> DEFINE f == [factory EXCEPT !.waiting_for_network_online = offline]
<1>2. /\ Sound(f) /\ Linked(f) /\ f.handler = factory.handler
      /\ f.connecting = factory.connecting
      /\ f.waiting_for_backoff = factory.waiting_for_backoff
  BY DEF IInv, Consistent, Sound, Linked, FactoryStates
<1> HIDE DEF f
<1>3. f.handler = "null" \/ f.connecting => Consistent(f)
  BY <1>2 DEF IInv, Consistent, UnderWay
<1>4. factory' = SignalConnectionReset(f, "NETWORK_CHANGE")
  BY <1>1 DEF f
<1>5. QED
  BY <1>2, <1>3, <1>4, SignalConnectionResetLemma DEF ResetReasons

\* Time passing keeps a backoff entry within its type.
LEMMA TickEntryType ==
    ASSUME NEW e \in BackoffEntries
    PROVE  [e EXCEPT !.rem = MinusOne(@)] \in BackoffEntries
BY DEF BackoffEntries, MinusOne

\* Time passing changes delays only.
LEMMA TickedLemma ==
    ASSUME NEW f, Consistent(f)
    PROVE  Consistent(Ticked(f))
<1> DEFINE b == [f.backoff EXCEPT !.rem = MinusOne(@)]
           p == [f.previous EXCEPT !.rem = MinusOne(@)]
           a == SmallerOf(f.login_age + 1, ResetWindow + 1)
           t == [i \in 1..Len(f.tasks) |-> MinusOne(f.tasks[i])]
           g == Ticked(f)
<1>1. Sound(f)
  BY DEF Consistent
<1>2. b \in BackoffEntries /\ p \in BackoffEntries
  BY <1>1, TickEntryType DEF Sound, FactoryStates
<1>3. a \in 0..(ResetWindow + 1)
  BY <1>1 DEF Sound, FactoryStates, SmallerOf
<1>4. t \in Seq(0..MaxDelay) /\ Len(t) = Len(f.tasks)
  BY <1>1 DEF Sound, FactoryStates, MinusOne
<1>5. g = [f EXCEPT !.backoff = b, !.previous = p, !.login_age = a, !.tasks = t]
  BY <1>1 DEF Ticked, Sound, FactoryStates
<1> HIDE DEF b, p, a, t, g
<1>6. g \in FactoryStates
  BY <1>1, <1>2, <1>3, <1>4, <1>5 DEF Sound, FactoryStates
<1>7. Sound(g)
  BY <1>1, <1>4, <1>5, <1>6 DEF Sound, FactoryStates
<1>8. Consistent(g)
  BY <1>1, <1>5, <1>7 DEF Consistent, Sound, Linked, UnderWay, FactoryStates
<1>9. QED
  BY <1>8 DEF g

\* So a tick keeps the invariant.
LEMMA TickStep == IInv /\ Tick => IInv'
BY TickedLemma DEF IInv, Tick

\* Every step of the factory keeps the inductive invariant.
LEMMA NextConsistent == IInv /\ [Next]_factory => IInv'
<1> SUFFICES ASSUME IInv, [Next]_factory PROVE IInv'
  OBVIOUS
<1>1. CASE UNCHANGED factory
  BY <1>1 DEF IInv
<1>2. CASE Next
  BY <1>2, ClientConnectStep, BackoffExpiredStep, ConnectFailsStep,
     ConnectSucceedsStep, LoginAcceptedStep, LoginRefusedStep, HandlerFailsStep,
     StreamStep, ClientResetStep, NetworkStep, TickStep
     DEF Next
<1>3. QED
  BY <1>1, <1>2

\* The inductive invariant holds in every reachable state.
LEMMA Invariance == Spec => []IInv
<1>1. Init => IInv
  BY InitConsistent
<1>2. IInv /\ [Next]_factory => IInv'
  BY NextConsistent
<1>3. QED
  BY <1>1, <1>2, PTL DEF Spec

\* The factory's state stays within its type.
THEOREM TypeCorrect == Spec => []TypeOK
<1>1. IInv => TypeOK
  BY DEF IInv, Consistent, Sound, TypeOK
<1>2. QED
  BY <1>1, Invariance, PTL

\* No CHECK or DCHECK of the factory fails, in any order of connects, resets,
\* timers and network changes.
THEOREM NoCheckFails == Spec => []ChecksHold
<1>1. IInv => ChecksHold
  BY DEF IInv, Consistent, Sound, ChecksHold
<1>2. QED
  BY <1>1, Invariance, PTL

\* waiting_for_backoff_ always stands for exactly one delayed task.
THEOREM BackoffTaskUnique == Spec => []OneBackoffTask
<1>1. IInv => OneBackoffTask
  BY DEF IInv, Consistent, Sound, OneBackoffTask
<1>2. QED
  BY <1>1, Invariance, PTL

\* The factory never ends up with nothing under way.
THEOREM NotStranded == Spec => []NeverStranded
<1>1. IInv => NeverStranded
  BY DEF IInv, Consistent, UnderWay, NeverStranded
<1>2. QED
  BY <1>1, Invariance, PTL

\* The events a successful connection deletes are those its login request held.
THEOREM EventsReported == Spec => []ClearedEventsWereReported
<1>1. IInv => ClearedEventsWereReported
  BY DEF IInv, Consistent, Linked, ClearedEventsWereReported
<1>2. QED
  BY <1>1, Invariance, PTL

-----------------------------------------------------------------------------

\* A record with an attempt under way against a backoff entry that rejects
\* requests holds a canary's attempt.
Patient(f) == f.connecting /\ ShouldRejectRequest(f.backoff) => f.ignore_failure

\* An attempt starts without touching the backoff entry.
LEMMA ConnectImplBackoff ==
    ASSUME NEW f \in FactoryStates, NEW ignore \in BOOLEAN
    PROVE  /\ ConnectImpl(f, ignore).backoff = f.backoff
           /\ ConnectImpl(f, ignore).ignore_failure = ignore
BY DEF ConnectImpl, StartConnection, StartConnectionAttempt, FactoryStates

\* Closing the socket leaves the backoff entries and the flags alone.
LEMMA CloseSocketBackoff ==
    ASSUME NEW f \in FactoryStates
    PROVE  /\ CloseSocket(f) \in FactoryStates
           /\ CloseSocket(f).backoff = f.backoff
           /\ CloseSocket(f).previous = f.previous
           /\ CloseSocket(f).connecting = f.connecting
           /\ CloseSocket(f).waiting_for_backoff = f.waiting_for_backoff
           /\ CloseSocket(f).waiting_for_network_online = f.waiting_for_network_online
BY DEF CloseSocket, FactoryStates, HandlerStates

\* ConnectWithBackoff keeps the backoff entry, and what it starts is patient.
LEMMA ConnectWithBackoffPatient ==
    ASSUME NEW f \in FactoryStates, ~ f.connecting
    PROVE  /\ Patient(ConnectWithBackoff(f))
           /\ ConnectWithBackoff(f).backoff = f.backoff
<1> DEFINE h == [f EXCEPT !.waiting_for_backoff = FALSE]
<1>1. /\ h \in FactoryStates /\ h.backoff = f.backoff
      /\ ~ h.connecting
  BY DEF FactoryStates
<1>2. CASE f.connecting \/ f.handshake_in_progress \/ IsEndpointReachable(f)
  BY <1>1, <1>2 DEF ConnectWithBackoff, Patient
<1>3. CASE /\ ~ (f.connecting \/ f.handshake_in_progress \/ IsEndpointReachable(f))
           /\ ShouldRejectRequest(f.backoff)
  <2>1. ConnectWithBackoff(f) =
            [f EXCEPT !.waiting_for_backoff = TRUE,
                      !.tasks = Append(f.tasks, f.backoff.rem)]
    BY <1>3 DEF ConnectWithBackoff, FactoryStates
  <2>2. QED
    BY <2>1 DEF Patient, FactoryStates
<1>4. CASE /\ ~ (f.connecting \/ f.handshake_in_progress \/ IsEndpointReachable(f))
           /\ ~ ShouldRejectRequest(f.backoff)
  <2> DEFINE g == CloseSocket(h)
  <2>1. g \in FactoryStates /\ g.backoff = f.backoff /\ ~ g.connecting
    BY <1>1, CloseSocketBackoff
  <2>2. \/ ConnectWithBackoff(f) = g
        \/ ConnectWithBackoff(f) = ConnectImpl(g, FALSE)
    BY <1>4 DEF ConnectWithBackoff
  <2> HIDE DEF g
  <2>3. ConnectImpl(g, FALSE).backoff = f.backoff
    BY <2>1, ConnectImplBackoff
  <2>4. QED
    BY <1>4, <2>1, <2>2, <2>3 DEF Patient
<1>5. QED
  BY <1>2, <1>3, <1>4

\* So does Connect.
LEMMA ConnectPatient ==
    ASSUME NEW f \in FactoryStates, ~ f.connecting
    PROVE  /\ Patient(Connect(f))
           /\ Connect(f).backoff = f.backoff
<1> DEFINE g == [f EXCEPT !.handler = IF @ = "null" THEN "closed" ELSE @]
<1>1. g \in FactoryStates /\ ~ g.connecting /\ g.backoff = f.backoff
  BY DEF FactoryStates, HandlerStates
<1>2. Connect(f) = g \/ Connect(f) = ConnectWithBackoff(g)
  BY DEF Connect
<1> HIDE DEF g
<1>3. QED
  BY <1>1, <1>2, ConnectWithBackoffPatient DEF Patient

\* A reconnect after a reset is patient; after a refused login its backoff is the
\* previous one with one more failure.
LEMMA ReconnectAfterPatient ==
    ASSUME NEW f \in FactoryStates, ~ f.connecting, NEW reason \in ResetReasons
    PROVE  /\ Patient(ReconnectAfter(f, reason))
           /\ reason = "LOGIN_FAILURE" =>
                  ReconnectAfter(f, reason).backoff = InformOfFailure(f.previous)
<1> DEFINE g == IF reason = "LOGIN_FAILURE" \/ ShouldRestorePreviousBackoff(f)
                THEN RestorePreviousBackoff(f) ELSE f
           h == [g EXCEPT !.login_age = ResetWindow + 1]
<1>1. InformOfFailure(f.previous) \in BackoffEntries
  BY InformType DEF FactoryStates
<1>2. /\ RestorePreviousBackoff(f) \in FactoryStates
      /\ ~ RestorePreviousBackoff(f).connecting
      /\ RestorePreviousBackoff(f).backoff = InformOfFailure(f.previous)
  BY <1>1 DEF RestorePreviousBackoff, FactoryStates
<1>3. /\ g \in FactoryStates /\ ~ g.connecting
      /\ reason = "LOGIN_FAILURE" => g.backoff = InformOfFailure(f.previous)
  BY <1>2
<1>4. ReconnectAfter(f, reason) = Connect(h)
  BY DEF ReconnectAfter
<1> HIDE DEF g
<1>5. ResetWindow + 1 \in 0..(ResetWindow + 1)
  OBVIOUS
<1>6. h \in FactoryStates /\ ~ h.connecting /\ h.backoff = g.backoff
  BY <1>3, <1>5 DEF FactoryStates
<1> HIDE DEF h
<1>7. QED
  BY <1>3, <1>4, <1>6, ConnectPatient

\* Ending the event in progress leaves the backoff entries and the network alone.
LEMMA EndEventBackoff ==
    ASSUME NEW f \in FactoryStates, NEW reason
    PROVE  LET g == EndEvent(f, reason)
           IN  /\ g.backoff = f.backoff
               /\ g.previous = f.previous
               /\ g.waiting_for_network_online = f.waiting_for_network_online
BY DEF EndEvent, EndConnectionAttempt, ConnectionLoginFailed, FactoryStates

\* A reset of a factory that is not connecting starts a patient attempt or a
\* canary; a refused login restores the previous backoff with one more failure.
LEMMA SignalConnectionResetPatient ==
    ASSUME NEW f, Sound(f), ~ f.connecting, NEW reason \in ResetReasons,
           reason = "LOGIN_FAILURE" => f.event = "success"
    PROVE  LET g == SignalConnectionReset(f, reason)
           IN  /\ Patient(g)
               /\ /\ reason = "LOGIN_FAILURE"
                  /\ f.handler # "null"
                  /\ ~ f.waiting_for_backoff
                  /\ ~ (f.waiting_for_network_online /\ AvoidOffline)
                  => g.backoff = InformOfFailure(f.previous)
<1> DEFINE e == EndEvent(f, reason)
           g == CloseSocket(e)
<1>1. CASE f.handler = "null"
  BY <1>1 DEF SignalConnectionReset, Patient
<1>2. CASE f.handler # "null"
  <2>1. /\ e \in FactoryStates /\ ~ e.connecting
        /\ e.waiting_for_backoff = f.waiting_for_backoff
    BY EndEventLemma DEF Sound
  <2>2. /\ e.backoff = f.backoff /\ e.previous = f.previous
        /\ e.waiting_for_network_online = f.waiting_for_network_online
    BY EndEventBackoff DEF Sound
  <2> HIDE DEF e
  <2>3. /\ g \in FactoryStates /\ ~ g.connecting
        /\ g.previous = f.previous
        /\ g.waiting_for_backoff = f.waiting_for_backoff
        /\ g.waiting_for_network_online = f.waiting_for_network_online
    BY <2>1, <2>2, CloseSocketBackoff
  <2>4. SignalConnectionReset(f, reason) =
          IF g.waiting_for_network_online /\ AvoidOffline THEN g
          ELSE IF reason = "NETWORK_CHANGE" THEN ConnectImpl(g, TRUE)
          ELSE IF g.waiting_for_backoff THEN g
          ELSE ReconnectAfter(g, reason)
    BY <1>2 DEF SignalConnectionReset, g, e
  <2> HIDE DEF g
  <2>5. Patient(g)
    BY <2>3 DEF Patient
  <2>6. Patient(ConnectImpl(g, TRUE))
    BY <2>3, ConnectImplBackoff DEF Patient
  <2>7. /\ Patient(ReconnectAfter(g, reason))
        /\ reason = "LOGIN_FAILURE" =>
               ReconnectAfter(g, reason).backoff = InformOfFailure(f.previous)
    BY <2>3, ReconnectAfterPatient
  <2>8. QED
    BY <2>3, <2>4, <2>5, <2>6, <2>7
<1>3. QED
  BY <1>1, <1>2

\* Every step that begins with no attempt under way ends with none, with a
\* patient one or with a canary.
LEMMA NextPatient ==
    ASSUME IInv, Next, ~ factory.connecting
    PROVE  Patient(factory')
<1>1. Sound(factory) /\ factory \in FactoryStates
  BY DEF IInv, Consistent, Sound
<1>2. CASE ClientConnect
  BY <1>1, <1>2, ConnectPatient DEF ClientConnect
<1>3. CASE BackoffExpired
  BY <1>3, BackoffExpiredShape, ConnectWithBackoffPatient
<1>4. CASE ConnectFails \/ ConnectSucceeds
  BY <1>4 DEF ConnectFails, ConnectSucceeds
<1>5. CASE LoginAccepted
  <2>1. factory' = [LoggedIn EXCEPT !.heartbeat = TRUE]
    BY <1>5 DEF LoginAccepted, LoggedIn
  <2>2. Sound(LoggedIn) /\ ~ LoggedIn.connecting
    BY <1>5, LoggedInLemma DEF LoginAccepted
  <2>3. QED
    BY <2>1, <2>2 DEF Sound, FactoryStates, Patient
<1>6. CASE LoginRefused
  <2>1. /\ Sound(LoggedIn) /\ ~ LoggedIn.connecting /\ LoggedIn.event = "success"
    BY <1>6, LoggedInLemma DEF LoginRefused
  <2>2. factory' = SignalConnectionReset(LoggedIn, "LOGIN_FAILURE")
    BY <1>6 DEF LoginRefused, LoggedIn
  <2>3. QED
    BY <2>1, <2>2, SignalConnectionResetPatient DEF ResetReasons
<1>7. CASE HandlerFails
  BY <1>7, HandlerFailsShape, SignalConnectionResetPatient DEF ResetReasons
<1>8. CASE SendMessage \/ FlushDone \/ Tick
  BY <1>1, <1>8 DEF SendMessage, FlushDone, Tick, Ticked, Patient, FactoryStates
<1>9. CASE ServerClose
  BY <1>1, <1>9, SignalConnectionResetPatient DEF ServerClose, ResetReasons
<1>10. CASE HeartbeatReset
  <2> DEFINE f == [factory EXCEPT !.heartbeat = FALSE]
  <2>1. PICK reason \in ResetReasons \ {"LOGIN_FAILURE"} :
            factory' = SignalConnectionReset(f, reason)
    BY <1>10 DEF HeartbeatReset, ResetReasons
  <2>2. Sound(f) /\ ~ f.connecting
    BY <1>1 DEF Sound, FactoryStates
  <2> HIDE DEF f
  <2>3. QED
    BY <2>1, <2>2, SignalConnectionResetPatient
<1>11. CASE OnNetworkLost \/ OnNetworkChanged
  <2>1. PICK offline \in BOOLEAN :
            factory' = SignalConnectionReset(
                [factory EXCEPT !.waiting_for_network_online = offline],
                "NETWORK_CHANGE")
    BY <1>11 DEF OnNetworkLost, OnNetworkChanged
  <2> DEFINE f == [factory EXCEPT !.waiting_for_network_online = offline]
  <2>2. Sound(f) /\ ~ f.connecting
    BY <1>1 DEF Sound, FactoryStates
  <2>3. factory' = SignalConnectionReset(f, "NETWORK_CHANGE")
    BY <2>1
  <2> HIDE DEF f
  <2>4. QED
    BY <2>2, <2>3, SignalConnectionResetPatient DEF ResetReasons
<1>12. QED
  BY <1>2, <1>3, <1>4, <1>5, <1>6, <1>7, <1>8, <1>9, <1>10, <1>11 DEF Next

\* Whatever resets, timers and network changes interleave, only a network change
\* starts a connection that the backoff entry would reject.
THEOREM BackoffBypassedByCanariesOnly == Spec => OnlyCanariesBypassBackoff
<1> DEFINE A == /\ ~ factory.connecting
                /\ factory'.connecting
                /\ ShouldRejectRequest(factory'.backoff)
                => factory'.ignore_failure
<1>1. IInv /\ [Next]_factory => [A]_factory
  BY NextPatient DEF Patient
<1>2. QED
  BY <1>1, Invariance, PTL DEF Spec, OnlyCanariesBypassBackoff

\* A login that the server refuses costs one failure on top of the backoff that
\* the attempt began with, although the handshake had reset the entry.
THEOREM RefusedLoginRestoresBackoff == Spec => LoginFailureRestoresBackoff
<1> DEFINE A == /\ LoginRefused
                /\ ~ factory.waiting_for_backoff
                /\ ~ (factory.waiting_for_network_online /\ AvoidOffline)
                => factory'.backoff = InformOfFailure(factory.backoff)
<1>1. IInv /\ [Next]_factory => [A]_factory
  <2> SUFFICES ASSUME IInv, LoginRefused, ~ factory.waiting_for_backoff,
                      ~ (factory.waiting_for_network_online /\ AvoidOffline)
               PROVE  factory'.backoff = InformOfFailure(factory.backoff)
    OBVIOUS
  <2>1. /\ Sound(LoggedIn) /\ LoggedIn.handler = "open" /\ ~ LoggedIn.connecting
        /\ LoggedIn.event = "success"
    BY LoggedInLemma DEF LoginRefused
  <2>2. /\ LoggedIn.previous = factory.backoff
        /\ LoggedIn.waiting_for_backoff = factory.waiting_for_backoff
        /\ LoggedIn.waiting_for_network_online = factory.waiting_for_network_online
    BY DEF LoggedIn, ConnectionHandlerSucceeded, ConnectionAttemptSucceeded,
           IInv, Consistent, Sound, FactoryStates
  <2>3. factory' = SignalConnectionReset(LoggedIn, "LOGIN_FAILURE")
    BY DEF LoginRefused, LoggedIn
  <2>4. QED
    BY <2>1, <2>2, <2>3, SignalConnectionResetPatient DEF ResetReasons
<1>2. QED
  BY <1>1, Invariance, PTL DEF Spec, LoginFailureRestoresBackoff

-----------------------------------------------------------------------------

HIDE ConstantsAssumption

\* The interval in use is within what the client asked for.
Asked(h) == h.server = 0 /\ h.client # 0 => h.interval <= h.client

\* A stopped manager expects nothing, and one that expects a heartbeat polls
\* where there are no power notifications.
Timed(h, linux) ==
    /\ h \in HeartbeatStates
    /\ Asked(h)
    /\ ~ h.running => h.expected = None /\ h.interval = 0
    /\ linux /\ h.expected # None => h.polls # {}

\* What the timer still allows: silence up to the next ping, and up to the end
\* of the wait for its answer once it is sent.
Allowance(h) == h.interval + (IF h.waiting_for_ack THEN AckTicks ELSE 0)

\* An unexcused ping to a live peer is still to be answered, in this very tick.
AnswerDue(h, l, p) ==
    l.alive /\ ~ l.excused /\ h.waiting_for_ack =>
        /\ l.answer
        /\ h.rem = AckTicks
        /\ h.expected = AckTicks
        /\ ~ p.asleep
        /\ ~ p.notify

\* An established connection has a running timer, whose rest bounds the silence.
Watched(f, h, l, p) ==
    /\ ~ Established(f) => l = NewLink
    /\ Established(f) =>
           /\ h.running
           /\ l.alive => l.silent = 0
           /\ l.silent + h.rem <= Allowance(h)
           /\ AnswerDue(h, l, p)

SystemIInv ==
    /\ IInv
    /\ Timed(hb, platform.polls)
    /\ Watched(factory, hb, link, power)
    /\ link \in Links
    /\ power \in [asleep : BOOLEAN, notify : BOOLEAN]
    /\ platform \in Platforms

\* The assumption on the constants, as arithmetic facts.
LEMMA Intervals ==
    /\ AckTicks \in Nat /\ AckTicks > 0
    /\ WifiTicks \in Nat /\ WifiTicks > 0
    /\ CellTicks \in Nat /\ CellTicks > 0
    /\ MinClientTicks \in Nat /\ MinClientTicks > 0
    /\ PollTicks \in Nat /\ PollTicks > 0
    /\ MinSuspend \in Nat
    /\ MinClientTicks <= WifiTicks /\ WifiTicks <= CellTicks
    /\ ServerTicks \subseteq 1..CellTicks
    /\ \A p \in Platforms : p.polls \in BOOLEAN /\ p.counts \in BOOLEAN
BY HeartbeatAssumption DEF Positive

-----------------------------------------------------------------------------

\* RestartTimer arms the timer for the phase the manager is in, and a poll.
LEMMA RestartTimerLemma ==
    ASSUME NEW h \in HeartbeatStates, Asked(h), NEW linux \in BOOLEAN
    PROVE  LET g == RestartTimer(h, linux)
               ticks == IF h.waiting_for_ack THEN AckTicks ELSE h.interval
           IN  /\ Timed(g, linux)
               /\ g.running
               /\ g.rem = ticks /\ g.expected = ticks
               /\ g.waiting_for_ack = h.waiting_for_ack
               /\ g.interval = h.interval
<1> DEFINE ticks == IF h.waiting_for_ack THEN AckTicks ELSE h.interval
           polls == IF linux THEN h.polls \union {PollTicks} ELSE h.polls
           g == RestartTimer(h, linux)
<1>1. ticks \in 0..CellTicks \union 0..AckTicks /\ ticks # None
  BY Intervals DEF HeartbeatStates, None
<1>2. polls \in SUBSET (0..PollTicks) /\ (linux => polls # {})
  BY Intervals DEF HeartbeatStates
<1>3. g = [h EXCEPT !.running = TRUE, !.rem = ticks, !.expected = ticks,
                    !.polls = polls]
  BY DEF RestartTimer, HeartbeatStates
<1> HIDE DEF ticks, polls, g
<1>4. g \in HeartbeatStates
  BY <1>1, <1>2, <1>3 DEF HeartbeatStates
<1>5. /\ g.running /\ g.rem = ticks /\ g.expected = ticks /\ g.polls = polls
      /\ g.waiting_for_ack = h.waiting_for_ack /\ g.interval = h.interval
      /\ g.server = h.server /\ g.client = h.client
  BY <1>3 DEF HeartbeatStates
<1>6. Timed(g, linux)
  BY <1>2, <1>4, <1>5 DEF Timed, Asked
<1>7. QED
  BY <1>5, <1>6 DEF ticks, g

\* Stop leaves a manager that expects nothing.
LEMMA StopLemma ==
    ASSUME NEW h \in HeartbeatStates, NEW linux \in BOOLEAN
    PROVE  /\ Timed(Stop(h), linux)
           /\ ~ Stop(h).running
           /\ Stop(h).client = h.client
<1> DEFINE g == Stop(h)
<1>1. g = [h EXCEPT !.expected = None, !.interval = 0, !.running = FALSE, !.rem = 0,
                    !.waiting_for_ack = FALSE]
  BY DEF Stop
<1> HIDE DEF g
<1>2. /\ 0 \in 0..CellTicks
      /\ None \in {None, Past} \union 0..CellTicks \union 0..AckTicks
  BY Intervals
<1>3. g \in HeartbeatStates
  BY <1>1, <1>2 DEF HeartbeatStates
<1>4. /\ g.expected = None /\ g.interval = 0 /\ ~ g.running /\ g.client = h.client
  BY <1>1 DEF HeartbeatStates
<1>5. g.client \in Nat
  BY <1>3, Intervals DEF HeartbeatStates
<1>6. QED
  BY <1>3, <1>4, <1>5 DEF Timed, Asked, g

\* UpdateHeartbeatInterval ends with an interval within the smallest asked for,
\* whatever interval it finds.
LEMMA UpdateIntervalLemma ==
    ASSUME NEW h \in HeartbeatStates, NEW default \in DefaultIntervals
    PROVE  LET g == UpdateHeartbeatInterval(h, default)
           IN  g \in HeartbeatStates /\ Asked(g)
<1> DEFINE n == IF h.server # 0 THEN h.server
                ELSE IF h.client # 0 /\ (h.client < h.interval \/ h.interval = 0)
                THEN h.client
                ELSE IF h.interval = 0 THEN default
                ELSE h.interval
           g == UpdateHeartbeatInterval(h, default)
<1>1. /\ h.server \in 0..CellTicks /\ h.client \in 0..CellTicks
      /\ h.interval \in 0..CellTicks /\ default \in 0..CellTicks
  <2>1. /\ h.server \in {0} \union ServerTicks
        /\ h.client \in {0} \union MinClientTicks..CellTicks
        /\ h.interval \in 0..CellTicks
    BY DEF HeartbeatStates
  <2>2. {0} \union ServerTicks \subseteq 0..CellTicks
    BY Intervals
  <2>3. {0} \union MinClientTicks..CellTicks \subseteq 0..CellTicks
    BY Intervals
  <2>4. default \in 0..CellTicks
    BY Intervals DEF DefaultIntervals
  <2>5. QED
    BY <2>1, <2>2, <2>3, <2>4
<1>2. /\ n \in 0..CellTicks
      /\ h.server = 0 /\ h.client # 0 => n <= h.client
  BY <1>1
<1>3. g = [h EXCEPT !.interval = n]
  BY Zenon DEF UpdateHeartbeatInterval
<1> HIDE DEF n, g
<1>4. g \in HeartbeatStates
  BY <1>2, <1>3 DEF HeartbeatStates
<1>5. g.interval = n /\ g.server = h.server /\ g.client = h.client
  BY <1>3 DEF HeartbeatStates
<1>6. QED
  BY <1>2, <1>4, <1>5 DEF Asked, g

\* A config in the login response is taken over.
LEMMA UpdateConfigLemma ==
    ASSUME NEW h \in HeartbeatStates, NEW config \in {0} \union ServerTicks,
           NEW default \in DefaultIntervals
    PROVE  UpdateHeartbeatConfig(h, config, default) \in HeartbeatStates
<1> DEFINE g == [h EXCEPT !.server = config]
<1>1. g \in HeartbeatStates
  BY DEF HeartbeatStates
<1> HIDE DEF g
<1>2. UpdateHeartbeatInterval(g, default) \in HeartbeatStates
  BY <1>1, UpdateIntervalLemma
<1>3. QED
  BY <1>2 DEF UpdateHeartbeatConfig, g

\* Start waits for the next heartbeat with the interval just chosen.
LEMMA StartLemma ==
    ASSUME NEW h \in HeartbeatStates, NEW linux \in BOOLEAN,
           NEW default \in DefaultIntervals
    PROVE  LET g == Start(h, linux, default)
           IN  /\ Timed(g, linux)
               /\ g.running /\ ~ g.waiting_for_ack
               /\ g.rem = g.interval
<1> DEFINE u == UpdateHeartbeatInterval(h, default)
           w == [u EXCEPT !.waiting_for_ack = FALSE]
<1>1. u \in HeartbeatStates /\ Asked(u)
  BY UpdateIntervalLemma
<1> HIDE DEF u
<1>2. w \in HeartbeatStates /\ Asked(w) /\ w.waiting_for_ack = FALSE
  BY <1>1 DEF HeartbeatStates, Asked
<1>3. Start(h, linux, default) = RestartTimer(w, linux)
  BY DEF Start, u
<1> HIDE DEF w
<1>4. QED
  BY <1>2, <1>3, RestartTimerLemma

\* A packet restarts the wait for the next heartbeat of a running manager.
LEMMA AckedLemma ==
    ASSUME NEW linux \in BOOLEAN, NEW h, Timed(h, linux)
    PROVE  LET g == OnHeartbeatAcked(h, linux)
           IN  /\ Timed(g, linux)
               /\ g.running = h.running
               /\ g.interval = h.interval
               /\ h.running => ~ g.waiting_for_ack /\ g.rem = g.interval
<1> DEFINE w == [h EXCEPT !.waiting_for_ack = FALSE]
<1>1. CASE ~ h.running
  BY <1>1 DEF OnHeartbeatAcked
<1>2. CASE h.running
  <2>1. /\ w \in HeartbeatStates /\ Asked(w) /\ w.waiting_for_ack = FALSE
        /\ w.interval = h.interval
    BY DEF Timed, HeartbeatStates, Asked
  <2>2. OnHeartbeatAcked(h, linux) = RestartTimer(w, linux)
    BY <1>2 DEF OnHeartbeatAcked
  <2>3. h.running = TRUE
    BY <1>2 DEF Timed, HeartbeatStates
  <2> HIDE DEF w
  <2>4. /\ Timed(RestartTimer(w, linux), linux)
        /\ RestartTimer(w, linux).running
        /\ RestartTimer(w, linux).rem = w.interval
        /\ ~ RestartTimer(w, linux).waiting_for_ack
        /\ RestartTimer(w, linux).interval = w.interval
    BY <2>1, RestartTimerLemma
  <2>5. RestartTimer(w, linux).running = TRUE
    BY <2>4 DEF Timed, HeartbeatStates
  <2>6. QED
    BY <2>1, <2>2, <2>3, <2>4, <2>5
<1>3. QED
  BY <1>1, <1>2

\* A trigger moves on to the wait for an answer, or stops when there was none.
LEMMA TriggeredLemma ==
    ASSUME NEW linux \in BOOLEAN, NEW h, Timed(h, linux)
    PROVE  LET g == OnHeartbeatTriggered(h, linux)
           IN  /\ Timed(g, linux)
               /\ g.client = h.client
               /\ h.waiting_for_ack => ~ g.running
               /\ ~ h.waiting_for_ack => /\ g.running /\ g.waiting_for_ack
                                         /\ g.rem = AckTicks /\ g.expected = AckTicks
                                         /\ g.interval = h.interval
<1> DEFINE c == [h EXCEPT !.polls = {}]
           w == [h EXCEPT !.polls = {}, !.waiting_for_ack = TRUE]
<1>1. h \in HeartbeatStates /\ Asked(h)
  BY DEF Timed
<1>2. CASE h.waiting_for_ack
  <2>1. OnHeartbeatTriggered(h, linux) = Stop(c)
    BY <1>2 DEF OnHeartbeatTriggered
  <2>2. c \in HeartbeatStates /\ c.client = h.client
    BY <1>1 DEF HeartbeatStates
  <2> HIDE DEF c
  <2>3. QED
    BY <1>2, <2>1, <2>2, StopLemma
<1>3. CASE ~ h.waiting_for_ack
  <2>1. OnHeartbeatTriggered(h, linux) = RestartTimer(w, linux)
    BY <1>3 DEF OnHeartbeatTriggered
  <2>2. /\ w \in HeartbeatStates /\ Asked(w) /\ w.waiting_for_ack
        /\ w.interval = h.interval /\ w.client = h.client
    BY <1>1 DEF HeartbeatStates, Asked
  <2> HIDE DEF w
  <2>3. RestartTimer(w, linux).client = w.client
    BY <2>2 DEF RestartTimer, HeartbeatStates
  <2>4. QED
    BY <1>3, <2>1, <2>2, <2>3, RestartTimerLemma
<1>4. QED
  BY <1>2, <1>3

\* A poll that finds nothing wrong posts the next one.
LEMMA PollAgainLemma ==
    ASSUME NEW linux \in BOOLEAN, NEW h, Timed(h, linux)
    PROVE  LET g == PollAgain(h)
           IN  /\ Timed(g, linux)
               /\ g.running = h.running /\ g.waiting_for_ack = h.waiting_for_ack
               /\ g.interval = h.interval /\ g.rem = h.rem
               /\ g.expected = h.expected
<1> DEFINE polls == (h.polls \ {0}) \union
                    (IF h.expected = None THEN {} ELSE {PollTicks})
           g == PollAgain(h)
<1>1. h \in HeartbeatStates
  BY DEF Timed
<1>2. polls \in SUBSET (0..PollTicks) /\ (h.expected # None => polls # {})
  BY <1>1, Intervals DEF HeartbeatStates
<1>3. g = [h EXCEPT !.polls = polls]
  BY <1>1 DEF PollAgain, HeartbeatStates
<1> HIDE DEF polls, g
<1>4. g \in HeartbeatStates /\ g.polls = polls
  BY <1>1, <1>2, <1>3 DEF HeartbeatStates
<1>5. /\ g.running = h.running /\ g.waiting_for_ack = h.waiting_for_ack
      /\ g.interval = h.interval /\ g.rem = h.rem /\ g.expected = h.expected
      /\ g.server = h.server /\ g.client = h.client
  BY <1>1, <1>3 DEF HeartbeatStates
<1>6. QED
  BY <1>2, <1>4, <1>5 DEF Timed, Asked, g

\* Going to sleep is noted and changes nothing else.
LEMMA OnSuspendLemma ==
    ASSUME NEW linux \in BOOLEAN, NEW h, Timed(h, linux)
    PROVE  LET g == OnSuspend(h)
           IN  /\ Timed(g, linux)
               /\ g.running = h.running /\ g.waiting_for_ack = h.waiting_for_ack
               /\ g.interval = h.interval /\ g.rem = h.rem
<1> DEFINE g == OnSuspend(h)
<1>1. h \in HeartbeatStates
  BY DEF Timed
<1>2. 0 \in 0..(MinSuspend + 1)
  BY Intervals
<1>3. g \in HeartbeatStates
  BY <1>1, <1>2 DEF OnSuspend, HeartbeatStates
<1>4. /\ g.running = h.running /\ g.waiting_for_ack = h.waiting_for_ack
      /\ g.interval = h.interval /\ g.rem = h.rem /\ g.expected = h.expected
      /\ g.server = h.server /\ g.client = h.client /\ g.polls = h.polls
  BY <1>1 DEF OnSuspend, HeartbeatStates
<1>5. QED
  BY <1>3, <1>4 DEF Timed, Asked

\* A custom interval that is not shorter than the one in use leaves that one.
LEMMA SetClientLemma ==
    ASSUME NEW linux \in BOOLEAN, NEW h, Timed(h, linux),
           NEW ticks \in {0} \union MinClientTicks..CellTicks
    PROVE  LET g == SetClientInterval(h, ticks)
           IN  /\ g \in HeartbeatStates
               /\ g.client = ticks
               /\ ~ NeedsShorterInterval(h, ticks) =>
                      /\ Timed(g, linux)
                      /\ g.running = h.running
                      /\ g.waiting_for_ack = h.waiting_for_ack
                      /\ g.interval = h.interval /\ g.rem = h.rem
                      /\ g.expected = h.expected
<1> DEFINE g == SetClientInterval(h, ticks)
<1>1. h \in HeartbeatStates
  BY DEF Timed
<1>2. g \in HeartbeatStates
  BY <1>1 DEF SetClientInterval, HeartbeatStates
<1>3. /\ g.running = h.running /\ g.waiting_for_ack = h.waiting_for_ack
      /\ g.interval = h.interval /\ g.rem = h.rem /\ g.expected = h.expected
      /\ g.server = h.server /\ g.client = ticks /\ g.polls = h.polls
  BY <1>1 DEF SetClientInterval, HeartbeatStates
<1> HIDE DEF g
<1>4. ticks \in Nat /\ h.interval \in Nat
  BY <1>1, Intervals DEF HeartbeatStates
<1>5. ~ NeedsShorterInterval(h, ticks) => Asked(g)
  BY <1>3, <1>4 DEF NeedsShorterInterval, Asked
<1>6. QED
  BY <1>2, <1>3, <1>5 DEF Timed, g

\* The wall clock moves expected times only.
LEMMA WallTickLemma ==
    ASSUME NEW linux \in BOOLEAN, NEW h, Timed(h, linux)
    PROVE  LET g == WallTick(h)
           IN  /\ Timed(g, linux)
               /\ g.running = h.running /\ g.waiting_for_ack = h.waiting_for_ack
               /\ g.interval = h.interval /\ g.rem = h.rem
<1> DEFINE e == IF h.expected \in {None, Past} THEN h.expected ELSE h.expected - 1
           a == IF h.suspend_age > MinSuspend THEN h.suspend_age ELSE h.suspend_age + 1
           g == WallTick(h)
<1>1. h \in HeartbeatStates
  BY DEF Timed
<1>2. /\ e \in {None, Past} \union 0..CellTicks \union 0..AckTicks
      /\ e = None <=> h.expected = None
      /\ a \in 0..(MinSuspend + 1)
  BY <1>1, Intervals DEF HeartbeatStates, None, Past
<1>3. g = [h EXCEPT !.expected = e, !.suspend_age = a]
  BY <1>1 DEF WallTick, HeartbeatStates
<1> HIDE DEF e, a, g
<1>4. g \in HeartbeatStates /\ g.expected = e
  BY <1>1, <1>2, <1>3 DEF HeartbeatStates
<1>5. /\ g.running = h.running /\ g.waiting_for_ack = h.waiting_for_ack
      /\ g.interval = h.interval /\ g.rem = h.rem
      /\ g.server = h.server /\ g.client = h.client /\ g.polls = h.polls
  BY <1>1, <1>3 DEF HeartbeatStates
<1>6. QED
  BY <1>2, <1>4, <1>5 DEF Timed, Asked, g

\* The tick clock moves the timer and the polls only.
LEMMA ClockTickLemma ==
    ASSUME NEW linux \in BOOLEAN, NEW h, Timed(h, linux)
    PROVE  LET g == ClockTick(h)
           IN  /\ Timed(g, linux)
               /\ g.running = h.running /\ g.waiting_for_ack = h.waiting_for_ack
               /\ g.interval = h.interval
               /\ g.rem = IF h.rem = 0 THEN 0 ELSE h.rem - 1
<1> DEFINE r == IF h.rem = 0 THEN 0 ELSE h.rem - 1
           polls == {IF p = 0 THEN 0 ELSE p - 1 : p \in h.polls}
           g == ClockTick(h)
<1>1. h \in HeartbeatStates
  BY DEF Timed
<1>2. r \in 0..CellTicks \union 0..AckTicks
  BY <1>1, Intervals DEF HeartbeatStates
<1>3. polls \in SUBSET (0..PollTicks) /\ (h.polls # {} => polls # {})
  BY <1>1, Intervals DEF HeartbeatStates
<1>4. g = [h EXCEPT !.rem = r, !.polls = polls]
  BY <1>1 DEF ClockTick, HeartbeatStates
<1> HIDE DEF r, polls, g
<1>5. g \in HeartbeatStates /\ g.rem = r /\ g.polls = polls
  BY <1>1, <1>2, <1>3, <1>4 DEF HeartbeatStates
<1>6. /\ g.running = h.running /\ g.waiting_for_ack = h.waiting_for_ack
      /\ g.interval = h.interval /\ g.expected = h.expected
      /\ g.server = h.server /\ g.client = h.client
  BY <1>1, <1>4 DEF HeartbeatStates
<1>7. QED
  BY <1>3, <1>5, <1>6 DEF Timed, Asked, r, g

-----------------------------------------------------------------------------

\* No method of the factory opens a connection: an attempt leaves the handler
\* as it is or without streams.
LEMMA ConnectHandler ==
    ASSUME NEW f \in FactoryStates
    PROVE  /\ Established(ConnectWithBackoff(f)) => Established(f)
           /\ Established(Connect(f)) => Established(f)
<1>1. ASSUME NEW g \in FactoryStates
      PROVE  ConnectWithBackoff(g).handler \in {g.handler, "null", "closed"}
  <2> DEFINE h == [g EXCEPT !.waiting_for_backoff = FALSE]
             c == CloseSocket(h)
  <2>1. h \in FactoryStates /\ h.handler = g.handler
    BY DEF FactoryStates
  <2>2. c \in FactoryStates /\ c.handler \in {"null", "closed"}
    BY <2>1, CloseSocketBackoff, ZenonT(30) DEF CloseSocket, FactoryStates
  <2>3. ConnectImpl(c, FALSE).handler = c.handler
    BY <2>2 DEF ConnectImpl, StartConnection, StartConnectionAttempt, FactoryStates
  <2>4. [g EXCEPT !.waiting_for_backoff = TRUE,
                  !.tasks = Append(@, g.backoff.rem)].handler = g.handler
    BY DEF FactoryStates
  <2>5. QED
    BY <2>1, <2>2, <2>3, <2>4 DEF ConnectWithBackoff
<1> DEFINE n == [f EXCEPT !.handler = IF @ = "null" THEN "closed" ELSE @]
<1>2. n \in FactoryStates /\ n.handler \in {f.handler, "closed"}
  BY DEF FactoryStates, HandlerStates
<1>3. Connect(f) = n \/ Connect(f) = ConnectWithBackoff(n)
  BY DEF Connect
<1> HIDE DEF n
<1>4. Connect(f).handler \in {f.handler, "null", "closed"}
  BY <1>1, <1>2, <1>3
<1>5. ConnectWithBackoff(f).handler \in {f.handler, "null", "closed"}
  BY <1>1
<1>6. QED
  BY <1>4, <1>5 DEF Established

\* A reset ends every connection, unless a connect is pending.
LEMMA ResetHandler ==
    ASSUME NEW f, Sound(f), NEW reason \in ResetReasons,
           reason = "LOGIN_FAILURE" => f.event = "success"
    PROVE  Established(SignalConnectionReset(f, reason)) =>
               f.connecting /\ Established(f)
<1> DEFINE e == EndEvent(f, reason)
           g == CloseSocket(e)
           r == IF reason = "LOGIN_FAILURE" \/ ShouldRestorePreviousBackoff(g)
                THEN RestorePreviousBackoff(g) ELSE g
           h == [r EXCEPT !.login_age = ResetWindow + 1]
<1>1. CASE f.handler = "null" \/ f.connecting
  BY <1>1 DEF SignalConnectionReset, Established
<1>2. CASE ~ (f.handler = "null" \/ f.connecting)
  <2>1. Sound(e) /\ e.handler # "null" /\ ~ e.connecting
    BY <1>2, EndEventLemma
  <2>2. Sound(g) /\ g \in FactoryStates /\ Disconnected(g) /\ ~ Established(g)
    BY <2>1, CloseSocketLemma DEF Disconnected, Established, Sound
  <2> HIDE DEF g
  <2>3. SignalConnectionReset(f, reason) =
          IF g.waiting_for_network_online /\ AvoidOffline THEN g
          ELSE IF reason = "NETWORK_CHANGE" THEN ConnectImpl(g, TRUE)
          ELSE IF g.waiting_for_backoff THEN g
          ELSE ReconnectAfter(g, reason)
    BY <1>2 DEF SignalConnectionReset, g
  <2>4. ConnectImpl(g, TRUE).handler = g.handler
    BY <2>2 DEF ConnectImpl, StartConnection, StartConnectionAttempt, FactoryStates
  <2>5. ~ Established(ReconnectAfter(g, reason))
    <3>1. InformOfFailure(g.previous) \in BackoffEntries
      BY <2>2, InformType DEF FactoryStates
    <3>2. r \in FactoryStates /\ r.handler = g.handler
      BY <2>2, <3>1 DEF RestorePreviousBackoff, FactoryStates
    <3> HIDE DEF r
    <3>3. ResetWindow + 1 \in 0..(ResetWindow + 1)
      BY ConstantsAssumption
    <3>4. h \in FactoryStates /\ h.handler = g.handler
      BY <3>2, <3>3 DEF FactoryStates
    <3>5. ReconnectAfter(g, reason) = Connect(h)
      BY DEF ReconnectAfter, r
    <3> HIDE DEF h
    <3>6. QED
      BY <2>2, <3>4, <3>5, ConnectHandler DEF Established
  <2>6. QED
    BY <2>2, <2>3, <2>4, <2>5 DEF Established
<1>3. QED
  BY <1>1, <1>2

\* So a reset of the factory's own state leaves no connection.
LEMMA ResetEndsConnection ==
    ASSUME IInv, NEW reason \in ResetReasons \ {"LOGIN_FAILURE"}
    PROVE  /\ Consistent(SignalConnectionReset(factory, reason))
           /\ ~ Established(SignalConnectionReset(factory, reason))
<1>1. Sound(factory) /\ (factory.connecting => ~ Established(factory))
  BY DEF IInv, Consistent, Linked, Established
<1>2. QED
  BY <1>1, ResetHandler, SignalConnectionResetLemma DEF IInv

\* The steps of the factory alone open no connection.
LEMMA FactoryOnlyHandler ==
    ASSUME IInv, FactoryOnly
    PROVE  IInv' /\ (Established(factory') => Established(factory))
<1>1. IInv'
  BY NextConsistent DEF FactoryOnly, Next
<1> SUFFICES ASSUME Established(factory') PROVE Established(factory)
  BY <1>1
<1>2. Sound(factory) /\ (factory.connecting => ~ Established(factory))
  BY DEF IInv, Consistent, Linked, Established
<1>3. CASE ClientConnect
  BY <1>2, <1>3, ConnectHandler DEF ClientConnect, Sound
<1>4. CASE BackoffExpired
  <2>1. PICK g \in FactoryStates : /\ g.handler = factory.handler
                                   /\ factory' = ConnectWithBackoff(g)
    BY <1>4, BackoffExpiredShape
  <2>2. QED
    BY <2>1, ConnectHandler DEF Established
<1>5. CASE ConnectFails
  <2>1. PICK h : Sound(h) /\ h.handler = "closed" /\ factory' = Connect(h)
    BY <1>5, ConnectFailsShape
  <2>2. QED
    BY <2>1, ConnectHandler DEF Established, Sound
<1>6. CASE LoginRefused
  <2>1. Sound(LoggedIn) /\ ~ LoggedIn.connecting /\ LoggedIn.event = "success"
    BY <1>6, LoggedInLemma DEF LoginRefused
  <2>2. factory' = SignalConnectionReset(LoggedIn, "LOGIN_FAILURE")
    BY <1>6 DEF LoginRefused, LoggedIn
  <2>3. QED
    BY <2>1, <2>2, ResetHandler DEF ResetReasons
<1>7. CASE HandlerFails
  BY <1>7, HandlerFailsShape, ResetHandler DEF ResetReasons
<1>8. CASE SendMessage \/ FlushDone
  BY <1>8 DEF SendMessage, FlushDone, IsEndpointReachable, Established
<1>9. CASE OnNetworkLost \/ OnNetworkChanged
  <2>1. PICK offline \in BOOLEAN :
            factory' = SignalConnectionReset(
                [factory EXCEPT !.waiting_for_network_online = offline],
                "NETWORK_CHANGE")
    BY <1>9 DEF OnNetworkLost, OnNetworkChanged
  <2> DEFINE f == [factory EXCEPT !.waiting_for_network_online = offline]
  <2>2. Sound(f) /\ f.handler = factory.handler
    BY <1>2 DEF Sound, FactoryStates
  <2>3. factory' = SignalConnectionReset(f, "NETWORK_CHANGE")
    BY <2>1
  <2> HIDE DEF f
  <2>4. QED
    BY <2>2, <2>3, ResetHandler DEF ResetReasons, Established
<1>10. QED
  BY <1>3, <1>4, <1>5, <1>6, <1>7, <1>8, <1>9 DEF FactoryOnly

-----------------------------------------------------------------------------

\* The initial state satisfies the invariant.
LEMMA SystemInitHolds == SystemInit => SystemIInv
<1> SUFFICES ASSUME SystemInit PROVE SystemIInv
  OBVIOUS
<1>1. IInv
  BY InitConsistent DEF SystemInit
<1>2. ~ Established(factory)
  BY DEF SystemInit, Init, Established
<1>3. Stopped \in HeartbeatStates
  <2>1. /\ 0 \in 0..CellTicks /\ MinSuspend + 1 \in 0..(MinSuspend + 1)
        /\ None \in {None, Past} \union 0..CellTicks \union 0..AckTicks
    BY Intervals
  <2>2. QED
    BY <2>1 DEF Stopped, HeartbeatStates
<1>4. Timed(hb, platform.polls)
  BY <1>3 DEF SystemInit, Timed, Asked, Stopped
<1>5. 0 \in 0..(CellTicks + AckTicks + 1)
  BY Intervals
<1>6. link \in Links
  BY <1>5 DEF SystemInit, Links, NewLink
<1>7. QED
  BY <1>1, <1>2, <1>4, <1>6 DEF SystemInit, SystemIInv, Watched

\* The parts of the invariant that the steps use, typed.
LEMMA SystemFacts ==
    ASSUME SystemIInv
    PROVE  /\ IInv /\ factory \in FactoryStates
           /\ Timed(hb, platform.polls) /\ hb \in HeartbeatStates
           /\ Watched(factory, hb, link, power)
           /\ link \in Links
           /\ power \in [asleep : BOOLEAN, notify : BOOLEAN]
           /\ platform \in Platforms
           /\ platform.polls \in BOOLEAN /\ platform.counts \in BOOLEAN
           /\ hb.rem \in Nat /\ hb.interval \in 0..CellTicks
           /\ link.silent \in Nat
<1>1. \A r \in 0..CellTicks \union 0..AckTicks : r \in Nat
  BY Intervals
<1>2. \A t \in 0..(CellTicks + AckTicks + 1) : t \in Nat
  BY Intervals
<1>3. hb.rem \in Nat /\ hb.interval \in 0..CellTicks
  BY <1>1 DEF SystemIInv, Timed, HeartbeatStates
<1>4. link.silent \in Nat
  BY <1>2 DEF SystemIInv, Links
<1>5. platform.polls \in BOOLEAN /\ platform.counts \in BOOLEAN
  BY Intervals DEF SystemIInv
<1>6. QED
  BY <1>3, <1>4, <1>5 DEF SystemIInv, IInv, Consistent, Sound, Timed

\* A new link is a link of nothing.
LEMMA NewLinkType == NewLink \in Links
<1>1. 0 \in 0..(CellTicks + AckTicks + 1)
  BY Intervals
<1>2. QED
  BY <1>1 DEF Links, NewLink

\* A state without a connection satisfies the invariant as soon as its parts do.
LEMMA WithoutConnection ==
    ASSUME IInv', ~ Established(factory'), Timed(hb', platform'.polls),
           link' = NewLink, power' \in [asleep : BOOLEAN, notify : BOOLEAN],
           platform' \in Platforms
    PROVE  SystemIInv'
BY NewLinkType DEF SystemIInv, Watched

\* The factory's own steps end connections or leave them alone.
LEMMA FactoryOnlyStep == SystemIInv /\ FactoryOnly => SystemIInv'
<1> SUFFICES ASSUME SystemIInv, FactoryOnly PROVE SystemIInv'
  OBVIOUS
<1>1. IInv' /\ (Established(factory') => Established(factory))
  BY SystemFacts, FactoryOnlyHandler
<1>2. hb' = hb /\ power' = power /\ platform' = platform /\ link' = LinkAfter(factory', link)
  BY DEF FactoryOnly
<1>3. CASE Established(factory')
  BY <1>1, <1>2, <1>3 DEF SystemIInv, Watched, LinkAfter
<1>4. CASE ~ Established(factory')
  <2>1. link' = NewLink
    BY <1>2, <1>4 DEF LinkAfter
  <2>2. QED
    BY <1>1, <1>2, <1>4, <2>1, WithoutConnection DEF SystemIInv
<1>5. QED
  BY <1>3, <1>4

\* A login request is built while there is no connection, and stops the manager.
LEMMA BuildLoginRequestStep == SystemIInv /\ BuildLoginRequest => SystemIInv'
<1> SUFFICES ASSUME SystemIInv, BuildLoginRequest PROVE SystemIInv'
  OBVIOUS
<1>1. ConnectSucceeds /\ IInv /\ factory \in FactoryStates
  BY SystemFacts DEF BuildLoginRequest
<1>2. IInv'
  BY <1>1, NextConsistent DEF Next
<1>3. ~ Established(factory)
  BY <1>1 DEF ConnectSucceeds, IInv, Consistent, Linked, Established
<1>4. ~ Established(factory')
  BY <1>1 DEF ConnectSucceeds, WriteToLoginRequest, FactoryStates, Established
<1>5. Timed(hb', platform'.polls)
  BY SystemFacts, StopLemma DEF BuildLoginRequest
<1>6. link' = NewLink
  BY <1>3 DEF BuildLoginRequest, SystemIInv, Watched
<1>7. QED
  BY <1>2, <1>4, <1>5, <1>6, WithoutConnection DEF BuildLoginRequest, SystemIInv

\* An accepted login starts the manager on a connection nothing is known against.
LEMMA LoginResponseStep == SystemIInv /\ LoginResponse => SystemIInv'
<1> SUFFICES ASSUME SystemIInv, LoginResponse PROVE SystemIInv'
  OBVIOUS
<1>1. IInv'
  BY SystemFacts, NextConsistent DEF LoginResponse, Next
<1>2. link = NewLink
  BY DEF LoginResponse, LoginAccepted, SystemIInv, Watched, Established
<1>3. PICK config \in {0} \union ServerTicks, default \in DefaultIntervals :
          hb' = Start(UpdateHeartbeatConfig(OnHeartbeatAcked(hb, platform.polls),
                                            config, default),
                      platform.polls, default)
  BY DEF LoginResponse
<1> DEFINE a == OnHeartbeatAcked(hb, platform.polls)
           u == UpdateHeartbeatConfig(a, config, default)
<1>4. a \in HeartbeatStates
  BY SystemFacts, AckedLemma DEF Timed
<1>5. u \in HeartbeatStates
  BY <1>4, UpdateConfigLemma
<1>6. /\ Timed(hb', platform.polls) /\ hb'.running /\ ~ hb'.waiting_for_ack
      /\ hb'.rem = hb'.interval
  BY <1>3, <1>5, SystemFacts, StartLemma
<1>7. hb'.interval \in Nat
  BY <1>6, Intervals DEF Timed, HeartbeatStates
<1>8. link' = NewLink /\ power' = power /\ platform' = platform
  BY <1>2 DEF LoginResponse
<1>9. Watched(factory', hb', link', power')
  BY <1>6, <1>7, <1>8 DEF Watched, Allowance, AnswerDue, NewLink
<1>10. QED
  BY <1>1, <1>6, <1>8, <1>9, NewLinkType DEF SystemIInv

\* A packet starts a new wait for the next heartbeat.
LEMMA PacketReceivedStep == SystemIInv /\ PacketReceived => SystemIInv'
<1> SUFFICES ASSUME SystemIInv, PacketReceived PROVE SystemIInv'
  OBVIOUS
<1>1. Established(factory) /\ link.alive /\ power' = power /\ platform' = platform
  BY DEF PacketReceived
<1>2. factory' = factory \/ SendMessage
  BY DEF PacketReceived
<1>3. IInv'
  BY <1>2, SystemFacts, NextConsistent DEF Next
<1>4. Established(factory')
  BY <1>1, <1>2, SystemFacts DEF SendMessage, Established, FactoryStates
<1>5. hb.running /\ link.silent = 0
  BY <1>1 DEF SystemIInv, Watched
<1>6. /\ Timed(hb', platform.polls) /\ hb'.running /\ ~ hb'.waiting_for_ack
      /\ hb'.rem = hb'.interval
  <2>1. hb' = OnHeartbeatAcked(hb, platform.polls)
    BY DEF PacketReceived
  <2>2. QED
    BY <1>5, <2>1, SystemFacts, AckedLemma
<1>7. hb'.interval \in Nat
  BY <1>6, Intervals DEF Timed, HeartbeatStates
<1>8. link' \in Links /\ link'.silent = 0
  BY <1>5, SystemFacts DEF PacketReceived, Heard, Links
<1>9. Watched(factory', hb', link', power')
  BY <1>4, <1>6, <1>7, <1>8 DEF Watched, Allowance, AnswerDue
<1>10. QED
  BY <1>1, <1>3, <1>6, <1>8, <1>9 DEF SystemIInv

\* A Close from the server ends the connection.
LEMMA CloseReceivedStep == SystemIInv /\ CloseReceived => SystemIInv'
<1> SUFFICES ASSUME SystemIInv, CloseReceived PROVE SystemIInv'
  OBVIOUS
<1>1. factory' = SignalConnectionReset(factory, "CLOSE_COMMAND")
  BY DEF CloseReceived, ServerClose
<1>2. IInv' /\ ~ Established(factory')
  BY <1>1, SystemFacts, ResetEndsConnection DEF IInv, ResetReasons
<1>3. link' = NewLink
  BY <1>2 DEF CloseReceived, LinkAfter
<1>4. Timed(hb', platform'.polls)
  BY SystemFacts, AckedLemma DEF CloseReceived
<1>5. QED
  BY <1>2, <1>3, <1>4, WithoutConnection DEF CloseReceived, SystemIInv

\* A trigger gives the connection up, or allows it the time of one more answer.
LEMMA TriggeredStep ==
    ASSUME SystemIInv, Awake, Triggered, platform' = platform,
           power' \in [asleep : BOOLEAN, notify : BOOLEAN],
           ~ power'.asleep, power'.notify => power.notify
    PROVE  SystemIInv'
<1>1. Timed(hb', platform'.polls)
  BY SystemFacts, TriggeredLemma DEF Triggered
<1>2. CASE hb.waiting_for_ack
  <2>1. /\ factory' = SignalConnectionReset(factory, "HEARTBEAT_FAILURE")
        /\ link' = LinkAfter(factory', link)
    BY <1>2 DEF Triggered
  <2>2. IInv' /\ ~ Established(factory')
    BY <2>1, SystemFacts, ResetEndsConnection DEF IInv, ResetReasons
  <2>3. link' = NewLink
    BY <2>1, <2>2 DEF LinkAfter
  <2>4. QED
    BY <1>1, <2>2, <2>3, WithoutConnection DEF SystemIInv
<1>3. CASE ~ hb.waiting_for_ack
  <2>1. SendHeartbeat
    BY <1>3 DEF Triggered
  <2>2. /\ hb'.running /\ hb'.waiting_for_ack /\ hb'.rem = AckTicks
        /\ hb'.expected = AckTicks /\ hb'.interval = hb.interval
    BY <1>3, SystemFacts, TriggeredLemma DEF Triggered
  <2>3. Established(factory) => link.silent + AckTicks <= hb.interval + AckTicks
    <3>1. Established(factory) => link.silent + hb.rem <= hb.interval
      BY <1>3, SystemFacts DEF Watched, Allowance
    <3>2. QED
      BY <3>1, SystemFacts, Intervals
  <2>4. CASE IsEndpointReachable(factory)
    <3>1. /\ factory' = [factory EXCEPT !.handler = "flushing"]
          /\ link' = [link EXCEPT !.answer = link.alive,
                                  !.excused = @ \/ power.notify]
      BY <2>1, <2>4 DEF SendHeartbeat
    <3>2. IInv'
      BY <2>4, <3>1, SystemFacts, NextConsistent DEF Next, SendMessage
    <3>3. Established(factory)
      BY <2>4 DEF IsEndpointReachable, Established
    <3>4. /\ link' \in Links /\ link'.alive = link.alive /\ link'.answer = link.alive
          /\ link'.silent = link.silent /\ (power.notify => link'.excused)
      BY <3>1, SystemFacts DEF Links
    <3>5. AnswerDue(hb', link', power')
      BY <2>2, <3>4 DEF AnswerDue
    <3>6. link.alive => link.silent = 0
      BY <3>3, SystemFacts DEF Watched
    <3>7. Established(factory')
      BY <3>1, SystemFacts DEF Established, FactoryStates
    <3>8. Watched(factory', hb', link', power')
      BY <2>2, <2>3, <3>3, <3>4, <3>5, <3>6, <3>7 DEF Watched, Allowance
    <3>9. QED
      BY <1>1, <3>2, <3>4, <3>8 DEF SystemIInv
  <2>5. CASE ~ IsEndpointReachable(factory)
    <3>1. /\ factory' = factory
          /\ link' = [link EXCEPT !.excused = Established(factory)]
      BY <2>1, <2>5 DEF SendHeartbeat
    <3>2. IInv'
      BY <3>1, SystemFacts DEF IInv
    <3>3. CASE Established(factory)
      <4>1. /\ link' \in Links /\ link'.excused /\ link'.alive = link.alive
            /\ link'.silent = link.silent
        BY <3>1, <3>3, SystemFacts DEF Links, Established
      <4>2. link.alive => link.silent = 0
        BY <3>3, SystemFacts DEF Watched
      <4>3. Watched(factory', hb', link', power')
        BY <2>2, <2>3, <3>1, <3>3, <4>1, <4>2 DEF Watched, Allowance, AnswerDue
      <4>4. QED
        BY <1>1, <3>2, <4>1, <4>3 DEF SystemIInv
    <3>4. CASE ~ Established(factory)
      <4>1. link = NewLink
        BY <3>4, SystemFacts DEF Watched
      <4>2. link' = NewLink
        <5>1. Established(factory) = FALSE
          BY <3>4 DEF Established
        <5>2. link' = [NewLink EXCEPT !.excused = FALSE]
          BY <3>1, <4>1, <5>1
        <5>3. QED
          BY <5>2 DEF NewLink
      <4>3. QED
        BY <1>1, <3>1, <3>2, <3>4, <4>2, WithoutConnection DEF SystemIInv
    <3>5. QED
      BY <3>3, <3>4
  <2>6. QED
    BY <2>4, <2>5
<1>4. QED
  BY <1>2, <1>3

\* The timer, the poll and the power monitor all trigger; a poll may also only
\* post the next one, and a resume may find nothing to do.
LEMMA TimersStep ==
    SystemIInv /\ (TimerFires \/ CheckForMissedHeartbeat \/ Resume) => SystemIInv'
<1> SUFFICES ASSUME SystemIInv, TimerFires \/ CheckForMissedHeartbeat \/ Resume
             PROVE  SystemIInv'
  OBVIOUS
<1>1. /\ Awake /\ platform' = platform
      /\ power' \in [asleep : BOOLEAN, notify : BOOLEAN]
      /\ ~ power'.asleep /\ (power'.notify => power.notify)
  BY SystemFacts DEF TimerFires, CheckForMissedHeartbeat, Resume, Awake
<1>2. CASE Triggered
  BY <1>1, <1>2, TriggeredStep
<1>3. CASE CheckForMissedHeartbeat /\ ~ Triggered
  <2>1. hb' = PollAgain(hb) /\ UNCHANGED <<factory, link, power>>
    BY <1>3 DEF CheckForMissedHeartbeat
  <2>2. /\ Timed(hb', platform.polls)
        /\ hb'.running = hb.running /\ hb'.waiting_for_ack = hb.waiting_for_ack
        /\ hb'.interval = hb.interval /\ hb'.rem = hb.rem
        /\ hb'.expected = hb.expected
    BY <2>1, SystemFacts, PollAgainLemma
  <2>3. QED
    BY <1>1, <2>1, <2>2
       DEF SystemIInv, Watched, Allowance, AnswerDue, IInv
<1>4. CASE Resume /\ ~ Triggered
  <2>1. UNCHANGED <<factory, hb, link>> /\ power.notify
    BY <1>4 DEF Resume
  <2>2. Established(factory) => ~ (link.alive /\ ~ link.excused /\ hb.waiting_for_ack)
    BY <2>1, SystemFacts DEF Watched, AnswerDue
  <2>3. QED
    BY <1>1, <2>1, <2>2 DEF SystemIInv, Watched, AnswerDue, IInv
<1>5. QED
  BY <1>2, <1>3, <1>4 DEF TimerFires

\* A shorter custom interval resets the connection; any other is only noted.
LEMMA SetClientStep == SystemIInv /\ SetClientHeartbeatIntervalMs => SystemIInv'
<1> SUFFICES ASSUME SystemIInv, SetClientHeartbeatIntervalMs PROVE SystemIInv'
  OBVIOUS
<1>1. power' = power /\ platform' = platform
  BY DEF SetClientHeartbeatIntervalMs
<1>2. PICK ticks \in 0..(CellTicks + 1), default \in DefaultIntervals :
          /\ ticks # 0 => IsValidClientHeartbeatInterval(ticks, default)
          /\ IF NeedsShorterInterval(hb, ticks)
             THEN /\ hb' = Stop(SetClientInterval(hb, ticks))
                  /\ factory' = SignalConnectionReset(factory, "NEW_HEARTBEAT_INTERVAL")
                  /\ link' = LinkAfter(factory', link)
             ELSE hb' = SetClientInterval(hb, ticks) /\ UNCHANGED <<factory, link>>
  BY DEF SetClientHeartbeatIntervalMs
<1>3. ticks \in {0} \union MinClientTicks..CellTicks
  BY <1>2, Intervals DEF IsValidClientHeartbeatInterval, DefaultIntervals
<1>4. CASE NeedsShorterInterval(hb, ticks)
  <2>1. IInv' /\ ~ Established(factory')
    BY <1>2, <1>4, SystemFacts, ResetEndsConnection DEF IInv, ResetReasons
  <2>2. link' = NewLink
    BY <1>2, <1>4, <2>1 DEF LinkAfter
  <2>3. Timed(hb', platform.polls)
    BY <1>2, <1>3, <1>4, SystemFacts, SetClientLemma, StopLemma
  <2>4. QED
    BY <1>1, <2>1, <2>2, <2>3, WithoutConnection DEF SystemIInv
<1>5. CASE ~ NeedsShorterInterval(hb, ticks)
  <2>1. hb' = SetClientInterval(hb, ticks) /\ UNCHANGED <<factory, link>>
    BY <1>2, <1>5
  <2>2. /\ Timed(hb', platform.polls)
        /\ hb'.running = hb.running /\ hb'.waiting_for_ack = hb.waiting_for_ack
        /\ hb'.interval = hb.interval /\ hb'.rem = hb.rem
        /\ hb'.expected = hb.expected
    BY <1>3, <1>5, <2>1, SystemFacts, SetClientLemma
  <2>3. QED
    BY <1>1, <2>1, <2>2 DEF SystemIInv, Watched, Allowance, AnswerDue, IInv
<1>6. QED
  BY <1>4, <1>5

\* A peer that dies leaves the silence it began with.
LEMMA LinkDiesStep == SystemIInv /\ LinkDies => SystemIInv'
<1> SUFFICES ASSUME SystemIInv, LinkDies PROVE SystemIInv'
  OBVIOUS
<1>1. Established(factory) /\ UNCHANGED <<factory, hb, power, platform>>
  BY DEF LinkDies
<1>2. link' \in Links /\ ~ link'.alive /\ link'.silent = link.silent
  BY SystemFacts DEF LinkDies, Links
<1>3. QED
  BY <1>1, <1>2 DEF SystemIInv, Watched, AnswerDue, IInv

\* Falling asleep excuses a ping that is still unanswered.
LEMMA SuspendStep == SystemIInv /\ Suspend => SystemIInv'
<1> SUFFICES ASSUME SystemIInv, Suspend PROVE SystemIInv'
  OBVIOUS
<1>1. factory' = factory /\ platform' = platform
  BY DEF Suspend
<1>2. power' \in [asleep : BOOLEAN, notify : BOOLEAN]
  BY SystemFacts DEF Suspend
<1>3. /\ Timed(hb', platform.polls)
      /\ hb'.running = hb.running /\ hb'.waiting_for_ack = hb.waiting_for_ack
      /\ hb'.interval = hb.interval /\ hb'.rem = hb.rem
  BY SystemFacts, OnSuspendLemma DEF Suspend
<1> DEFINE e == link.excused \/ (Established(factory) /\ hb.waiting_for_ack)
<1>4. e \in BOOLEAN
  BY DEF Established
<1>5. link' = [link EXCEPT !.excused = e]
  BY DEF Suspend
<1>6. CASE Established(factory)
  <2>1. hb.waiting_for_ack => e
    BY <1>6
  <2> HIDE DEF e
  <2>2. /\ link' \in Links /\ link'.alive = link.alive /\ link'.silent = link.silent
        /\ link'.excused = e
    BY <1>4, <1>5, SystemFacts DEF Links
  <2>3. QED
    BY <1>1, <1>2, <1>3, <1>6, <2>1, <2>2
       DEF SystemIInv, Watched, Allowance, AnswerDue, IInv
<1>7. CASE ~ Established(factory)
  <2>1. link = NewLink
    BY <1>7, SystemFacts DEF Watched
  <2>2. e = FALSE
    BY <1>7, <2>1 DEF NewLink
  <2> HIDE DEF e
  <2>3. link' = NewLink
    BY <1>5, <2>1, <2>2 DEF NewLink
  <2>4. IInv'
    BY <1>1, SystemFacts DEF IInv
  <2>5. QED
    BY <1>1, <1>2, <1>3, <1>7, <2>3, <2>4, WithoutConnection DEF SystemIInv
<1>8. QED
  BY <1>6, <1>7

\* Time passing leaves the factory's connection as it is.
LEMMA TickedHandler ==
    ASSUME IInv
    PROVE  /\ Consistent(Ticked(factory))
           /\ Ticked(factory).handler = factory.handler
BY TickedLemma DEF IInv, Consistent, Sound, Ticked, FactoryStates

\* While the machine sleeps the timer can only come closer.
LEMMA SleepTickStep == SystemIInv /\ SleepTick => SystemIInv'
<1> SUFFICES ASSUME SystemIInv, SleepTick PROVE SystemIInv'
  OBVIOUS
<1>1. power.asleep /\ UNCHANGED <<link, power, platform>>
  BY DEF SleepTick
<1>2. IInv' /\ factory'.handler = factory.handler
  BY SystemFacts, TickedHandler DEF SleepTick, IInv
<1> DEFINE c == IF platform.counts THEN ClockTick(hb) ELSE hb
<1>3. /\ Timed(c, platform.polls)
      /\ c.running = hb.running /\ c.waiting_for_ack = hb.waiting_for_ack
      /\ c.interval = hb.interval
      /\ c.rem \in {hb.rem, IF hb.rem = 0 THEN 0 ELSE hb.rem - 1}
  BY SystemFacts, ClockTickLemma
<1>4. hb' = WallTick(c)
  BY DEF SleepTick
<1> HIDE DEF c
<1>5. /\ Timed(hb', platform.polls)
      /\ hb'.running = hb.running /\ hb'.waiting_for_ack = hb.waiting_for_ack
      /\ hb'.interval = hb.interval /\ hb'.rem = c.rem
  BY <1>3, <1>4, SystemFacts, WallTickLemma
<1>6. hb'.rem \in Nat /\ hb'.rem <= hb.rem
  BY <1>3, <1>5, SystemFacts
<1>7. Allowance(hb') = Allowance(hb) /\ Allowance(hb) \in Nat
  BY <1>5, SystemFacts, Intervals DEF Allowance
<1>8. Established(factory) => ~ (link.alive /\ ~ link.excused /\ hb.waiting_for_ack)
  BY <1>1, SystemFacts DEF Watched, AnswerDue
<1>9. link.silent + hb.rem <= Allowance(hb) => link.silent + hb'.rem <= Allowance(hb)
  BY <1>6, <1>7, SystemFacts
<1>10. Watched(factory', hb', link', power')
  BY <1>1, <1>2, <1>5, <1>7, <1>8, <1>9, SystemFacts
     DEF Watched, AnswerDue, Established
<1>11. QED
  BY <1>1, <1>2, <1>5, <1>10 DEF SystemIInv

\* Waking up changes nothing but the power state.
LEMMA WakeStep == SystemIInv /\ Wake => SystemIInv'
<1> SUFFICES ASSUME SystemIInv, Wake PROVE SystemIInv'
  OBVIOUS
<1>1. power.asleep /\ UNCHANGED <<factory, hb, link, platform>>
  BY DEF Wake
<1>2. power' \in [asleep : BOOLEAN, notify : BOOLEAN]
  BY DEF Wake
<1>3. Established(factory) => ~ (link.alive /\ ~ link.excused /\ hb.waiting_for_ack)
  BY <1>1, SystemFacts DEF Watched, AnswerDue
<1>4. QED
  BY <1>1, <1>2, <1>3 DEF SystemIInv, Watched, AnswerDue, IInv

\* An awake tick moves the timer as much as it adds to the silence.
LEMMA SystemTickStep == SystemIInv /\ SystemTick => SystemIInv'
<1> SUFFICES ASSUME SystemIInv, SystemTick PROVE SystemIInv'
  OBVIOUS
<1>1. /\ UNCHANGED <<power, platform>> /\ (hb.running => hb.rem > 0) /\ ~ link.answer
  BY DEF SystemTick
<1>2. IInv' /\ factory'.handler = factory.handler
  BY SystemFacts, TickedHandler DEF SystemTick, IInv
<1> DEFINE c == ClockTick(hb)
           n == IF link.alive \/ link.silent > CellTicks + AckTicks
                THEN link.silent ELSE link.silent + 1
<1>3. /\ Timed(c, platform.polls)
      /\ c.running = hb.running /\ c.waiting_for_ack = hb.waiting_for_ack
      /\ c.interval = hb.interval
      /\ c.rem = IF hb.rem = 0 THEN 0 ELSE hb.rem - 1
  BY SystemFacts, ClockTickLemma
<1>4. hb' = WallTick(c)
  BY DEF SystemTick
<1> HIDE DEF c
<1>5. /\ Timed(hb', platform.polls)
      /\ hb'.running = hb.running /\ hb'.waiting_for_ack = hb.waiting_for_ack
      /\ hb'.interval = hb.interval /\ hb'.rem = c.rem
  BY <1>3, <1>4, SystemFacts, WallTickLemma
<1>6. n \in 0..(CellTicks + AckTicks + 1) /\ n <= link.silent + 1
      /\ (link.alive => n = link.silent)
  <2>1. link.silent \in 0..(CellTicks + AckTicks + 1)
    BY SystemFacts DEF Links
  <2>2. QED
    BY <2>1, Intervals
<1>7. link' = [link EXCEPT !.silent = n]
  BY DEF SystemTick
<1> HIDE DEF n
<1>8. /\ link' \in Links /\ link'.silent = n
      /\ link'.alive = link.alive /\ link'.excused = link.excused
  BY <1>6, <1>7, SystemFacts DEF Links
<1>9. CASE Established(factory)
  <2>1. hb.running /\ (link.alive => link.silent = 0)
        /\ link.silent + hb.rem <= Allowance(hb)
        /\ ~ (link.alive /\ ~ link.excused /\ hb.waiting_for_ack)
    BY <1>1, <1>9, SystemFacts DEF Watched, AnswerDue
  <2>2. Allowance(hb') = Allowance(hb) /\ Allowance(hb) \in Nat
    BY <1>5, SystemFacts, Intervals DEF Allowance
  <2>3. hb'.rem = hb.rem - 1
    BY <1>1, <1>3, <1>5, <2>1, SystemFacts
  <2>4. n + hb'.rem <= Allowance(hb)
    <3>1. n \in Nat
      BY <1>6, Intervals
    <3>2. QED
      BY <1>6, <2>1, <2>2, <2>3, <3>1, SystemFacts
  <2>5. Watched(factory', hb', link', power')
    BY <1>2, <1>5, <1>6, <1>8, <1>9, <2>1, <2>2, <2>4
       DEF Watched, AnswerDue, Established
  <2>6. QED
    BY <1>1, <1>2, <1>5, <1>8, <2>5, SystemFacts DEF SystemIInv
<1>10. CASE ~ Established(factory)
  <2>1. link = NewLink
    BY <1>10, SystemFacts DEF Watched
  <2>2. link' = NewLink
    BY <1>6, <1>7, <2>1 DEF NewLink
  <2>3. ~ Established(factory')
    BY <1>2, <1>10 DEF Established
  <2>4. QED
    BY <1>1, <1>2, <1>5, <2>2, <2>3, SystemFacts, WithoutConnection
<1>11. QED
  BY <1>9, <1>10

\* Every step of the system keeps the inductive invariant.
LEMMA SystemNextHolds == SystemIInv /\ [SystemNext]_vars => SystemIInv'
<1> SUFFICES ASSUME SystemIInv, [SystemNext]_vars PROVE SystemIInv'
  OBVIOUS
<1>1. CASE UNCHANGED vars
  BY <1>1 DEF vars, SystemIInv, IInv
<1>2. CASE SystemNext
  BY <1>2, FactoryOnlyStep, BuildLoginRequestStep, LoginResponseStep,
     PacketReceivedStep, CloseReceivedStep, TimersStep, SetClientStep, LinkDiesStep,
     SuspendStep, SleepTickStep, WakeStep, SystemTickStep
     DEF SystemNext
<1>3. QED
  BY <1>1, <1>2

\* The inductive invariant holds in every reachable state.
LEMMA SystemInvariance == SystemSpec => []SystemIInv
<1>1. SystemInit => SystemIInv
  BY SystemInitHolds
<1>2. SystemIInv /\ [SystemNext]_vars => SystemIInv'
  BY SystemNextHolds
<1>3. QED
  BY <1>1, <1>2, PTL DEF SystemSpec

\* The state of the manager, the link and the machine keeps its type, and where
\* there are no power notifications a poll is posted for as long as a heartbeat
\* is expected.
THEOREM PollsKeptUp == SystemSpec => []SystemSound
<1>1. SystemIInv => SystemSound
  BY DEF SystemIInv, Timed, SystemSound, SystemTypeOK, TypeOK, IInv, Consistent, Sound
<1>2. QED
  BY <1>1, SystemInvariance, PTL

\* A silently dead connection is given up within a heartbeat interval and one
\* wait for the answer, for every interval the server or the client may choose.
THEOREM SilenceBounded == SystemSpec => []DeadConnectionNoticed
<1>1. SystemIInv => DeadConnectionNoticed
  <2> SUFFICES ASSUME SystemIInv, Established(factory), ~ link.alive
               PROVE  link.silent <= hb.interval + AckTicks
    BY DEF DeadConnectionNoticed
  <2>1. link.silent + hb.rem <= Allowance(hb)
    BY SystemFacts DEF Watched
  <2>2. Allowance(hb) <= hb.interval + AckTicks /\ Allowance(hb) \in Nat
    BY SystemFacts, Intervals DEF Allowance
  <2>3. QED
    BY <2>1, <2>2, SystemFacts, Intervals
<1>2. QED
  BY <1>1, SystemInvariance, PTL

\* Without an interval from the server, the one in use is within what the client
\* has asked for.
THEOREM ClientIntervalKept == SystemSpec => []IntervalRespected
<1>1. SystemIInv => IntervalRespected
  BY DEF SystemIInv, Timed, Asked, IntervalRespected
<1>2. QED
  BY <1>1, SystemInvariance, PTL

\* A trigger resets a connection that answers only when a ping was dropped or a
\* sleep came between a ping and its answer.
THEOREM AnsweringPeerKept == SystemSpec => LiveConnectionKept
<1> DEFINE A == /\ Established(factory)
                /\ link.alive
                /\ ~ link.excused
                /\ hb.waiting_for_ack
                => Established(factory') \/ ~ Triggered
<1>1. SystemIInv /\ [SystemNext]_vars => [A]_vars
  <2> SUFFICES ASSUME SystemIInv, SystemNext, Established(factory), link.alive,
                      ~ link.excused, hb.waiting_for_ack, Triggered
               PROVE  FALSE
    OBVIOUS
  <2>1. /\ hb.running /\ hb.rem = AckTicks /\ hb.expected = AckTicks
        /\ ~ power.asleep /\ ~ power.notify
    BY SystemFacts DEF Watched, AnswerDue
  <2>2. ~ hb'.running /\ hb'.client = hb.client
    BY SystemFacts, TriggeredLemma DEF Triggered
  <2>3. CASE FactoryOnly \/ BuildLoginRequest \/ LoginResponse \/ LinkDies
    BY <2>1, <2>2, <2>3, SystemFacts
       DEF FactoryOnly, BuildLoginRequest, ConnectSucceeds, LoginResponse, LoginAccepted,
           LinkDies, IInv, Consistent, Linked, Established
  <2>4. CASE PacketReceived \/ CloseReceived
    BY <2>1, <2>2, <2>4, SystemFacts, AckedLemma DEF PacketReceived, CloseReceived
  <2>5. CASE TimerFires \/ CheckForMissedHeartbeat \/ Resume
    <3>1. ~ TimerFires /\ ~ Resume
      BY <2>1, Intervals DEF TimerFires, Resume
    <3>2. hb' = PollAgain(hb)
      BY <2>1, <2>5, <3>1, Intervals DEF CheckForMissedHeartbeat, HeartbeatMissed, Past
    <3>3. QED
      BY <2>1, <2>2, <3>2, SystemFacts, PollAgainLemma
  <2>6. CASE SetClientHeartbeatIntervalMs
    <3>1. PICK ticks \in 0..(CellTicks + 1), default \in DefaultIntervals :
              /\ ticks # 0 => IsValidClientHeartbeatInterval(ticks, default)
              /\ ticks # hb.client
              /\ \/ hb' = Stop(SetClientInterval(hb, ticks))
                 \/ hb' = SetClientInterval(hb, ticks)
      BY <2>6 DEF SetClientHeartbeatIntervalMs
    <3>2. ticks \in {0} \union MinClientTicks..CellTicks
      BY <3>1, Intervals DEF IsValidClientHeartbeatInterval, DefaultIntervals
    <3>3. hb'.client = ticks
      BY <3>1, <3>2, SystemFacts, SetClientLemma, StopLemma
    <3>4. QED
      BY <2>2, <3>1, <3>3
  <2>7. CASE Suspend \/ SleepTick \/ Wake
    BY <2>1, <2>2, <2>7, SystemFacts, OnSuspendLemma DEF Suspend, SleepTick, Wake
  <2>8. CASE SystemTick
    <3>1. hb' = WallTick(ClockTick(hb))
      BY <2>8 DEF SystemTick
    <3>2. hb'.running = hb.running
      BY <3>1, SystemFacts, ClockTickLemma, WallTickLemma
    <3>3. QED
      BY <2>1, <2>2, <3>2
  <2>9. QED
    BY <2>3, <2>4, <2>5, <2>6, <2>7, <2>8 DEF SystemNext
<1>2. QED
  BY <1>1, SystemInvariance, PTL DEF SystemSpec, LiveConnectionKept

-----------------------------------------------------------------------------
(***************************************************************************)
(* The factory with the real heartbeat manager implements                  *)
(* ConnectionFactory, which only assumes a manager that may reset the      *)
(* connection while it runs: SystemSpec => FactoryView!Spec.               *)
(*                                                                         *)
(* No method of the factory reads or writes the field heartbeat, so each   *)
(* commutes with the refinement mapping, which replaces that field by the  *)
(* manager's running timer. The methods of the instance are those of       *)
(* ConnectionFactory, one lemma for each group.                            *)
(***************************************************************************)

\* The refinement mapping, and the field it replaces.
With(f, b) == [f EXCEPT !.heartbeat = b]

View == With(factory, hb.running)

\* The mapping changes no other field.
LEMMA WithType ==
    ASSUME NEW f \in FactoryStates, NEW b \in BOOLEAN
    PROVE  /\ With(f, b) \in FactoryStates
           /\ With(f, b).handler = f.handler
           /\ With(f, b).connecting = f.connecting
           /\ With(f, b).waiting_for_backoff = f.waiting_for_backoff
           /\ With(f, b).waiting_for_network_online = f.waiting_for_network_online
           /\ With(f, b).handshake_in_progress = f.handshake_in_progress
           /\ With(f, b).backoff = f.backoff
           /\ With(f, b).previous = f.previous
           /\ With(f, b).login_age = f.login_age
           /\ With(f, b).tasks = f.tasks
           /\ With(f, b).event = f.event
           /\ With(f, b).heartbeat = b
BY DEF With, FactoryStates

\* The last value given counts.
LEMMA WithTwice ==
    ASSUME NEW f \in FactoryStates, NEW a \in BOOLEAN, NEW b \in BOOLEAN
    PROVE  With(With(f, a), b) = With(f, b)
BY DEF With, FactoryStates

-----------------------------------------------------------------------------

\* The methods that only assign commute with the mapping.
LEMMA AssignmentsCommute ==
    ASSUME NEW f \in FactoryStates, NEW b \in BOOLEAN
    PROVE  /\ CloseSocket(With(f, b)) = With(CloseSocket(f), b)
           /\ \A ignore \in BOOLEAN :
                  ConnectImpl(With(f, b), ignore) = With(ConnectImpl(f, ignore), b)
           /\ \A reason : EndEvent(With(f, b), reason) = With(EndEvent(f, reason), b)
           /\ RestorePreviousBackoff(With(f, b)) = With(RestorePreviousBackoff(f), b)
           /\ Ticked(With(f, b)) = With(Ticked(f), b)
           /\ \A i : WithoutTask(With(f, b), i) = With(WithoutTask(f, i), b)
<1>1. CloseSocket(With(f, b)) = With(CloseSocket(f), b)
  BY DEF With, CloseSocket, FactoryStates
<1>2. ASSUME NEW ignore \in BOOLEAN
      PROVE  ConnectImpl(With(f, b), ignore) = With(ConnectImpl(f, ignore), b)
  BY DEF With, ConnectImpl, StartConnection, StartConnectionAttempt,
         IsEndpointReachable, FactoryStates
<1>3. ASSUME NEW reason
      PROVE  EndEvent(With(f, b), reason) = With(EndEvent(f, reason), b)
  BY ZenonT(30) DEF With, EndEvent, EndConnectionAttempt, ConnectionLoginFailed,
         IsEventInProgress, FactoryStates
<1>4. RestorePreviousBackoff(With(f, b)) = With(RestorePreviousBackoff(f), b)
  BY DEF With, RestorePreviousBackoff, FactoryStates
<1>5. Ticked(With(f, b)) = With(Ticked(f), b)
  BY DEF With, Ticked, FactoryStates
<1>6. ASSUME NEW i
      PROVE  WithoutTask(With(f, b), i) = With(WithoutTask(f, i), b)
  BY DEF With, WithoutTask, FactoryStates
<1>7. QED
  BY <1>1, <1>2, <1>3, <1>4, <1>5, <1>6

\* ConnectWithBackoff commutes with the mapping.
LEMMA ConnectWithBackoffCommutes ==
    ASSUME NEW f \in FactoryStates, NEW b \in BOOLEAN
    PROVE  ConnectWithBackoff(With(f, b)) = With(ConnectWithBackoff(f), b)
<1> DEFINE h == [f EXCEPT !.waiting_for_backoff = FALSE]
           w == [f EXCEPT !.waiting_for_backoff = TRUE,
                          !.tasks = Append(@, f.backoff.rem)]
           g == CloseSocket(h)
           v == With(f, b)
<1>1. h \in FactoryStates
  BY DEF FactoryStates
<1>2. g \in FactoryStates
  BY <1>1, CloseSocketBackoff
<1>3. [v EXCEPT !.waiting_for_backoff = FALSE] = With(h, b)
  BY DEF With, FactoryStates
<1>4. [v EXCEPT !.waiting_for_backoff = TRUE,
                !.tasks = Append(@, v.backoff.rem)] = With(w, b)
  BY DEF With, FactoryStates
<1>5. CloseSocket(With(h, b)) = With(g, b)
  BY <1>1, AssignmentsCommute
<1>6. ConnectImpl(With(g, b), FALSE) = With(ConnectImpl(g, FALSE), b)
  BY <1>2, AssignmentsCommute
<1>7. /\ v.connecting = f.connecting /\ v.backoff = f.backoff
      /\ v.handshake_in_progress = f.handshake_in_progress
      /\ IsEndpointReachable(v) <=> IsEndpointReachable(f)
  BY WithType DEF IsEndpointReachable
<1>8. With(g, b).waiting_for_network_online = g.waiting_for_network_online
  BY <1>2, WithType
<1> HIDE DEF v, g, h, w
<1>9. ConnectWithBackoff(v) =
          IF f.connecting \/ f.handshake_in_progress \/ IsEndpointReachable(f)
          THEN With(h, b)
          ELSE IF ShouldRejectRequest(f.backoff) THEN With(w, b)
          ELSE IF g.waiting_for_network_online /\ AvoidOffline THEN With(g, b)
          ELSE With(ConnectImpl(g, FALSE), b)
  BY <1>3, <1>4, <1>5, <1>6, <1>7, <1>8 DEF ConnectWithBackoff
<1>10. ConnectWithBackoff(f) =
          IF f.connecting \/ f.handshake_in_progress \/ IsEndpointReachable(f)
          THEN h
          ELSE IF ShouldRejectRequest(f.backoff) THEN w
          ELSE IF g.waiting_for_network_online /\ AvoidOffline THEN g
          ELSE ConnectImpl(g, FALSE)
  BY DEF ConnectWithBackoff, h, w, g
<1>11. QED
  BY <1>9, <1>10 DEF v

\* So does Connect.
LEMMA ConnectCommutes ==
    ASSUME NEW f \in FactoryStates, NEW b \in BOOLEAN
    PROVE  Connect(With(f, b)) = With(Connect(f), b)
<1> DEFINE n == [f EXCEPT !.handler = IF @ = "null" THEN "closed" ELSE @]
           v == With(f, b)
<1>1. n \in FactoryStates
  BY DEF FactoryStates, HandlerStates
<1>2. [v EXCEPT !.handler = IF @ = "null" THEN "closed" ELSE @] = With(n, b)
  BY DEF With, FactoryStates
<1> HIDE DEF n
<1>3. /\ With(n, b).connecting = n.connecting
      /\ With(n, b).waiting_for_backoff = n.waiting_for_backoff
      /\ IsEndpointReachable(With(n, b)) <=> IsEndpointReachable(n)
  BY <1>1, WithType DEF IsEndpointReachable
<1>4. ConnectWithBackoff(With(n, b)) = With(ConnectWithBackoff(n), b)
  BY <1>1, ConnectWithBackoffCommutes
<1> HIDE DEF v
<1>5. Connect(v) = IF n.connecting \/ n.waiting_for_backoff \/ IsEndpointReachable(n)
                   THEN With(n, b) ELSE With(ConnectWithBackoff(n), b)
  BY <1>2, <1>3, <1>4 DEF Connect
<1>6. Connect(f) = IF n.connecting \/ n.waiting_for_backoff \/ IsEndpointReachable(n)
                   THEN n ELSE ConnectWithBackoff(n)
  BY DEF Connect, n
<1>7. QED
  BY <1>5, <1>6 DEF v

\* So does the reconnect after a reset.
LEMMA ReconnectAfterCommutes ==
    ASSUME NEW f \in FactoryStates, NEW b \in BOOLEAN, NEW reason
    PROVE  ReconnectAfter(With(f, b), reason) = With(ReconnectAfter(f, reason), b)
<1> DEFINE r == IF reason = "LOGIN_FAILURE" \/ ShouldRestorePreviousBackoff(f)
                THEN RestorePreviousBackoff(f) ELSE f
           v == With(f, b)
           s == IF reason = "LOGIN_FAILURE" \/ ShouldRestorePreviousBackoff(v)
                THEN RestorePreviousBackoff(v) ELSE v
           h == [r EXCEPT !.login_age = ResetWindow + 1]
<1>1. InformOfFailure(f.previous) \in BackoffEntries
  BY InformType DEF FactoryStates
<1>2. RestorePreviousBackoff(f) \in FactoryStates
  BY <1>1 DEF RestorePreviousBackoff, FactoryStates
<1>3. r \in FactoryStates
  BY <1>2
<1>4. s = With(r, b)
  BY AssignmentsCommute, WithType DEF ShouldRestorePreviousBackoff
<1>5. ReconnectAfter(f, reason) = Connect(h)
  BY DEF ReconnectAfter
<1>6. ReconnectAfter(v, reason) = Connect([s EXCEPT !.login_age = ResetWindow + 1])
  BY DEF ReconnectAfter
<1> HIDE DEF r, s, v
<1>7. ResetWindow + 1 \in 0..(ResetWindow + 1)
  BY ConstantsAssumption
<1>8. h \in FactoryStates
  BY <1>3, <1>7 DEF FactoryStates
<1>9. [s EXCEPT !.login_age = ResetWindow + 1] = With(h, b)
  BY <1>3, <1>4 DEF With, FactoryStates
<1>10. Connect(With(h, b)) = With(Connect(h), b)
  BY <1>8, ConnectCommutes
<1>11. QED
  BY <1>5, <1>6, <1>9, <1>10 DEF v

\* So does a reset.
LEMMA ResetCommutes ==
    ASSUME NEW f, Sound(f), NEW b \in BOOLEAN, NEW reason \in ResetReasons,
           reason = "LOGIN_FAILURE" => f.event = "success"
    PROVE  SignalConnectionReset(With(f, b), reason) =
               With(SignalConnectionReset(f, reason), b)
<1> DEFINE v == With(f, b)
           e == EndEvent(f, reason)
           g == CloseSocket(e)
<1>1. f \in FactoryStates
  BY DEF Sound
<1>2. e \in FactoryStates
  BY EndEventLemma DEF Sound
<1>3. g \in FactoryStates
  BY <1>2, CloseSocketBackoff
<1>4. v.handler = f.handler /\ v.connecting = f.connecting
  BY <1>1, WithType
<1>5. CloseSocket(EndEvent(v, reason)) = With(g, b)
  <2>1. EndEvent(v, reason) = With(e, b)
    BY <1>1, AssignmentsCommute
  <2>2. CloseSocket(With(e, b)) = With(g, b)
    BY <1>2, AssignmentsCommute
  <2>3. QED
    BY <2>1, <2>2
<1>6. /\ With(g, b).waiting_for_network_online = g.waiting_for_network_online
      /\ With(g, b).waiting_for_backoff = g.waiting_for_backoff
  BY <1>3, WithType
<1>7. /\ ConnectImpl(With(g, b), TRUE) = With(ConnectImpl(g, TRUE), b)
      /\ ReconnectAfter(With(g, b), reason) = With(ReconnectAfter(g, reason), b)
  BY <1>3, AssignmentsCommute, ReconnectAfterCommutes
<1> HIDE DEF g
<1>8. SignalConnectionReset(f, reason) =
          IF f.handler = "null" \/ f.connecting THEN f
          ELSE IF g.waiting_for_network_online /\ AvoidOffline THEN g
          ELSE IF reason = "NETWORK_CHANGE" THEN ConnectImpl(g, TRUE)
          ELSE IF g.waiting_for_backoff THEN g
          ELSE ReconnectAfter(g, reason)
  BY DEF SignalConnectionReset, g
<1> HIDE DEF v, e
<1>9. SignalConnectionReset(v, reason) =
          IF f.handler = "null" \/ f.connecting THEN v
          ELSE IF g.waiting_for_network_online /\ AvoidOffline THEN With(g, b)
          ELSE IF reason = "NETWORK_CHANGE" THEN With(ConnectImpl(g, TRUE), b)
          ELSE IF g.waiting_for_backoff THEN With(g, b)
          ELSE With(ReconnectAfter(g, reason), b)
  BY <1>4, <1>5, <1>6, <1>7 DEF SignalConnectionReset
<1>10. QED
  BY <1>8, <1>9 DEF v

\* So do the records that the handlers pass on.
LEMMA HandlersCommute ==
    ASSUME NEW f \in FactoryStates, NEW b \in BOOLEAN
    PROVE  /\ AttemptFailed(With(f, b)) = With(AttemptFailed(f), b)
           /\ HandlerGone(With(f, b)) = With(HandlerGone(f), b)
           /\ ConnectionHandlerSucceeded([With(f, b) EXCEPT !.handler = "open"]) =
                  With(ConnectionHandlerSucceeded([f EXCEPT !.handler = "open"]), b)
<1>1. AttemptFailed(With(f, b)) = With(AttemptFailed(f), b)
  <2> DEFINE c == CloseSocket(f)
             a == ConnectionAttemptFailed(c)
             e == EndConnectionAttempt(a)
             d == EndConnectionAttempt(ConnectionAttemptFailed(CloseSocket(With(f, b))))
             newLog == [completed |-> SmallerOf(a.log.completed + 1, MaxEvents),
                        discarded |-> a.log.discarded \/ a.log.completed = MaxEvents]
  <2>1. c \in FactoryStates /\ CloseSocket(With(f, b)) = With(c, b)
    BY CloseSocketBackoff, AssignmentsCommute
  <2> HIDE DEF c
  <2>2. d = With(e, b)
    BY <2>1 DEF With, EndConnectionAttempt, ConnectionAttemptFailed,
                IsEventInProgress, FactoryStates
  <2>3. a \in FactoryStates
    BY <2>1 DEF ConnectionAttemptFailed, FactoryStates, EventStates
  <2> HIDE DEF a
  <2>4. newLog \in EventLogs
    BY <2>3, ConstantsAssumption DEF FactoryStates, EventLogs, SmallerOf
  <2>5. e = [a EXCEPT !.checks = a.checks /\ IsEventInProgress(a),
                      !.log = newLog, !.event = "none"]
    BY <2>3 DEF EndConnectionAttempt, FactoryStates
  <2> HIDE DEF newLog, e
  <2>6. e \in FactoryStates
    BY <2>3, <2>4, <2>5, ZenonT(30) DEF FactoryStates, EventStates, IsEventInProgress
  <2>7. AttemptFailed(f) =
            [e EXCEPT !.backoff = IF e.ignore_failure /\ SpareCanary
                                  THEN @ ELSE InformOfFailure(@),
                      !.next_endpoint = NextEndpoint(@),
                      !.connecting = FALSE]
    BY DEF AttemptFailed, e, a, c
  <2>8. AttemptFailed(With(f, b)) =
            [d EXCEPT !.backoff = IF d.ignore_failure /\ SpareCanary
                                  THEN @ ELSE InformOfFailure(@),
                      !.next_endpoint = NextEndpoint(@),
                      !.connecting = FALSE]
    BY DEF AttemptFailed
  <2> HIDE DEF d
  <2>9. QED
    BY <2>2, <2>6, <2>7, <2>8, ZenonT(30) DEF With, FactoryStates
<1>2. HandlerGone(With(f, b)) = With(HandlerGone(f), b)
  BY DEF With, HandlerGone, FactoryStates
<1>3. ConnectionHandlerSucceeded([With(f, b) EXCEPT !.handler = "open"]) =
          With(ConnectionHandlerSucceeded([f EXCEPT !.handler = "open"]), b)
  BY DEF With, ConnectionHandlerSucceeded, ConnectionAttemptSucceeded, FactoryStates
<1>4. QED
  BY <1>1, <1>2, <1>3

-----------------------------------------------------------------------------

\* The instance's methods are those of ConnectionFactory.
LEMMA SameAssignments ==
    ASSUME NEW f
    PROVE  /\ FactoryView!CloseSocket(f) = CloseSocket(f)
           /\ \A ignore : FactoryView!ConnectImpl(f, ignore) = ConnectImpl(f, ignore)
           /\ \A reason : FactoryView!EndEvent(f, reason) = EndEvent(f, reason)
           /\ FactoryView!RestorePreviousBackoff(f) = RestorePreviousBackoff(f)
           /\ FactoryView!Ticked(f) = Ticked(f)
           /\ \A i : FactoryView!WithoutTask(f, i) = WithoutTask(f, i)
           /\ FactoryView!WriteToLoginRequest(f) = WriteToLoginRequest(f)
           /\ FactoryView!ConnectionHandlerSucceeded(f) = ConnectionHandlerSucceeded(f)
           /\ FactoryView!ShouldRejectRequest(f) <=> ShouldRejectRequest(f)
           /\ FactoryView!IsEndpointReachable(f) <=> IsEndpointReachable(f)
           /\ FactoryView!ShouldRestorePreviousBackoff(f) <=>
                  ShouldRestorePreviousBackoff(f)
<1>1. FactoryView!CloseSocket(f) = CloseSocket(f)
  BY DEF FactoryView!CloseSocket, CloseSocket
<1>2. ASSUME NEW ignore
      PROVE  FactoryView!ConnectImpl(f, ignore) = ConnectImpl(f, ignore)
  BY DEF FactoryView!ConnectImpl, ConnectImpl,
         FactoryView!StartConnection, StartConnection,
         FactoryView!StartConnectionAttempt, StartConnectionAttempt,
         FactoryView!IsEndpointReachable, IsEndpointReachable
<1>3. ASSUME NEW reason
      PROVE  FactoryView!EndEvent(f, reason) = EndEvent(f, reason)
  BY DEF FactoryView!EndEvent, EndEvent,
         FactoryView!EndConnectionAttempt, EndConnectionAttempt,
         FactoryView!ConnectionLoginFailed, ConnectionLoginFailed,
         FactoryView!IsEventInProgress, IsEventInProgress,
         FactoryView!SmallerOf, SmallerOf
<1>4. FactoryView!RestorePreviousBackoff(f) = RestorePreviousBackoff(f)
  BY DEF FactoryView!RestorePreviousBackoff, RestorePreviousBackoff,
         FactoryView!InformOfFailure, InformOfFailure,
         FactoryView!SmallerOf, SmallerOf, FactoryView!LargerOf, LargerOf
<1>5. FactoryView!Ticked(f) = Ticked(f)
  BY DEF FactoryView!Ticked, Ticked, FactoryView!MinusOne, MinusOne,
         FactoryView!SmallerOf, SmallerOf
<1>6. \A i : FactoryView!WithoutTask(f, i) = WithoutTask(f, i)
  BY DEF FactoryView!WithoutTask, WithoutTask
<1>7. /\ FactoryView!WriteToLoginRequest(f) = WriteToLoginRequest(f)
      /\ FactoryView!ConnectionHandlerSucceeded(f) = ConnectionHandlerSucceeded(f)
  BY DEF FactoryView!WriteToLoginRequest, WriteToLoginRequest,
         FactoryView!ConnectionHandlerSucceeded, ConnectionHandlerSucceeded,
         FactoryView!ConnectionAttemptSucceeded, ConnectionAttemptSucceeded,
         FactoryView!FreshBackoff, FreshBackoff, FactoryView!EmptyLog, EmptyLog
<1>8. /\ FactoryView!ShouldRejectRequest(f) <=> ShouldRejectRequest(f)
      /\ FactoryView!IsEndpointReachable(f) <=> IsEndpointReachable(f)
      /\ FactoryView!ShouldRestorePreviousBackoff(f) <=> ShouldRestorePreviousBackoff(f)
  BY DEF FactoryView!ShouldRejectRequest, ShouldRejectRequest,
         FactoryView!IsEndpointReachable, IsEndpointReachable,
         FactoryView!ShouldRestorePreviousBackoff, ShouldRestorePreviousBackoff
<1>9. QED
  BY <1>1, <1>2, <1>3, <1>4, <1>5, <1>6, <1>7, <1>8

\* The instance's Connect and reset are those of ConnectionFactory.
LEMMA SameMethods ==
    ASSUME NEW f
    PROVE  /\ FactoryView!ConnectWithBackoff(f) = ConnectWithBackoff(f)
           /\ FactoryView!Connect(f) = Connect(f)
           /\ \A reason : FactoryView!SignalConnectionReset(f, reason) =
                              SignalConnectionReset(f, reason)
<1>1. ASSUME NEW g
      PROVE  FactoryView!ConnectWithBackoff(g) = ConnectWithBackoff(g)
  BY SameAssignments DEF FactoryView!ConnectWithBackoff, ConnectWithBackoff
<1>2. ASSUME NEW g
      PROVE  FactoryView!Connect(g) = Connect(g)
  BY <1>1, SameAssignments DEF FactoryView!Connect, Connect
<1>3. ASSUME NEW g, NEW reason
      PROVE  FactoryView!ReconnectAfter(g, reason) = ReconnectAfter(g, reason)
  BY <1>2, SameAssignments DEF FactoryView!ReconnectAfter, ReconnectAfter
<1>4. ASSUME NEW reason
      PROVE  FactoryView!SignalConnectionReset(f, reason) =
                 SignalConnectionReset(f, reason)
  BY <1>3, SameAssignments DEF FactoryView!SignalConnectionReset, SignalConnectionReset
<1>5. QED
  BY <1>1, <1>2, <1>4

\* The instance passes the same records on as ConnectionFactory's handlers do.
LEMMA SameHandlers ==
    ASSUME NEW g
    PROVE  /\ LET f == FactoryView!EndConnectionAttempt(
                           FactoryView!ConnectionAttemptFailed(FactoryView!CloseSocket(g)))
              IN  FactoryView!Connect([f EXCEPT
                      !.backoff = IF f.ignore_failure /\ SpareCanary
                                  THEN @ ELSE FactoryView!InformOfFailure(@),
                      !.next_endpoint = FactoryView!NextEndpoint(@),
                      !.connecting = FALSE]) = Connect(AttemptFailed(g))
           /\ FactoryView!ConnectionHandlerFailed([g EXCEPT !.handler = "closed"]) =
                  SignalConnectionReset(HandlerGone(g), "SOCKET_FAILURE")
<1>1. \A h : FactoryView!InformOfFailure(h) = InformOfFailure(h)
  BY DEF FactoryView!InformOfFailure, InformOfFailure,
         FactoryView!SmallerOf, SmallerOf, FactoryView!LargerOf, LargerOf
<1>2. \A n : FactoryView!NextEndpoint(n) = NextEndpoint(n)
  BY DEF FactoryView!NextEndpoint, NextEndpoint
<1>3. \A h : FactoryView!EndConnectionAttempt(h) = EndConnectionAttempt(h)
  BY DEF FactoryView!EndConnectionAttempt, EndConnectionAttempt,
         FactoryView!IsEventInProgress, IsEventInProgress,
         FactoryView!SmallerOf, SmallerOf
<1>4. \A h : FactoryView!ConnectionAttemptFailed(h) = ConnectionAttemptFailed(h)
  BY DEF FactoryView!ConnectionAttemptFailed, ConnectionAttemptFailed
<1>5. /\ \A h : FactoryView!CloseSocket(h) = CloseSocket(h)
      /\ \A h : FactoryView!Connect(h) = Connect(h)
      /\ \A h, reason : FactoryView!SignalConnectionReset(h, reason) =
                            SignalConnectionReset(h, reason)
  BY SameAssignments, SameMethods
<1>6. QED
  BY <1>1, <1>2, <1>3, <1>4, <1>5
     DEF AttemptFailed, HandlerGone, FactoryView!ConnectionHandlerFailed

-----------------------------------------------------------------------------

\* What the steps below know of the two states: the types, and the view.
Mapped ==
    /\ IInv
    /\ hb.running \in BOOLEAN
    /\ hb'.running \in BOOLEAN

\* A step of the factory that leaves the manager running or stopped is the same
\* step of the view.
LEMMA FactoryStepMapped ==
    ASSUME Mapped, hb'.running = hb.running,
           \/ ClientConnect
           \/ BackoffExpired
           \/ ConnectFails
           \/ LoginRefused
           \/ HandlerFails
           \/ SendMessage
           \/ FlushDone
           \/ ServerClose
           \/ OnNetworkLost
           \/ OnNetworkChanged
    PROVE  FactoryView!Next
<1> DEFINE b == hb.running
<1>1. /\ Sound(factory) /\ factory \in FactoryStates /\ b \in BOOLEAN
      /\ View = With(factory, b) /\ View' = With(factory', b)
  BY DEF Mapped, IInv, Consistent, Sound, View, With
<1>2. /\ View.handler = factory.handler
      /\ View.connecting = factory.connecting
      /\ View.tasks = factory.tasks
  BY <1>1, WithType
<1> HIDE DEF b
<1>3. CASE ClientConnect
  <2>1. View' = Connect(View)
    BY <1>1, <1>3, ConnectCommutes DEF ClientConnect
  <2>2. FactoryView!ClientConnect
    BY <1>2, <1>3, <2>1, SameMethods
       DEF ClientConnect, FactoryView!ClientConnect, View, With
  <2>3. QED
    BY <2>2 DEF FactoryView!Next
<1>4. CASE BackoffExpired
  <2>1. PICK i \in 1..Len(factory.tasks) :
            /\ factory.tasks[i] = 0
            /\ WithoutTask(factory, i) \in FactoryStates
            /\ factory' = ConnectWithBackoff(WithoutTask(factory, i))
    BY <1>4, BackoffExpiredShape DEF Mapped
  <2>2. View' = ConnectWithBackoff(WithoutTask(View, i))
    BY <1>1, <2>1, AssignmentsCommute, ConnectWithBackoffCommutes
  <2>3. i \in 1..Len(View.tasks) /\ View.tasks[i] = 0
    BY <1>2, <2>1
  <2>4. FactoryView!ConnectWithBackoff(FactoryView!WithoutTask(View, i)) =
            ConnectWithBackoff(WithoutTask(View, i))
    BY SameAssignments, SameMethods
  <2>5. FactoryView!BackoffExpired
    BY <2>2, <2>3, <2>4 DEF FactoryView!BackoffExpired, View, With
  <2>6. QED
    BY <2>5 DEF FactoryView!Next
<1>5. CASE ConnectFails
  <2>1. Sound(AttemptFailed(factory)) /\ factory' = Connect(AttemptFailed(factory))
    BY <1>5, ConnectFailsShape DEF Mapped
  <2>2. View' = Connect(AttemptFailed(View))
    BY <1>1, <2>1, HandlersCommute, ConnectCommutes DEF Sound
  <2>3. FactoryView!ConnectFails
    BY <1>2, <1>5, <2>2, SameHandlers
       DEF ConnectFails, FactoryView!ConnectFails, View, With
  <2>4. QED
    BY <2>3 DEF FactoryView!Next
<1>6. CASE LoginRefused
  <2>1. Sound(LoggedIn) /\ LoggedIn.event = "success"
    BY <1>6, LoggedInLemma DEF LoginRefused, Mapped
  <2>2. factory' = SignalConnectionReset(LoggedIn, "LOGIN_FAILURE")
    BY <1>6 DEF LoginRefused, LoggedIn
  <2>3. With(LoggedIn, b) =
            ConnectionHandlerSucceeded([View EXCEPT !.handler = "open"])
    BY <1>1, HandlersCommute DEF LoggedIn
  <2>4. View' = SignalConnectionReset(With(LoggedIn, b), "LOGIN_FAILURE")
    <3>1. "LOGIN_FAILURE" \in ResetReasons
      BY DEF ResetReasons
    <3>2. SignalConnectionReset(With(LoggedIn, b), "LOGIN_FAILURE") =
              With(SignalConnectionReset(LoggedIn, "LOGIN_FAILURE"), b)
      BY <1>1, <2>1, <3>1, ResetCommutes
    <3>3. QED
      BY <1>1, <2>2, <3>2
  <2>5. FactoryView!LoginRefused
    BY <1>2, <1>6, <2>3, <2>4, SameAssignments, SameMethods
       DEF LoginRefused, FactoryView!LoginRefused, View, With
  <2>6. QED
    BY <2>5 DEF FactoryView!Next
<1>7. CASE HandlerFails
  <2>1. /\ Sound(HandlerGone(factory))
        /\ factory' = SignalConnectionReset(HandlerGone(factory), "SOCKET_FAILURE")
    BY <1>7, HandlerFailsShape DEF Mapped
  <2>2. View' = SignalConnectionReset(HandlerGone(View), "SOCKET_FAILURE")
    <3>1. HandlerGone(View) = With(HandlerGone(factory), b)
      BY <1>1, HandlersCommute
    <3>2. "SOCKET_FAILURE" \in ResetReasons /\ "SOCKET_FAILURE" # "LOGIN_FAILURE"
      BY DEF ResetReasons
    <3>3. SignalConnectionReset(With(HandlerGone(factory), b), "SOCKET_FAILURE") =
              With(SignalConnectionReset(HandlerGone(factory), "SOCKET_FAILURE"), b)
      BY <1>1, <2>1, <3>2, ResetCommutes
    <3>4. QED
      BY <1>1, <2>1, <3>1, <3>3
  <2>3. FactoryView!HandlerFails
    BY <1>2, <1>7, <2>2, SameHandlers
       DEF HandlerFails, FactoryView!HandlerFails, View, With
  <2>4. QED
    BY <2>3 DEF FactoryView!Next
<1>8. CASE SendMessage \/ FlushDone
  <2>1. PICK s \in {"open", "flushing"} : factory' = [factory EXCEPT !.handler = s]
    BY <1>8 DEF SendMessage, FlushDone
  <2>2. View' = [View EXCEPT !.handler = s]
    BY <1>1, <2>1 DEF With, FactoryStates
  <2>3. \A h \in {"open", "flushing"} :
            factory' = [factory EXCEPT !.handler = h] => View' = [View EXCEPT !.handler = h]
    BY <1>1 DEF With, FactoryStates
  <2>4. FactoryView!SendMessage \/ FactoryView!FlushDone
    BY <1>2, <1>8, <2>3
       DEF SendMessage, FlushDone, FactoryView!SendMessage, FactoryView!FlushDone,
           IsEndpointReachable, FactoryView!IsEndpointReachable, View, With
  <2>5. QED
    BY <2>4 DEF FactoryView!Next
<1>9. CASE ServerClose
  <2>1. View' = SignalConnectionReset(View, "CLOSE_COMMAND")
    BY <1>1, <1>9, ResetCommutes DEF ServerClose, ResetReasons
  <2>2. FactoryView!ServerClose
    BY <1>2, <1>9, <2>1, SameMethods
       DEF ServerClose, FactoryView!ServerClose, Established, FactoryView!Established,
           View, With
  <2>3. QED
    BY <2>2 DEF FactoryView!Next
<1>10. CASE OnNetworkLost \/ OnNetworkChanged
  <2>1. ASSUME NEW offline \in BOOLEAN,
               factory' = SignalConnectionReset(
                   [factory EXCEPT !.waiting_for_network_online = offline],
                   "NETWORK_CHANGE")
        PROVE  View' = FactoryView!SignalConnectionReset(
                   [View EXCEPT !.waiting_for_network_online = offline],
                   "NETWORK_CHANGE")
    <3> DEFINE f == [factory EXCEPT !.waiting_for_network_online = offline]
    <3>1. Sound(f) /\ With(f, b) = [View EXCEPT !.waiting_for_network_online = offline]
      BY <1>1 DEF Sound, FactoryStates, With
    <3>2. factory' = SignalConnectionReset(f, "NETWORK_CHANGE")
      BY <2>1
    <3> HIDE DEF f
    <3>3. View' = SignalConnectionReset(With(f, b), "NETWORK_CHANGE")
      BY <1>1, <3>1, <3>2, ResetCommutes DEF ResetReasons
    <3>4. QED
      BY <3>1, <3>3, SameMethods
  <2>2. FactoryView!OnNetworkLost \/ FactoryView!OnNetworkChanged
    BY <1>10, <2>1
       DEF OnNetworkLost, OnNetworkChanged, FactoryView!OnNetworkLost,
           FactoryView!OnNetworkChanged, View, With
  <2>3. QED
    BY <2>2 DEF FactoryView!Next
<1>11. QED
  BY <1>3, <1>4, <1>5, <1>6, <1>7, <1>8, <1>9, <1>10

\* The login request stops the manager, and the accepted login starts it.
LEMMA LoginMapped ==
    ASSUME Mapped,
           \/ ConnectSucceeds /\ ~ hb'.running
           \/ LoginAccepted /\ hb'.running
    PROVE  FactoryView!Next
<1>1. /\ factory \in FactoryStates /\ View = With(factory, hb.running)
      /\ View' = With(factory', hb'.running)
  BY DEF Mapped, IInv, Consistent, Sound, View, With
<1>2. View.handler = factory.handler /\ View.connecting = factory.connecting
  BY <1>1, WithType DEF Mapped
<1>3. CASE ConnectSucceeds /\ ~ hb'.running
  <2>1. hb'.running = FALSE
    BY <1>3 DEF Mapped
  <2>2. View' = [WriteToLoginRequest(View) EXCEPT
                    !.next_endpoint = 0,
                    !.connecting = FALSE,
                    !.handshake_in_progress = TRUE,
                    !.handler = "handshake",
                    !.heartbeat = FALSE]
    BY <1>1, <1>3, <2>1 DEF ConnectSucceeds, WriteToLoginRequest, With, FactoryStates, Mapped
  <2>3. FactoryView!ConnectSucceeds
    BY <1>2, <1>3, <2>2, SameAssignments
       DEF ConnectSucceeds, FactoryView!ConnectSucceeds, View, With
  <2>4. QED
    BY <2>3 DEF FactoryView!Next
<1>4. CASE LoginAccepted /\ hb'.running
  <2>1. Sound(LoggedIn) /\ LoggedIn \in FactoryStates
    BY <1>4, LoggedInLemma DEF LoginAccepted, Mapped, Sound
  <2>2. factory' = With(LoggedIn, TRUE) /\ hb'.running = TRUE
    BY <1>4 DEF LoginAccepted, LoggedIn, With, Mapped
  <2>3. View' = With(LoggedIn, TRUE)
    BY <1>1, <2>1, <2>2, WithTwice
  <2>4. With(LoggedIn, hb.running) =
            ConnectionHandlerSucceeded([View EXCEPT !.handler = "open"])
    BY <1>1, HandlersCommute DEF LoggedIn, Mapped
  <2>5. View' = With(With(LoggedIn, hb.running), TRUE)
    BY <2>1, <2>3, WithTwice DEF Mapped
  <2>6. FactoryView!LoginAccepted
    BY <1>2, <1>4, <2>4, <2>5, SameAssignments
       DEF LoginAccepted, FactoryView!LoginAccepted, View, With
  <2>7. QED
    BY <2>6 DEF FactoryView!Next
<1>5. QED
  BY <1>3, <1>4

\* A reset by a manager that was running, and has stopped itself, is the reset
\* that ConnectionFactory lets happen.
LEMMA HeartbeatResetMapped ==
    ASSUME Mapped, hb.running, ~ hb'.running,
           NEW reason \in {"HEARTBEAT_FAILURE", "NEW_HEARTBEAT_INTERVAL"},
           factory' = SignalConnectionReset(factory, reason)
    PROVE  FactoryView!Next
<1>1. /\ Sound(factory) /\ factory \in FactoryStates
      /\ View = With(factory, hb.running) /\ View' = With(factory', hb'.running)
      /\ hb'.running = FALSE
  BY DEF Mapped, IInv, Consistent, Sound, View, With
<1>2. View.heartbeat
  BY <1>1, WithType DEF Mapped
<1>3. With(View, FALSE) = With(factory, FALSE)
  BY <1>1, WithTwice DEF Mapped
<1>4. View' = SignalConnectionReset(With(View, FALSE), reason)
  BY <1>1, <1>3, ResetCommutes DEF ResetReasons
<1>5. FactoryView!HeartbeatReset
  BY <1>2, <1>4, SameMethods DEF FactoryView!HeartbeatReset, View, With
<1>6. QED
  BY <1>5 DEF FactoryView!Next

\* Time passing is a tick of the view, or nothing changes there.
LEMMA TickMapped ==
    ASSUME Mapped, hb'.running = hb.running, factory' = Ticked(factory)
    PROVE  FactoryView!Next \/ View' = View
<1>1. /\ Sound(factory) /\ factory \in FactoryStates
      /\ View = With(factory, hb.running) /\ View' = With(factory', hb.running)
      /\ View \in FactoryStates
  BY WithType DEF Mapped, IInv, Consistent, Sound, View, With
<1>2. View' = Ticked(View)
  BY <1>1, AssignmentsCommute DEF Mapped
<1>3. /\ View.backoff = factory.backoff /\ View.previous = factory.previous
      /\ View.login_age = factory.login_age /\ View.tasks = factory.tasks
  BY <1>1, WithType DEF Mapped
<1> DEFINE Due == \/ ShouldRejectRequest(factory.backoff)
                  \/ ShouldRejectRequest(factory.previous)
                  \/ factory.login_age <= ResetWindow
                  \/ \E i \in 1..Len(factory.tasks) : factory.tasks[i] > 0
<1>4. CASE Due
  <2>1. FactoryView!Tick
    BY <1>2, <1>3, <1>4, SameAssignments DEF FactoryView!Tick, View, With
  <2>2. QED
    BY <2>1 DEF FactoryView!Next
<1>5. CASE ~ Due
  <2>1. factory.backoff.rem = 0 /\ factory.previous.rem = 0
    BY <1>1, <1>5, ConstantsAssumption, SMTT(30)
       DEF ShouldRejectRequest, FactoryStates, BackoffEntries
  <2>2. factory.login_age = ResetWindow + 1
    BY <1>1, <1>5, ConstantsAssumption DEF FactoryStates
  <2>3. \A i \in 1..Len(factory.tasks) : factory.tasks[i] = 0
    BY <1>1, <1>5, ConstantsAssumption DEF FactoryStates
  <2> DEFINE t == [i \in 1..Len(factory.tasks) |-> MinusOne(factory.tasks[i])]
  <2>4. t = factory.tasks
    BY <1>1, <2>3 DEF FactoryStates, MinusOne
  <2>5. SmallerOf(factory.login_age + 1, ResetWindow + 1) = factory.login_age
    BY <2>2, ConstantsAssumption DEF SmallerOf
  <2>6. /\ [factory.backoff EXCEPT !.rem = MinusOne(@)] = factory.backoff
        /\ [factory.previous EXCEPT !.rem = MinusOne(@)] = factory.previous
    BY <1>1, <2>1 DEF FactoryStates, BackoffEntries, MinusOne
  <2> HIDE DEF t
  <2>7. Ticked(factory) = [factory EXCEPT !.backoff = factory.backoff,
                                          !.previous = factory.previous,
                                          !.login_age = factory.login_age,
                                          !.tasks = t]
    BY <1>1, <2>5, <2>6 DEF Ticked, FactoryStates, t
  <2>8. Ticked(factory) = factory
    BY <1>1, <2>4, <2>7 DEF FactoryStates
  <2>9. QED
    BY <1>1, <2>8
<1>6. QED
  BY <1>4, <1>5

-----------------------------------------------------------------------------

\* A trigger resets the connection, pings, or drops the ping.
LEMMA TriggeredMapped ==
    ASSUME SystemIInv, Mapped, hb.running, Triggered
    PROVE  FactoryView!Next \/ View' = View
<1>1. CASE hb.waiting_for_ack
  <2>1. ~ hb'.running /\ factory' = SignalConnectionReset(factory, "HEARTBEAT_FAILURE")
    BY <1>1, SystemFacts, TriggeredLemma DEF Triggered
  <2>2. QED
    BY <2>1, HeartbeatResetMapped
<1>2. CASE ~ hb.waiting_for_ack
  <2>1. hb'.running /\ SendHeartbeat
    BY <1>2, SystemFacts, TriggeredLemma DEF Triggered
  <2>2. hb'.running = hb.running
    BY <2>1 DEF Mapped
  <2>3. SendMessage \/ factory' = factory
    BY <2>1 DEF SendHeartbeat, SendMessage
  <2>4. QED
    BY <2>2, <2>3, FactoryStepMapped DEF View
<1>3. QED
  BY <1>1, <1>2

\* Every step of the system is a step of the view or leaves it alone.
LEMMA SystemNextMapped ==
    SystemIInv /\ SystemIInv' /\ [SystemNext]_vars => FactoryView!Next \/ View' = View
<1> SUFFICES ASSUME SystemIInv, SystemIInv', [SystemNext]_vars
             PROVE  FactoryView!Next \/ View' = View
  OBVIOUS
<1>1. Mapped
  BY DEF Mapped, SystemIInv, Timed, HeartbeatStates
<1>2. CASE UNCHANGED vars
  BY <1>2 DEF vars, View
<1>3. CASE FactoryOnly
  BY <1>1, <1>3, FactoryStepMapped DEF FactoryOnly
<1>4. CASE BuildLoginRequest
  <2>1. ~ hb'.running
    BY <1>4, SystemFacts, StopLemma DEF BuildLoginRequest
  <2>2. QED
    BY <1>1, <1>4, <2>1, LoginMapped DEF BuildLoginRequest
<1>5. CASE LoginResponse
  <2>1. PICK config \in {0} \union ServerTicks, default \in DefaultIntervals :
            hb' = Start(UpdateHeartbeatConfig(OnHeartbeatAcked(hb, platform.polls),
                                              config, default),
                        platform.polls, default)
    BY <1>5 DEF LoginResponse
  <2>2. OnHeartbeatAcked(hb, platform.polls) \in HeartbeatStates
    BY SystemFacts, AckedLemma DEF Timed
  <2>3. hb'.running
    BY <2>1, <2>2, SystemFacts, UpdateConfigLemma, StartLemma
  <2>4. QED
    BY <1>1, <1>5, <2>3, LoginMapped DEF LoginResponse
<1>6. CASE PacketReceived \/ CloseReceived
  <2>1. hb'.running = hb.running
    BY <1>6, SystemFacts, AckedLemma DEF PacketReceived, CloseReceived
  <2>2. SendMessage \/ ServerClose \/ factory' = factory
    BY <1>6 DEF PacketReceived, CloseReceived
  <2>3. QED
    BY <1>1, <2>1, <2>2, FactoryStepMapped DEF View
<1>7. CASE TimerFires \/ CheckForMissedHeartbeat \/ Resume
  <2>1. CASE Triggered /\ hb.running
    BY <1>1, <2>1, TriggeredMapped
  <2>2. CASE CheckForMissedHeartbeat /\ HeartbeatMissed(hb)
    <3>1. hb.running
      BY <2>2, SystemFacts DEF HeartbeatMissed, Timed, None, Past
    <3>2. QED
      BY <1>1, <2>2, <3>1, TriggeredMapped DEF CheckForMissedHeartbeat
  <2>3. CASE CheckForMissedHeartbeat /\ ~ HeartbeatMissed(hb)
    <3>1. factory' = factory /\ hb' = PollAgain(hb)
      BY <2>3 DEF CheckForMissedHeartbeat
    <3>2. hb'.running = hb.running
      BY <3>1, SystemFacts, PollAgainLemma
    <3>3. QED
      BY <3>1, <3>2 DEF View
  <2>4. CASE Resume /\ UNCHANGED <<factory, hb, link>>
    BY <2>4 DEF View
  <2>5. QED
    BY <1>7, <2>1, <2>2, <2>3, <2>4 DEF TimerFires, Resume
<1>8. CASE SetClientHeartbeatIntervalMs
  <2>1. PICK ticks \in 0..(CellTicks + 1), default \in DefaultIntervals :
            /\ ticks # 0 => IsValidClientHeartbeatInterval(ticks, default)
            /\ IF NeedsShorterInterval(hb, ticks)
               THEN /\ hb' = Stop(SetClientInterval(hb, ticks))
                    /\ factory' = SignalConnectionReset(factory,
                                                        "NEW_HEARTBEAT_INTERVAL")
               ELSE hb' = SetClientInterval(hb, ticks) /\ factory' = factory
    BY <1>8 DEF SetClientHeartbeatIntervalMs
  <2>2. ticks \in {0} \union MinClientTicks..CellTicks
    BY <2>1, Intervals DEF IsValidClientHeartbeatInterval, DefaultIntervals
  <2>3. CASE NeedsShorterInterval(hb, ticks)
    <3>1. hb.running
      BY <2>2, <2>3, SystemFacts, Intervals DEF NeedsShorterInterval, Timed
    <3>2. ~ hb'.running
      BY <2>1, <2>2, <2>3, SystemFacts, SetClientLemma, StopLemma
    <3>3. QED
      BY <1>1, <2>1, <2>3, <3>1, <3>2, HeartbeatResetMapped
  <2>4. CASE ~ NeedsShorterInterval(hb, ticks)
    <3>1. hb'.running = hb.running
      BY <2>1, <2>2, <2>4, SystemFacts, SetClientLemma
    <3>2. QED
      BY <2>1, <2>4, <3>1 DEF View
  <2>5. QED
    BY <2>3, <2>4
<1>9. CASE LinkDies \/ Suspend \/ Wake
  <2>1. factory' = factory /\ hb'.running = hb.running
    BY <1>9, SystemFacts, OnSuspendLemma DEF LinkDies, Suspend, Wake
  <2>2. QED
    BY <2>1 DEF View
<1>10. CASE SleepTick \/ SystemTick
  <2>1. hb' = WallTick(ClockTick(hb)) \/ hb' = WallTick(hb)
    BY <1>10 DEF SleepTick, SystemTick
  <2>2. hb'.running = hb.running
    BY <2>1, SystemFacts, ClockTickLemma, WallTickLemma
  <2>3. factory' = Ticked(factory) \/ factory' = factory
    BY <1>10 DEF SleepTick, SystemTick
  <2>4. QED
    BY <1>1, <2>2, <2>3, TickMapped DEF View
<1>11. QED
  BY <1>2, <1>3, <1>4, <1>5, <1>6, <1>7, <1>8, <1>9, <1>10 DEF SystemNext

\* The initial states map to initial states.
LEMMA SystemInitMapped == SystemInit => FactoryView!Init
<1> SUFFICES ASSUME SystemInit PROVE FactoryView!Init
  OBVIOUS
<1>1. hb.running = FALSE
  BY DEF SystemInit, Stopped
<1>2. [factory EXCEPT !.heartbeat = hb.running] = factory
  <2>1. factory \in FactoryStates
    BY InitConsistent DEF SystemInit, IInv, Consistent, Sound
  <2>2. factory.heartbeat = FALSE
    BY DEF SystemInit, Init
  <2>3. QED
    BY <1>1, <2>1, <2>2 DEF FactoryStates
<1>3. QED
  BY <1>2 DEF SystemInit, Init, FactoryView!Init, FreshBackoff, FactoryView!FreshBackoff,
         EmptyLog, FactoryView!EmptyLog

\* The factory with the real heartbeat manager implements ConnectionFactory, so
\* what is proved of ConnectionFactory holds of the composed system as well.
THEOREM FactoryImplemented == SystemSpec => ImplementsFactory
<1>1. SystemInit => FactoryView!Init
  BY SystemInitMapped
<1>2. SystemIInv /\ SystemIInv' /\ [SystemNext]_vars
          => [FactoryView!Next]_[factory EXCEPT !.heartbeat = hb.running]
  BY SystemNextMapped DEF View, With
<1>3. QED
  BY <1>1, <1>2, SystemInvariance, PTL DEF SystemSpec, ImplementsFactory, FactoryView!Spec

===============================================================================
