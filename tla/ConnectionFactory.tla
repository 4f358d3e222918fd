-------------------------- MODULE ConnectionFactory --------------------------
(***************************************************************************)
(* ConnectionFactoryImpl (google_apis/gcm/engine/connection_factory_impl): *)
(* it opens the connection to the MCS server, retries with backoff, reacts *)
(* to network changes with "canary" attempts that bypass the backoff, and  *)
(* restores the backoff of before a login that did not last.               *)
(*                                                                         *)
(* All of it runs on one sequence, so a handler is one step; the handlers  *)
(* call each other (SignalConnectionReset -> Connect -> ConnectWithBackoff *)
(* -> ConnectImpl -> StartConnection), so the state is one record and each *)
(* C++ method is an operator from the record before to the record after.   *)
(*                                                                         *)
(* Time is counted in ticks: backoff entries, delayed tasks and the login  *)
(* time carry what is left of them (or their age), and Tick advances all.  *)
(***************************************************************************)
EXTENDS Naturals, Sequences

CONSTANTS
    MaxFailures,   \* failures a BackoffEntry tells apart
    MaxDelay,      \* longest backoff delay, in ticks
    ResetWindow,   \* kConnectionResetWindowSecs, in ticks
    Endpoints,     \* mcs_endpoints_.size()
    Up,            \* the endpoints (counted from 0) that accept a connection in the end
    MaxEvents,     \* kMaxClientEvents
    AvoidOffline,  \* feature kGCMAvoidConnectionWhenNetworkUnavailable
    SpareCanary    \* feature kGCMDoNotIncreaseBackoffDelayOnNetworkChange

ASSUME ConstantsAssumption ==
    /\ MaxFailures \in Nat \ {0}
    /\ MaxDelay \in Nat \ {0}
    /\ ResetWindow \in Nat
    /\ Endpoints \in Nat \ {0}
    /\ Up \subseteq 0..(Endpoints - 1)
    /\ MaxEvents \in Nat \ {0}
    /\ AvoidOffline \in BOOLEAN
    /\ SpareCanary \in BOOLEAN

VARIABLE factory

\* connection_handler_: null, without streams, logging in, or logged in with
\* its output stream EMPTY (open) or FLUSHING.
HandlerStates == {"null", "closed", "handshake", "open", "flushing"}

\* current_event_ of the ConnectionEventTracker: not started, started with no
\* type yet, or of type SUCCESSFUL_CONNECTION or FAILED_CONNECTION.
EventStates == {"none", "started", "success", "failed"}

ResetReasons == {"LOGIN_FAILURE", "CLOSE_COMMAND", "HEARTBEAT_FAILURE",
                 "NEW_HEARTBEAT_INTERVAL", "SOCKET_FAILURE", "NETWORK_CHANGE"}

Established(f) == f.handler \in {"open", "flushing"}

(***************************************************************************)
(* net::BackoffEntry (external): a failure count and the ticks left until  *)
(* the entry lets requests through.                                        *)
(***************************************************************************)
BackoffEntries == [fails : 0..MaxFailures, rem : 0..MaxDelay]

FreshBackoff == [fails |-> 0, rem |-> 0]

SmallerOf(a, b) == IF a <= b THEN a ELSE b

LargerOf(a, b) == IF a <= b THEN b ELSE a

\* InformOfRequest(false): one more failure, and a delay that grows with them.
InformOfFailure(b) ==
    LET n == SmallerOf(b.fails + 1, MaxFailures)
    IN  [fails |-> n, rem |-> LargerOf(b.rem, SmallerOf(n, MaxDelay))]

ShouldRejectRequest(b) == b.rem > 0

(***************************************************************************)
(* ConnectionEventTracker: current_event_ is f.event; of the completed     *)
(* events only their number and whether any was discarded are kept.        *)
(***************************************************************************)
EventLogs == [completed : 0..MaxEvents, discarded : BOOLEAN]

EmptyLog == [completed |-> 0, discarded |-> FALSE]

IsEventInProgress(f) == f.event # "none"

StartConnectionAttempt(f) == [f EXCEPT !.event = "started"]

\* Mutant: the completed events grow without a limit.
EndConnectionAttemptUncapped(f) ==
    [f EXCEPT !.log.completed = @ + 1, !.event = "none"]

EndConnectionAttempt(f) ==
    [f EXCEPT !.checks = @ /\ IsEventInProgress(f),
              !.log = [completed |-> SmallerOf(@.completed + 1, MaxEvents),
                       discarded |-> @.discarded \/ @.completed = MaxEvents],
              !.event = "none"]

ConnectionLoginFailed(f) ==
    [f EXCEPT !.checks = @ /\ f.event = "success", !.event = "failed"]

ConnectionAttemptSucceeded(f) ==
    [f EXCEPT !.event = "success", !.log = EmptyLog]

ConnectionAttemptFailed(f) == [f EXCEPT !.event = "failed"]

\* Mutant: the login request goes out without the completed events.
WriteNothingToLoginRequest(f) == [f EXCEPT !.reported = EmptyLog]

WriteToLoginRequest(f) == [f EXCEPT !.reported = f.log]

(***************************************************************************)
(* The methods of ConnectionFactoryImpl.                                   *)
(***************************************************************************)
IsEndpointReachable(f) == f.handler = "open"

\* Reset() drops the handler's streams, and with them every callback of theirs.
CloseSocket(f) ==
    [f EXCEPT !.handler = IF @ = "null" THEN @ ELSE "closed",
              !.socket = FALSE,
              !.handshake_in_progress = FALSE]

\* The attempt's callback, OnConnectDone, is pending while connecting is TRUE;
\* f.checks remembers whether every CHECK and DCHECK on the way held.
StartConnection(f, ignore) ==
    [f EXCEPT !.checks = @ /\ ~ f.socket
                           /\ ~ IsEndpointReachable(f)
                           /\ ~ (f.waiting_for_network_online /\ AvoidOffline),
              !.connecting = TRUE,
              !.socket = TRUE,
              !.ignore_failure = ignore]

ConnectImpl(f, ignore) == StartConnection(StartConnectionAttempt(f), ignore)

\* Mutant: the old socket is not closed before a new attempt (crbug.com/462319).
ConnectWithBackoffOnOldSocket(f) ==
    IF f.connecting \/ f.handshake_in_progress \/ IsEndpointReachable(f)
    THEN [f EXCEPT !.waiting_for_backoff = FALSE]
    ELSE IF ShouldRejectRequest(f.backoff)
    THEN [f EXCEPT !.waiting_for_backoff = TRUE,
                   !.tasks = Append(@, f.backoff.rem)]
    ELSE ConnectImpl([f EXCEPT !.waiting_for_backoff = FALSE], FALSE)

\* Also the delayed task that the rejected branch posts.
ConnectWithBackoff(f) ==
    IF f.connecting \/ f.handshake_in_progress \/ IsEndpointReachable(f)
    THEN [f EXCEPT !.waiting_for_backoff = FALSE]
    ELSE IF ShouldRejectRequest(f.backoff)
    THEN [f EXCEPT !.waiting_for_backoff = TRUE,
                   !.tasks = Append(@, f.backoff.rem)]
    ELSE LET g == CloseSocket([f EXCEPT !.waiting_for_backoff = FALSE])
         IN  IF g.waiting_for_network_online /\ AvoidOffline
             THEN g
             ELSE ConnectImpl(g, FALSE)

\* Mutant: a pending backoff does not keep Connect from starting another.
ConnectDespiteBackoff(f) ==
    LET g == [f EXCEPT !.handler = IF @ = "null" THEN "closed" ELSE @]
    IN  IF g.connecting \/ IsEndpointReachable(g) THEN g ELSE ConnectWithBackoff(g)

Connect(f) ==
    LET g == [f EXCEPT !.handler = IF @ = "null" THEN "closed" ELSE @]
    IN  IF g.connecting \/ g.waiting_for_backoff \/ IsEndpointReachable(g)
        THEN g
        ELSE ConnectWithBackoff(g)

\* last_login_time_ is kept as the age of the login; ResetWindow + 1 is null
\* or too long ago, which the code does not tell apart.
ShouldRestorePreviousBackoff(f) == f.login_age <= ResetWindow

\* Mutant: the failure is counted on the entry that the login has reset.
KeepResetBackoff(f) == [f EXCEPT !.backoff = InformOfFailure(@)]

RestorePreviousBackoff(f) ==
    [f EXCEPT !.backoff = InformOfFailure(f.previous),
              !.previous = f.backoff]

EndEvent(f, reason) ==
    IF ~ IsEventInProgress(f) THEN f
    ELSE EndConnectionAttempt(IF reason = "LOGIN_FAILURE"
                              THEN ConnectionLoginFailed(f) ELSE f)

\* Mutant: a reset reconnects at once.
ReconnectAtOnce(f, reason) == ConnectImpl(f, FALSE)

\* The end of SignalConnectionReset, for a reset that is to reconnect.
ReconnectAfter(f, reason) ==
    LET g == IF reason = "LOGIN_FAILURE" \/ ShouldRestorePreviousBackoff(f)
             THEN RestorePreviousBackoff(f) ELSE f
    IN  Connect([g EXCEPT !.login_age = ResetWindow + 1])

SignalConnectionReset(f, reason) ==
    IF f.handler = "null" \/ f.connecting THEN f
    ELSE LET g == CloseSocket(EndEvent(f, reason))
         IN  IF g.waiting_for_network_online /\ AvoidOffline THEN g
             ELSE IF reason = "NETWORK_CHANGE" THEN ConnectImpl(g, TRUE)
             ELSE IF g.waiting_for_backoff THEN g
             ELSE ReconnectAfter(g, reason)

\* ConnectionHandlerCallback with an error.
ConnectionHandlerFailed(f) ==
    SignalConnectionReset(
        [f EXCEPT !.checks = @ /\ ~ f.connecting,
                  !.backoff = IF f.handshake_in_progress
                              THEN InformOfFailure(@) ELSE @,
                  !.handshake_in_progress = FALSE],
        "SOCKET_FAILURE")

\* ConnectionHandlerCallback with net::OK: the handshake is complete.
ConnectionHandlerSucceeded(f) ==
    ConnectionAttemptSucceeded(
        [f EXCEPT !.checks = @ /\ ~ f.connecting,
                  !.handshake_in_progress = FALSE,
                  !.login_age = 0,
                  !.previous = f.backoff,
                  !.backoff = FreshBackoff])

FactoryStates ==
    [handler : HandlerStates,
     connecting : BOOLEAN,
     waiting_for_backoff : BOOLEAN,
     waiting_for_network_online : BOOLEAN,
     handshake_in_progress : BOOLEAN,
     socket : BOOLEAN,
     ignore_failure : BOOLEAN,
     backoff : BackoffEntries,
     previous : BackoffEntries,
     login_age : 0..(ResetWindow + 1),
     tasks : Seq(0..MaxDelay),
     next_endpoint : 0..(Endpoints - 1),
     event : EventStates,
     log : EventLogs,
     reported : EventLogs,
     heartbeat : BOOLEAN,
     checks : BOOLEAN]

(***************************************************************************)
(* Init: after Initialize, which reads the connection type.                *)
(***************************************************************************)
Init ==
    \E offline \in BOOLEAN :
        factory = [handler |-> "null",
                   connecting |-> FALSE,
                   waiting_for_backoff |-> FALSE,
                   waiting_for_network_online |-> offline,
                   handshake_in_progress |-> FALSE,
                   socket |-> FALSE,
                   ignore_failure |-> FALSE,
                   backoff |-> FreshBackoff,
                   previous |-> FreshBackoff,
                   login_age |-> ResetWindow + 1,
                   tasks |-> << >>,
                   next_endpoint |-> 0,
                   event |-> "none",
                   log |-> EmptyLog,
                   reported |-> EmptyLog,
                   heartbeat |-> FALSE,
                   checks |-> TRUE]

\* MCSClient::Login, called once after the store is loaded.
ClientConnect ==
    /\ factory.handler = "null"
    /\ factory' = Connect(factory)

WithoutTask(f, i) ==
    [f EXCEPT !.tasks = SubSeq(@, 1, i - 1) \o SubSeq(@, i + 1, Len(@))]

\* The task that ConnectWithBackoff posted for the end of the backoff runs.
BackoffExpired ==
    \E i \in 1..Len(factory.tasks) :
        /\ factory.tasks[i] = 0
        /\ factory' = ConnectWithBackoff(WithoutTask(factory, i))

\* Mutant: a failed attempt is repeated on the same endpoint.
SameEndpoint(n) == n

NextEndpoint(n) == (n + 1) % Endpoints

\* OnConnectDone with an error: back off (unless a canary is spared) and try
\* the next endpoint.
ConnectFails ==
    /\ factory.connecting
    /\ LET f == EndConnectionAttempt(
                    ConnectionAttemptFailed(CloseSocket(factory)))
       IN  factory' = Connect([f EXCEPT
               !.backoff = IF f.ignore_failure /\ SpareCanary
                           THEN @ ELSE InformOfFailure(@),
               !.next_endpoint = NextEndpoint(@),
               !.connecting = FALSE])

\* OnConnectDone with net::OK: InitHandler builds the login request (which
\* stops the heartbeat and reports the completed events) and the handler sends it.
ConnectSucceeds ==
    /\ factory.connecting
    /\ factory' = [WriteToLoginRequest(factory) EXCEPT
                      !.next_endpoint = 0,
                      !.connecting = FALSE,
                      !.handshake_in_progress = TRUE,
                      !.handler = "handshake",
                      !.heartbeat = FALSE]

\* The login response arrives: the handler first completes the handshake, then
\* hands the response to MCSClient, which starts the heartbeat or, when the
\* response carries an error, resets the connection.
LoginAccepted ==
    /\ factory.handler = "handshake"
    /\ factory' = [ConnectionHandlerSucceeded([factory EXCEPT !.handler = "open"])
                     EXCEPT !.heartbeat = TRUE]

LoginRefused ==
    /\ factory.handler = "handshake"
    /\ factory' = SignalConnectionReset(
           ConnectionHandlerSucceeded([factory EXCEPT !.handler = "open"]),
           "LOGIN_FAILURE")

\* A read, write or protocol error, or the handler's read timeout.
HandlerFails ==
    /\ factory.handler \in {"handshake", "open", "flushing"}
    /\ factory' = ConnectionHandlerFailed([factory EXCEPT !.handler = "closed"])

\* ConnectionHandlerImpl::SendMessage; Flush always completes later.
SendMessage ==
    /\ IsEndpointReachable(factory)
    /\ factory' = [factory EXCEPT !.handler = "flushing"]

FlushDone ==
    /\ factory.handler = "flushing"
    /\ factory' = [factory EXCEPT !.handler = "open"]

\* MCSClient handles a Close from the server.
ServerClose ==
    /\ Established(factory)
    /\ factory' = SignalConnectionReset(factory, "CLOSE_COMMAND")

\* The heartbeat manager runs from a login until the next login request, so
\* through every outage as well; it stops itself before it signals a reset.
HeartbeatReset ==
    /\ factory.heartbeat
    /\ \E reason \in {"HEARTBEAT_FAILURE", "NEW_HEARTBEAT_INTERVAL"} :
           factory' = SignalConnectionReset([factory EXCEPT !.heartbeat = FALSE], reason)

\* OnConnectionChanged(CONNECTION_NONE), and with any other type.
OnNetworkLost ==
    factory' = SignalConnectionReset(
        [factory EXCEPT !.waiting_for_network_online = TRUE], "NETWORK_CHANGE")

\* Mutant: the return of the network is noted but starts no connection.
OnNetworkChangedUnheeded ==
    factory' = [factory EXCEPT !.waiting_for_network_online = FALSE]

OnNetworkChanged ==
    factory' = SignalConnectionReset(
        [factory EXCEPT !.waiting_for_network_online = FALSE], "NETWORK_CHANGE")

MinusOne(n) == IF n = 0 THEN 0 ELSE n - 1

\* One tick later: delays are shorter and the login is older.
Ticked(f) ==
    [f EXCEPT !.backoff.rem = MinusOne(@),
              !.previous.rem = MinusOne(@),
              !.login_age = SmallerOf(@ + 1, ResetWindow + 1),
              !.tasks = [i \in 1..Len(@) |-> MinusOne(@[i])]]

\* Time passes. A tick that would change nothing is no step.
Tick ==
    /\ \/ ShouldRejectRequest(factory.backoff)
       \/ ShouldRejectRequest(factory.previous)
       \/ factory.login_age <= ResetWindow
       \/ \E i \in 1..Len(factory.tasks) : factory.tasks[i] > 0
    /\ factory' = Ticked(factory)

Next ==
    \/ ClientConnect
    \/ BackoffExpired
    \/ ConnectFails
    \/ ConnectSucceeds
    \/ LoginAccepted
    \/ LoginRefused
    \/ HandlerFails
    \/ SendMessage
    \/ FlushDone
    \/ ServerClose
    \/ HeartbeatReset
    \/ OnNetworkLost
    \/ OnNetworkChanged
    \/ Tick

Spec == Init /\ [][Next]_factory

(***************************************************************************)
(* The client connects at least once, timers and pending socket calls      *)
(* complete, and a server that is tried again and again in the end lets    *)
(* the login through. Connections are promised only to the endpoints of    *)
(* Up: the others may fail for ever.                                       *)
(***************************************************************************)
Fairness ==
    /\ WF_factory(ClientConnect)
    /\ WF_factory(Tick)
    /\ WF_factory(BackoffExpired)
    /\ WF_factory(ConnectFails \/ ConnectSucceeds)
    /\ SF_factory(factory.next_endpoint \in Up /\ ConnectSucceeds)
    /\ SF_factory(LoginAccepted)

FairSpec == Spec /\ Fairness

(***************************************************************************)
(* Properties                                                              *)
(***************************************************************************)

\* The type of the factory's state.
TypeOK == factory \in FactoryStates

\* No CHECK or DCHECK of the factory or of its event tracker ever fails: no
\* attempt starts on a bound socket, on a reachable endpoint or without a
\* network, the handler never reports while a connect is pending, an event is
\* ended only while one is in progress, and only a successful one fails login.
ChecksHold == factory.checks

\* waiting_for_backoff_ stands for exactly one delayed ConnectWithBackoff: were
\* the flag set without a task, Connect would refuse forever; were there two
\* tasks, the second would act on a connection it knows nothing about.
OneBackoffTask == Len(factory.tasks) = IF factory.waiting_for_backoff THEN 1 ELSE 0

\* After the first Connect the factory always has something under way that
\* leads to a connection - a connect, a handshake, a live connection or a
\* backoff task - unless it deliberately waits for the network.
NeverStranded ==
    factory.handler # "null" =>
        \/ factory.connecting
        \/ factory.handler \in {"handshake", "open", "flushing"}
        \/ factory.waiting_for_backoff
        \/ factory.waiting_for_network_online /\ AvoidOffline

\* ConnectionAttemptSucceeded deletes the completed events on the ground that
\* they have been sent: while a login is under way, the log is still the one
\* that WriteToLoginRequest put into its login request.
ClearedEventsWereReported ==
    factory.handler = "handshake" => factory.log = factory.reported

\* Only a network change may start a connection while the backoff entry rejects
\* requests.
OnlyCanariesBypassBackoff ==
    [][ /\ ~ factory.connecting
        /\ factory'.connecting
        /\ ShouldRejectRequest(factory'.backoff)
        => factory'.ignore_failure ]_factory

\* A refused login counts as one more failure of the backoff the attempt began
\* with - when no backoff task is pending and the network is there.
LoginFailureRestoresBackoff ==
    [][ /\ LoginRefused
        /\ ~ factory.waiting_for_backoff
        /\ ~ (factory.waiting_for_network_online /\ AvoidOffline)
        => factory'.backoff = InformOfFailure(factory.backoff) ]_factory

\* If the network stays, the client is connected again and again, whatever
\* failures, resets and network changes come in between, even when only the
\* fallback endpoint is up.
EventuallyConnected ==
    <>[](~ factory.waiting_for_network_online) => []<>Established(factory)

==============================================================================
