--------------------------- MODULE HeartbeatSystem ---------------------------
(***************************************************************************)
(* The heartbeat manager together with the connection factory it resets,   *)
(* the connection it watches, and a machine that may go to sleep.          *)
(*                                                                         *)
(* MCSClient stops the manager when a login request is built, starts it    *)
(* when the login is accepted and treats every received packet as an       *)
(* answer; the manager sends its pings through MCSClient, which drops one  *)
(* (ttl 0) when the handler cannot send at once, and resets the connection *)
(* through the factory. ConnectionFactory on its own lets a heartbeat      *)
(* reset happen at any time between login and login request; here the      *)
(* resets come from the timers, and ImplementsFactory shows that they stay *)
(* within what ConnectionFactory and its proofs allow.                     *)
(*                                                                         *)
(* A server that is alive answers a ping within the tick; due timers run   *)
(* before the next tick.                                                   *)
(***************************************************************************)
EXTENDS ConnectionFactory, HeartbeatManager

VARIABLES
    hb,       \* the HeartbeatManager
    link,     \* the connection below: see Links
    power,    \* asleep, and whether OnResume is still to be delivered
    platform  \* polls: IS_LINUX, no power notifications; counts: the tick
              \* clock goes on while the machine sleeps

vars == <<factory, hb, link, power, platform>>

\* alive: the peer still answers. answer: it has a ping to answer. silent:
\* awake ticks since it died. excused: since the last packet a ping was dropped,
\* or the machine slept, or was about to learn that it had, while one was
\* unanswered.
Links == [alive : BOOLEAN, answer : BOOLEAN, excused : BOOLEAN,
          silent : 0..(CellTicks + AckTicks + 1)]

NewLink == [alive |-> TRUE, answer |-> FALSE, excused |-> FALSE, silent |-> 0]

Awake == ~ power.asleep

\* What is known of a connection ends with it.
LinkAfter(f, l) == IF Established(f) THEN l ELSE NewLink

DefaultIntervals == {WifiTicks, CellTicks}

SystemInit ==
    /\ Init
    /\ hb = Stopped
    /\ link = NewLink
    /\ power = [asleep |-> FALSE, notify |-> FALSE]
    /\ platform \in Platforms

\* The steps of the factory that do not involve the heartbeat manager.
FactoryOnly ==
    /\ Awake
    /\ \/ ClientConnect
       \/ BackoffExpired
       \/ ConnectFails
       \/ LoginRefused
       \/ HandlerFails
       \/ SendMessage
       \/ FlushDone
       \/ OnNetworkLost
       \/ OnNetworkChanged
    /\ link' = LinkAfter(factory', link)
    /\ UNCHANGED <<hb, power, platform>>

\* Mutant: the manager runs on during the login.
BuildLoginRequestRunning ==
    Awake /\ ConnectSucceeds /\ UNCHANGED <<hb, link, power, platform>>

\* ResetStateAndBuildLoginRequest stops the manager; the request carries the
\* custom interval of this moment.
BuildLoginRequest ==
    /\ Awake
    /\ ConnectSucceeds
    /\ hb' = Stop(hb)
    /\ UNCHANGED <<link, power, platform>>

\* The login response is also taken for an answer, by a manager that is stopped.
LoginResponse ==
    /\ Awake
    /\ LoginAccepted
    /\ \E config \in {0} \union ServerTicks, default \in DefaultIntervals :
           hb' = Start(UpdateHeartbeatConfig(OnHeartbeatAcked(hb, platform.polls),
                                             config, default),
                       platform.polls, default)
    /\ UNCHANGED <<link, power, platform>>

Heard(l) == [l EXCEPT !.answer = FALSE, !.excused = FALSE]

\* Any packet of an established connection: an answer, a message, or a ping,
\* to which the client sends an answer of its own if it can.
PacketReceived ==
    /\ Awake
    /\ Established(factory)
    /\ link.alive
    /\ hb' = OnHeartbeatAcked(hb, platform.polls)
    /\ \/ UNCHANGED factory
       \/ SendMessage
    /\ link' = Heard(link)
    /\ UNCHANGED <<power, platform>>

CloseReceived ==
    /\ Awake
    /\ link.alive
    /\ ServerClose
    /\ hb' = OnHeartbeatAcked(hb, platform.polls)
    /\ link' = LinkAfter(factory', Heard(link))
    /\ UNCHANGED <<power, platform>>

\* MCSClient::SendHeartbeat: a packet with ttl 0 is dropped when the handler
\* cannot send it at once.
SendHeartbeat ==
    IF IsEndpointReachable(factory)
    THEN /\ factory' = [factory EXCEPT !.handler = "flushing"]
         /\ link' = [link EXCEPT !.answer = link.alive,
                                 !.excused = @ \/ power.notify]
    ELSE /\ factory' = factory
         /\ link' = [link EXCEPT !.excused = Established(factory)]

\* OnHeartbeatTriggered with the call it makes at the end.
Triggered ==
    /\ hb' = OnHeartbeatTriggered(hb, platform.polls)
    /\ IF hb.waiting_for_ack
       THEN /\ factory' = SignalConnectionReset(factory, "HEARTBEAT_FAILURE")
            /\ link' = LinkAfter(factory', link)
       ELSE SendHeartbeat

TimerFires ==
    /\ Awake
    /\ hb.running
    /\ hb.rem = 0
    /\ Triggered
    /\ UNCHANGED <<power, platform>>

CheckForMissedHeartbeat ==
    /\ Awake
    /\ 0 \in hb.polls
    /\ IF HeartbeatMissed(hb)
       THEN Triggered
       ELSE hb' = PollAgain(hb) /\ UNCHANGED <<factory, link>>
    /\ UNCHANGED <<power, platform>>

\* MCSClient::AddHeartbeatInterval or RemoveHeartbeatInterval has found a new
\* smallest interval, or none (0).
SetClientHeartbeatIntervalMs ==
    /\ Awake
    /\ \E ticks \in 0..(CellTicks + 1), default \in DefaultIntervals :
           /\ ticks # 0 => IsValidClientHeartbeatInterval(ticks, default)
           /\ ticks # hb.client
           /\ IF NeedsShorterInterval(hb, ticks)
              THEN /\ hb' = Stop(SetClientInterval(hb, ticks))
                   /\ factory' = SignalConnectionReset(factory, "NEW_HEARTBEAT_INTERVAL")
                   /\ link' = LinkAfter(factory', link)
              ELSE hb' = SetClientInterval(hb, ticks) /\ UNCHANGED <<factory, link>>
    /\ UNCHANGED <<power, platform>>

\* The peer or the way to it is lost, and nobody tells.
LinkDies ==
    /\ Established(factory)
    /\ link.alive
    /\ link' = [link EXCEPT !.alive = FALSE, !.answer = FALSE]
    /\ UNCHANGED <<factory, hb, power, platform>>

\* The power monitor is observed between Start and Stop.
Suspend ==
    /\ Awake
    /\ ~ power.notify
    /\ power' = [power EXCEPT !.asleep = TRUE]
    /\ hb' = IF hb.running /\ ~ platform.polls THEN OnSuspend(hb) ELSE hb
    /\ link' = [link EXCEPT !.excused = @ \/ (Established(factory) /\ hb.waiting_for_ack)]
    /\ UNCHANGED <<factory, platform>>

SleepTick ==
    /\ power.asleep
    /\ hb' = WallTick(IF platform.counts THEN ClockTick(hb) ELSE hb)
    /\ factory' = IF platform.counts THEN Ticked(factory) ELSE factory
    /\ UNCHANGED <<link, power, platform>>

Wake ==
    /\ power.asleep
    /\ power' = [asleep |-> FALSE, notify |-> ~ platform.polls]
    /\ UNCHANGED <<factory, hb, link, platform>>

\* OnResume, or nobody observes the power monitor any more.
Resume ==
    /\ Awake
    /\ power.notify
    /\ power' = [power EXCEPT !.notify = FALSE]
    /\ IF hb.running /\ ForcesHeartbeat(hb)
       THEN Triggered
       ELSE UNCHANGED <<factory, hb, link>>
    /\ UNCHANGED platform

SystemTick ==
    /\ Awake
    /\ ~ power.notify
    /\ hb.running => hb.rem > 0
    /\ 0 \notin hb.polls
    /\ ~ link.answer
    /\ hb' = WallTick(ClockTick(hb))
    /\ factory' = Ticked(factory)
    /\ link' = [link EXCEPT !.silent = IF link.alive \/ @ > CellTicks + AckTicks
                                       THEN @ ELSE @ + 1]
    /\ UNCHANGED <<power, platform>>

SystemNext ==
    \/ FactoryOnly
    \/ BuildLoginRequest
    \/ LoginResponse
    \/ PacketReceived
    \/ CloseReceived
    \/ TimerFires
    \/ CheckForMissedHeartbeat
    \/ SetClientHeartbeatIntervalMs
    \/ LinkDies
    \/ Suspend
    \/ SleepTick
    \/ Wake
    \/ Resume
    \/ SystemTick

SystemSpec == SystemInit /\ [][SystemNext]_vars

(***************************************************************************)
(* Properties                                                              *)
(***************************************************************************)

\* The types of the system's variables.
SystemTypeOK ==
    /\ TypeOK
    /\ hb \in HeartbeatStates
    /\ link \in Links
    /\ power \in [asleep : BOOLEAN, notify : BOOLEAN]
    /\ platform \in Platforms

\* A connection whose peer has silently gone is given up within one heartbeat
\* interval and one wait for the answer, counted while the machine is awake,
\* whatever resumes, polls, interval changes and flushes come in between.
DeadConnectionNoticed ==
    Established(factory) /\ ~ link.alive => link.silent <= hb.interval + AckTicks

\* OnHeartbeatTriggered resets a connection whose peer answers only when the
\* ping was dropped by a client that was flushing, or a sleep came between a
\* ping and its answer.
LiveConnectionKept ==
    [][ /\ Established(factory)
        /\ link.alive
        /\ ~ link.excused
        /\ hb.waiting_for_ack
        => Established(factory') \/ ~ Triggered ]_vars

\* The state has its type, and RestartTimer and CheckForMissedHeartbeat keep a
\* poll posted for as long as a heartbeat is expected, on the platform without
\* power notifications.
SystemSound ==
    /\ SystemTypeOK
    /\ platform.polls /\ hb.expected # None => hb.polls # {}

\* A connection is never heard from less often than the smallest interval that
\* was asked for, unless the server has set one.
IntervalRespected ==
    Established(factory) /\ hb.server = 0 /\ hb.client # 0 => hb.interval <= hb.client

FactoryView == INSTANCE ConnectionFactory
    WITH factory <- [factory EXCEPT !.heartbeat = hb.running]

\* The factory with the real heartbeat manager behaves as ConnectionFactory
\* says, with the manager's running timer for the factory's assumption about it.
ImplementsFactory == FactoryView!Spec

===============================================================================
