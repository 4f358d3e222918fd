--------------------------- MODULE HeartbeatManager ---------------------------
(***************************************************************************)
(* HeartbeatManager (google_apis/gcm/engine/heartbeat_manager): one timer  *)
(* that alternates between two phases, the wait for the next heartbeat and *)
(* the wait for the answer to it. Each method is an operator from the      *)
(* manager's record before to the record after; HeartbeatSystem calls them *)
(* from the handlers of MCSClient and of the timers.                       *)
(*                                                                         *)
(* Two clocks matter. The timer and the polls run on the tick clock, which *)
(* stands still on some platforms while the machine sleeps;                *)
(* heartbeat_expected_time_ and suspend_time_ are wall-clock times.        *)
(***************************************************************************)
EXTENDS Integers

CONSTANTS
    AckTicks,        \* kHeartbeatAckDefaultMs
    WifiTicks,       \* kWifiHeartbeatDefaultMs
    CellTicks,       \* kCellHeartbeatDefaultMs
    MinClientTicks,  \* kMinClientHeartbeatIntervalMs
    PollTicks,       \* kHeartbeatMissedCheckMs
    MinSuspend,      \* kMinSuspendTimeMs
    ServerTicks,     \* intervals a login response may carry
    Platforms        \* records [polls, counts], see HeartbeatSystem

Positive == Nat \ {0}

ASSUME HeartbeatAssumption ==
    /\ {AckTicks, WifiTicks, CellTicks, MinClientTicks, PollTicks} \subseteq Positive
    /\ MinClientTicks <= WifiTicks
    /\ WifiTicks <= CellTicks
    /\ MinSuspend \in Nat
    /\ ServerTicks \subseteq 1..CellTicks
    /\ Platforms \subseteq [polls : BOOLEAN, counts : BOOLEAN]

\* A null time.
None == -2

\* A wall-clock time in the past; expected is otherwise what is left until it.
Past == -1

\* client_interval_ms_, heartbeat_interval_ms_ and server_interval_ms_ are 0
\* when not set. expected is heartbeat_expected_time_, rem what is left of a
\* running timer, polls the delays left of the posted CheckForMissedHeartbeat
\* (two that are due together act as one), suspend_age the time since
\* suspend_time_, of which only "longer than MinSuspend" matters.
HeartbeatStates ==
    [running : BOOLEAN,
     rem : 0..CellTicks \union 0..AckTicks,
     expected : {None, Past} \union 0..CellTicks \union 0..AckTicks,
     waiting_for_ack : BOOLEAN,
     interval : 0..CellTicks,
     server : {0} \union ServerTicks,
     client : {0} \union MinClientTicks..CellTicks,
     polls : SUBSET (0..PollTicks),
     suspend_age : 0..(MinSuspend + 1)]

Stopped ==
    [running |-> FALSE, rem |-> 0, expected |-> None, waiting_for_ack |-> FALSE,
     interval |-> 0, server |-> 0, client |-> 0, polls |-> {},
     suspend_age |-> MinSuspend + 1]

\* Mutant: the manager's own interval is used in both phases.
RestartTimerOnePhase(h, linux) ==
    [h EXCEPT !.running = TRUE, !.rem = h.interval, !.expected = h.interval,
              !.polls = IF linux THEN @ \union {PollTicks} ELSE @]

RestartTimer(h, linux) ==
    LET ticks == IF h.waiting_for_ack THEN AckTicks ELSE h.interval
    IN  [h EXCEPT !.running = TRUE, !.rem = ticks, !.expected = ticks,
                  !.polls = IF linux THEN @ \union {PollTicks} ELSE @]

\* UpdateHeartbeatInterval; default is GetDefaultHeartbeatInterval().
UpdateHeartbeatInterval(h, default) ==
    [h EXCEPT !.interval =
        IF h.server # 0 THEN h.server
        ELSE IF h.client # 0 /\ (h.client < @ \/ @ = 0) THEN h.client
        ELSE IF @ = 0 THEN default
        ELSE @]

\* UpdateHeartbeatConfig; a config that is missing or not positive is 0.
UpdateHeartbeatConfig(h, config, default) ==
    IF config = 0 THEN h
    ELSE UpdateHeartbeatInterval([h EXCEPT !.server = config], default)

Start(h, linux, default) ==
    RestartTimer([UpdateHeartbeatInterval(h, default) EXCEPT !.waiting_for_ack = FALSE],
                 linux)

\* The posted polls stay: Stop leaves the weak pointers valid.
Stop(h) ==
    [h EXCEPT !.expected = None, !.interval = 0, !.running = FALSE, !.rem = 0,
              !.waiting_for_ack = FALSE]

\* Mutant: a received packet restarts the timer and leaves waiting_for_ack_ set.
OnHeartbeatAckedWaiting(h, linux) == IF h.running THEN RestartTimer(h, linux) ELSE h

OnHeartbeatAcked(h, linux) ==
    IF h.running
    THEN RestartTimer([h EXCEPT !.waiting_for_ack = FALSE], linux)
    ELSE h

\* OnHeartbeatTriggered, first half: the trigger cancels every poll and either
\* finds the last ping unanswered (ResetConnection stops the manager) or waits
\* for the answer to a new one. The caller then resets the connection or pings.
OnHeartbeatTriggered(h, linux) ==
    IF h.waiting_for_ack
    THEN Stop([h EXCEPT !.polls = {}])
    ELSE RestartTimer([h EXCEPT !.polls = {}, !.waiting_for_ack = TRUE], linux)

\* CheckForMissedHeartbeat triggers when the expected time has passed, and
\* otherwise goes on polling while a heartbeat is expected.
HeartbeatMissed(h) == h.expected = Past

\* Mutant: a poll that finds nothing wrong is the last one.
PollOnce(h) == [h EXCEPT !.polls = @ \ {0}]

PollAgain(h) ==
    [h EXCEPT !.polls = (@ \ {0}) \union
                        (IF h.expected = None THEN {} ELSE {PollTicks})]

OnSuspend(h) == [h EXCEPT !.suspend_age = 0]

ForcesHeartbeat(h) == h.suspend_age > MinSuspend

IsValidClientHeartbeatInterval(ticks, default) ==
    MinClientTicks <= ticks /\ ticks <= default

\* SetClientHeartbeatIntervalMs up to its ResetConnection.
SetClientInterval(h, ticks) == [h EXCEPT !.client = ticks]

\* Mutant: only a first custom interval resets the connection.
NeedsShorterIntervalFirst(h, ticks) ==
    h.client = 0 /\ ticks > 0 /\ ticks < h.interval

NeedsShorterInterval(h, ticks) == ticks > 0 /\ ticks < h.interval

\* The wall clock moves on by a tick.
WallTick(h) ==
    [h EXCEPT !.expected = IF @ \in {None, Past} THEN @ ELSE @ - 1,
              !.suspend_age = IF @ > MinSuspend THEN @ ELSE @ + 1]

\* The tick clock moves on by a tick: timers that are due stay due.
ClockTick(h) ==
    [h EXCEPT !.rem = IF @ = 0 THEN 0 ELSE @ - 1,
              !.polls = {IF p = 0 THEN 0 ELSE p - 1 : p \in @}]

===============================================================================
