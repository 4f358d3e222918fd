---------------------------- MODULE ReliableQueue ----------------------------
(***************************************************************************)
(* What MCSClient promises an application for a message with ttl > 0: the  *)
(* message is refused at once, or it waits until it has reached the server *)
(* and is reported sent, until its time to live is over, or until a later  *)
(* message with its collapse key takes its place. Each message ends at     *)
(* most one of these ways, and only sent if the server really has it.      *)
(* MCSSystem implements this specification as long as the process lives.   *)
(***************************************************************************)
CONSTANTS
    Reliable,        \* the messages
    SameKey(_, _)    \* whether two messages have the same collapse key

VARIABLES
    life,            \* how far each message has come
    arrived          \* the messages the server has received

vars == <<life, arrived>>

Lives == {"new", "refused", "waiting", "sent", "expired", "replaced"}

Init ==
    /\ life = [m \in Reliable |-> "new"]
    /\ arrived = {}

\* Messages that waited are done; gone is their lives at the end of the step.
Resolved(gone) ==
    \A m \in Reliable :
        \/ gone[m] = life[m]
        \/ life[m] = "waiting" /\ gone[m] = "sent" /\ m \in arrived
        \/ life[m] = "waiting" /\ gone[m] = "expired"

\* Waiting messages are acknowledged or run out of time.
Resolve ==
    /\ life' \in [Reliable -> Lives]
    /\ Resolved(life')
    /\ UNCHANGED arrived

\* An application sends m, which is refused or queued; the queue may go on.
Send(m) ==
    /\ life[m] = "new"
    /\ life' \in [Reliable -> Lives]
    /\ life'[m] \in {"refused", "waiting", "expired"}
    /\ Resolved([life' EXCEPT ![m] = "new"])
    /\ UNCHANGED arrived

\* An application sends m, which takes the place of old.
Replace(m, old) ==
    /\ life[m] = "new"
    /\ life[old] = "waiting"
    /\ SameKey(m, old)
    /\ life' = [life EXCEPT ![m] = "waiting", ![old] = "replaced"]
    /\ UNCHANGED arrived

\* A copy of m arrives at the server, perhaps not the first and perhaps late.
Arrive(m) ==
    /\ life[m] \notin {"new", "refused"}
    /\ arrived' = arrived \cup {m}
    /\ UNCHANGED life

Next ==
    \/ Resolve
    \/ \E m \in Reliable : Send(m) \/ Arrive(m)
    \/ \E m, old \in Reliable : Replace(m, old)

Spec == Init /\ [][Next]_vars
==============================================================================
