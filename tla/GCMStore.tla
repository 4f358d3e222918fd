------------------------------- MODULE GCMStore -------------------------------
(***************************************************************************)
(* GCMStoreImpl (google_apis/gcm/engine/gcm_store_impl): the outgoing      *)
(* messages of MCSClient on disk, at most kMessagesPerAppLimit of them for *)
(* each application.                                                       *)
(*                                                                         *)
(* The store lives on two sequences. Its methods run on the foreground     *)
(* sequence and post a task to the Backend, which owns the database and    *)
(* posts the answer back to a continuation bound to a weak pointer. The    *)
(* limit is enforced in the foreground, on app_message_counts_, which the  *)
(* continuations correct afterwards: between the two the counts and the    *)
(* database disagree.                                                      *)
(***************************************************************************)
EXTENDS Integers, Sequences, FiniteSets

CONSTANTS
    Ids,          \* persistent ids
    Apps,         \* applications
    AppOf,        \* the application of the message with an id
    Limit,        \* kMessagesPerAppLimit
    MaxCloses,    \* bound on Close, on Destroy and on restarts of the process
    MaxFailures,  \* bound on failures of LevelDB
    MaxOverwrites,\* bound on Overwrite
    Failing       \* the operations that may fail: "load", "put", "remove", "destroy"

ASSUME StoreAssumption ==
    /\ IsFiniteSet(Ids)
    /\ AppOf \in [Ids -> Apps]
    /\ Limit \in Nat
    /\ MaxCloses \in Nat /\ MaxFailures \in Nat /\ MaxOverwrites \in Nat
    /\ Failing \subseteq {"load", "put", "remove", "destroy"}

VARIABLES
    counts,    \* app_message_counts_
    disk,      \* the Backend: whether db_ is open, and the ids in the database
    tasks,     \* posted to the Backend's sequence, oldest first
    replies,   \* posted to the foreground sequence, oldest first
    epoch,     \* how often the weak pointers were invalidated
    status,    \* what the store's user knows of it
    held,      \* the ids whose messages the user believes to be in the store
    fresh,     \* the ids not used so far
    checks,    \* no DCHECK has failed
    used       \* how much of each bound is used up; whether the database was
               \* destroyed since it was loaded, and whether an overwrite has
               \* written a message that was not there

vars == <<counts, disk, tasks, replies, epoch, status, held, fresh, checks, used>>

OfApp(ids, app) == {i \in ids : AppOf[i] = app}

NoCounts == [a \in Apps |-> 0]

Plus(c, ids) == [a \in Apps |-> c[a] + Cardinality(OfApp(ids, a))]

Minus(c, ids) == [a \in Apps |-> c[a] - Cardinality(OfApp(ids, a))]

Init ==
    /\ counts = NoCounts
    /\ disk = [open |-> FALSE, ids |-> {}]
    /\ tasks = << >>
    /\ replies = << >>
    /\ epoch = 0
    /\ status = "closed"
    /\ held = {}
    /\ fresh = Ids
    /\ checks = TRUE
    /\ used = [closes |-> 0, failures |-> 0, overwrites |-> 0, destroyed |-> FALSE,
               revived |-> FALSE]

(***************************************************************************)
(* The foreground sequence                                                 *)
(***************************************************************************)
Post(op, ids) == tasks' = Append(tasks, [op |-> op, ids |-> ids, epoch |-> epoch])

Load ==
    /\ status = "closed"
    /\ status' = "loading"
    /\ Post("load", << >>)
    /\ UNCHANGED <<counts, disk, replies, epoch, held, fresh, checks, used>>

\* Mutant: Close leaves the counts, and the next Load adds to them.
CloseKeepsCounts ==
    /\ status # "closed"
    /\ used.closes < MaxCloses
    /\ used' = [used EXCEPT !.closes = @ + 1, !.destroyed = FALSE]
    /\ status' = "closed"
    /\ held' = {}
    /\ epoch' = epoch + 1
    /\ Post("close", << >>)
    /\ UNCHANGED <<counts, disk, replies, fresh, checks>>

Close ==
    /\ status # "closed"
    /\ used.closes < MaxCloses
    /\ used' = [used EXCEPT !.closes = @ + 1, !.destroyed = FALSE]
    /\ status' = "closed"
    /\ held' = {}
    /\ epoch' = epoch + 1
    /\ counts' = NoCounts
    /\ Post("close", << >>)
    /\ UNCHANGED <<disk, replies, fresh, checks>>

\* The counts stay as they are, and so do the weak pointers.
Destroy ==
    /\ status = "loaded"
    /\ used.closes < MaxCloses
    /\ used' = [used EXCEPT !.closes = @ + 1, !.destroyed = TRUE]
    /\ Post("destroy", << >>)
    /\ UNCHANGED <<counts, disk, replies, epoch, status, held, fresh, checks>>

\* Mutant: the comparison with the limit is off by one.
AddBeyondLimit(id) == counts[AppOf[id]] <= Limit

BelowLimit(id) == counts[AppOf[id]] < Limit

Add(id) ==
    /\ status = "loaded"
    /\ \/ /\ BelowLimit(id)
          /\ counts' = Plus(counts, {id})
          /\ held' = held \cup {id}
          /\ Post("add", <<id>>)
       \/ /\ ~ BelowLimit(id)
          /\ UNCHANGED <<counts, held, tasks>>
    /\ UNCHANGED <<disk, replies, epoch, status, checks, used>>

\* MCSClient never uses a persistent id twice.
AddOutgoingMessage == \E id \in fresh : Add(id) /\ fresh' = fresh \ {id}

\* MCSClient overwrites a message it has queued.
OverwriteOutgoingMessage ==
    /\ status = "loaded"
    /\ \E id \in held : Post("overwrite", <<id>>)
    /\ used.overwrites < MaxOverwrites
    /\ used' = [used EXCEPT !.overwrites = @ + 1]
    /\ UNCHANGED <<counts, disk, replies, epoch, status, held, fresh, checks>>

\* MCSClient removes messages it takes off its queues, one or several at once.
RemoveOutgoingMessages ==
    /\ status = "loaded"
    /\ \E i, j \in held :
        /\ held' = held \ {i, j}
        /\ Post("remove", IF i = j THEN <<i>> ELSE <<i, j>>)
    /\ UNCHANGED <<counts, disk, replies, epoch, status, fresh, checks, used>>

(***************************************************************************)
(* The Backend executes a task; at most good of its LevelDB calls succeed. *)
(***************************************************************************)
Elements(s) == {s[i] : i \in 1..Len(s)}

\* RemoveOutgoingMessages goes through the list until an id is not there.
RemovedIds(d, ids, good) ==
    {ids[n] : n \in {k \in 1..Len(ids) : k <= good /\ d.open
                                         /\ \A i \in 1..k : ids[i] \in d.ids}}

Executed(d, task, good) ==
    CASE task.op = "load" ->
           [d EXCEPT !.open = @ \/ good > 0]
      [] task.op \in {"add", "overwrite"} ->
           [d EXCEPT !.ids = IF d.open /\ good > 0 THEN @ \cup Elements(task.ids) ELSE @]
      [] task.op = "remove" -> [d EXCEPT !.ids = @ \ RemovedIds(d, task.ids, good)]
      [] task.op = "close" -> [d EXCEPT !.open = FALSE]
      [] task.op = "destroy" -> [open |-> FALSE, ids |-> IF good > 0 THEN {} ELSE d.ids]

\* Mutant: removals are counted although they failed.
CountFailedRemovals(asked, removed) == asked

\* removed_message_counts is empty when the loop broke off.
CountedRemovals(asked, removed) == IF removed = asked THEN removed ELSE {}

\* The continuation the Backend posts: whether the task succeeded, and the ids
\* the counts are to be corrected by.
Answer(d, task, good) ==
    LET removed == RemovedIds(d, task.ids, good)
        ok == CASE task.op = "load" -> ~ d.open /\ good > 1
                [] task.op = "add" -> d.open /\ good > 0
                [] task.op = "remove" -> d.open /\ removed = Elements(task.ids)
        ids == CASE task.op = "load" -> IF ok THEN d.ids ELSE {}
                 [] task.op = "add" -> IF ok THEN {} ELSE Elements(task.ids)
                 [] task.op = "remove" -> IF d.open THEN CountedRemovals(Elements(task.ids), removed)
                                 ELSE {}
    IN  IF task.op \in {"load", "add", "remove"}
        THEN <<[op |-> task.op, ok |-> ok, ids |-> ids, epoch |-> task.epoch]>>
        ELSE << >>

FailureOf(op) == IF op \in {"add", "overwrite"} THEN "put" ELSE op

BackendStep ==
    /\ tasks # << >>
    /\ \E good \in {0, 1, 2} :
        LET task == Head(tasks)
        IN  /\ good < 2 => FailureOf(task.op) \in Failing /\ used.failures < MaxFailures
            /\ disk' = Executed(disk, task, good)
            /\ used' = [used EXCEPT
                 !.failures = IF good < 2 THEN @ + 1 ELSE @,
                 !.revived = @ \/ (task.op = "overwrite" /\ disk'.ids # disk.ids)]
            /\ replies' = replies \o Answer(disk, task, good)
    /\ tasks' = Tail(tasks)
    /\ UNCHANGED <<counts, epoch, status, held, fresh, checks>>

(***************************************************************************)
(* The continuations                                                       *)
(***************************************************************************)
Corrected(c, reply) ==
    IF reply.op = "load" THEN Plus(c, reply.ids) ELSE Minus(c, reply.ids)

Continue(reply, live) ==
    /\ replies' = Tail(replies)
    /\ counts' = IF live THEN Corrected(counts, reply) ELSE counts
    /\ checks' = (checks /\ \A a \in Apps : counts'[a] >= 0)
    /\ \/ /\ live /\ reply.op = "load" /\ reply.ok
          /\ status' = "loaded"
          /\ held' = reply.ids
       \/ /\ live /\ reply.op = "load" /\ ~ reply.ok
          /\ status' = "failed"
          /\ UNCHANGED held
       \/ /\ ~ live \/ reply.op # "load"
          /\ UNCHANGED <<status, held>>
    /\ UNCHANGED <<disk, tasks, epoch, fresh, used>>

\* Mutant: the weak pointers are not invalidated by Close.
ContinuationOfDead ==
    /\ replies # << >>
    /\ Continue(Head(replies), TRUE)

\* An answer for a weak pointer that was invalidated is dropped.
Continuation ==
    /\ replies # << >>
    /\ Continue(Head(replies), Head(replies).epoch = epoch)

\* The process stops; the next one has the database and nothing else.
Restart ==
    /\ used.closes < MaxCloses
    /\ used' = [used EXCEPT !.closes = @ + 1, !.destroyed = FALSE]
    /\ counts' = NoCounts
    /\ disk' = [disk EXCEPT !.open = FALSE]
    /\ tasks' = << >>
    /\ replies' = << >>
    /\ epoch' = 0
    /\ status' = "closed"
    /\ held' = {}
    /\ UNCHANGED <<fresh, checks>>

Next ==
    \/ Load
    \/ Close
    \/ Destroy
    \/ AddOutgoingMessage
    \/ OverwriteOutgoingMessage
    \/ RemoveOutgoingMessages
    \/ BackendStep
    \/ Continuation
    \/ Restart

Spec == Init /\ [][Next]_vars

(***************************************************************************)
(* Properties                                                              *)
(***************************************************************************)

\* The types of both sequences' state.
TypeOK ==
    /\ counts \in [Apps -> Int]
    /\ disk \in [open : BOOLEAN, ids : SUBSET Ids]
    /\ \A i \in 1..Len(tasks) : Elements(tasks[i].ids) \subseteq Ids
    /\ \A i \in 1..Len(replies) : replies[i].ids \subseteq Ids
    /\ status \in {"closed", "loading", "loaded", "failed"}
    /\ held \subseteq Ids \ fresh
    /\ checks \in BOOLEAN

\* The DCHECKs on app_message_counts_: no continuation takes a count below zero,
\* unless an overwrite has written a message whose first write had failed and
\* was taken off the count. And the state has its type.
ChecksHold == TypeOK /\ (used.revived \/ checks)

\* The database when the tasks posted so far have been executed.
SettledDisk ==
    LET after[n \in 0..Len(tasks)] ==
            IF n = 0 THEN disk ELSE Executed(after[n - 1], tasks[n], 2)
    IN  after

\* The counts when the continuations posted so far have run.
RepliedCounts ==
    LET now[n \in 0..Len(replies)] ==
            IF n = 0 THEN counts
            ELSE IF replies[n].epoch = epoch THEN Corrected(now[n - 1], replies[n])
            ELSE now[n - 1]
    IN  now[Len(replies)]

\* The counts c after the continuation of a task that met the database d.
Settled(c, d, task) ==
    LET answer == Answer(d, task, 2)
    IN  IF answer # << >> /\ task.epoch = epoch THEN Corrected(c, answer[1]) ELSE c

\* The counts when all the continuations have run, too.
SettledCounts ==
    LET then[n \in 0..Len(tasks)] ==
            IF n = 0 THEN RepliedCounts
            ELSE Settled(then[n - 1], SettledDisk[n - 1], tasks[n])
    IN  then[Len(tasks)]

Stored(app) == Cardinality(OfApp(SettledDisk[Len(tasks)].ids, app))

\* An overwrite has revived a message, or one on its way will.
Revives ==
    \/ used.revived
    \/ \E n \in 1..Len(tasks) :
            tasks[n].op = "overwrite" /\ SettledDisk[n].ids # SettledDisk[n - 1].ids

\* However tasks and continuations interleave, and through closing, reloading
\* and restarting, the counts come to agree with the database, as long as no
\* operation of LevelDB fails and the database is not destroyed.
CountsSettle ==
    status = "loaded" /\ used.failures = 0 /\ ~ used.destroyed
        => \A a \in Apps : SettledCounts[a] = Stored(a)

\* A message that fails to be removed stays counted: the counts never come out
\* below what the database holds, unless an overwrite revived a message.
CountsCoverStore ==
    status = "loaded" /\ ~ Revives => \A a \in Apps : SettledCounts[a] >= Stored(a)

\* The database never holds more messages of an application than the limit,
\* at any moment, although the counts are corrected only later, unless an
\* overwrite revived a message.
LimitEnforced == ~ used.revived => \A a \in Apps : Cardinality(OfApp(disk.ids, a)) <= Limit

===============================================================================
