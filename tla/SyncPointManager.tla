--------------------------- MODULE SyncPointManager ---------------------------
(***************************************************************************)
(* Sync points of the GPU service (gpu/command_buffer/service/             *)
(* sync_point_manager): a task of one sequence waits for a fence that a    *)
(* task of another sequence releases.                                      *)
(*                                                                         *)
(* The module has one operator for each critical section, from the record  *)
(* of the object whose lock is held to its record after; GpuScheduler      *)
(* makes steps of threads of them. Releases count up, and a sequence has   *)
(* one client state, so a sync token is a sequence and a count.            *)
(*                                                                         *)
(* An order data record o (SyncPointOrderData) has                         *)
(*   nums         unprocessed_order_nums_, oldest first                    *)
(*   last         last_unprocessed_order_num_                              *)
(*   processed, current, paused    the members of that name                *)
(*   fences       order_fence_queue_: [order, client, count, id]           *)
(*   destroyed    destroyed_                                               *)
(* A client state record c (SyncPointClientState) has                      *)
(*   mapped       whether the manager's map has it                         *)
(*   released     fence_sync_release_, Forever for UINT64_MAX              *)
(*   told         client_fence_sync_release_                               *)
(*   callbacks    release_callback_queue_: [client, count, seq, id]        *)
(* A callback belongs to a waiting task, and its id, unique in the code by *)
(* a counter, is that task's order number.                                 *)
(***************************************************************************)
EXTENDS Naturals, Sequences, FiniteSetsExt

CONSTANT Forever  \* a release count above all others

ASSUME ForeverAssumption == Forever \in Nat \ {0}

NewOrderData ==
    [nums |-> << >>, last |-> 0, processed |-> 0, current |-> 0, paused |-> FALSE,
     fences |-> {}, destroyed |-> FALSE]

NewClientState == [mapped |-> TRUE, released |-> 0, told |-> 0, callbacks |-> {}]

(***************************************************************************)
(* SyncPointOrderData                                                      *)
(***************************************************************************)
GenerateUnprocessedOrderNumber(o, num) ==
    [o EXCEPT !.nums = Append(@, num), !.last = num]

BeginChecks(o, num) == num >= o.current /\ num > o.processed /\ num <= o.last

BeginProcessingOrderNumber(o, num) == [o EXCEPT !.current = num, !.paused = FALSE]

PauseProcessingOrderNumber(o) == [o EXCEPT !.paused = TRUE]

IsProcessingOrderNumber(o) == ~ o.paused /\ o.current > o.processed

FinishChecks(o, num) ==
    o.current = num /\ ~ o.paused /\ num > o.processed /\ o.nums # << >> /\ num = Head(o.nums)

\* Mutant: a fence that expects the next order number is given up before it.
OverdueEarly(o) == {f \in o.fences : o.nums = << >> \/ f.order <= Head(o.nums)}

\* The fences no unprocessed order number can release any more.
Overdue(o) == {f \in o.fences : o.nums = << >> \/ f.order < Head(o.nums)}

\* The section of FinishProcessingOrderNumber under the lock, but for Overdue.
FinishOrderNumber(o, num) == [o EXCEPT !.processed = num, !.nums = Tail(@)]

\* ValidateReleaseOrderNumber: whether task num may wait for this sequence.
ValidWait(o, num, graph_validation) ==
    /\ ~ o.destroyed
    /\ graph_validation \/ (o.nums # << >> /\ num > Head(o.nums))

\* ... and the guard that ends the wait when no task can release the fence.
GuardWait(o, client, count, num, graph_validation) ==
    IF graph_validation THEN o
    ELSE [o EXCEPT !.fences = @ \cup
            {[order |-> Min({o.nums[Len(o.nums)], num}), client |-> client,
              count |-> count, id |-> num]}]

DestroyOrderData(o) == [o EXCEPT !.destroyed = TRUE, !.fences = {}]

(***************************************************************************)
(* SyncPointClientState                                                    *)
(***************************************************************************)
AddCallback(c, callback) == [c EXCEPT !.callbacks = @ \cup {callback}]

\* Releases by the client must count up; the same count again is allowed only
\* when a task completes.
ReleaseChecks(c, count, cause) ==
    /\ cause = "explicit" => count > c.told
    /\ cause = "completion" => count >= c.told
    /\ count <= c.released => \A r \in c.callbacks : r.count > count

\* The callbacks a release of count takes from the queue, to be run unlocked.
Taken(c, count) ==
    IF count <= c.released THEN {} ELSE {r \in c.callbacks : r.count <= count}

EnsureFenceSyncReleased(c, count, cause) ==
    [c EXCEPT !.told = IF cause = "force" THEN @ ELSE count,
              !.released = Max({@, count}),
              !.callbacks = @ \ Taken(c, count)]

\* EnsureWaitReleased: the callback that ends an overdue wait, if it is still
\* there. The fence itself is not released.
Ended(c, f) ==
    IF f.count <= c.released THEN {}
    ELSE {r \in c.callbacks : r.count = f.count /\ r.id = f.id}

\* Mutant: the callbacks of a destroyed client are dropped.
DestroyDropsCallbacks(c) == {}

\* What DestroyAndReturnCallbacks returns.
Returned(c) == c.callbacks

DestroyClientState(c) ==
    [c EXCEPT !.mapped = FALSE, !.released = Forever, !.callbacks = {}]

\* The order in which callbacks run, and overdue waits are ended: queues sorted
\* by count, and by order number and count.
Lowest(callbacks) == {r \in callbacks : \A q \in callbacks : r.count <= q.count}

Earliest(fences) ==
    {f \in fences : \A g \in fences :
        f.order < g.order \/ (f.order = g.order /\ f.count <= g.count)}

===============================================================================
