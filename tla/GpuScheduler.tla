----------------------------- MODULE GpuScheduler -----------------------------
(***************************************************************************)
(* The GPU service's scheduler (gpu/command_buffer/service: scheduler,     *)
(* task_graph) on top of its sync points: sequences of tasks, each bound   *)
(* to a thread, whose tasks wait for fences of other sequences.            *)
(*                                                                         *)
(* TaskGraph::lock() guards tasks and wait fences; the sync point manager  *)
(* has locks of its own, and runs callbacks with none of them held. Every  *)
(* critical section is one step, except that AddTask, which holds the      *)
(* graph's lock throughout, is split where it has let go of the lock of an *)
(* order data and still holds the fence lock of a client state (adding).   *)
(* Steps that need the graph's lock wait for AddTask to end, and steps on  *)
(* that client state for the fence lock.                                   *)
(*                                                                         *)
(* A wait that can never end is found in one of two ways, chosen by a      *)
(* feature flag: by order numbers (SyncPointOrderData), or by a timer that *)
(* searches the task graph (ValidateSequenceTaskFenceDeps).                *)
(*                                                                         *)
(* graph[s] is a sequence: sched and map say which of the scheduler's and  *)
(* the task graph's maps still have it; tasks holds [order, release, waits,*)
(* validated, due], release being a count of the sequence's own client and *)
(* due that the task will be old enough when the timer fires; waits is     *)
(* wait_fences_; current is current_task_release_ (0: none); timer says    *)
(* that the validation timer runs.                                         *)
(* thread[t] is a thread: running and posted tell of RunNextTask, pc where *)
(* in it the thread is, with the sequence, the order number and the        *)
(* release of its task, callbacks still to run, overdue fences still to    *)
(* end, and counts still to release by force.                              *)
(***************************************************************************)
EXTENDS SyncPointManager

CONSTANTS
    Seqs,          \* the sequences, numbers as their ids are compared
    Threads,
    RunnerOf,      \* the thread of each sequence
    PriorityOf,    \* its priority, lower first
    Modes,         \* which values of graph_validation_enabled_ to look at
    MaxTasks,      \* bound on tasks
    MaxCount,      \* bound on the release counts waited for
    MaxExtras,     \* bound on explicit releases, continuations, disablings and
                   \* destructions
    AnyThread      \* whether a sequence is destroyed beside its own thread

ASSUME SchedulerAssumption ==
    /\ Seqs \subseteq Nat
    /\ RunnerOf \in [Seqs -> Threads]
    /\ PriorityOf \in [Seqs -> Nat]
    /\ Modes \subseteq BOOLEAN
    /\ {MaxTasks, MaxCount, MaxExtras} \subseteq Nat
    /\ Forever > MaxCount /\ Forever > MaxTasks
    /\ AnyThread \in BOOLEAN

VARIABLES
    graph_validation,  \* graph_validation_enabled_
    order,             \* the SyncPointOrderData of each sequence
    client,            \* the SyncPointClientState of each sequence
    graph,             \* the sequences
    thread,            \* the threads
    adding,            \* the AddTask that holds the graph's lock, if any
    destroying,        \* the destruction under way, if any
    last_order,        \* order_num_generator_
    checks,            \* no DCHECK has failed
    used               \* how many of the extras have happened

gpuVars == <<graph_validation, order, client, graph, thread, adding, destroying,
             last_order, checks, used>>

NewSequence ==
    [sched |-> TRUE, map |-> TRUE, tasks |-> << >>, waits |-> {}, current |-> 0,
     enabled |-> TRUE, running |-> FALSE, timer |-> FALSE]

NewThread ==
    [running |-> FALSE, posted |-> FALSE, pc |-> "idle", seq |-> 0, order |-> 0,
     release |-> 0, callbacks |-> {}, fences |-> {}, force |-> {}]

GpuInit ==
    /\ graph_validation \in Modes
    /\ order = [s \in Seqs |-> NewOrderData]
    /\ client = [s \in Seqs |-> NewClientState]
    /\ graph = [s \in Seqs |-> NewSequence]
    /\ thread = [t \in Threads |-> NewThread]
    /\ adding = << >>
    /\ destroying = << >>
    /\ last_order = 0
    /\ checks = TRUE
    /\ used = 0

GraphUnlocked == adding = << >>

\* AddTask has validated a wait and not yet stored its callback.
FenceLocked(x) == \E i \in 1..Len(adding) : adding[i].token[1] = x

ManagerUnlocked == \A x \in Seqs : ~ FenceLocked(x)

(***************************************************************************)
(* Sequences, as functions of graph = g and thread = th.                   *)
(***************************************************************************)
Front(g, s) == Head(g[s].tasks)

IsFrontTaskUnblocked(g, s) ==
    g[s].tasks # << >> /\ \A w \in g[s].waits : w.order > Front(g, s).order

HasAnyUnblockedTasksOnRunner(g, t) ==
    \E s \in Seqs : /\ RunnerOf[s] = t /\ g[s].sched /\ g[s].enabled
                    /\ IsFrontTaskUnblocked(g, s)

Posted(th, t) == [th EXCEPT ![t].running = TRUE, ![t].posted = TRUE]

TryScheduleChecks(g, th, s) == g[s].running => th[RunnerOf[s]].running

\* (running_state_ is reduced to whether it is RUNNING: SCHEDULED and IDLE are
\* told apart by nothing that has an effect.)
TryScheduleSequence(g, th, s) ==
    LET t == RunnerOf[s]
    IN  IF ~ g[s].running /\ ~ th[t].running /\ HasAnyUnblockedTasksOnRunner(g, t)
        THEN Posted(th, t) ELSE th

\* Mutant: a released fence does not wake the thread of the waiting sequence.
FenceGoneQuietly(g, th, r) == th

\* RemoveWaitFence has taken the fence of callback r from g[r.seq]: its front
\* task may be unblocked now.
FenceGone(g, th, r) ==
    IF Front(g, r.seq).order = r.id /\ IsFrontTaskUnblocked(g, r.seq)
    THEN TryScheduleSequence(g, th, r.seq) ELSE th

\* SyncTokenFenceReleased, the callback of every wait. th is the state of the
\* threads without the callback.
RunCallback(r, th) ==
    LET fence == [client |-> r.client, count |-> r.count, order |-> r.id]
        g == [graph EXCEPT ![r.seq].waits = @ \ {fence}]
    IN  /\ GraphUnlocked
        /\ IF graph[r.seq].map /\ fence \in graph[r.seq].waits
           THEN /\ graph' = g
                /\ thread' = FenceGone(g, th, r)
                /\ checks' = (/\ checks
                              /\ g[r.seq].tasks # << >>
                              /\ TryScheduleChecks(g, th, r.seq))
           ELSE thread' = th /\ UNCHANGED <<graph, checks>>

\* Either the timer is reset or it has time enough left: the tasks that are there
\* will be old enough for validation when it fires.
UpdateValidationTimer(q) ==
    IF ~ graph_validation \/ q.tasks = << >> THEN q
    ELSE [q EXCEPT !.timer = TRUE,
                   !.tasks = [i \in 1..Len(@) |-> [@[i] EXCEPT !.due = TRUE]]]

(***************************************************************************)
(* ScheduleTask: AddTask and TryScheduleSequence                           *)
(***************************************************************************)
\* The tokens a task of s may wait for. (A token of its own sequence is refused
\* at once, so the task is as one without it.)
Tokens(s) == (Seqs \ {s}) \X (1..MaxCount)

\* SyncPointManager::Wait accepts the wait of task num for token k: the fence is
\* neither released nor gone.
Waits(num, k) ==
    /\ client[k[1]].mapped
    /\ k[2] > client[k[1]].released
    /\ ValidWait(order[k[1]], num, graph_validation)

\* The rest of AddTask and of ScheduleTask. The timer of a sequence that had no
\* task is reset, by a task posted to the sequence's thread; as it fires after
\* that, for at least the tasks there are now, the reset is part of this step.
TaskAdded(s, g) ==
    LET h == [g EXCEPT ![s] = IF Len(@.tasks) = 1 THEN UpdateValidationTimer(@) ELSE @]
    IN  /\ graph' = h
        /\ thread' = TryScheduleSequence(h, thread, s)
        /\ checks' = (checks /\ TryScheduleChecks(h, thread, s) /\ ~ order[s].destroyed)

\* A task of s that waits for at most one token, and releases the next count of
\* its own sequence. When the wait is valid its guard is in the order data, and
\* AddTask goes on with the fence lock of the token's client.
AddTask ==
    \E s \in Seqs : \E waits \in {{}} \cup {{k} : k \in Tokens(s)} :
        LET num == last_order + 1
            counts == {graph[s].current, client[s].told}
                        \cup {graph[s].tasks[i].release : i \in 1..Len(graph[s].tasks)}
            task == [order |-> num, release |-> Max(counts) + 1,
                     waits |-> waits, validated |-> FALSE, due |-> FALSE]
            g == [graph EXCEPT ![s].tasks = Append(@, task)]
            valid == {k \in waits : Waits(num, k)}
            guarded(x) == LET of == {k \in valid : k[1] = x}
                          IN  IF of = {} THEN order[x]
                              ELSE GuardWait(order[x], x, Max({k[2] : k \in of}), num,
                                             graph_validation)
        IN  /\ GraphUnlocked
            /\ graph[s].sched
            /\ num <= MaxTasks
            /\ last_order' = num
            /\ order' = [x \in Seqs |-> IF x = s THEN GenerateUnprocessedOrderNumber(order[s], num)
                                        ELSE guarded(x)]
            /\ IF valid = {}
               THEN TaskAdded(s, g) /\ UNCHANGED adding
               ELSE /\ \E k \in valid : adding' = <<[seq |-> s, order |-> num, token |-> k]>>
                    /\ graph' = g
                    /\ UNCHANGED <<thread, checks>>
            /\ UNCHANGED <<graph_validation, client, destroying, used>>

\* ... the callback is stored and the wait fence recorded.
StoreWait ==
    \E i \in 1..Len(adding) :
        LET a == adding[i]
            x == a.token[1]
        IN  /\ client' = [client EXCEPT ![x] =
                   AddCallback(@, [client |-> x, count |-> a.token[2], seq |-> a.seq,
                                   id |-> a.order])]
            /\ TaskAdded(a.seq, [graph EXCEPT ![a.seq].waits =
                   @ \cup {[client |-> x, count |-> a.token[2], order |-> a.order]}])
            /\ adding' = << >>
            /\ UNCHANGED <<graph_validation, order, destroying, last_order, used>>

(***************************************************************************)
(* RunNextTask                                                             *)
(***************************************************************************)
IsRunnable(s) ==
    graph[s].sched /\ graph[s].enabled /\ ~ graph[s].running /\ graph[s].tasks # << >>

\* The fences the front task of s waits for whose sequence may run before it.
Dependencies(s) ==
    {w \in graph[s].waits :
        /\ w.order <= Front(graph, s).order
        /\ ~ (/\ graph[w.client].sched /\ graph[w.client].enabled
              /\ graph[w.client].tasks # << >>
              /\ Front(graph, w.client).order >= w.order)}

\* FindNextTaskFromRoot on thread t for the root s: the sequence found, as a set of
\* at most one. below says the same of its dependencies, which are tried in the
\* order of their ids.
FindFrom(t, below, s) ==
    LET fruitful == {w.client : w \in {d \in Dependencies(s) : below[d.client] # {}}}
    IN  IF ~ IsRunnable(s) THEN {}
        ELSE IF fruitful # {} THEN below[Min(fruitful)]
        ELSE IF IsFrontTaskUnblocked(graph, s) /\ RunnerOf[s] = t THEN {s} ELSE {}

\* ... for each root. The order number of the front task decreases from a sequence
\* to its dependency, so the recursion is no deeper than there are tasks.
FindNextTaskFromRoot(t) ==
    LET find[n \in 0..MaxTasks] ==
            [s \in Seqs |-> IF n = 0 THEN {} ELSE FindFrom(t, find[n - 1], s)]
    IN  find[MaxTasks]

RunsBefore(s, r) ==
    \/ PriorityOf[s] < PriorityOf[r]
    \/ PriorityOf[s] = PriorityOf[r] /\ Front(graph, s).order < Front(graph, r).order

\* All runnable sequences are tried, also those of other threads, by priority
\* and order number.
FindNextTask(t) ==
    LET found == FindNextTaskFromRoot(t)
        roots == {s \in Seqs : found[s] # {}}
        first == {s \in roots : \A r \in roots \ {s} : RunsBefore(s, r)}
    IN  UNION {found[s] : s \in first}

\* A thread that destroys one of its sequences does nothing else meanwhile.
Free(t) == AnyThread \/ \A i \in 1..Len(destroying) : RunnerOf[destroying[i].seq] # t

Now(t, pc) ==
    /\ thread[t].pc = pc
    /\ thread[t].callbacks = {}
    /\ Free(t)

RunNextTask(t) ==
    /\ Now(t, "idle")
    /\ thread[t].posted
    /\ GraphUnlocked
    /\ \E found \in {FindNextTask(t)} :
           thread' = [thread EXCEPT ![t].posted = FALSE,
                                    ![t].running = found # {},
                                    ![t].pc = IF found = {} THEN @ ELSE "chosen",
                                    ![t].seq = IF found = {} THEN @ ELSE Min(found)]
    /\ UNCHANGED <<graph_validation, order, client, graph, adding, destroying,
                   last_order, checks, used>>

\* ExecuteSequence up to the task: the lock was released since the sequence was
\* chosen. If the sequence is gone, the DCHECK fails and nothing else is said.
ExecuteSequence(t) ==
    LET s == thread[t].seq
        fine == graph[s].sched /\ graph[s].enabled /\ graph[s].tasks # << >>
        task == Front(graph, s)
    IN  /\ Now(t, "chosen")
        /\ GraphUnlocked
        /\ IF ~ fine
           THEN /\ checks' = FALSE
                /\ thread' = [thread EXCEPT ![t].pc = "again"]
                /\ UNCHANGED <<order, graph>>
           ELSE /\ graph' = [graph EXCEPT ![s].tasks = Tail(@), ![s].running = TRUE,
                                          ![s].current = task.release]
                /\ order' = [order EXCEPT ![s] = BeginProcessingOrderNumber(@, task.order)]
                /\ thread' = [thread EXCEPT ![t].pc = "task", ![t].order = task.order,
                                            ![t].release = task.release]
                /\ checks' = (checks /\ ~ graph[s].running /\ BeginChecks(order[s], task.order))
        /\ UNCHANGED <<graph_validation, client, adding, destroying, last_order, used>>

\* SyncPointManager::EnsureFenceSyncReleased for the client of s, by thread t,
\* which goes on as me once it has run the callbacks.
Release(t, me, s, count, cause) ==
    /\ ManagerUnlocked
    /\ IF client[s].mapped
       THEN /\ client' = [client EXCEPT ![s] = EnsureFenceSyncReleased(@, count, cause)]
            /\ thread' = [thread EXCEPT ![t] = [me EXCEPT !.callbacks = Taken(client[s], count)]]
            /\ checks' = (checks /\ ReleaseChecks(client[s], count, cause))
       ELSE /\ thread' = [thread EXCEPT ![t] = me]
            /\ UNCHANGED <<client, checks>>

MayDoExtra ==
    /\ used < MaxExtras
    /\ used' = used + 1

\* The task releases its fence before it ends, once.
TaskReleases(t) ==
    /\ Now(t, "task")
    /\ MayDoExtra
    /\ client[thread[t].seq].told < thread[t].release
    /\ Release(t, thread[t], thread[t].seq, thread[t].release, "explicit")
    /\ UNCHANGED <<graph_validation, order, graph, adding, destroying, last_order>>

\* ContinueTask: the task goes back to the front of its sequence.
TaskContinues(t) ==
    LET s == thread[t].seq
        task == [order |-> order[s].current, release |-> graph[s].current, waits |-> {},
                 validated |-> FALSE, due |-> FALSE]
    IN  /\ Now(t, "task")
        /\ MayDoExtra
        /\ GraphUnlocked
        /\ graph[s].sched
        /\ IsProcessingOrderNumber(order[s])
        /\ graph' = [graph EXCEPT ![s].tasks = <<task>> \o @, ![s].current = 0]
        /\ order' = [order EXCEPT ![s] = PauseProcessingOrderNumber(@)]
        /\ checks' = (checks /\ graph[s].running)
        /\ UNCHANGED <<graph_validation, client, thread, adding, destroying, last_order>>

\* SetEnabled calls TryScheduleSequence, whatever changed.
SetEnabled(s, enabled) ==
    LET g == [graph EXCEPT ![s].enabled = enabled]
    IN  /\ GraphUnlocked
        /\ graph[s].sched
        /\ graph[s].enabled # enabled
        /\ graph' = g
        /\ thread' = TryScheduleSequence(g, thread, s)
        /\ checks' = (checks /\ TryScheduleChecks(g, thread, s))
        /\ UNCHANGED <<graph_validation, order, client, adding, destroying, last_order>>

\* The command buffer is descheduled while its task runs ...
DisableSequence(t) == Now(t, "task") /\ MayDoExtra /\ SetEnabled(thread[t].seq, FALSE)

\* ... and scheduled again later.
EnableSequence(s) == SetEnabled(s, TRUE) /\ UNCHANGED used

\* The task returns. Unless it was continued, its fence is released.
TaskReturns(t) ==
    LET s == thread[t].seq
    IN  /\ Now(t, "task")
        /\ IF IsProcessingOrderNumber(order[s])
           THEN Release(t, [thread[t] EXCEPT !.pc = "processed"], s, thread[t].release,
                        "completion")
           ELSE /\ thread' = [thread EXCEPT ![t].pc = "finish"]
                /\ UNCHANGED <<client, checks>>
        /\ UNCHANGED <<graph_validation, order, graph, adding, destroying, last_order, used>>

\* FinishProcessingOrderNumber under the lock of the order data.
FinishProcessing(t) ==
    LET s == thread[t].seq
        o == FinishOrderNumber(order[s], thread[t].order)
        overdue == IF graph_validation THEN {} ELSE Overdue(o)
    IN  /\ Now(t, "processed")
        /\ order' = [order EXCEPT ![s] = [o EXCEPT !.fences = @ \ overdue]]
        /\ thread' = [thread EXCEPT ![t].pc = IF overdue = {} THEN "finish" ELSE "overdue",
                                    ![t].fences = overdue]
        /\ checks' = (checks /\ FinishChecks(order[s], thread[t].order))
        /\ UNCHANGED <<graph_validation, client, graph, adding, destroying, last_order, used>>

\* ... and without it, the overdue waits one after the other.
EnsureWaitReleased(t) ==
    /\ Now(t, "overdue")
    /\ \E f \in Earliest(thread[t].fences) :
           LET ended == Ended(client[f.client], f)
               rest == thread[t].fences \ {f}
           IN  /\ ~ FenceLocked(f.client)
               /\ client' = [client EXCEPT ![f.client].callbacks = @ \ ended]
               /\ thread' = [thread EXCEPT ![t].fences = rest, ![t].callbacks = ended,
                                           ![t].pc = IF rest = {} THEN "finish" ELSE @]
    /\ UNCHANGED <<graph_validation, order, graph, adding, destroying, last_order,
                   checks, used>>

ThreadCallback(t) ==
    /\ Free(t)
    /\ \E r \in Lowest(thread[t].callbacks) :
           RunCallback(r, [thread EXCEPT ![t].callbacks = @ \ {r}])
    /\ UNCHANGED <<graph_validation, order, client, adding, destroying, last_order, used>>

\* Mutant: the validation timer is not started for the tasks that are left.
FinishTaskUntimed(t) ==
    LET s == thread[t].seq
    IN  /\ Now(t, "finish")
        /\ GraphUnlocked
        /\ graph' = IF ~ graph[s].sched THEN graph
                    ELSE [graph EXCEPT ![s].running = FALSE, ![s].current = 0]
        /\ thread' = [thread EXCEPT ![t].pc = "again"]
        /\ UNCHANGED <<graph_validation, order, client, adding, destroying, last_order,
                       checks, used>>

\* The end of ExecuteSequence: FinishTask, if the sequence still exists.
FinishTask(t) ==
    LET s == thread[t].seq
    IN  /\ Now(t, "finish")
        /\ GraphUnlocked
        /\ graph' = IF ~ graph[s].sched THEN graph
                    ELSE [graph EXCEPT ![s] = UpdateValidationTimer(
                                           [@ EXCEPT !.running = FALSE, !.current = 0])]
        /\ checks' = (checks /\ (graph[s].sched => graph[s].running))
        /\ thread' = [thread EXCEPT ![t].pc = "again"]
        /\ UNCHANGED <<graph_validation, order, client, adding, destroying, last_order, used>>

\* The end of RunNextTask.
RunAgain(t) ==
    LET more == HasAnyUnblockedTasksOnRunner(graph, t)
    IN  /\ Now(t, "again")
        /\ GraphUnlocked
        /\ thread' = [thread EXCEPT ![t] = [NewThread EXCEPT !.running = more, !.posted = more]]
        /\ UNCHANGED <<graph_validation, order, client, graph, adding, destroying,
                       last_order, checks, used>>

(***************************************************************************)
(* DestroySequence, and the end of a client state before its sequence's.   *)
(***************************************************************************)
Destroying(pc) == \E i \in 1..Len(destroying) : destroying[i].pc = pc

Doomed == destroying[1].seq

BeginDestroy(s, pc) ==
    /\ destroying = << >>
    /\ MayDoExtra
    /\ AnyThread \/ Now(RunnerOf[s], "idle") \/ Now(RunnerOf[s], "task")
    /\ destroying' = <<[seq |-> s, pc |-> pc, callbacks |-> {}]>>

\* Scheduler::DestroySequence: first the scheduler's map ...
DestroySequence(s) ==
    /\ GraphUnlocked
    /\ graph[s].sched
    /\ graph' = [graph EXCEPT ![s].sched = FALSE]
    /\ BeginDestroy(s, "map")
    /\ UNCHANGED <<graph_validation, order, client, thread, adding, last_order, checks>>

\* ... then the task graph's, whose lock is released before Sequence::Destroy,
\* which stops the timer first.
RemoveSequence ==
    /\ Destroying("map")
    /\ GraphUnlocked
    /\ graph' = [graph EXCEPT ![Doomed].map = FALSE, ![Doomed].timer = FALSE]
    /\ destroying' = <<[destroying[1] EXCEPT !.pc = "client"]>>
    /\ UNCHANGED <<graph_validation, order, client, thread, adding, last_order, checks, used>>

\* ScopedSyncPointClientState::Reset: only the client state.
DestroyClientOnly(s) ==
    /\ GraphUnlocked
    /\ graph[s].sched
    /\ client[s].mapped
    /\ BeginDestroy(s, "only")
    /\ UNCHANGED <<graph_validation, order, client, graph, thread, adding, last_order, checks>>

\* DestroySyncPointClientState, if the sequence still has its client state.
DestroyClient ==
    /\ Destroying("client") \/ Destroying("only")
    /\ ManagerUnlocked
    /\ LET d == destroying[1]
           c == client[d.seq]
       IN  /\ client' = [client EXCEPT ![d.seq] = DestroyClientState(@)]
           /\ destroying' = <<[d EXCEPT !.pc = IF d.pc = "only" THEN "end" ELSE "order",
                                        !.callbacks = Returned(c)]>>
    /\ UNCHANGED <<graph_validation, order, graph, thread, adding, last_order, checks, used>>

DestroyCallback ==
    /\ \E i \in 1..Len(destroying) : \E r \in Lowest(destroying[i].callbacks) :
           /\ RunCallback(r, thread)
           /\ destroying' = <<[destroying[i] EXCEPT !.callbacks = @ \ {r}]>>
    /\ UNCHANGED <<graph_validation, order, client, adding, last_order, used>>

DestroyOrder ==
    /\ Destroying("order")
    /\ destroying[1].callbacks = {}
    /\ order' = [order EXCEPT ![Doomed] = DestroyOrderData(@)]
    /\ destroying' = <<[destroying[1] EXCEPT !.pc = "sequence"]>>
    /\ checks' = (checks /\ ~ order[Doomed].destroyed)
    /\ UNCHANGED <<graph_validation, client, graph, thread, adding, last_order, used>>

\* ~Sequence, with the lock held again: sequences it waited for are scheduled,
\* its tasks are dropped.
DeleteSequence ==
    LET freed == {w.client : w \in graph[Doomed].waits}
        awake == {RunnerOf[s] : s \in {r \in freed : graph[r].sched /\ ~ graph[r].running}}
    IN  /\ Destroying("sequence")
        /\ GraphUnlocked
        /\ checks' = (checks /\ \A s \in freed : graph[s].sched => TryScheduleChecks(graph, thread, s))
        /\ thread' = [t \in Threads |->
                IF t \in awake /\ ~ thread[t].running /\ HasAnyUnblockedTasksOnRunner(graph, t)
                THEN Posted(thread, t)[t] ELSE thread[t]]
        /\ graph' = [graph EXCEPT ![Doomed].tasks = << >>, ![Doomed].waits = {}]
        /\ destroying' = << >>
        /\ UNCHANGED <<graph_validation, order, client, adding, last_order, used>>

ClientDestroyed ==
    /\ Destroying("end")
    /\ destroying[1].callbacks = {}
    /\ destroying' = << >>
    /\ UNCHANGED <<graph_validation, order, client, graph, thread, adding, last_order,
                   checks, used>>

(***************************************************************************)
(* Validation by the task graph. v is the state of a search: what will     *)
(* have been released once the validated tasks have run, what has to be    *)
(* released by force, the next task to validate in each sequence (0: the   *)
(* sequence was not met yet), and the sequences being validated.           *)
(***************************************************************************)
\* Mutant: the task that is running is not taken into account.
ForgetCurrentTask(v, s) ==
    LET tasks == graph[s].tasks
        fresh == {i \in 1..Len(tasks) : ~ tasks[i].validated}
        first == Min(fresh \cup {Len(tasks) + 1})
        releases == {v.pending[s]} \cup {tasks[i].release : i \in 1..(first - 1)}
    IN  IF v.next[s] # 0 THEN v
        ELSE [v EXCEPT !.next[s] = first, !.pending[s] = Max(releases)]

GetSequenceValidateState(v, s) ==
    LET tasks == graph[s].tasks
        fresh == {i \in 1..Len(tasks) : ~ tasks[i].validated}
        first == Min(fresh \cup {Len(tasks) + 1})
        releases == {v.pending[s], graph[s].current}
                      \cup {tasks[i].release : i \in 1..(first - 1)}
    IN  IF v.next[s] # 0 THEN v
        ELSE [v EXCEPT !.next[s] = first, !.pending[s] = Max(releases)]

\* The tasks of x that release count, in the order they run.
ReleaseTasks(x, count) ==
    IF graph[x].map
    THEN {i \in 1..Len(graph[x].tasks) : graph[x].tasks[i].release >= count} ELSE {}

Searches ==
    [pending : [Seqs -> Nat], force : [Seqs -> Nat], next : [Seqs -> Nat],
     busy : SUBSET Seqs, fine : BOOLEAN]

\* The tasks ids of s up to number last, one after the other.
ValidateEach(validate, v, s, ids, last) ==
    LET after[k \in 0..last] ==
            IF k = 0 THEN v
            ELSE IF k \in ids THEN validate[after[k - 1]][s][k] ELSE after[k - 1]
    IN  after[last]

\* A wait that no task ends, or that closes a cycle, is ended by force. For any
\* other the tasks up to the one that ends it are validated.
ValidateWait(validate, v, w) ==
    LET x == w.client
        e == IF graph[x].map THEN GetSequenceValidateState(v, x) ELSE v
        tasks == ReleaseTasks(x, w.count)
    IN  IF e.pending[x] >= w.count THEN e
        ELSE IF tasks = {} \/ x \in e.busy
             THEN [e EXCEPT !.pending[x] = w.count, !.force[x] = Max({@, w.count})]
        ELSE ValidateEach(validate, e, x, e.next[x]..Min(tasks), Min(tasks))

\* Task i of s, which waits for at most one fence. The CHECKs say that it is the
\* next of its sequence, and that no other is being validated.
ValidateTask(validate, v, s, i) ==
    LET task == graph[s].tasks[i]
        fences == {w \in graph[s].waits : w.order = task.order}
        e == GetSequenceValidateState(v, s)
        begun == [e EXCEPT !.fine = @ /\ e.next[s] = i /\ s \notin e.busy,
                           !.busy = @ \cup {s}]
        d == IF fences = {} THEN begun
             ELSE ValidateWait(validate, begun, CHOOSE w \in fences : TRUE)
    IN  [d EXCEPT !.busy = @ \ {s}, !.next[s] = i + 1, !.pending[s] = Max({@, task.release})]

\* No sequence is met twice on the way down, so the recursion is no deeper than
\* there are tasks.
ValidateTaskFenceDeps ==
    LET validate[n \in 0..MaxTasks] ==
            [v \in Searches |-> [s \in Seqs |-> [i \in Nat |->
                IF n = 0 THEN v ELSE ValidateTask(validate[n - 1], v, s, i)]]]
    IN  validate[MaxTasks]

NewSearch == [pending |-> [s \in Seqs |-> 0], force |-> [s \in Seqs |-> 0],
              next |-> [s \in Seqs |-> 0], busy |-> {}, fine |-> TRUE]

\* Mutant: all tasks of the root are validated again.
SearchAgain(root, last) == ValidateEach(ValidateTaskFenceDeps, NewSearch, root, 1..last, last)

\* The root's tasks that are old enough, but for those already validated.
Search(root, last) ==
    ValidateEach(ValidateTaskFenceDeps, NewSearch, root,
                 {i \in 1..last : ~ graph[root].tasks[i].validated}, last)

TimerMayFire(s) == graph[s].timer /\ Now(RunnerOf[s], "idle") /\ GraphUnlocked

\* The loop ends at the first task that is not old enough, which a due one is.
OldEnough(s) ==
    {last \in 0..Len(graph[s].tasks) :
        last < Len(graph[s].tasks) => ~ graph[s].tasks[last + 1].due}

\* The timer fires: ValidateSequenceTaskFenceDeps for the tasks that are old
\* enough. The forced releases follow without the lock. A CHECK that fails ends
\* the process, so that no step follows.
ValidationTimer(s) ==
    LET validated(v, x) ==
            [i \in 1..Len(graph[x].tasks) |->
                [graph[x].tasks[i] EXCEPT !.validated = @ \/ v.next[x] > i,
                                          !.due = @ /\ x # s]]
        force(v) == {k \in [client : Seqs, count : 1..MaxCount] : k.count = v.force[k.client]}
    IN  /\ TimerMayFire(s)
        /\ \E v \in {Search(s, last) : last \in OldEnough(s)} :
               /\ v.fine
               /\ graph' = [x \in Seqs |-> [graph[x] EXCEPT !.timer = @ /\ x # s,
                                                            !.tasks = validated(v, x)]]
               /\ thread' = [thread EXCEPT
                      ![RunnerOf[s]].force = force(v),
                      ![RunnerOf[s]].pc = IF force(v) = {} THEN @ ELSE "force"]
        /\ UNCHANGED <<graph_validation, order, client, adding, destroying,
                       last_order, checks, used>>

ForceRelease(t) ==
    /\ Now(t, "force")
    /\ \E k \in thread[t].force :
           LET rest == thread[t].force \ {k}
           IN  /\ k.client = Min({j.client : j \in thread[t].force})
               /\ Release(t, [thread[t] EXCEPT !.force = rest,
                                               !.pc = IF rest = {} THEN "idle" ELSE @],
                          k.client, k.count, "force")
    /\ UNCHANGED <<graph_validation, order, graph, adding, destroying, last_order, used>>

RunThread(t) ==
    \/ RunNextTask(t)
    \/ ExecuteSequence(t)
    \/ TaskReturns(t)
    \/ FinishProcessing(t)
    \/ EnsureWaitReleased(t)
    \/ ThreadCallback(t)
    \/ FinishTask(t)
    \/ RunAgain(t)
    \/ ForceRelease(t)

TaskActs(t) == TaskReleases(t) \/ TaskContinues(t) \/ DisableSequence(t)

FinishDestroy ==
    \/ RemoveSequence
    \/ DestroyClient
    \/ DestroyCallback
    \/ DestroyOrder
    \/ DeleteSequence
    \/ ClientDestroyed

GpuNext ==
    \/ AddTask
    \/ StoreWait
    \/ FinishDestroy
    \/ \E t \in Threads : RunThread(t) \/ TaskActs(t)
    \/ \E s \in Seqs : \/ EnableSequence(s)
                       \/ DestroySequence(s)
                       \/ DestroyClientOnly(s)
                       \/ ValidationTimer(s)

GpuSpec == GpuInit /\ [][GpuNext]_gpuVars

(***************************************************************************)
(* Fairness: threads run what is posted to them and tasks return, calls    *)
(* that have begun go on, a descheduled sequence is scheduled again, and   *)
(* timers fire. Nothing is assumed of the clients.                         *)
(***************************************************************************)
\* Weak fairness of ValidationTimer(s), which ends TimerMayFire(s).
TimerFires(s) ==
    []<> ~ (TimerMayFire(s) /\ \E last \in OldEnough(s) : Search(s, last).fine)

GpuFairSpec ==
    /\ GpuSpec
    /\ \A t \in Threads : WF_gpuVars(RunThread(t))
    /\ WF_gpuVars(StoreWait) /\ WF_gpuVars(FinishDestroy)
    /\ \A s \in Seqs : WF_gpuVars(EnableSequence(s)) /\ TimerFires(s)

(***************************************************************************)
(* Properties                                                              *)
(***************************************************************************)

\* The types of the state.
GpuTypeOK ==
    /\ graph_validation \in BOOLEAN
    /\ \A s \in Seqs :
          /\ order[s].processed \in 0..MaxTasks /\ order[s].current \in 0..MaxTasks
          /\ client[s].released \in 0..Forever /\ client[s].told <= client[s].released
          /\ \A r \in client[s].callbacks : r.client = s /\ r.seq \in Seqs
          /\ \A i \in 1..Len(graph[s].tasks) : graph[s].tasks[i].order \in 1..MaxTasks
    /\ \A t \in Threads : thread[t].pc \in {"idle", "chosen", "task", "processed",
                                            "overdue", "finish", "again", "force"}
    /\ Len(adding) <= 1 /\ Len(destroying) <= 1

\* The CHECKs of a validation by the timer of s hold, however far it goes.
ValidationChecks(s) ==
    TimerMayFire(s) => \A last \in OldEnough(s) : Search(s, last).fine

\* A continued task is back in front of tasks of which one that was validated
\* before it continued comes before one that was not.
ContinuedFirst(s) ==
    LET tasks == graph[s].tasks
    IN  /\ order[s].paused
        /\ tasks # << >> /\ tasks[1].order = order[s].current /\ ~ tasks[1].validated
        /\ \E i, j \in 2..Len(tasks) : i < j /\ tasks[i].validated /\ ~ tasks[j].validated

\* No DCHECK of the scheduler, the task graph or the sync points fails: order
\* numbers are processed in order, fences are removed before their tasks, a
\* running sequence has a running thread, a chosen sequence is still there. And
\* the state has its type: a client's own releases never pass what is released.
\* The CHECKs of the validation, that it goes through each sequence task by task
\* and never comes back to one it is in, can only fail behind a continued task.
GpuChecksHold ==
    /\ GpuTypeOK
    /\ checks
    /\ \A s \in Seqs : ValidationChecks(s) \/ ContinuedFirst(s)

PendingCallbacks(w, s) ==
    LET r == [client |-> w.client, count |-> w.count, seq |-> s, id |-> w.order]
    IN  (IF r \in client[w.client].callbacks THEN 1 ELSE 0)
        + Cardinality({t \in Threads : r \in thread[t].callbacks})
        + Cardinality({i \in 1..Len(destroying) : r \in destroying[i].callbacks})

\* Every wait fence has exactly one callback that will remove it, queued at the
\* client or about to be run by the thread that took it from there.
NoWaitLost == \A s \in Seqs : graph[s].map => \A w \in graph[s].waits : PendingCallbacks(w, s) = 1

\* No wakeup is missed: a thread whose enabled sequences have an unblocked task
\* has a RunNextTask under way, and one that counts as running really has.
ThreadAwake ==
    \A t \in Threads :
        /\ GraphUnlocked /\ HasAnyUnblockedTasksOnRunner(graph, t) => thread[t].running
        /\ thread[t].running <=> thread[t].posted \/ thread[t].pc \notin {"idle", "force"}

\* A task starts only when each fence it was to wait for is released or gone, or,
\* by order numbers, its sequence has no earlier task left that could release it.
WaitsHonoured ==
    [][\A t \in Threads :
        thread[t].pc = "chosen" /\ thread'[t].pc = "task" =>
            LET s == thread[t].seq
                task == Front(graph, s)
            IN  \A k \in task.waits :
                    LET x == k[1]
                    IN  \/ client[x].released >= k[2]
                        \/ order[x].destroyed
                        \/ ~ graph_validation
                           /\ \A i \in 1..Len(order[x].nums) : order[x].nums[i] > task.order
      ]_gpuVars

\* The tasks that can run if all sequences go on: the reference for the search.
RunnableTasks ==
    LET all == UNION {{s} \X (1..Len(graph[s].tasks)) : s \in {x \in Seqs : graph[x].map}}
        met(w, ready) ==
            \/ graph[w.client].current >= w.count
            \/ \E j \in ready : j[1] = w.client /\ graph[j[1]].tasks[j[2]].release >= w.count
        able(ready) ==
            {i \in all : /\ i[2] = 1 \/ <<i[1], i[2] - 1>> \in ready
                         /\ \A w \in graph[i[1]].waits :
                                w.order = graph[i[1]].tasks[i[2]].order => met(w, ready)}
        after[n \in 0..MaxTasks] == IF n = 0 THEN {} ELSE able(after[n - 1])
    IN  after[MaxTasks]

\* The search by force only ends waits that nothing else would: neither the task
\* of the client that runs nor one that can run releases the fence.
ForcedOnlyIfStuck ==
    [][\A t \in Threads :
        thread[t].pc = "idle" /\ thread'[t].pc = "force" =>
            \A k \in thread'[t].force :
                \/ client[k.client].released >= k.count
                \/ ~ graph[k.client].map
                \/ /\ graph[k.client].current < k.count
                   /\ \A j \in RunnableTasks :
                          j[1] = k.client => graph[j[1]].tasks[j[2]].release < k.count
      ]_gpuVars

\* Every task is processed in the end, unless its sequence is destroyed: no waits
\* for each other, for nothing, or for a destroyed sequence block it. (There are
\* finitely many tasks, so it is enough that again and again all are processed.)
TasksFinish == []<>(\A s \in Seqs : graph[s].sched => order[s].nums = << >>)

===============================================================================
