------------------------ MODULE GpuScheduler_invariants ------------------------
(***************************************************************************)
(* What GpuScheduler_proofs proves of the GPU scheduler: its inductive     *)
(* invariants GpuSound, CallbacksSound, AwakeSound, WaitsSound and         *)
(* ChecksSound, and the shapes of its steps, which say what a step does    *)
(* without the operators of the sync points (StepShape is all of them).    *)
(***************************************************************************)
EXTENDS GpuScheduler

(***************************************************************************)
(* The types of the state.                                                 *)
(***************************************************************************)
Callbacks == [client : Seqs, count : 1..MaxCount, seq : Seqs, id : 1..MaxTasks]

Fences == [client : Seqs, count : 1..MaxCount, order : 1..MaxTasks]

OrderFences == [order : 1..MaxTasks, client : Seqs, count : 1..MaxCount, id : 1..MaxTasks]

AllTokens == Seqs \X (1..MaxCount)

Tasks ==
    [order : 1..MaxTasks, release : 0..MaxTasks, waits : SUBSET AllTokens,
     validated : BOOLEAN, due : BOOLEAN]

Sequences ==
    [sched : BOOLEAN, map : BOOLEAN, tasks : Seq(Tasks), waits : SUBSET Fences,
     current : 0..MaxTasks, enabled : BOOLEAN, running : BOOLEAN, timer : BOOLEAN]

OrderDatas ==
    [nums : Seq(1..MaxTasks), last : 0..MaxTasks, processed : 0..MaxTasks,
     current : 0..MaxTasks, paused : BOOLEAN, fences : SUBSET OrderFences,
     destroyed : BOOLEAN]

ClientStates ==
    [mapped : BOOLEAN, released : 0..Forever, told : 0..MaxTasks,
     callbacks : SUBSET Callbacks]

Executing == {"task", "processed", "overdue", "finish"}

Pcs == {"idle", "force", "chosen", "again"} \cup Executing

ThreadStates ==
    [running : BOOLEAN, posted : BOOLEAN, pc : Pcs, seq : Seqs \cup {0},
     order : 0..MaxTasks, release : 0..MaxTasks, callbacks : SUBSET Callbacks,
     fences : SUBSET OrderFences, force : SUBSET [client : Seqs, count : 1..MaxCount]]

Additions == [seq : Seqs, order : 1..MaxTasks, token : AllTokens]

Destructions ==
    [seq : Seqs, pc : {"map", "client", "only", "order", "sequence", "end"},
     callbacks : SUBSET Callbacks]

GpuTypes ==
    /\ graph_validation \in BOOLEAN
    /\ order \in [Seqs -> OrderDatas]
    /\ client \in [Seqs -> ClientStates]
    /\ graph \in [Seqs -> Sequences]
    /\ thread \in [Threads -> ThreadStates]
    /\ adding \in Seq(Additions) /\ Len(adding) <= 1
    /\ destroying \in Seq(Destructions) /\ Len(destroying) <= 1
    /\ last_order \in 0..MaxTasks
    /\ checks \in BOOLEAN
    /\ used \in 0..MaxExtras

(***************************************************************************)
(* Order numbers and threads                                               *)
(***************************************************************************)

\* What is in a sequence is in the order of the numbers given out so far.
Ascending(s) ==
    LET tasks == graph[s].tasks
        nums == order[s].nums
    IN  /\ \A i, j \in 1..Len(tasks) : i < j => tasks[i].order < tasks[j].order
        /\ \A i \in 1..Len(tasks) : tasks[i].order <= last_order
        /\ \A i, j \in 1..Len(nums) : i < j => nums[i] < nums[j]
        /\ \A i \in 1..Len(nums) : nums[i] <= last_order

\* A task is still to be processed, after the task that is, if it is not that task
\* continued.
Ahead(s) ==
    LET o == order[s]
    IN  /\ o.processed <= o.current /\ o.current <= last_order
        /\ \A i \in 1..Len(graph[s].tasks) :
               /\ o.processed < graph[s].tasks[i].order
               /\ o.current <= graph[s].tasks[i].order
               /\ ~ o.paused => o.current < graph[s].tasks[i].order

\* A wait belongs to a task that is still there.
WaitsHaveTasks(s) ==
    \A w \in graph[s].waits : \E i \in 1..Len(graph[s].tasks) : graph[s].tasks[i].order = w.order

\* No order number belongs to two sequences.
Apart(s, r) ==
    /\ order[s].current # 0 => order[s].current # order[r].current
    /\ \A i \in 1..Len(graph[r].tasks) : order[s].current # graph[r].tasks[i].order
    /\ \A i \in 1..Len(graph[s].tasks), j \in 1..Len(graph[r].tasks) :
           graph[s].tasks[i].order # graph[r].tasks[j].order

\* The thread of s is at work on it, and its order number is not yet processed.
Processing(s) ==
    /\ IsProcessingOrderNumber(order[s])
    /\ thread[RunnerOf[s]].seq = s /\ thread[RunnerOf[s]].pc \in {"task", "processed"}

\* The unprocessed order numbers of a sequence are those of its tasks.
NumsMatch(s) ==
    LET nums == order[s].nums
        tasks == graph[s].tasks
    IN  /\ Processing(s) => nums # << >> /\ nums[1] = order[s].current
        /\ graph[s].sched /\ Processing(s) =>
               /\ Len(nums) = Len(tasks) + 1
               /\ \A i \in 1..Len(tasks) : nums[i + 1] = tasks[i].order
        /\ graph[s].sched /\ ~ Processing(s) =>
               /\ Len(nums) = Len(tasks)
               /\ \A i \in 1..Len(tasks) : nums[i] = tasks[i].order

\* A thread's sequence is one of its own, and what it has begun is not finished.
ThreadBound(t) ==
    LET me == thread[t]
    IN  /\ me.pc \notin {"idle", "force"} => me.seq \in Seqs /\ RunnerOf[me.seq] = t
        /\ me.pc \in {"task", "processed"} => me.order = order[me.seq].current
        /\ me.pc = "processed" => IsProcessingOrderNumber(order[me.seq])
        /\ me.pc = "chosen" /\ graph[me.seq].sched =>
               /\ IsFrontTaskUnblocked(graph, me.seq)
               /\ \A i \in 1..Len(adding) :
                      adding[i].seq = me.seq => Front(graph, me.seq).order < adding[i].order

AddingBound ==
    \A i \in 1..Len(adding) :
        LET a == adding[i]
        IN  /\ a.order = last_order
            /\ \E j \in 1..Len(graph[a.seq].tasks) : graph[a.seq].tasks[j].order = a.order

DestroyingBound ==
    \A i \in 1..Len(destroying) :
        destroying[i].pc \notin {"only", "end"} => ~ graph[destroying[i].seq].sched

\* The counts released by tasks rise and are no more than the tasks so far.
Releases(s) ==
    LET tasks == graph[s].tasks
    IN  /\ client[s].told <= last_order /\ graph[s].current <= last_order
        /\ \A i \in 1..Len(tasks) : tasks[i].release <= last_order
        /\ \A t \in Threads : thread[t].release <= last_order

Numbered ==
    /\ \A s \in Seqs : /\ Ascending(s) /\ Ahead(s) /\ WaitsHaveTasks(s)
                       /\ NumsMatch(s) /\ Releases(s)
    /\ \A s, r \in Seqs : s # r => Apart(s, r)
    /\ \A t \in Threads : ThreadBound(t)
    /\ AddingBound /\ DestroyingBound

GpuSound == GpuTypes /\ Numbered

(***************************************************************************)
(* Callbacks                                                               *)
(***************************************************************************)
CallbackOf(w, s) == [client |-> w.client, count |-> w.count, seq |-> s, id |-> w.order]

\* The callbacks the thread that destroys a client state has still to run.
Dropped == UNION {destroying[i].callbacks : i \in 1..Len(destroying)}

\* A callback is in one place, and belongs to a number given out before.
CallbacksApart ==
    /\ \A x \in Seqs : \A r \in client[x].callbacks : r.client = x /\ r.id <= last_order
    /\ \A t \in Threads : \A r \in thread[t].callbacks :
           /\ r \notin client[r.client].callbacks /\ r.id <= last_order
           /\ \A u \in Threads : u # t => r \notin thread[u].callbacks
    /\ \A r \in Dropped :
           /\ r \notin client[r.client].callbacks /\ r.id <= last_order
           /\ \A t \in Threads : r \notin thread[t].callbacks

DroppedLate ==
    \A i \in 1..Len(destroying) :
        destroying[i].pc \notin {"order", "end"} => destroying[i].callbacks = {}

\* The callback of the wait that is being added is nowhere yet.
CallbackAhead ==
    \A i \in 1..Len(adding) :
        /\ \A x \in Seqs : \A r \in client[x].callbacks : r.id < adding[i].order
        /\ \A t \in Threads : \A r \in thread[t].callbacks : r.id < adding[i].order
        /\ \A r \in Dropped : r.id < adding[i].order

WaitsCovered ==
    \A s \in Seqs : graph[s].map => \A w \in graph[s].waits :
        \/ CallbackOf(w, s) \in client[w.client].callbacks
        \/ \E t \in Threads : CallbackOf(w, s) \in thread[t].callbacks
        \/ CallbackOf(w, s) \in Dropped

CallbacksSound == CallbacksApart /\ DroppedLate /\ CallbackAhead /\ WaitsCovered

(***************************************************************************)
(* Wakeups                                                                 *)
(***************************************************************************)
\* A task of s can be run, but for one that is being added.
Ready(s) ==
    /\ graph[s].sched /\ graph[s].enabled /\ IsFrontTaskUnblocked(graph, s)
    /\ \A i \in 1..Len(adding) : adding[i].seq # s

\* The thread of such a sequence has a RunNextTask under way.
Awake == \A s \in Seqs : Ready(s) => thread[RunnerOf[s]].running

\* A running sequence is the one its thread is at work on.
RunningBound ==
    \A s \in Seqs :
        graph[s].sched /\ graph[s].running =>
            thread[RunnerOf[s]].pc \in Executing /\ thread[RunnerOf[s]].seq = s

ThreadsRun ==
    \A t \in Threads :
        thread[t].running <=> thread[t].posted \/ thread[t].pc \notin {"idle", "force"}

AwakeSound == Awake /\ RunningBound /\ ThreadsRun

(***************************************************************************)
(* Waits                                                                   *)
(***************************************************************************)
\* Task num need not wait for count of x.
Excused(x, count, num) ==
    \/ client[x].released >= count
    \/ order[x].destroyed
    \/ ~ graph_validation /\ \A i \in 1..Len(order[x].nums) : order[x].nums[i] > num

FencesSound ==
    /\ \A x \in Seqs : ~ client[x].mapped => client[x].released = Forever
    /\ \A x \in Seqs : \A f \in order[x].fences :
           /\ f.client = x /\ f.id <= last_order
           /\ \A i \in 1..Len(order[x].nums) :
                  order[x].nums[i] > f.order => order[x].nums[i] > f.id
    /\ \A t \in Threads : \A f \in thread[t].fences :
           /\ ~ graph_validation /\ f.id <= last_order
           /\ \A i \in 1..Len(order[f.client].nums) : order[f.client].nums[i] > f.id

CallbacksExcused ==
    /\ \A t \in Threads : \A r \in thread[t].callbacks : Excused(r.client, r.count, r.id)
    /\ \A r \in Dropped : Excused(r.client, r.count, r.id)

\* Task num of s waits for token k, or need not.
Covered(s, k, num) ==
    \/ [client |-> k[1], count |-> k[2], order |-> num] \in graph[s].waits
    \/ \E j \in 1..Len(adding) : adding[j] = [seq |-> s, order |-> num, token |-> k]
    \/ Excused(k[1], k[2], num)

TasksWait ==
    \A s \in Seqs : \A i \in 1..Len(graph[s].tasks) : \A k \in graph[s].tasks[i].waits :
        Covered(s, k, graph[s].tasks[i].order)

WaitsSound == FencesSound /\ CallbacksExcused /\ TasksWait

(***************************************************************************)
(* Assertions, for sequences destroyed on their own threads                *)
(***************************************************************************)
\* What a sequence releases rises from task to task, above what it has released.
ReleasesRise(s) ==
    LET tasks == graph[s].tasks
    IN  /\ client[s].told <= client[s].released
        /\ \A r \in client[s].callbacks : r.count > client[s].released
        /\ \A i \in 1..Len(tasks) : client[s].told <= tasks[i].release
        /\ \A i, j \in 1..Len(tasks) : i < j => tasks[i].release <= tasks[j].release
        /\ \A i \in 1..Len(tasks) : tasks[i].order <= order[s].last
        /\ order[s].current <= order[s].last
        /\ order[s].destroyed => ~ graph[s].sched

\* The sequence of a thread is there for it, with no less to release than its task.
SequenceKept(t) ==
    LET me == thread[t]
        q == graph[me.seq]
    IN  /\ me.pc = "chosen" => q.sched /\ q.enabled
        /\ me.pc \in Executing /\ q.sched => q.running
        /\ me.pc = "task" =>
               /\ client[me.seq].told <= me.release
               /\ \A i \in 1..Len(q.tasks) : me.release <= q.tasks[i].release
               /\ q.sched => IF IsProcessingOrderNumber(order[me.seq])
                             THEN q.current = me.release ELSE q.tasks # << >>

\* A sequence that leaves the scheduler's map leaves the task graph's next, and its
\* thread, which waits meanwhile, runs if the sequence does.
DestroyingKept ==
    /\ \A s \in Seqs : graph[s].map /\ ~ graph[s].sched =>
           Len(destroying) = 1 /\ destroying[1].seq = s /\ destroying[1].pc = "map"
    /\ \A i \in 1..Len(destroying) :
           /\ destroying[i].pc = "map" /\ graph[destroying[i].seq].running =>
                  thread[RunnerOf[destroying[i].seq]].running
           /\ destroying[i].pc \in {"map", "client", "order"} =>
                  ~ order[destroying[i].seq].destroyed

\* Nothing happens to the sequence and the client of a wait that is being added.
AddingKept ==
    \A i \in 1..Len(adding) :
        /\ graph[adding[i].seq].sched
        /\ client[adding[i].token[1]].released < adding[i].token[2]

ChecksSound ==
    /\ checks
    /\ \A s \in Seqs : ReleasesRise(s)
    /\ \A t \in Threads : SequenceKept(t)
    /\ DestroyingKept /\ AddingKept

(***************************************************************************)
(* The search for the next task                                            *)
(***************************************************************************)
Finds(f, t) ==
    /\ f \in [0..MaxTasks -> [Seqs -> SUBSET Seqs]]
    /\ f[0] = [s \in Seqs |-> {}]
    /\ \A n \in 1..MaxTasks : f[n] = [s \in Seqs |-> FindFrom(t, f[n - 1], s)]

Fruitful(below, s) == {w.client : w \in {d \in Dependencies(s) : below[d.client] # {}}}

\* The sequences that thread t may run a task of.
Candidates(t) ==
    {s \in Seqs : RunnerOf[s] = t /\ IsRunnable(s) /\ IsFrontTaskUnblocked(graph, s)}

(***************************************************************************)
(* The search by the validation                                            *)
(***************************************************************************)
SearchSound(v) == v \in Searches /\ \A x \in v.busy : v.next[x] # 0

\* r has gone on from v, and come back to the sequences v was in.
GoneOn(v, r) == SearchSound(r) /\ r.busy = v.busy /\ \A x \in v.busy : r.next[x] = v.next[x]

\* The next task of s for v.
NextOf(v, s) == GetSequenceValidateState(v, s).next[s]

\* What the search validate makes of task i of s.
At(validate, v, s, i) == validate[v][s][i]

\* A search with n levels below it can validate a task, and no CHECK fails if the
\* task is the next of its sequence.
LevelSound(validate, n) ==
    \A v \in Searches, s \in Seqs, i \in Nat :
        SearchSound(v) /\ s \notin v.busy /\ i \in 1..Len(graph[s].tasks) =>
            LET r == At(validate, v, s, i)
            IN  /\ GoneOn(v, r)
                /\ n = 0 => r = v
                /\ n > 0 => r.next[s] = i + 1
                /\ v.fine /\ NextOf(v, s) = i => r.fine

\* The tasks up to last that are not validated are not apart.
FitForSearch(s, last) ==
    LET tasks == graph[s].tasks
    IN  \A a, b, c \in 1..last :
            a < b /\ b < c /\ ~ tasks[a].validated /\ ~ tasks[c].validated => ~ tasks[b].validated

\* Validated tasks come first, but for a task that was continued.
ValidatedFirst(s) ==
    LET tasks == graph[s].tasks
    IN  \A i, j \in 1..Len(tasks) :
            i < j /\ tasks[j].validated /\ ~ tasks[i].validated =>
                i = 1 /\ order[s].paused /\ tasks[1].order = order[s].current

\* p and q are the same tasks, and the same of them are validated.
SameValidation(p, q) ==
    /\ Len(p) = Len(q)
    /\ \A i \in 1..Len(q) : p[i].order = q[i].order /\ p[i].validated = q[i].validated

\* A step that leaves ValidatedFirst to all sequences but those in changed.
FirstStays(changed) ==
    /\ \A s \in Seqs : order'[s].current = order[s].current /\ order'[s].paused = order[s].paused
    /\ \A s \in Seqs \ changed : SameValidation(graph'[s].tasks, graph[s].tasks)

(***************************************************************************)
(* Tasks and order numbers                                                 *)
(***************************************************************************)
\* p and q are the same tasks but for what validation knows of them.
SameTasks(p, q) ==
    /\ Len(p) = Len(q)
    /\ \A i \in 1..Len(q) : /\ p[i].order = q[i].order /\ p[i].release = q[i].release
                            /\ p[i].waits = q[i].waits

\* The same sequence but for its timer.
SameSequence(p, q) ==
    /\ p \in Sequences /\ SameTasks(p.tasks, q.tasks)
    /\ p.sched = q.sched /\ p.map = q.map /\ p.waits = q.waits /\ p.current = q.current
    /\ p.enabled = q.enabled /\ p.running = q.running

\* The same thread but for its RunNextTask being posted.
SameThread(p, q) ==
    /\ p.pc = q.pc /\ p.seq = q.seq /\ p.order = q.order /\ p.release = q.release
    /\ p.callbacks = q.callbacks /\ p.fences = q.fences /\ p.force = q.force

\* Thread t is as in q, or has been woken.
Woken(p, q) == SameThread(p, q) /\ (q.running => p = q)
               /\ (p # q => p.running /\ p.posted)

(***************************************************************************)
(* Steps that give out no order number and process none                    *)
(***************************************************************************)
GraphKept ==
    \A s \in Seqs :
        /\ SameTasks(graph'[s].tasks, graph[s].tasks)
        /\ graph'[s].sched => graph[s].sched
        /\ \A w \in graph'[s].waits :
               \/ w \in graph[s].waits
               \/ \E i \in 1..Len(adding) : adding[i].seq = s /\ adding[i].order = w.order
        /\ graph'[s].current \in {graph[s].current, 0}

OrderKept ==
    \A s \in Seqs :
        /\ order'[s].nums = order[s].nums /\ order'[s].processed = order[s].processed
        /\ order'[s].current = order[s].current /\ order'[s].paused = order[s].paused

\* What a thread may do in such a step.
ThreadMoved(t) ==
    LET me == thread[t]
        new == thread'[t]
    IN  /\ new.release \in {me.release, 0}
        /\ \/ new.pc = me.pc /\ new.seq = me.seq /\ new.order = me.order
           \/ new.pc \in {"idle", "force"} /\ me.pc \notin {"task", "processed"}
           \/ /\ new.pc = "chosen" /\ me.pc = "idle" /\ adding' = << >>
              /\ new.seq \in Seqs /\ RunnerOf[new.seq] = t
              /\ IsFrontTaskUnblocked(graph', new.seq)
           \/ /\ new.pc \in {"overdue", "finish", "again"} /\ new.seq = me.seq
              /\ me.pc \notin {"idle", "force"}
              /\ me.pc \in {"task", "processed"} => ~ IsProcessingOrderNumber(order[me.seq])
           \/ /\ new.pc = "processed" /\ me.pc = "task" /\ new.seq = me.seq
              /\ new.order = me.order /\ IsProcessingOrderNumber(order[me.seq])

ToldKept ==
    \A s \in Seqs : client'[s].told = client[s].told
                    \/ \E t \in Threads : client'[s].told = thread[t].release

NumbersKept ==
    /\ GraphKept /\ OrderKept /\ ToldKept
    /\ \A t \in Threads : ThreadMoved(t)
    /\ last_order' = last_order
    /\ adding' = adding \/ adding' = << >>
    /\ DestroyingBound'

(***************************************************************************)
(* What the shared parts of the actions do                                 *)
(***************************************************************************)
\* Thread t has gone on as me with the callbacks taken from the client of s.
Released(t, me, s, count, cause, taken) ==
    /\ client' \in [Seqs -> ClientStates] /\ checks' \in BOOLEAN
    /\ taken \subseteq client[s].callbacks
    /\ \A x \in Seqs :
           /\ client'[x].callbacks = IF x = s THEN client[x].callbacks \ taken
                                     ELSE client[x].callbacks
           /\ client'[x].mapped = client[x].mapped
           /\ client'[x].released >= client[x].released
           /\ x # s => client'[x] = client[x]
    /\ ~ client[s].mapped => client' = client
    /\ client[s].mapped =>
           /\ client'[s].told = IF cause = "force" THEN client[s].told ELSE count
           /\ client'[s].released \in {client[s].released, count}
           /\ client'[s].released >= count
           /\ \A r \in client'[s].callbacks :
                  client[s].released < client'[s].released => r.count > client'[s].released
    /\ \A r \in taken : r.count <= client'[s].released
    /\ thread' = [thread EXCEPT ![t] = [me EXCEPT !.callbacks = taken]]
    /\ checks' = (checks /\ (client[s].mapped => ReleaseChecks(client[s], count, cause)))
    /\ ManagerUnlocked

FenceOf(r) == [client |-> r.client, count |-> r.count, order |-> r.id]

\* The callback r has run: its fence is gone from the sequence, if that is still
\* in the map, and the thread of the sequence may have been woken.
CalledBack(r, th) ==
    /\ GraphUnlocked
    /\ graph' \in [Seqs -> Sequences] /\ thread' \in [Threads -> ThreadStates]
    /\ checks' \in BOOLEAN
    /\ \A s \in Seqs :
           /\ graph'[s].tasks = graph[s].tasks /\ graph'[s].sched = graph[s].sched
           /\ graph'[s].map = graph[s].map /\ graph'[s].current = graph[s].current
           /\ graph'[s].enabled = graph[s].enabled /\ graph'[s].running = graph[s].running
           /\ graph'[s].waits \subseteq graph[s].waits
           /\ graph[s].waits \ graph'[s].waits \subseteq {w \in {FenceOf(r)} : s = r.seq}
    /\ graph[r.seq].map => FenceOf(r) \notin graph'[r.seq].waits
    /\ \A u \in Threads : Woken(thread'[u], th[u])
    /\ \/ graph' = graph /\ thread' = th /\ checks' = checks
       \/ /\ FenceOf(r) \in graph[r.seq].waits /\ graph[r.seq].map
          /\ thread' = FenceGone(graph', th, r)
          /\ checks' = (/\ checks
                        /\ graph[r.seq].tasks # << >>
                        /\ TryScheduleChecks(graph', th, r.seq))

\* AddTask has ended for s, with the sequences g but for the timers.
Added(s, g) ==
    /\ graph' \in [Seqs -> Sequences] /\ thread' \in [Threads -> ThreadStates]
    /\ checks' \in BOOLEAN
    /\ \A x \in Seqs : SameSequence(graph'[x], g[x])
    /\ \A u \in Threads : Woken(thread'[u], thread[u])
    /\ \/ graph'[s].running
       \/ ~ HasAnyUnblockedTasksOnRunner(graph', RunnerOf[s])
       \/ thread'[RunnerOf[s]].running
    /\ checks' = (checks /\ TryScheduleChecks(graph', thread, s) /\ ~ order[s].destroyed)

(***************************************************************************)
(* The actions that keep the order numbers                                 *)
(***************************************************************************)
\* Thread t has released count of s, and goes on as me.
ReleaseStep(t, me, s, count, cause, taken) ==
    /\ me \in ThreadStates /\ s \in Seqs /\ count \in Nat
    /\ me.callbacks = {} /\ thread[t].callbacks = {}
    /\ Released(t, me, s, count, cause, taken)
    /\ \/ cause = "force" /\ count <= MaxCount
       \/ /\ cause \in {"explicit", "completion"} /\ thread[t].pc = "task"
          /\ count = thread[t].release /\ s = thread[t].seq
    /\ cause = "explicit" => client[s].told < count
    /\ me.seq = thread[t].seq /\ me.order = thread[t].order /\ me.release = thread[t].release
    /\ me.fences = thread[t].fences
    /\ me.running = thread[t].running /\ me.posted = thread[t].posted
    /\ \/ me.pc = thread[t].pc
       \/ me.pc = "idle" /\ thread[t].pc = "force"
       \/ /\ me.pc = "processed" /\ thread[t].pc = "task"
          /\ IsProcessingOrderNumber(order[me.seq])
    /\ used' \in 0..MaxExtras
    /\ UNCHANGED <<graph_validation, order, graph, adding, destroying, last_order>>

Releasing(t) ==
    \/ TaskReleases(t)
    \/ TaskReturns(t) /\ IsProcessingOrderNumber(order[thread[t].seq])
    \/ ForceRelease(t)

\* Thread t goes on as new, and of the rest only clients change.
ThreadStep(t, new) ==
    /\ new \in ThreadStates
    /\ thread' = [thread EXCEPT ![t] = new]
    /\ client' \in [Seqs -> ClientStates]
    /\ \A s \in Seqs : client'[s].told = client[s].told
    /\ UNCHANGED <<graph_validation, order, graph, adding, destroying, last_order, used>>

\* The callbacks ended of an overdue fence f have been taken from its client.
WaitEnded(t, new, f, ended) ==
    /\ ThreadStep(t, new) /\ checks' = checks
    /\ f \in thread[t].fences /\ f \in OrderFences
    /\ thread[t].pc = "overdue" /\ new.pc \in {"overdue", "finish"}
    /\ thread[t].callbacks = {} /\ new.callbacks = ended
    /\ new.fences \subseteq thread[t].fences
    /\ new.seq = thread[t].seq /\ new.order = thread[t].order
    /\ new.release = thread[t].release
    /\ new.running = thread[t].running /\ new.posted = thread[t].posted
    /\ ended \subseteq client[f.client].callbacks
    /\ \A r \in ended : r.id = f.id
    /\ \A x \in Seqs :
           /\ client'[x].callbacks = IF x = f.client THEN client[x].callbacks \ ended
                                     ELSE client[x].callbacks
           /\ client'[x].mapped = client[x].mapped
           /\ client'[x].released = client[x].released
    /\ ~ FenceLocked(f.client)

\* Callback r has been run by thread t.
ThreadCalled(t, r) ==
    /\ r \in thread[t].callbacks /\ r \in Callbacks
    /\ CalledBack(r, [thread EXCEPT ![t].callbacks = @ \ {r}])
    /\ UNCHANGED <<graph_validation, order, client, adding, destroying, last_order, used>>

\* FinishTask for the sequence of thread t.
TaskFinished(t) ==
    LET s == thread[t].seq
    IN  /\ ThreadMoved(t) /\ thread[t].pc = "finish" /\ thread[t].callbacks = {}
        /\ s \in Seqs /\ RunnerOf[s] = t /\ adding = << >>
        /\ graph' \in [Seqs -> Sequences]
        /\ \A x \in Seqs :
               /\ SameTasks(graph'[x].tasks, graph[x].tasks)
               /\ graph'[x].sched = graph[x].sched /\ graph'[x].map = graph[x].map
               /\ graph'[x].waits = graph[x].waits /\ graph'[x].enabled = graph[x].enabled
               /\ x # s => graph'[x] = graph[x]
               /\ graph'[x].current \in {graph[x].current, 0}
        /\ graph[s].sched => ~ graph'[s].running
        /\ ~ graph[s].sched => graph' = graph
        /\ thread' = [thread EXCEPT ![t].pc = "again"]
        /\ \A u \in Threads : u # t => thread'[u] = thread[u]
        /\ thread'[t].pc = "again" /\ thread'[t].seq = s
        /\ thread'[t].running = thread[t].running /\ thread'[t].posted = thread[t].posted
        /\ thread'[t].callbacks = {} /\ thread'[t].fences = thread[t].fences
        /\ checks' = (checks /\ (graph[s].sched => graph[s].running))
        /\ UNCHANGED <<graph_validation, order, client, adding, destroying, last_order, used>>

\* Sequence s is as q, and the destruction as d.
DestroyStep(s, q, d) ==
    /\ s \in Seqs /\ q \in Sequences /\ d \in Destructions
    /\ graph' = [graph EXCEPT ![s] = q]
    /\ q.tasks = graph[s].tasks /\ q.waits = graph[s].waits /\ q.current = graph[s].current
    /\ q.enabled = graph[s].enabled /\ q.running = graph[s].running
    /\ q.sched => graph[s].sched
    /\ q.map => graph[s].map
    /\ destroying' = <<d>>
    /\ UNCHANGED <<graph_validation, order, client, thread, adding, last_order, checks>>

\* The client state of the doomed sequence is gone, its callbacks are about to run.
ClientGone(d) ==
    /\ Len(destroying) = 1 /\ destroying[1].pc \in {"client", "only"} /\ destroying' = <<d>>
    /\ d \in Destructions /\ d.seq = destroying[1].seq /\ d.seq \in Seqs
    /\ destroying[1].pc = "only" => d.pc = "end"
    /\ destroying[1].pc = "client" => d.pc = "order"
    /\ d.callbacks = client[d.seq].callbacks
    /\ client' \in [Seqs -> ClientStates]
    /\ \A x \in Seqs : x # d.seq => client'[x] = client[x]
    /\ ~ client'[d.seq].mapped /\ client'[d.seq].released = Forever
    /\ client'[d.seq].told = client[d.seq].told /\ client'[d.seq].callbacks = {}
    /\ ManagerUnlocked
    /\ UNCHANGED <<graph_validation, order, graph, thread, adding, last_order, checks, used>>

\* Callback r has been run by the destruction.
DestroyCalled(d, r) ==
    /\ Len(destroying) = 1 /\ r \in destroying[1].callbacks /\ r \in Callbacks
    /\ CalledBack(r, thread)
    /\ destroying' = <<d>> /\ d \in Destructions
    /\ d.seq = destroying[1].seq /\ d.pc = destroying[1].pc
    /\ d.callbacks = destroying[1].callbacks \ {r}
    /\ UNCHANGED <<graph_validation, order, client, adding, last_order, used>>

OrderGone(d) ==
    /\ Len(destroying) = 1 /\ destroying[1].pc = "order" /\ destroying[1].callbacks = {}
    /\ destroying' = <<d>> /\ d \in Destructions /\ d.pc = "sequence"
    /\ d.seq = destroying[1].seq /\ d.seq \in Seqs /\ d.callbacks = {}
    /\ order' \in [Seqs -> OrderDatas]
    /\ \A x \in Seqs : x # d.seq => order'[x] = order[x]
    /\ order'[d.seq].destroyed /\ order'[d.seq].fences = {}
    /\ order'[d.seq].last = order[d.seq].last /\ order'[d.seq].nums = order[d.seq].nums
    /\ order'[d.seq].processed = order[d.seq].processed
    /\ order'[d.seq].current = order[d.seq].current
    /\ order'[d.seq].paused = order[d.seq].paused
    /\ checks' = (checks /\ ~ order[d.seq].destroyed)
    /\ UNCHANGED <<graph_validation, client, graph, thread, adding, last_order, used>>

\* The validation timer of s has fired.
Validated(s, new) ==
    LET t == RunnerOf[s]
    IN  /\ t \in Threads /\ new \in ThreadStates
        /\ thread[t].pc = "idle" /\ thread[t].callbacks = {} /\ adding = << >>
        /\ graph' \in [Seqs -> Sequences] /\ \A x \in Seqs : SameSequence(graph'[x], graph[x])
        /\ thread' = [thread EXCEPT ![t] = new]
        /\ thread' \in [Threads -> ThreadStates]
        /\ \A u \in Threads : thread'[u] = IF u = t THEN new ELSE thread[u]
        /\ new.pc \in {"idle", "force"} /\ new.seq = thread[t].seq
        /\ new.order = thread[t].order /\ new.release = thread[t].release
        /\ new.callbacks = thread[t].callbacks /\ new.fences = thread[t].fences
        /\ new.running = thread[t].running /\ new.posted = thread[t].posted
        /\ UNCHANGED <<graph_validation, order, client, adding, destroying,
                       last_order, checks, used>>

(***************************************************************************)
(* The actions that give out, process or drop order numbers                *)
(***************************************************************************)
\* The tasks and waits of the destroyed sequence x are gone.
Deleted(x) ==
    /\ x \in Seqs /\ Len(destroying) = 1 /\ destroying[1].pc = "sequence"
    /\ destroying[1].seq = x /\ destroying' = << >> /\ adding = << >> /\ ~ graph[x].sched
    /\ graph' \in [Seqs -> Sequences] /\ thread' \in [Threads -> ThreadStates]
    /\ \A s \in Seqs : s # x => graph'[s] = graph[s]
    /\ graph'[x].tasks = << >> /\ graph'[x].waits = {}
    /\ graph'[x].sched = graph[x].sched /\ graph'[x].map = graph[x].map
    /\ graph'[x].current = graph[x].current /\ graph'[x].running = graph[x].running
    /\ \A u \in Threads : Woken(thread'[u], thread[u])
    /\ checks' \in BOOLEAN
    /\ checks /\ (\A s \in Seqs : graph[s].sched => TryScheduleChecks(graph, thread, s)) => checks'
    /\ UNCHANGED <<graph_validation, order, client, adding, last_order, used>>

\* The callback of the wait a has been stored, and its fence recorded.
WaitStored(a) ==
    LET x == a.token[1]
        r == [client |-> x, count |-> a.token[2], seq |-> a.seq, id |-> a.order]
    IN  /\ a \in Additions /\ x \in Seqs /\ a.seq \in Seqs /\ r \in Callbacks
        /\ Len(adding) = 1 /\ adding[1] = a /\ adding' = << >>
        /\ client' \in [Seqs -> ClientStates]
        /\ \A y \in Seqs :
               /\ client'[y].callbacks = IF y = x THEN client[y].callbacks \cup {r}
                                         ELSE client[y].callbacks
               /\ client'[y].mapped = client[y].mapped
               /\ client'[y].released = client[y].released
               /\ client'[y].told = client[y].told
        /\ graph' \in [Seqs -> Sequences] /\ thread' \in [Threads -> ThreadStates]
        /\ \A s \in Seqs :
               /\ SameTasks(graph'[s].tasks, graph[s].tasks)
               /\ graph'[s].sched = graph[s].sched /\ graph'[s].map = graph[s].map
               /\ graph'[s].waits = IF s = a.seq THEN graph[s].waits \cup {FenceOf(r)}
                                    ELSE graph[s].waits
               /\ graph'[s].current = graph[s].current
               /\ graph'[s].enabled = graph[s].enabled /\ graph'[s].running = graph[s].running
        /\ \A u \in Threads : Woken(thread'[u], thread[u])
        /\ \/ graph'[a.seq].running
           \/ ~ HasAnyUnblockedTasksOnRunner(graph', RunnerOf[a.seq])
           \/ thread'[RunnerOf[a.seq]].running
        /\ checks' \in BOOLEAN
        /\ checks' = (/\ checks /\ TryScheduleChecks(graph', thread, a.seq)
                      /\ ~ order[a.seq].destroyed)
        /\ UNCHANGED <<graph_validation, order, destroying, last_order, used>>

\* The order data o of x as p, with the guard of a wait of task num if need be.
Guarded(p, o, x, num) ==
    /\ p \in OrderDatas /\ p.nums = o.nums /\ p.last = o.last
    /\ p.processed = o.processed /\ p.current = o.current /\ p.paused = o.paused
    /\ p.destroyed = o.destroyed
    /\ \A f \in p.fences :
           \/ f \in o.fences
           \/ /\ ~ graph_validation /\ o.nums # << >> /\ f.client = x /\ f.id = num
              /\ f.order = Min({o.nums[Len(o.nums)], num})

\* The task has been added to sequence s. What it waits for is not valid, or still
\* to be stored.
TaskQueued(s, task) ==
    /\ s \in Seqs /\ task \in Tasks /\ graph[s].sched
    /\ last_order \in Nat /\ task.order = last_order + 1 /\ last_order' = last_order + 1
    /\ task.release <= last_order' /\ \A k \in task.waits : k[1] # s
    /\ client[s].told < task.release /\ graph[s].current < task.release
    /\ \A i \in 1..Len(graph[s].tasks) : graph[s].tasks[i].release < task.release
    /\ adding = << >>
    /\ order' \in [Seqs -> OrderDatas] /\ graph' \in [Seqs -> Sequences]
    /\ thread' \in [Threads -> ThreadStates] /\ checks' \in BOOLEAN
    /\ \A x \in Seqs \ {s} : Guarded(order'[x], order[x], x, last_order')
    /\ order'[s] = GenerateUnprocessedOrderNumber(order[s], last_order')
    /\ \A x \in Seqs :
           /\ SameTasks(graph'[x].tasks, IF x = s THEN Append(graph[x].tasks, task)
                                         ELSE graph[x].tasks)
           /\ graph'[x].sched = graph[x].sched /\ graph'[x].map = graph[x].map
           /\ graph'[x].waits = graph[x].waits /\ graph'[x].current = graph[x].current
           /\ graph'[x].enabled = graph[x].enabled /\ graph'[x].running = graph[x].running
    /\ \A u \in Threads : Woken(thread'[u], thread[u])
    /\ \/ /\ adding' = << >> /\ \A k \in task.waits : ~ Waits(task.order, k)
          /\ \/ graph'[s].running
             \/ ~ HasAnyUnblockedTasksOnRunner(graph', RunnerOf[s])
             \/ thread'[RunnerOf[s]].running
          /\ checks' = (/\ checks /\ TryScheduleChecks(graph', thread, s)
                        /\ ~ order[s].destroyed)
       \/ /\ thread' = thread /\ checks' = checks
          /\ \E k \in AllTokens : /\ task.waits = {k} /\ Waits(task.order, k)
                                  /\ adding' = <<[seq |-> s, order |-> task.order, token |-> k]>>
    /\ UNCHANGED <<graph_validation, client, destroying, used>>

\* The release count of a new task is above all others of its sequence.
CountsOf(s) ==
    {graph[s].current, client[s].told}
        \cup {graph[s].tasks[i].release : i \in 1..Len(graph[s].tasks)}

\* Only thread t and its sequence s have changed.
OneMoved(t, s) ==
    /\ t \in Threads /\ s \in Seqs /\ RunnerOf[s] = t
    /\ thread[t].seq = s /\ thread'[t].seq = s
    /\ \A x \in Seqs \ {s} : graph'[x] = graph[x] /\ order'[x] = order[x]
    /\ \A u \in Threads \ {t} : thread'[u] = thread[u]
    /\ graph'[s].sched = graph[s].sched
    /\ \/ adding = << >>
       \/ graph' = graph
    /\ UNCHANGED <<client, adding, destroying, last_order>>

\* What such a step has to keep.
OneKept(t, s) ==
    /\ Ascending(s)' /\ Ahead(s)' /\ WaitsHaveTasks(s)' /\ NumsMatch(s)'
    /\ graph'[s].current <= last_order /\ thread'[t].release <= last_order
    /\ \A i \in 1..Len(graph'[s].tasks) : graph'[s].tasks[i].release <= last_order
    /\ \A r \in Seqs \ {s} : Apart(s, r)' /\ Apart(r, s)'
    /\ ThreadBound(t)'

\* Thread t has begun to process the front task of its sequence s.
TaskStarted(t, s) ==
    LET task == Front(graph, s)
    IN  /\ t \in Threads /\ s \in Seqs /\ RunnerOf[s] = t
        /\ thread[t].seq = s /\ thread[t].pc = "chosen" /\ thread[t].callbacks = {}
        /\ Free(t) /\ adding = << >>
        /\ graph[s].sched /\ graph[s].enabled /\ graph[s].tasks # << >>
        /\ IsFrontTaskUnblocked(graph, s)
        /\ \A x \in Seqs \ {s} : graph'[x] = graph[x] /\ order'[x] = order[x]
        /\ graph'[s].tasks = Tail(graph[s].tasks) /\ graph'[s].current = task.release
        /\ graph'[s].running
        /\ graph'[s].sched = graph[s].sched /\ graph'[s].map = graph[s].map
        /\ graph'[s].waits = graph[s].waits /\ graph'[s].enabled = graph[s].enabled
        /\ order'[s].current = task.order /\ ~ order'[s].paused
        /\ order'[s].nums = order[s].nums /\ order'[s].processed = order[s].processed
        /\ order'[s].last = order[s].last /\ order'[s].fences = order[s].fences
        /\ order'[s].destroyed = order[s].destroyed
        /\ \A u \in Threads \ {t} : thread'[u] = thread[u]
        /\ thread'[t] = [thread[t] EXCEPT !.pc = "task", !.order = task.order,
                                          !.release = task.release]
        /\ thread'[t].pc = "task" /\ thread'[t].seq = s /\ thread'[t].order = task.order
        /\ thread'[t].release = task.release /\ thread'[t].callbacks = {}
        /\ thread'[t].running = thread[t].running /\ thread'[t].posted = thread[t].posted
        /\ thread'[t].fences = thread[t].fences
        /\ checks' = (checks /\ ~ graph[s].running /\ BeginChecks(order[s], task.order))
        /\ UNCHANGED <<graph_validation, client, adding, destroying, last_order, used>>

\* The task of thread t is back in its sequence s, to be continued.
TaskContinued(t, s, task) ==
    /\ t \in Threads /\ s \in Seqs /\ RunnerOf[s] = t
    /\ thread[t].seq = s /\ thread[t].pc = "task" /\ adding = << >>
    /\ task \in Tasks /\ task.order = order[s].current /\ task.release = graph[s].current
    /\ task.waits = {}
    /\ graph[s].sched /\ IsProcessingOrderNumber(order[s])
    /\ \A x \in Seqs \ {s} : graph'[x] = graph[x] /\ order'[x] = order[x]
    /\ graph'[s].tasks = <<task>> \o graph[s].tasks /\ graph'[s].current = 0
    /\ graph'[s].running = graph[s].running
    /\ graph'[s].sched = graph[s].sched /\ graph'[s].map = graph[s].map
    /\ graph'[s].waits = graph[s].waits /\ graph'[s].enabled = graph[s].enabled
    /\ order'[s].current = order[s].current /\ order'[s].paused
    /\ order'[s].nums = order[s].nums /\ order'[s].processed = order[s].processed
    /\ order'[s].last = order[s].last /\ order'[s].fences = order[s].fences
    /\ order'[s].destroyed = order[s].destroyed
    /\ checks' = (checks /\ graph[s].running)
    /\ UNCHANGED <<graph_validation, client, thread, adding, destroying, last_order>>

\* Thread t has finished the order number of its sequence s, with the waits overdue
\* still to end.
NumberDone(t, s, overdue) ==
    /\ t \in Threads /\ s \in Seqs /\ RunnerOf[s] = t
    /\ thread[t].seq = s /\ thread[t].pc = "processed" /\ thread[t].callbacks = {}
    /\ thread[t].order = order[s].current /\ IsProcessingOrderNumber(order[s])
    /\ order[s].nums # << >> /\ order[s].nums[1] = order[s].current
    /\ overdue \subseteq order[s].fences
    /\ overdue = IF graph_validation THEN {}
                 ELSE {f \in order[s].fences :
                          order'[s].nums = << >> \/ f.order < Head(order'[s].nums)}
    /\ \A x \in Seqs \ {s} : order'[x] = order[x]
    /\ order'[s].nums = Tail(order[s].nums) /\ order'[s].processed = order[s].current
    /\ order'[s].current = order[s].current /\ order'[s].paused = order[s].paused
    /\ order'[s].last = order[s].last /\ order'[s].fences = order[s].fences \ overdue
    /\ order'[s].destroyed = order[s].destroyed
    /\ \A u \in Threads \ {t} : thread'[u] = thread[u]
    /\ thread'[t].pc \in {"finish", "overdue"} /\ thread'[t].seq = s
    /\ thread'[t].fences = overdue /\ thread'[t].callbacks = {}
    /\ thread'[t].release = thread[t].release
    /\ thread'[t].running = thread[t].running /\ thread'[t].posted = thread[t].posted
    /\ checks' = (checks /\ FinishChecks(order[s], thread[t].order))
    /\ UNCHANGED <<graph_validation, client, graph, adding, destroying, last_order, used>>

(***************************************************************************)
(* What a step is                                                          *)
(***************************************************************************)
\* Thread t has looked for its next task, and goes on as new.
NextChosen(t, new) ==
    /\ ThreadStep(t, new) /\ thread'[t] = new
    /\ \A u \in Threads \ {t} : thread'[u] = thread[u]
    /\ thread[t].pc = "idle" /\ thread[t].posted /\ thread[t].callbacks = {} /\ adding = << >>
    /\ new.callbacks = {} /\ new.fences = thread[t].fences /\ ~ new.posted
    /\ new.release = thread[t].release
    /\ \/ /\ FindNextTask(t) = {} /\ new.pc = "idle" /\ ~ new.running
       \/ /\ FindNextTask(t) # {} /\ new.pc = "chosen" /\ new.running
          /\ new.seq \in Candidates(t)
    /\ UNCHANGED <<client, checks>>

\* Sequence s has been enabled or disabled.
EnabledSet(s) ==
    /\ s \in Seqs /\ adding = << >> /\ graph[s].sched
    /\ graph' \in [Seqs -> Sequences]
    /\ \A x \in Seqs :
           /\ x # s => graph'[x] = graph[x]
           /\ graph'[x].tasks = graph[x].tasks /\ graph'[x].sched = graph[x].sched
           /\ graph'[x].map = graph[x].map /\ graph'[x].waits = graph[x].waits
           /\ graph'[x].current = graph[x].current /\ graph'[x].running = graph[x].running
    /\ thread' = TryScheduleSequence(graph', thread, s)
    /\ \A u \in Threads : Woken(thread'[u], thread[u])
    /\ \/ graph'[s].running
       \/ ~ HasAnyUnblockedTasksOnRunner(graph', RunnerOf[s])
       \/ thread'[RunnerOf[s]].running
    /\ checks' = (checks /\ TryScheduleChecks(graph', thread, s))
    /\ \/ graph'[s].enabled
       \/ thread[RunnerOf[s]].pc = "task" /\ thread[RunnerOf[s]].seq = s
    /\ UNCHANGED <<graph_validation, order, client, adding, destroying, last_order>>

TaskMissed(t) ==
    /\ ThreadStep(t, [thread[t] EXCEPT !.pc = "again"])
    /\ thread[t].pc = "chosen" /\ client' = client /\ checks' = FALSE
    /\ ~ (/\ graph[thread[t].seq].sched /\ graph[thread[t].seq].enabled
          /\ graph[thread[t].seq].tasks # << >>)

TaskReturned(t) ==
    /\ ThreadStep(t, [thread[t] EXCEPT !.pc = "finish"])
    /\ thread[t].pc = "task" /\ UNCHANGED <<client, checks>>

RanAgain(t) ==
    /\ ThreadStep(t, [NewThread EXCEPT !.running = HasAnyUnblockedTasksOnRunner(graph, t),
                                       !.posted = HasAnyUnblockedTasksOnRunner(graph, t)])
    /\ thread[t].pc = "again" /\ thread[t].callbacks = {} /\ adding = << >>
    /\ UNCHANGED <<client, checks>>

\* The destruction of s begins, or its sequence leaves the task graph.
DestroyMoved(s, q, d) ==
    /\ DestroyStep(s, q, d) /\ d.seq = s /\ adding = << >>
    /\ graph' \in [Seqs -> Sequences]
    /\ \A x \in Seqs : graph'[x] = IF x = s THEN q ELSE graph[x]
    /\ \/ /\ destroying = << >> /\ d.callbacks = {} /\ d.pc = "map" /\ graph[s].sched
          /\ ~ q.sched /\ q.map = graph[s].map
       \/ destroying = << >> /\ d.callbacks = {} /\ d.pc = "only" /\ q = graph[s]
       \/ /\ Len(destroying) = 1 /\ destroying[1].pc = "map" /\ d.pc = "client"
          /\ destroying[1].seq = s /\ d.callbacks = destroying[1].callbacks
          /\ ~ q.sched /\ ~ q.map
    /\ destroying = << >> => AnyThread \/ thread[RunnerOf[s]].pc \in {"idle", "task"}

DestroyEnded ==
    /\ Len(destroying) = 1 /\ destroying[1].callbacks = {} /\ destroying[1].pc = "end"
    /\ destroying' = << >>
    /\ UNCHANGED <<graph_validation, order, client, graph, thread, adding, last_order,
                   checks, used>>

ThreadShape(t) ==
    \/ \E new : NextChosen(t, new)
    \/ TaskMissed(t)
    \/ TaskStarted(t, thread[t].seq)
    \/ \E task : TaskContinued(t, thread[t].seq, task)
    \/ \E me, s, count, cause, taken : ReleaseStep(t, me, s, count, cause, taken)
    \/ TaskReturned(t)
    \/ \E overdue : NumberDone(t, thread[t].seq, overdue)
    \/ \E new, f, ended : WaitEnded(t, new, f, ended)
    \/ \E r : ThreadCalled(t, r)
    \/ TaskFinished(t)
    \/ RanAgain(t)

DestroyShape ==
    \/ \E s, q, d : DestroyMoved(s, q, d)
    \/ \E d : ClientGone(d)
    \/ \E d, r : DestroyCalled(d, r)
    \/ \E d : OrderGone(d)
    \/ \E x : Deleted(x)
    \/ DestroyEnded

StepShape ==
    \/ UNCHANGED gpuVars
    \/ \E s, task : TaskQueued(s, task)
    \/ \E a : WaitStored(a)
    \/ \E t \in Threads : Free(t) /\ ThreadShape(t)
    \/ \E s \in Seqs : EnabledSet(s)
    \/ DestroyShape
    \/ \E s \in Seqs : \E new : Validated(s, new)

(***************************************************************************)
(* Every wait keeps its callback                                           *)
(***************************************************************************)
\* Of all callbacks only those of gone are removed, and their waits with them.
CallbacksLeft(gone) ==
    /\ \A x \in Seqs : client'[x].callbacks = client[x].callbacks
    /\ \A t \in Threads : thread'[t].callbacks \in {thread[t].callbacks, thread[t].callbacks \ gone}
    /\ Dropped' \in {Dropped, Dropped \ gone}
    /\ DroppedLate'
    /\ \A s \in Seqs : /\ graph'[s].map => graph[s].map
                       /\ graph'[s].waits \subseteq graph[s].waits
                       /\ graph'[s].map => \A w \in graph'[s].waits : CallbackOf(w, s) \notin gone
    /\ last_order \in Nat /\ last_order' \in Nat /\ last_order' >= last_order
    /\ \/ adding' = adding \/ adding' = << >>
       \/ \A i \in 1..Len(adding') : adding'[i].order = last_order + 1

\* The callbacks in taken leave the queue of client x.
QueueLeft(x, taken) ==
    /\ x \in Seqs /\ taken \subseteq client[x].callbacks
    /\ \A y \in Seqs : client'[y].callbacks = IF y = x THEN client[y].callbacks \ taken
                                              ELSE client[y].callbacks
    /\ DroppedLate'
    /\ UNCHANGED <<graph, adding, last_order>>

\* A step that takes no callback from its place and adds no wait.
CallbacksStay ==
    /\ \A x \in Seqs : client'[x].callbacks = client[x].callbacks
    /\ \A t \in Threads : thread'[t].callbacks = thread[t].callbacks
    /\ \/ destroying' = destroying
       \/ Dropped' = Dropped /\ DroppedLate'
    /\ \A s \in Seqs : /\ graph'[s].map => graph[s].map
                       /\ graph'[s].waits \subseteq graph[s].waits
    /\ \/ last_order' = last_order /\ (adding' = adding \/ adding' = << >>)
       \/ /\ last_order' = last_order + 1
          /\ \A i \in 1..Len(adding') : adding'[i].order = last_order + 1

(***************************************************************************)
(* Tasks start when their waits allow                                      *)
(***************************************************************************)
\* What has excused a task from a wait goes on to.
ExcusesKept ==
    /\ graph_validation' = graph_validation /\ last_order \in Nat
    /\ \A x \in Seqs :
           /\ client[x].released \in Nat /\ client'[x].released \in Nat
           /\ client'[x].released >= client[x].released
           /\ order[x].destroyed => order'[x].destroyed
           /\ \A i \in 1..Len(order'[x].nums) :
                  /\ order'[x].nums[i] \in Nat
                  /\ \/ \E j \in 1..Len(order[x].nums) : order'[x].nums[i] = order[x].nums[j]
                     \/ order'[x].nums[i] > last_order

\* A step that releases at most, and leaves the order numbers as they are.
WaitsStay ==
    /\ graph_validation' = graph_validation /\ last_order' = last_order
    /\ \A x \in Seqs :
           /\ client'[x].released >= client[x].released
           /\ ~ client'[x].mapped => \/ client'[x].released = Forever
                                     \/ /\ ~ client[x].mapped
                                        /\ client'[x].released = client[x].released
           /\ order'[x].nums = order[x].nums
           /\ order[x].destroyed => order'[x].destroyed
           /\ order'[x].fences \subseteq order[x].fences
    /\ \A t \in Threads : thread'[t].fences \subseteq thread[t].fences

\* The callbacks that are to be run are excused, those of before and those in taken.
CallbacksFrom(taken) ==
    /\ \A t \in Threads : thread'[t].callbacks \subseteq thread[t].callbacks \cup taken
    /\ Dropped' \subseteq Dropped \cup taken
    /\ \A r \in taken : Excused(r.client, r.count, r.id)'

\* A wait of a task that is left goes on, unless the task is excused.
WaitsGoOn ==
    /\ \A s \in Seqs : graph'[s].tasks # << >> =>
           \A w \in graph[s].waits :
               w \in graph'[s].waits \/ Excused(w.client, w.count, w.order)'
    /\ \/ adding' = adding
       \/ \A j \in 1..Len(adding) :
              LET a == adding[j]
              IN  [client |-> a.token[1], count |-> a.token[2], order |-> a.order]
                      \in graph'[a.seq].waits

\* Tasks wait for what they waited for before.
TasksFrom ==
    \A s \in Seqs : \A i \in 1..Len(graph'[s].tasks) : \A k \in graph'[s].tasks[i].waits :
        \E num :
            /\ graph'[s].tasks[i].order = num
            /\ \/ \E j \in 1..Len(graph[s].tasks) : /\ graph[s].tasks[j].order = num
                                                    /\ k \in graph[s].tasks[j].waits
               \/ Covered(s, k, num)'

(***************************************************************************)
(* Assertions                                                              *)
(***************************************************************************)
\* A step that leaves to sequence x what ReleasesRise says of it.
RiseStays(x) ==
    /\ SameTasks(graph'[x].tasks, graph[x].tasks)
    /\ graph'[x].sched => graph[x].sched
    /\ order'[x].last = order[x].last /\ order'[x].current = order[x].current
    /\ order'[x].destroyed = order[x].destroyed
    /\ client'[x].told = client[x].told /\ client'[x].released = client[x].released
    /\ client'[x].callbacks \subseteq client[x].callbacks

\* One that leaves to sequence x what SequenceKept says of it.
WorkStays(x) ==
    /\ SameTasks(graph'[x].tasks, graph[x].tasks)
    /\ graph'[x].sched = graph[x].sched /\ graph'[x].enabled = graph[x].enabled
    /\ graph'[x].running = graph[x].running /\ graph'[x].current = graph[x].current
    /\ order'[x].current = order[x].current /\ order'[x].processed = order[x].processed
    /\ order'[x].paused = order[x].paused
    /\ client'[x].told = client[x].told

\* Thread t is where it was, or has gone on after its task.
WorkGoesOn(t) ==
    LET me == thread[t]
        new == thread'[t]
    IN  \/ new.pc \in {"idle", "force", "again"}
        \/ /\ new.seq = me.seq /\ new.release = me.release
           /\ \/ new.pc = me.pc
              \/ me.pc \in Executing /\ new.pc \in Executing \ {"task"}

(***************************************************************************)
(* The destruction, and the wait that is being added                       *)
(***************************************************************************)
\* A step that leaves to a sequence that leaves the maps what its thread owes it.
Undisturbed(x) ==
    /\ graph'[x].running = graph[x].running
    /\ thread[RunnerOf[x]].running => thread'[RunnerOf[x]].running

\* ... and to all sequences their places in the maps.
PlacesKept ==
    \A x \in Seqs : /\ graph'[x].map = graph[x].map /\ graph'[x].sched = graph[x].sched
                    /\ order'[x].destroyed = order[x].destroyed
================================================================================
