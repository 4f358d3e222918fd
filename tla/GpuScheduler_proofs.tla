-------------------------- MODULE GpuScheduler_proofs --------------------------
(***************************************************************************)
(* Proofs about the GPU scheduler, for any sequences, threads, tasks and   *)
(* waits: every wait keeps the one callback that will end it, no thread    *)
(* sleeps over a task it could run, and tasks start only when their waits  *)
(* allow. That no assertion fails is proved in GpuScheduler_checks.        *)
(*                                                                         *)
(* GpuSound has the types and what the order numbers say of each other. It *)
(* gives each step a shape (StepShape): what the step does, without the    *)
(* operators of the sync points. The other invariants, CallbacksSound,     *)
(* AwakeSound and WaitsSound, are followed through the shapes.             *)
(***************************************************************************)
EXTENDS GpuScheduler_invariants, Recursions, FiniteSetTheorems, TLAPS

-----------------------------------------------------------------------------
(***************************************************************************)
(* The operators of the model                                              *)
(***************************************************************************)
LEMMA Constants ==
    /\ Seqs \subseteq Nat
    /\ RunnerOf \in [Seqs -> Threads] /\ PriorityOf \in [Seqs -> Nat]
    /\ MaxTasks \in Nat /\ MaxCount \in Nat /\ MaxExtras \in Nat
    /\ Forever \in Nat /\ Forever > MaxCount /\ Forever > MaxTasks
    /\ Modes \subseteq BOOLEAN
BY SchedulerAssumption, ForeverAssumption DEF SchedulerAssumption, ForeverAssumption

LEMMA MinLemma ==
    ASSUME NEW S, S \subseteq Nat, S # {}
    PROVE  Min(S) \in S /\ \A y \in S : Min(S) <= y
<1>1. PICK x \in S : \A y \in S : x <= y
  BY Least
<1>2. QED
  BY <1>1 DEF Min

LEMMA MaxOfTwo ==
    ASSUME NEW a \in Nat, NEW b \in Nat
    PROVE  /\ Max({a, b}) \in {a, b}
           /\ a <= Max({a, b}) /\ b <= Max({a, b})
<1>1. \E x \in {a, b} : \A y \in {a, b} : x >= y
  <2>1. CASE a >= b
    BY <2>1
  <2>2. CASE ~ (a >= b)
    <3>1. b >= a /\ b >= b
      BY <2>2
    <3>2. QED
      BY <3>1
  <2>3. QED
    BY <2>1, <2>2
<1>2. Max({a, b}) \in {a, b} /\ \A y \in {a, b} : Max({a, b}) >= y
  BY <1>1 DEF Max
<1>3. QED
  BY <1>2

\* A set of numbers up to k has a greatest element.
LEMMA MaxLemma ==
    ASSUME NEW k \in Nat, NEW S, S \subseteq 0..k, S # {}
    PROVE  Max(S) \in S /\ \A y \in S : Max(S) >= y
<1> DEFINE T == {n \in Nat : \A y \in S : n >= y}
<1>1. T \subseteq Nat /\ k \in T
  OBVIOUS
<1>2. PICK x \in T : \A y \in T : x <= y
  BY <1>1, Least
<1>3. x \in S
  <2>1. SUFFICES ASSUME x \notin S PROVE FALSE
    OBVIOUS
  <2>2. \A y \in S : x > y
    <3>1. SUFFICES ASSUME NEW y \in S PROVE x > y
      OBVIOUS
    <3>2. x \in Nat /\ y \in Nat /\ x >= y /\ x # y
      BY <2>1
    <3>3. QED
      BY <3>2
  <2>3. x # 0
    <3>1. PICK y \in S : TRUE
      OBVIOUS
    <3>2. y \in Nat /\ x \in Nat /\ x > y
      BY <2>2
    <3>3. QED
      BY <3>2
  <2>4. x - 1 \in T
    <3>1. x - 1 \in Nat
      BY <2>3
    <3>2. ASSUME NEW y \in S PROVE x - 1 >= y
      <4>1. x \in Nat /\ y \in Nat /\ x > y
        BY <2>2
      <4>2. QED
        BY <4>1
    <3>3. QED
      BY <3>1, <3>2
  <2>5. QED
    BY <1>2, <2>3, <2>4
<1>4. \E m \in S : \A y \in S : m >= y
  BY <1>3
<1>5. QED
  BY <1>4 DEF Max

(***************************************************************************)
(* The search for the next task                                            *)
(***************************************************************************)
LEMMA FruitfulType ==
    ASSUME graph \in [Seqs -> Sequences], NEW s \in Seqs, NEW below
    PROVE  Fruitful(below, s) \subseteq Seqs
<1>1. graph[s].waits \subseteq Fences
  BY DEF Sequences
<1>2. Dependencies(s) \subseteq Fences
  BY <1>1 DEF Dependencies
<1>3. QED
  BY <1>2 DEF Fruitful, Fences

LEMMA FindFromType ==
    ASSUME graph \in [Seqs -> Sequences], NEW t, NEW s \in Seqs,
           NEW below \in [Seqs -> SUBSET Seqs]
    PROVE  FindFrom(t, below, s) \in SUBSET Seqs
<1>1. Fruitful(below, s) \subseteq Seqs
  BY FruitfulType
<1>2. Fruitful(below, s) # {} => Min(Fruitful(below, s)) \in Seqs
  BY <1>1, MinLemma, Constants
<1>3. FindFrom(t, below, s) =
          IF ~ IsRunnable(s) THEN {}
          ELSE IF Fruitful(below, s) # {} THEN below[Min(Fruitful(below, s))]
          ELSE IF IsFrontTaskUnblocked(graph, s) /\ RunnerOf[s] = t THEN {s} ELSE {}
  BY DEF FindFrom, Fruitful
<1>4. QED
  BY <1>2, <1>3

LEMMA FindSolves ==
    ASSUME graph \in [Seqs -> Sequences], NEW t
    PROVE  \E f : Finds(f, t) /\ FindNextTaskFromRoot(t) = f[MaxTasks]
<1> DEFINE X == [Seqs -> SUBSET Seqs]
           none == [s \in Seqs |-> {}]
           Step(y) == [s \in Seqs |-> FindFrom(t, y, s)]
           G == [n \in 1..MaxTasks |-> [y \in X |-> Step(y)]]
           F(f) == [n \in 0..MaxTasks |->
                       [s \in Seqs |-> IF n = 0 THEN {} ELSE FindFrom(t, f[n - 1], s)]]
<1>1. /\ MaxTasks \in Nat /\ \A n \in 1..MaxTasks : n - 1 \in 0..MaxTasks
      /\ 0 \in 0..MaxTasks /\ \A n \in 1..MaxTasks : n \in 0..MaxTasks /\ n # 0
      /\ \A n \in 0..MaxTasks : n = 0 \/ n \in 1..MaxTasks
  BY Constants
<1>2. \A y \in X : Step(y) \in X
  BY FindFromType
<1>3. \A f : F(f)[0] = none
  BY <1>1
<1>4. \A f : \A n \in 1..MaxTasks : F(f)[n] = Step(f[n - 1])
  BY <1>1
<1>5. \A f : F(f) = [n \in 0..MaxTasks |-> F(f)[n]]
  OBVIOUS
<1>6. none \in X
  OBVIOUS
<1>7. \A n \in 1..MaxTasks : \A y \in X : G[n][y] = Step(y)
  OBVIOUS
<1> DEFINE after == CHOOSE f : f = F(f)
<1>8. FindNextTaskFromRoot(t) = after[MaxTasks]
  BY DEF FindNextTaskFromRoot
<1> HIDE DEF G, X, Step, F, none
<1>9. PICK f \in [0..MaxTasks -> X] : Solution(f, none, G, MaxTasks)
  <2>1. StaysIn(G, X, MaxTasks)
    BY <1>2, <1>7 DEF StaysIn
  <2>2. QED
    BY <1>1, <1>6, <2>1, Recursion
<1>10. f[0] = none /\ \A n \in 1..MaxTasks : f[n] = Step(f[n - 1])
  BY <1>1, <1>7, <1>9 DEF Solution
<1>11. f = F(f)
  <2>1. \A n \in 0..MaxTasks : f[n] = F(f)[n]
    BY <1>1, <1>3, <1>4, <1>10
  <2>2. f = [n \in 0..MaxTasks |-> f[n]]
    BY <1>9
  <2>3. QED
    BY <1>5, <2>1, <2>2
<1>12. after = F(after)
  BY <1>11
<1> HIDE DEF after
<1>13. after[0] = none /\ \A n \in 1..MaxTasks : after[n] = Step(after[n - 1])
  BY <1>3, <1>4, <1>12
<1> DEFINE S == {n \in Nat : n <= MaxTasks => after[n] \in X}
<1>14. \A n \in Nat : n \in S
  <2>1. 0 \in S
    BY <1>6, <1>13
  <2>2. ASSUME NEW n \in Nat, n \in S PROVE n + 1 \in S
    <3>1. SUFFICES ASSUME n + 1 <= MaxTasks PROVE after[n + 1] \in X
      OBVIOUS
    <3>2. n + 1 \in 1..MaxTasks /\ (n + 1) - 1 = n /\ after[n] \in X
      BY <1>1, <2>2, <3>1
    <3>3. after[n + 1] = Step(after[n])
      BY <1>13, <3>2
    <3>4. QED
      BY <1>2, <3>2, <3>3
  <2> HIDE DEF S
  <2>3. QED
    BY <2>1, <2>2, Induct
<1>15. \A n \in 0..MaxTasks : after[n] \in X
  BY <1>1, <1>14
<1>16. after = [n \in 0..MaxTasks |-> after[n]]
  <2>1. F(after) = [n \in 0..MaxTasks |-> F(after)[n]]
    BY <1>5
  <2>2. QED
    BY <1>12, <2>1
<1>17. after \in [0..MaxTasks -> X]
  BY <1>15, <1>16
<1>18. Finds(after, t)
  BY <1>13, <1>17 DEF Finds, X, Step, none
<1>19. QED
  BY <1>8, <1>18

LEMMA FindsCandidates ==
    ASSUME graph \in [Seqs -> Sequences], NEW t, NEW f, Finds(f, t),
           NEW n \in 0..MaxTasks, NEW s \in Seqs
    PROVE  f[n][s] \subseteq Candidates(t)
<1> DEFINE S == {m \in Nat : m <= MaxTasks => \A r \in Seqs : f[m][r] \subseteq Candidates(t)}
<1>1. 0 \in S
  BY DEF Finds
<1>2. ASSUME NEW m \in Nat, m \in S PROVE m + 1 \in S
  <2>1. SUFFICES ASSUME m + 1 <= MaxTasks, NEW r \in Seqs
                 PROVE  f[m + 1][r] \subseteq Candidates(t)
    OBVIOUS
  <2>2. m + 1 \in 1..MaxTasks /\ (m + 1) - 1 = m /\ m \in 0..MaxTasks
    BY <2>1, Constants
  <2>3. f[m + 1][r] = FindFrom(t, f[m], r)
    <3>1. f[m + 1] = [q \in Seqs |-> FindFrom(t, f[(m + 1) - 1], q)]
      BY <2>2 DEF Finds
    <3>2. QED
      BY <2>2, <3>1
  <2>4. \A q \in Seqs : f[m][q] \subseteq Candidates(t)
    BY <1>2, <2>2
  <2>5. Fruitful(f[m], r) # {} => Min(Fruitful(f[m], r)) \in Seqs
    BY FruitfulType, MinLemma, Constants
  <2>6. FindFrom(t, f[m], r) =
            IF ~ IsRunnable(r) THEN {}
            ELSE IF Fruitful(f[m], r) # {} THEN f[m][Min(Fruitful(f[m], r))]
            ELSE IF IsFrontTaskUnblocked(graph, r) /\ RunnerOf[r] = t THEN {r} ELSE {}
    BY DEF FindFrom, Fruitful
  <2>7. QED
    BY <2>3, <2>4, <2>5, <2>6 DEF Candidates
<1>3. \A m \in Nat : m \in S
  <2> HIDE DEF S
  <2>1. QED
    BY <1>1, <1>2, Induct
<1>4. QED
  BY <1>3, Constants

LEMMA FindNextSound ==
    ASSUME graph \in [Seqs -> Sequences], NEW t
    PROVE  FindNextTask(t) \subseteq Candidates(t)
<1>1. PICK f : Finds(f, t) /\ FindNextTaskFromRoot(t) = f[MaxTasks]
  BY FindSolves
<1>2. \A s \in Seqs : FindNextTaskFromRoot(t)[s] \subseteq Candidates(t)
  BY <1>1, FindsCandidates, Constants
<1>3. QED
  BY <1>2 DEF FindNextTask

LEMMA FindNextType ==
    ASSUME graph \in [Seqs -> Sequences], NEW t, FindNextTask(t) # {}
    PROVE  Min(FindNextTask(t)) \in Candidates(t)
<1>1. FindNextTask(t) \subseteq Nat
  BY FindNextSound, Constants DEF Candidates
<1>2. Min(FindNextTask(t)) \in FindNextTask(t)
  BY <1>1, MinLemma
<1>3. QED
  BY <1>2, FindNextSound

\* From a candidate the search finds a sequence.
LEMMA FindsFromCandidate ==
    ASSUME graph \in [Seqs -> Sequences], NEW t, NEW f, Finds(f, t), MaxTasks > 0,
           NEW s \in Candidates(t)
    PROVE  f[MaxTasks][s] # {}
<1>1. MaxTasks \in 1..MaxTasks /\ s \in Seqs
  BY Constants DEF Candidates
<1> DEFINE below == f[MaxTasks - 1]
<1>2. f[MaxTasks][s] = FindFrom(t, below, s)
  <2>1. f[MaxTasks] = [q \in Seqs |-> FindFrom(t, f[MaxTasks - 1], q)]
    BY <1>1 DEF Finds
  <2>2. QED
    BY <1>1, <2>1
<1>3. FindFrom(t, below, s) =
          IF ~ IsRunnable(s) THEN {}
          ELSE IF Fruitful(below, s) # {} THEN below[Min(Fruitful(below, s))]
          ELSE IF IsFrontTaskUnblocked(graph, s) /\ RunnerOf[s] = t THEN {s} ELSE {}
  BY DEF FindFrom, Fruitful
<1> HIDE DEF below
<1>4. Fruitful(below, s) # {} => Min(Fruitful(below, s)) \in Fruitful(below, s)
  BY <1>1, FruitfulType, MinLemma, Constants
<1>5. \A x \in Fruitful(below, s) : below[x] # {}
  BY DEF Fruitful
<1>6. QED
  BY <1>2, <1>3, <1>4, <1>5 DEF Candidates

\* The first of some sequences with tasks by priority and order number.
LEMMA FirstRuns ==
    ASSUME graph \in [Seqs -> Sequences], NEW R, R \subseteq Seqs, R # {},
           \A s \in R : Front(graph, s).order \in Nat,
           \A s, r \in R : s # r => Front(graph, s).order # Front(graph, r).order
    PROVE  \E s \in R : \A r \in R \ {s} : RunsBefore(s, r)
<1> DEFINE ps == {PriorityOf[s] : s \in R}
<1>1. ps \subseteq Nat /\ ps # {}
  BY Constants
<1>2. PICK p \in ps : \A q \in ps : p <= q
  BY <1>1, Least
<1> DEFINE B == {s \in R : PriorityOf[s] = p}
           os == {Front(graph, s).order : s \in B}
<1>3. os \subseteq Nat /\ os # {}
  BY <1>2
<1>4. PICK o \in os : \A q \in os : o <= q
  BY <1>3, Least
<1>5. PICK s \in B : Front(graph, s).order = o
  BY <1>4
<1>6. ASSUME NEW r \in R \ {s} PROVE RunsBefore(s, r)
  <2>1. PriorityOf[r] \in Nat /\ PriorityOf[s] \in Nat /\ PriorityOf[s] <= PriorityOf[r]
    BY <1>2, Constants
  <2>2. CASE PriorityOf[s] < PriorityOf[r]
    BY <2>2 DEF RunsBefore
  <2>3. CASE PriorityOf[s] = PriorityOf[r]
    <3>1. r \in B
      BY <2>3
    <3>2. /\ Front(graph, s).order \in Nat /\ Front(graph, r).order \in Nat
          /\ Front(graph, s).order <= Front(graph, r).order
          /\ Front(graph, s).order # Front(graph, r).order
      BY <1>4, <1>5, <3>1
    <3>3. Front(graph, s).order < Front(graph, r).order
      BY <3>2
    <3>4. QED
      BY <2>3, <3>3 DEF RunsBefore
  <2>4. QED
    BY <2>1, <2>2, <2>3
<1>7. QED
  BY <1>5, <1>6

\* The search finds a task whenever the thread may run one.
LEMMA FindNextComplete ==
    ASSUME graph \in [Seqs -> Sequences], NEW t, MaxTasks > 0, Candidates(t) # {},
           \A s, r \in Seqs : s # r => Apart(s, r)
    PROVE  FindNextTask(t) # {}
<1>1. PICK f : Finds(f, t) /\ FindNextTaskFromRoot(t) = f[MaxTasks]
  BY FindSolves
<1> DEFINE roots == {s \in Seqs : f[MaxTasks][s] # {}}
           first == {s \in roots : \A r \in roots \ {s} : RunsBefore(s, r)}
<1>2. roots # {}
  BY <1>1, FindsFromCandidate DEF Candidates
<1>3. ASSUME NEW s \in roots
      PROVE  graph[s].tasks \in Seq(Tasks) /\ graph[s].tasks # << >>
  <2>1. IsRunnable(s)
    <3>1. MaxTasks \in 1..MaxTasks
      BY Constants
    <3>2. f[MaxTasks] = [q \in Seqs |-> FindFrom(t, f[MaxTasks - 1], q)]
      BY <1>1, <3>1 DEF Finds
    <3>3. s \in Seqs /\ f[MaxTasks][s] # {}
      OBVIOUS
    <3> HIDE DEF roots
    <3>4. f[MaxTasks][s] = FindFrom(t, f[MaxTasks - 1], s)
      BY <3>2, <3>3
    <3>5. QED
      BY <3>3, <3>4 DEF FindFrom
  <2>2. QED
    BY <2>1 DEF IsRunnable, Sequences
<1>4. ASSUME NEW s \in roots
      PROVE  Front(graph, s) = graph[s].tasks[1] /\ 1 \in 1..Len(graph[s].tasks)
  BY <1>3 DEF Front
<1>5. ASSUME NEW s \in roots PROVE Front(graph, s).order \in Nat
  <2>1. Front(graph, s) \in Tasks
    BY <1>3, <1>4
  <2>2. QED
    BY <2>1, Constants DEF Tasks
<1>6. \A s, r \in roots : s # r => Front(graph, s).order # Front(graph, r).order
  BY <1>4 DEF Apart
<1>7. \E s \in roots : \A r \in roots \ {s} : RunsBefore(s, r)
  <2> HIDE DEF roots
  <2>1. roots \subseteq Seqs
    BY DEF roots
  <2>2. QED
    BY <1>2, <1>5, <1>6, <2>1, FirstRuns
<1>8. PICK s \in first : f[MaxTasks][s] # {}
  BY <1>7
<1>9. FindNextTask(t) = UNION {f[MaxTasks][r] : r \in first}
  BY <1>1 DEF FindNextTask
<1>10. QED
  BY <1>8, <1>9

-----------------------------------------------------------------------------
(***************************************************************************)
(* Tasks and order numbers                                                 *)
(***************************************************************************)
LEMMA FunctionSeq ==
    ASSUME NEW S, NEW n \in Nat, NEW f \in [1..n -> S]
    PROVE  f \in Seq(S) /\ Len(f) = n
OBVIOUS

LEMMA SeqElement ==
    ASSUME NEW S, NEW q \in Seq(S), NEW i \in 1..Len(q)
    PROVE  q[i] \in S
OBVIOUS

LEMMA SeqAppend ==
    ASSUME NEW S, NEW q \in Seq(S), NEW e \in S
    PROVE  /\ Append(q, e) \in Seq(S) /\ Append(q, e) # << >> /\ Len(q) \in Nat
           /\ Len(Append(q, e)) = Len(q) + 1 /\ Append(q, e)[Len(q) + 1] = e
           /\ \A i \in 1..Len(q) : Append(q, e)[i] = q[i]
OBVIOUS

LEMMA SeqTail ==
    ASSUME NEW S, NEW q \in Seq(S), q # << >>
    PROVE  /\ Tail(q) \in Seq(S) /\ Len(q) \in Nat /\ Len(q) >= 1
           /\ Len(Tail(q)) \in Nat /\ Len(Tail(q)) + 1 = Len(q)
           /\ 1 \in 1..Len(q) /\ q[1] \in S /\ Head(q) = q[1]
           /\ \A i \in 1..Len(Tail(q)) : i + 1 \in 1..Len(q) /\ Tail(q)[i] = q[i + 1]
OBVIOUS

LEMMA SeqCons ==
    ASSUME NEW S, NEW q \in Seq(S), NEW e \in S
    PROVE  /\ <<e>> \o q \in Seq(S) /\ Len(q) \in Nat
           /\ Len(<<e>> \o q) = Len(q) + 1 /\ (<<e>> \o q)[1] = e
           /\ \A i \in 2..(Len(q) + 1) : i - 1 \in 1..Len(q) /\ (<<e>> \o q)[i] = q[i - 1]
OBVIOUS

LEMMA TaskType ==
    ASSUME GpuTypes, NEW s \in Seqs, NEW i \in 1..Len(graph[s].tasks)
    PROVE  /\ graph[s].tasks[i] \in Tasks
           /\ graph[s].tasks[i].order \in 1..MaxTasks
           /\ graph[s].tasks[i].release \in 0..MaxTasks
<1>1. graph[s].tasks \in Seq(Tasks)
  BY DEF GpuTypes, Sequences
<1>2. graph[s].tasks[i] \in Tasks
  BY <1>1
<1>3. QED
  BY <1>2 DEF Tasks

LEMMA FrontLemma ==
    ASSUME GpuTypes, NEW s \in Seqs, graph[s].tasks # << >>
    PROVE  /\ 1 \in 1..Len(graph[s].tasks)
           /\ Front(graph, s) = graph[s].tasks[1] /\ Front(graph, s) \in Tasks
           /\ Front(graph, s).order \in 1..MaxTasks
           /\ Front(graph, s).release \in 0..MaxTasks
<1>1. graph[s].tasks \in Seq(Tasks)
  BY DEF GpuTypes, Sequences
<1>2. 1 \in 1..Len(graph[s].tasks) /\ Front(graph, s) = graph[s].tasks[1]
  BY <1>1 DEF Front
<1>3. QED
  BY <1>2, TaskType

LEMMA SameSequenceRefl ==
    ASSUME NEW q \in Sequences
    PROVE  SameSequence(q, q)
BY DEF SameSequence, SameTasks

LEMMA TimerLemma ==
    ASSUME NEW q \in Sequences
    PROVE  SameSequence(UpdateValidationTimer(q), q)
<1> DEFINE ts == [i \in 1..Len(q.tasks) |-> [q.tasks[i] EXCEPT !.due = TRUE]]
           u == [q EXCEPT !.timer = TRUE, !.tasks = ts]
<1>1. q.tasks \in Seq(Tasks) /\ Len(q.tasks) \in Nat
  BY DEF Sequences
<1>2. \A i \in 1..Len(q.tasks) : q.tasks[i] \in Tasks
  BY <1>1
<1>3. \A i \in 1..Len(q.tasks) :
          /\ ts[i] \in Tasks /\ ts[i].order = q.tasks[i].order
          /\ ts[i].release = q.tasks[i].release /\ ts[i].waits = q.tasks[i].waits
  BY <1>2 DEF Tasks
<1>4. ts \in Seq(Tasks) /\ Len(ts) = Len(q.tasks)
  <2>1. ts \in [1..Len(q.tasks) -> Tasks]
    BY <1>3
  <2>2. QED
    BY <1>1, <2>1, FunctionSeq
<1>5. SameTasks(ts, q.tasks)
  BY <1>3, <1>4 DEF SameTasks
<1> HIDE DEF ts
<1>6. SameSequence(u, q)
  <2>1. u \in Sequences
    BY <1>4 DEF Sequences
  <2>2. /\ u.tasks = ts /\ u.sched = q.sched /\ u.map = q.map /\ u.waits = q.waits
        /\ u.current = q.current /\ u.enabled = q.enabled /\ u.running = q.running
    BY DEF Sequences
  <2>3. QED
    BY <1>5, <2>1, <2>2 DEF SameSequence
<1>7. UpdateValidationTimer(q) = q \/ UpdateValidationTimer(q) = u
  BY DEF UpdateValidationTimer, ts
<1>8. QED
  BY <1>6, <1>7, SameSequenceRefl

LEMMA PostedLemma ==
    ASSUME NEW th \in [Threads -> ThreadStates], NEW t \in Threads, ~ th[t].running
    PROVE  /\ Posted(th, t) \in [Threads -> ThreadStates]
           /\ \A u \in Threads : Woken(Posted(th, t)[u], th[u])
           /\ Posted(th, t)[t].running
<1>1. th[t] \in ThreadStates
  OBVIOUS
<1> DEFINE p == [th[t] EXCEPT !.running = TRUE, !.posted = TRUE]
<1>2. p \in ThreadStates /\ Woken(p, th[t]) /\ p.running
  BY <1>1 DEF ThreadStates, Woken, SameThread
<1>3. Posted(th, t) = [th EXCEPT ![t] = p]
  BY DEF Posted
<1> HIDE DEF p
<1>4. \A u \in Threads : Posted(th, t)[u] = IF u = t THEN p ELSE th[u]
  BY <1>3
<1>5. \A u \in Threads : Woken(th[u], th[u])
  BY DEF Woken, SameThread
<1>6. Posted(th, t) \in [Threads -> ThreadStates]
  BY <1>2, <1>3
<1>7. QED
  BY <1>2, <1>4, <1>5, <1>6

LEMMA ScheduleLemma ==
    ASSUME NEW th \in [Threads -> ThreadStates], NEW g, NEW s \in Seqs
    PROVE  /\ TryScheduleSequence(g, th, s) \in [Threads -> ThreadStates]
           /\ \A u \in Threads : Woken(TryScheduleSequence(g, th, s)[u], th[u])
           /\ \/ g[s].running
              \/ ~ HasAnyUnblockedTasksOnRunner(g, RunnerOf[s])
              \/ TryScheduleSequence(g, th, s)[RunnerOf[s]].running
<1>1. RunnerOf[s] \in Threads
  BY Constants
<1>2. \A u \in Threads : Woken(th[u], th[u])
  BY DEF Woken, SameThread
<1>3. CASE ~ g[s].running /\ ~ th[RunnerOf[s]].running
             /\ HasAnyUnblockedTasksOnRunner(g, RunnerOf[s])
  <2>1. TryScheduleSequence(g, th, s) = Posted(th, RunnerOf[s])
    BY <1>3 DEF TryScheduleSequence
  <2>2. QED
    BY <1>1, <1>3, <2>1, PostedLemma
<1>4. CASE ~ (~ g[s].running /\ ~ th[RunnerOf[s]].running
             /\ HasAnyUnblockedTasksOnRunner(g, RunnerOf[s]))
  <2>1. TryScheduleSequence(g, th, s) = th
    BY <1>4 DEF TryScheduleSequence
  <2>2. QED
    BY <1>2, <1>4, <2>1
<1>5. QED
  BY <1>3, <1>4

(***************************************************************************)
(* Steps that give out no order number and process none                    *)
(***************************************************************************)
LEMMA ProcessingKept ==
    ASSUME GpuSound, GpuTypes', NumbersKept, NEW s \in Seqs
    PROVE  Processing(s)' <=> Processing(s)
<1> DEFINE t == RunnerOf[s]
<1>1. t \in Threads
  BY Constants
<1>2. IsProcessingOrderNumber(order'[s]) <=> IsProcessingOrderNumber(order[s])
  BY DEF NumbersKept, OrderKept, IsProcessingOrderNumber
<1>3. ThreadMoved(t) /\ ThreadBound(t)
  BY <1>1 DEF NumbersKept, GpuSound, Numbered
<1> HIDE DEF t
<1>4. Processing(s) <=> /\ IsProcessingOrderNumber(order[s])
                        /\ thread[t].seq = s /\ thread[t].pc \in {"task", "processed"}
  BY DEF Processing, t
<1>5. Processing(s)' <=> /\ IsProcessingOrderNumber(order'[s])
                         /\ thread'[t].seq = s /\ thread'[t].pc \in {"task", "processed"}
  BY DEF Processing, t
<1>6. QED
  BY <1>2, <1>3, <1>4, <1>5 DEF ThreadMoved

LEMMA NumberedKept ==
    ASSUME GpuSound, GpuTypes', NumbersKept
    PROVE  Numbered'
<1> USE DEF NumbersKept
<1>1. /\ GpuTypes /\ GraphKept /\ OrderKept /\ ToldKept /\ last_order' = last_order
      /\ \A t \in Threads : ThreadMoved(t) /\ ThreadBound(t)
      /\ \A s \in Seqs : /\ Ascending(s) /\ Ahead(s) /\ WaitsHaveTasks(s)
                         /\ NumsMatch(s) /\ Releases(s)
      /\ \A s, r \in Seqs : s # r => Apart(s, r)
      /\ adding' = adding \/ adding' = << >>
      /\ AddingBound /\ DestroyingBound'
  BY DEF GpuSound, Numbered
<1> HIDE DEF NumbersKept
<1>2. ASSUME NEW s \in Seqs PROVE Ascending(s)'
  <2>1. Ascending(s) /\ SameTasks(graph'[s].tasks, graph[s].tasks)
        /\ order'[s].nums = order[s].nums /\ last_order' = last_order
    BY <1>1 DEF GraphKept, OrderKept
  <2>2. QED
    BY <2>1 DEF Ascending, SameTasks
<1>3. ASSUME NEW s \in Seqs PROVE Ahead(s)'
  <2>1. /\ Ahead(s) /\ SameTasks(graph'[s].tasks, graph[s].tasks)
        /\ order'[s].processed = order[s].processed /\ order'[s].current = order[s].current
        /\ order'[s].paused = order[s].paused /\ last_order' = last_order
    BY <1>1 DEF GraphKept, OrderKept
  <2>2. QED
    BY <2>1 DEF Ahead, SameTasks
<1>4. ASSUME NEW s \in Seqs PROVE WaitsHaveTasks(s)'
  <2>1. WaitsHaveTasks(s) /\ SameTasks(graph'[s].tasks, graph[s].tasks)
    BY <1>1 DEF GraphKept
  <2>2. ASSUME NEW w \in graph'[s].waits
        PROVE  \E i \in 1..Len(graph[s].tasks) : graph[s].tasks[i].order = w.order
    <3>1. CASE w \in graph[s].waits
      BY <2>1, <3>1 DEF WaitsHaveTasks
    <3>2. CASE w \notin graph[s].waits
      <4>1. PICK i \in 1..Len(adding) : adding[i].seq = s /\ adding[i].order = w.order
        BY <1>1, <3>2 DEF GraphKept
      <4>2. \E j \in 1..Len(graph[adding[i].seq].tasks) :
                graph[adding[i].seq].tasks[j].order = adding[i].order
        BY <1>1 DEF AddingBound
      <4>3. QED
        BY <4>1, <4>2
    <3>3. QED
      BY <3>1, <3>2
  <2>3. QED
    BY <2>1, <2>2 DEF WaitsHaveTasks, SameTasks
<1>5. ASSUME NEW s \in Seqs PROVE NumsMatch(s)'
  <2>1. /\ NumsMatch(s) /\ SameTasks(graph'[s].tasks, graph[s].tasks)
        /\ graph'[s].sched => graph[s].sched
        /\ order'[s].nums = order[s].nums /\ order'[s].current = order[s].current
    BY <1>1 DEF GraphKept, OrderKept
  <2>2. Processing(s)' <=> Processing(s)
    BY ProcessingKept
  <2>3. QED
    BY <2>1, <2>2 DEF NumsMatch, SameTasks
<1>6. ASSUME NEW s \in Seqs PROVE Releases(s)'
  <2>1. /\ Releases(s) /\ SameTasks(graph'[s].tasks, graph[s].tasks)
        /\ graph'[s].current \in {graph[s].current, 0}
        /\ \/ client'[s].told = client[s].told
           \/ \E t \in Threads : client'[s].told = thread[t].release
        /\ \A t \in Threads : thread'[t].release \in {thread[t].release, 0}
        /\ last_order' = last_order /\ 0 <= last_order
    BY <1>1 DEF GraphKept, ToldKept, ThreadMoved, GpuTypes
  <2>2. \A t \in Threads : thread[t].release <= last_order
    BY <2>1 DEF Releases
  <2>3. client'[s].told <= last_order'
    BY <2>1, <2>2 DEF Releases
  <2>4. graph'[s].current <= last_order'
    BY <2>1 DEF Releases
  <2>5. \A t \in Threads : thread'[t].release <= last_order'
    BY <2>1, <2>2
  <2>6. \A i \in 1..Len(graph'[s].tasks) : graph'[s].tasks[i].release <= last_order'
    BY <2>1 DEF Releases, SameTasks
  <2>7. QED
    BY <2>3, <2>4, <2>5, <2>6 DEF Releases
<1>7. ASSUME NEW s \in Seqs, NEW r \in Seqs, s # r PROVE Apart(s, r)'
  <2>1. /\ Apart(s, r) /\ SameTasks(graph'[s].tasks, graph[s].tasks)
        /\ SameTasks(graph'[r].tasks, graph[r].tasks)
        /\ order'[s].current = order[s].current /\ order'[r].current = order[r].current
    BY <1>1, <1>7 DEF GraphKept, OrderKept
  <2>2. order'[s].current # 0 => order'[s].current # order'[r].current
    BY <2>1 DEF Apart
  <2>3. \A i \in 1..Len(graph'[r].tasks) : order'[s].current # graph'[r].tasks[i].order
    BY <2>1 DEF Apart, SameTasks
  <2>4. ASSUME NEW i \in 1..Len(graph'[s].tasks), NEW j \in 1..Len(graph'[r].tasks)
        PROVE  graph'[s].tasks[i].order # graph'[r].tasks[j].order
    <3>1. i \in 1..Len(graph[s].tasks) /\ j \in 1..Len(graph[r].tasks)
      BY <2>1 DEF SameTasks
    <3>2. graph[s].tasks[i].order # graph[r].tasks[j].order
      BY <2>1, <3>1 DEF Apart
    <3>3. QED
      BY <2>1, <3>1, <3>2 DEF SameTasks
  <2>5. QED
    BY <2>2, <2>3, <2>4 DEF Apart
<1>8. ASSUME NEW s \in Seqs, IsFrontTaskUnblocked(graph, s),
             \A i \in 1..Len(adding) :
                 adding[i].seq = s => Front(graph, s).order < adding[i].order
      PROVE  /\ IsFrontTaskUnblocked(graph', s)
             /\ Front(graph', s).order = Front(graph, s).order
  <2>1. graph[s].tasks # << >> /\ \A w \in graph[s].waits : w.order > Front(graph, s).order
    BY <1>8 DEF IsFrontTaskUnblocked
  <2>2. SameTasks(graph'[s].tasks, graph[s].tasks)
    BY <1>1 DEF GraphKept
  <2>3. graph[s].tasks \in Seq(Tasks) /\ graph'[s].tasks \in Seq(Tasks)
    BY <1>1 DEF GpuTypes, Sequences
  <2>4. /\ Front(graph, s) = graph[s].tasks[1] /\ Front(graph', s) = graph'[s].tasks[1]
        /\ graph'[s].tasks # << >> /\ 1 \in 1..Len(graph[s].tasks)
    BY <2>1, <2>2, <2>3 DEF Front, SameTasks
  <2>5. Front(graph', s).order = Front(graph, s).order
    BY <2>2, <2>4 DEF SameTasks
  <2>6. Front(graph, s).order \in Nat
    BY <1>1, <2>1, FrontLemma, Constants
  <2>7. ASSUME NEW w \in graph'[s].waits PROVE w.order > Front(graph, s).order
    <3>1. CASE w \in graph[s].waits
      BY <2>1, <3>1
    <3>2. CASE w \notin graph[s].waits
      <4>1. PICK i \in 1..Len(adding) : adding[i].seq = s /\ adding[i].order = w.order
        BY <1>1, <3>2 DEF GraphKept
      <4>2. Front(graph, s).order < w.order /\ w.order \in Nat
        <5>1. graph'[s].waits \subseteq Fences
          BY <1>1 DEF GpuTypes, Sequences
        <5>2. w.order \in Nat
          BY <5>1, Constants DEF Fences
        <5>3. QED
          BY <1>8, <4>1, <5>2
      <4>3. QED
        BY <2>6, <4>2
    <3>3. QED
      BY <3>1, <3>2
  <2>8. QED
    BY <2>4, <2>5, <2>7 DEF IsFrontTaskUnblocked
<1>9. ASSUME NEW t \in Threads PROVE ThreadBound(t)'
  <2>1. ThreadMoved(t) /\ ThreadBound(t)
    BY <1>1
  <2>2. \A s \in Seqs : /\ order'[s].current = order[s].current
                        /\ IsProcessingOrderNumber(order'[s]) <=> IsProcessingOrderNumber(order[s])
                        /\ graph'[s].sched => graph[s].sched
    BY <1>1 DEF OrderKept, IsProcessingOrderNumber, GraphKept
  <2>3. thread'[t].pc \notin {"idle", "force"} => /\ thread'[t].seq \in Seqs
                                                  /\ RunnerOf[thread'[t].seq] = t
    BY <2>1 DEF ThreadMoved, ThreadBound
  <2>4. thread'[t].pc \in {"task", "processed"} =>
            thread'[t].order = order'[thread'[t].seq].current
    BY <2>1, <2>2, <2>3 DEF ThreadMoved, ThreadBound
  <2>5. thread'[t].pc = "processed" => IsProcessingOrderNumber(order'[thread'[t].seq])
    BY <2>1, <2>2, <2>3 DEF ThreadMoved, ThreadBound
  <2>6. ASSUME thread'[t].pc = "chosen", graph'[thread'[t].seq].sched
        PROVE  /\ IsFrontTaskUnblocked(graph', thread'[t].seq)
               /\ \A i \in 1..Len(adding') :
                      adding'[i].seq = thread'[t].seq =>
                          Front(graph', thread'[t].seq).order < adding'[i].order
    <3>1. CASE thread[t].pc = "chosen" /\ thread'[t].seq = thread[t].seq
      <4>1. thread[t].seq \in Seqs /\ graph[thread[t].seq].sched
        BY <2>2, <2>3, <2>6, <3>1
      <4>2. /\ IsFrontTaskUnblocked(graph, thread[t].seq)
            /\ \A i \in 1..Len(adding) :
                   adding[i].seq = thread[t].seq =>
                       Front(graph, thread[t].seq).order < adding[i].order
        BY <2>1, <3>1, <4>1 DEF ThreadBound
      <4>3. adding' = adding \/ Len(adding') = 0
        BY <1>1
      <4>4. QED
        BY <1>8, <3>1, <4>1, <4>2, <4>3
    <3>2. CASE IsFrontTaskUnblocked(graph', thread'[t].seq) /\ adding' = << >>
      BY <3>2
    <3>3. QED
      BY <2>1, <2>6, <3>1, <3>2 DEF ThreadMoved
  <2>7. QED
    BY <2>3, <2>4, <2>5, <2>6 DEF ThreadBound
<1>10. AddingBound'
  <2>1. CASE adding' = << >>
    BY <2>1 DEF AddingBound
  <2>2. CASE adding' = adding
    <3>1. ASSUME NEW i \in 1..Len(adding)
          PROVE  /\ adding[i].order = last_order'
                 /\ \E j \in 1..Len(graph'[adding[i].seq].tasks) :
                        graph'[adding[i].seq].tasks[j].order = adding[i].order
      <4>1. adding[i].seq \in Seqs
        <5>1. adding \in Seq(Additions)
          BY <1>1 DEF GpuTypes
        <5>2. adding[i] \in Additions
          BY <5>1
        <5>3. QED
          BY <5>2 DEF Additions
      <4>2. SameTasks(graph'[adding[i].seq].tasks, graph[adding[i].seq].tasks)
        BY <1>1, <4>1 DEF GraphKept
      <4>3. /\ adding[i].order = last_order
            /\ \E j \in 1..Len(graph[adding[i].seq].tasks) :
                   graph[adding[i].seq].tasks[j].order = adding[i].order
        BY <1>1 DEF AddingBound
      <4>4. QED
        BY <1>1, <4>2, <4>3 DEF SameTasks
    <3>2. QED
      BY <2>2, <3>1 DEF AddingBound
  <2>3. QED
    BY <1>1, <2>1, <2>2
<1>11. DestroyingBound'
  BY <1>1
<1>12. QED
  BY <1>2, <1>3, <1>4, <1>5, <1>6, <1>7, <1>9, <1>10, <1>11 DEF Numbered

-----------------------------------------------------------------------------
(***************************************************************************)
(* What the shared parts of the actions do                                 *)
(***************************************************************************)

LEMMA ReleaseLemma ==
    ASSUME GpuTypes, NEW t \in Threads, NEW me \in ThreadStates, me.callbacks = {},
           NEW s \in Seqs, NEW count \in Nat, NEW cause, count <= Forever,
           cause # "force" => count <= MaxTasks, Release(t, me, s, count, cause)
    PROVE  \E taken : Released(t, me, s, count, cause, taken)
<1>1. /\ client[s] \in ClientStates /\ client \in [Seqs -> ClientStates]
      /\ checks \in BOOLEAN /\ thread \in [Threads -> ThreadStates]
      /\ \A x \in Seqs : client[x].released >= client[x].released
  <2>1. client \in [Seqs -> ClientStates] /\ checks \in BOOLEAN
        /\ thread \in [Threads -> ThreadStates]
    BY DEF GpuTypes
  <2>2. \A x \in Seqs : client[x].released \in Nat
    BY <2>1, Constants DEF ClientStates
  <2>3. QED
    BY <2>1, <2>2
<1>2. CASE client[s].mapped
  <2> DEFINE c == client[s]
             taken == Taken(c, count)
             d == EnsureFenceSyncReleased(c, count, cause)
  <2>1. /\ client' = [client EXCEPT ![s] = d]
        /\ thread' = [thread EXCEPT ![t] = [me EXCEPT !.callbacks = taken]]
        /\ checks' = (checks /\ ReleaseChecks(c, count, cause))
        /\ ManagerUnlocked
    BY <1>2 DEF Release
  <2>2. c.released \in Nat /\ c.released \in 0..Forever /\ c.told \in 0..MaxTasks
        /\ c.callbacks \in SUBSET Callbacks
    BY <1>1, Constants DEF ClientStates
  <2>3. /\ Max({c.released, count}) \in {c.released, count}
        /\ Max({c.released, count}) >= c.released /\ Max({c.released, count}) >= count
    BY <2>2, MaxOfTwo
  <2>4. taken \subseteq c.callbacks /\ \A r \in taken : r.count <= count
    BY DEF Taken
  <2>5. d = [c EXCEPT !.told = IF cause = "force" THEN @ ELSE count,
                      !.released = Max({c.released, count}),
                      !.callbacks = @ \ taken]
    BY DEF EnsureFenceSyncReleased
  <2>6. \A r \in taken : r.count \in Nat
    BY <2>2, <2>4, Constants DEF Callbacks
  <2>7. \A r \in c.callbacks : r.count \in Nat
    BY <2>2, Constants DEF Callbacks
  <2>8. \A r \in c.callbacks \ taken : c.released < count => r.count > count
    BY <2>2, <2>7 DEF Taken
  <2> HIDE DEF c, d, taken
  <2>9. c \in ClientStates
    BY <1>1 DEF c
  <2>10. count \in 0..Forever /\ (cause # "force" => count \in 0..MaxTasks)
    BY Constants
  <2> DEFINE m == Max({c.released, count})
  <2> HIDE DEF m
  <2>11. m \in {c.released, count} /\ m >= c.released /\ m >= count /\ m \in 0..Forever
    BY <2>2, <2>3, <2>10 DEF m
  <2>12. /\ d.mapped = c.mapped /\ d.told = IF cause = "force" THEN c.told ELSE count
         /\ d.released = m /\ d.callbacks = c.callbacks \ taken
         /\ d \in ClientStates
    <3>1. d = [c EXCEPT !.told = IF cause = "force" THEN @ ELSE count,
                        !.released = m, !.callbacks = @ \ taken]
      BY <2>5 DEF m
    <3>2. (IF cause = "force" THEN c.told ELSE count) \in 0..MaxTasks
      BY <2>2, <2>10
    <3>3. QED
      BY <2>9, <2>11, <3>1, <3>2 DEF ClientStates
  <2>13. client' \in [Seqs -> ClientStates] /\ checks' \in BOOLEAN
         /\ \A x \in Seqs : client'[x] = IF x = s THEN d ELSE client[x]
    <3>1. client' \in [Seqs -> ClientStates]
          /\ \A x \in Seqs : client'[x] = IF x = s THEN d ELSE client[x]
      BY <1>1, <2>1, <2>12
    <3>2. checks' \in BOOLEAN
      BY <2>1
    <3>3. QED
      BY <3>1, <3>2
  <2>14. \A r \in taken : r.count <= d.released
    BY <2>2, <2>4, <2>6, <2>11, <2>12
  <2>15. \A r \in d.callbacks : c.released < d.released => r.count > d.released
    BY <2>2, <2>8, <2>11, <2>12
  <2>16. Released(t, me, s, count, cause, taken)
    BY <1>1, <1>2, <2>1, <2>4, <2>11, <2>12, <2>13, <2>14, <2>15 DEF Released, c
  <2>17. QED
    BY <2>16
<1>3. CASE ~ client[s].mapped
  <2>1. thread' = [thread EXCEPT ![t] = me] /\ client' = client /\ checks' = checks
        /\ ManagerUnlocked
    BY <1>3 DEF Release
  <2>2. [me EXCEPT !.callbacks = {}] = me
    BY DEF ThreadStates
  <2>3. Released(t, me, s, count, cause, {})
    BY <1>1, <1>3, <2>1, <2>2 DEF Released
  <2>4. QED
    BY <2>3
<1>4. QED
  BY <1>2, <1>3

LEMMA CallbackLemma ==
    ASSUME GpuTypes, NEW r \in Callbacks, NEW th \in [Threads -> ThreadStates],
           RunCallback(r, th)
    PROVE  CalledBack(r, th)
<1>1. r.seq \in Seqs /\ graph \in [Seqs -> Sequences] /\ graph[r.seq] \in Sequences
      /\ checks \in BOOLEAN
  BY DEF GpuTypes, Callbacks
<1>2. \A u \in Threads : Woken(th[u], th[u])
  BY DEF Woken, SameThread
<1>3. GraphUnlocked
  BY DEF RunCallback
<1>4. CASE graph[r.seq].map /\ FenceOf(r) \in graph[r.seq].waits
  <2> DEFINE q == [graph[r.seq] EXCEPT !.waits = @ \ {FenceOf(r)}]
  <2>1. /\ graph' = [graph EXCEPT ![r.seq] = q]
        /\ thread' = FenceGone(graph', th, r)
        /\ checks' = (/\ checks
                      /\ graph'[r.seq].tasks # << >>
                      /\ TryScheduleChecks(graph', th, r.seq))
    BY <1>4 DEF RunCallback, FenceOf
  <2>2. /\ q \in Sequences /\ q.tasks = graph[r.seq].tasks /\ q.sched = graph[r.seq].sched
        /\ q.map = graph[r.seq].map /\ q.current = graph[r.seq].current
        /\ q.enabled = graph[r.seq].enabled /\ q.running = graph[r.seq].running
        /\ q.waits = graph[r.seq].waits \ {FenceOf(r)}
    BY <1>1 DEF Sequences
  <2> HIDE DEF q
  <2>3. /\ graph' \in [Seqs -> Sequences]
        /\ \A s \in Seqs : graph'[s] = IF s = r.seq THEN q ELSE graph[s]
    BY <1>1, <2>1, <2>2
  <2>4. /\ thread' \in [Threads -> ThreadStates]
        /\ \A u \in Threads : Woken(thread'[u], th[u])
    BY <1>1, <1>2, <2>1, ScheduleLemma DEF FenceGone
  <2>5. checks' \in BOOLEAN
    BY <2>1
  <2>6. checks' = (/\ checks
                   /\ graph[r.seq].tasks # << >>
                   /\ TryScheduleChecks(graph', th, r.seq))
    BY <1>1, <2>1, <2>2, <2>3
  <2>7. QED
    BY <1>1, <1>3, <1>4, <2>1, <2>2, <2>3, <2>4, <2>5, <2>6 DEF CalledBack
<1>5. CASE ~ (graph[r.seq].map /\ FenceOf(r) \in graph[r.seq].waits)
  <2>1. graph' = graph /\ thread' = th /\ checks' = checks
    BY <1>5 DEF RunCallback, FenceOf
  <2>2. QED
    BY <1>1, <1>2, <1>3, <1>5, <2>1 DEF CalledBack
<1>6. QED
  BY <1>4, <1>5

LEMMA AddedLemma ==
    ASSUME GpuTypes, NEW s \in Seqs, NEW g \in [Seqs -> Sequences], TaskAdded(s, g)
    PROVE  Added(s, g)
<1> DEFINE q == IF Len(g[s].tasks) = 1 THEN UpdateValidationTimer(g[s]) ELSE g[s]
<1>1. /\ graph' = [g EXCEPT ![s] = q]
      /\ thread' = TryScheduleSequence(graph', thread, s)
      /\ checks' = (checks /\ TryScheduleChecks(graph', thread, s) /\ ~ order[s].destroyed)
  BY DEF TaskAdded
<1>2. SameSequence(q, g[s]) /\ \A x \in Seqs : SameSequence(g[x], g[x])
  BY TimerLemma, SameSequenceRefl
<1> HIDE DEF q
<1>3. q \in Sequences
  BY <1>2 DEF SameSequence
<1>4. /\ graph' \in [Seqs -> Sequences]
      /\ \A x \in Seqs : graph'[x] = IF x = s THEN q ELSE g[x]
  BY <1>1, <1>3
<1>5. \A x \in Seqs : SameSequence(graph'[x], g[x])
  BY <1>2, <1>4
<1>6. /\ thread' \in [Threads -> ThreadStates]
      /\ \A u \in Threads : Woken(thread'[u], thread[u])
      /\ \/ graph'[s].running
         \/ ~ HasAnyUnblockedTasksOnRunner(graph', RunnerOf[s])
         \/ thread'[RunnerOf[s]].running
  <2>1. thread \in [Threads -> ThreadStates]
    BY DEF GpuTypes
  <2>2. QED
    BY <1>1, <2>1, ScheduleLemma
<1>7. checks' \in BOOLEAN
  BY <1>1
<1>8. QED
  BY <1>1, <1>4, <1>5, <1>6, <1>7 DEF Added

-----------------------------------------------------------------------------
(***************************************************************************)
(* The actions that keep the order numbers                                 *)
(***************************************************************************)
LEMMA GraphSame == GpuTypes /\ graph' = graph => GraphKept
BY DEF GraphKept, SameTasks

LEMMA OrderSame == order' = order => OrderKept
BY DEF OrderKept

LEMMA ToldSame == client' = client => ToldKept
BY DEF ToldKept

LEMMA ThreadSame ==
    ASSUME NEW t \in Threads, Woken(thread'[t], thread[t])
    PROVE  ThreadMoved(t)
BY DEF ThreadMoved, Woken, SameThread

LEMMA ThreadStays ==
    ASSUME NEW t \in Threads, thread'[t] = thread[t]
    PROVE  ThreadMoved(t)
BY DEF ThreadMoved

LEMMA DestroyingSame ==
    GpuTypes /\ DestroyingBound /\ destroying' = destroying /\ GraphKept => DestroyingBound'
<1> SUFFICES ASSUME GpuTypes, DestroyingBound, destroying' = destroying, GraphKept,
                    NEW i \in 1..Len(destroying), destroying[i].pc \notin {"only", "end"}
             PROVE  ~ graph'[destroying[i].seq].sched
  BY DEF DestroyingBound
<1>1. destroying[i].seq \in Seqs
  <2>1. destroying \in Seq(Destructions)
    BY DEF GpuTypes
  <2>2. destroying[i] \in Destructions
    BY <2>1
  <2>3. QED
    BY <2>2 DEF Destructions
<1>2. QED
  BY <1>1 DEF DestroyingBound, GraphKept

\* Where a thread is in its work.
LEMMA NowLemma ==
    ASSUME GpuSound, NEW t \in Threads, NEW pc, Now(t, pc)
    PROVE  /\ thread[t] \in ThreadStates /\ thread \in [Threads -> ThreadStates]
           /\ thread[t].pc = pc /\ thread[t].callbacks = {}
           /\ pc \notin {"idle", "force"} => /\ thread[t].seq \in Seqs
                                             /\ RunnerOf[thread[t].seq] = t
BY DEF Now, GpuSound, GpuTypes, Numbered, ThreadBound

LEMMA RunNextTaskKeeps ==
    ASSUME GpuSound, NEW t \in Threads, RunNextTask(t)
    PROVE  GpuTypes' /\ NumbersKept
<1> DEFINE found == FindNextTask(t)
           me == thread[t]
           new == [me EXCEPT !.posted = FALSE, !.running = found # {},
                             !.pc = IF found = {} THEN @ ELSE "chosen",
                             !.seq = IF found = {} THEN @ ELSE Min(found)]
<1>1. /\ me \in ThreadStates /\ me.pc = "idle" /\ thread \in [Threads -> ThreadStates]
      /\ GpuTypes /\ DestroyingBound /\ graph \in [Seqs -> Sequences]
  <2>1. Now(t, "idle")
    BY DEF RunNextTask
  <2>2. QED
    BY <2>1, NowLemma DEF GpuSound, GpuTypes, Numbered
<1>2. /\ thread' = [thread EXCEPT ![t] = new] /\ adding = << >>
      /\ UNCHANGED <<graph_validation, order, client, graph, adding, destroying,
                     last_order, checks, used>>
  BY DEF RunNextTask, GraphUnlocked
<1>3. found # {} => Min(found) \in Candidates(t)
  BY <1>1, FindNextType
<1> HIDE DEF found
<1>4. found # {} => Min(found) \in Seqs /\ RunnerOf[Min(found)] = t
                    /\ IsFrontTaskUnblocked(graph, Min(found))
  BY <1>3 DEF Candidates
<1>5. /\ new \in ThreadStates /\ new.release = me.release /\ new.order = me.order
      /\ found = {} => new.pc = me.pc /\ new.seq = me.seq
      /\ found # {} => new.pc = "chosen" /\ new.seq = Min(found)
  BY <1>1, <1>4 DEF ThreadStates, Pcs
<1> HIDE DEF new
<1>6. thread' \in [Threads -> ThreadStates]
      /\ \A u \in Threads : thread'[u] = IF u = t THEN new ELSE thread[u]
  BY <1>1, <1>2, <1>5
<1>7. GpuTypes'
  BY <1>1, <1>2, <1>6 DEF GpuTypes
<1>8. ThreadMoved(t)
  BY <1>1, <1>2, <1>4, <1>5, <1>6 DEF ThreadMoved
<1>9. \A u \in Threads : ThreadMoved(u)
  BY <1>6, <1>8, ThreadStays
<1>10. GraphKept /\ OrderKept /\ ToldKept /\ DestroyingBound'
  BY <1>1, <1>2, GraphSame, OrderSame, ToldSame, DestroyingSame
<1>11. QED
  BY <1>2, <1>7, <1>9, <1>10 DEF NumbersKept

LEMMA SetEnabledKeeps ==
    ASSUME GpuSound, NEW s \in Seqs, NEW enabled \in BOOLEAN, SetEnabled(s, enabled),
           used' \in 0..MaxExtras
    PROVE  GpuTypes' /\ NumbersKept
<1> DEFINE q == [graph[s] EXCEPT !.enabled = enabled]
<1>1. /\ GpuTypes /\ DestroyingBound /\ graph \in [Seqs -> Sequences] /\ graph[s] \in Sequences
      /\ thread \in [Threads -> ThreadStates]
  BY DEF GpuSound, GpuTypes, Numbered
<1>2. /\ graph' = [graph EXCEPT ![s] = q]
      /\ thread' = TryScheduleSequence(graph', thread, s)
      /\ checks' = (checks /\ TryScheduleChecks(graph', thread, s))
      /\ UNCHANGED <<graph_validation, order, client, adding, destroying, last_order>>
  BY DEF SetEnabled
<1>3. /\ q \in Sequences /\ q.tasks = graph[s].tasks /\ q.sched = graph[s].sched
      /\ q.waits = graph[s].waits /\ q.current = graph[s].current
  BY <1>1 DEF Sequences
<1> HIDE DEF q
<1>4. graph' \in [Seqs -> Sequences]
      /\ \A x \in Seqs : graph'[x] = IF x = s THEN q ELSE graph[x]
  BY <1>1, <1>2, <1>3
<1>5. GraphKept
  BY <1>3, <1>4 DEF GraphKept, SameTasks
<1>6. /\ thread' \in [Threads -> ThreadStates]
      /\ \A u \in Threads : Woken(thread'[u], thread[u])
  BY <1>1, <1>2, ScheduleLemma
<1>7. \A u \in Threads : ThreadMoved(u)
  BY <1>6, ThreadSame
<1>8. GpuTypes'
  BY <1>1, <1>2, <1>4, <1>6 DEF GpuTypes
<1>9. OrderKept /\ ToldKept /\ DestroyingBound'
  BY <1>1, <1>2, <1>5, OrderSame, ToldSame, DestroyingSame
<1>10. QED
  BY <1>2, <1>5, <1>7, <1>8, <1>9 DEF NumbersKept

LEMMA ReleasingLemma ==
    ASSUME GpuSound, NEW t \in Threads, Releasing(t)
    PROVE  \E me, s, count, cause, taken : ReleaseStep(t, me, s, count, cause, taken)
<1>1. GpuTypes /\ used \in 0..MaxExtras /\ MaxExtras \in Nat /\ MaxTasks <= Forever
      /\ MaxCount <= Forever /\ MaxTasks \in Nat /\ MaxCount \in Nat
  BY Constants DEF GpuSound, GpuTypes
<1>2. CASE TaskReleases(t)
  <2>1. /\ Now(t, "task") /\ MayDoExtra
        /\ client[thread[t].seq].told < thread[t].release
        /\ Release(t, thread[t], thread[t].seq, thread[t].release, "explicit")
        /\ UNCHANGED <<graph_validation, order, graph, adding, destroying, last_order>>
    BY <1>2 DEF TaskReleases
  <2>2. /\ thread[t] \in ThreadStates /\ thread[t].seq \in Seqs
        /\ thread[t].callbacks = {} /\ thread[t].pc = "task"
    BY <2>1, NowLemma
  <2>3. thread[t].release \in Nat /\ thread[t].release <= MaxTasks
        /\ thread[t].release <= Forever
    BY <1>1, <2>2, Constants DEF ThreadStates
  <2>4. PICK taken : Released(t, thread[t], thread[t].seq, thread[t].release, "explicit", taken)
    BY <1>1, <2>1, <2>2, <2>3, ReleaseLemma
  <2>5. used' \in 0..MaxExtras
    BY <1>1, <2>1 DEF MayDoExtra
  <2>6. ReleaseStep(t, thread[t], thread[t].seq, thread[t].release, "explicit", taken)
    BY <2>1, <2>2, <2>3, <2>4, <2>5 DEF ReleaseStep
  <2>7. QED
    BY <2>6
<1>3. CASE TaskReturns(t) /\ IsProcessingOrderNumber(order[thread[t].seq])
  <2> DEFINE me == [thread[t] EXCEPT !.pc = "processed"]
  <2>1. /\ Now(t, "task")
        /\ Release(t, me, thread[t].seq, thread[t].release, "completion")
        /\ UNCHANGED <<graph_validation, order, graph, adding, destroying, last_order, used>>
    BY <1>3 DEF TaskReturns
  <2>2. /\ thread[t] \in ThreadStates /\ thread[t].seq \in Seqs
        /\ thread[t].callbacks = {} /\ thread[t].pc = "task"
    BY <2>1, NowLemma
  <2>3. thread[t].release \in Nat /\ thread[t].release <= MaxTasks
        /\ thread[t].release <= Forever
    BY <1>1, <2>2, Constants DEF ThreadStates
  <2>4. /\ me \in ThreadStates /\ me.callbacks = {} /\ me.pc = "processed"
        /\ me.seq = thread[t].seq /\ me.order = thread[t].order
        /\ me.release = thread[t].release /\ me.fences = thread[t].fences
        /\ me.running = thread[t].running /\ me.posted = thread[t].posted
    BY <2>2 DEF ThreadStates, Pcs, Executing
  <2> HIDE DEF me
  <2>5. PICK taken : Released(t, me, thread[t].seq, thread[t].release, "completion", taken)
    BY <1>1, <2>1, <2>2, <2>3, <2>4, ReleaseLemma
  <2>6. ReleaseStep(t, me, thread[t].seq, thread[t].release, "completion", taken)
    BY <1>1, <1>3, <2>1, <2>2, <2>3, <2>4, <2>5 DEF ReleaseStep
  <2>7. QED
    BY <2>6
<1>4. CASE ForceRelease(t)
  <2>1. Now(t, "force")
    BY <1>4 DEF ForceRelease
  <2>2. thread[t] \in ThreadStates /\ thread[t].callbacks = {} /\ thread[t].pc = "force"
    BY <2>1, NowLemma
  <2>3. PICK k \in thread[t].force :
            Release(t, [thread[t] EXCEPT !.force = thread[t].force \ {k},
                                         !.pc = IF thread[t].force \ {k} = {} THEN "idle" ELSE @],
                    k.client, k.count, "force")
    BY <1>4 DEF ForceRelease
  <2> DEFINE me == [thread[t] EXCEPT !.force = thread[t].force \ {k},
                                     !.pc = IF thread[t].force \ {k} = {} THEN "idle" ELSE @]
  <2>4. k.client \in Seqs /\ k.count \in 1..MaxCount
    BY <2>2 DEF ThreadStates
  <2>5. k.count \in Nat /\ k.count <= MaxCount /\ k.count <= Forever
    BY <1>1, <2>4, Constants
  <2>6. /\ me \in ThreadStates /\ me.callbacks = {} /\ me.pc \in {"idle", "force"}
        /\ me.seq = thread[t].seq /\ me.order = thread[t].order
        /\ me.release = thread[t].release /\ me.fences = thread[t].fences
        /\ me.running = thread[t].running /\ me.posted = thread[t].posted
    BY <2>2 DEF ThreadStates, Pcs
  <2>7. UNCHANGED <<graph_validation, order, graph, adding, destroying, last_order, used>>
    BY <1>4 DEF ForceRelease
  <2> HIDE DEF me
  <2>8. Release(t, me, k.client, k.count, "force")
    BY <2>3 DEF me
  <2>9. PICK taken : Released(t, me, k.client, k.count, "force", taken)
    BY <1>1, <2>4, <2>5, <2>6, <2>8, ReleaseLemma
  <2>10. ReleaseStep(t, me, k.client, k.count, "force", taken)
    BY <1>1, <2>2, <2>4, <2>5, <2>6, <2>7, <2>9 DEF ReleaseStep
  <2>11. QED
    BY <2>10
<1>5. QED
  BY <1>2, <1>3, <1>4 DEF Releasing

LEMMA ReleaseKeeps ==
    ASSUME GpuSound, NEW t \in Threads, NEW me, NEW s, NEW count, NEW cause, NEW taken,
           ReleaseStep(t, me, s, count, cause, taken)
    PROVE  GpuTypes' /\ NumbersKept
<1> USE DEF ReleaseStep
<1> DEFINE new == [me EXCEPT !.callbacks = taken]
<1>1. /\ GpuTypes /\ DestroyingBound /\ thread \in [Threads -> ThreadStates]
      /\ client[s] \in ClientStates
  BY DEF GpuSound, GpuTypes, Numbered
<1>2. /\ client' \in [Seqs -> ClientStates] /\ checks' \in BOOLEAN
      /\ taken \subseteq client[s].callbacks
      /\ thread' = [thread EXCEPT ![t] = new]
  BY DEF Released
<1>3. new \in ThreadStates /\ new.release = me.release /\ new.order = me.order
      /\ new.pc = me.pc /\ new.seq = me.seq
  BY <1>1, <1>2 DEF ThreadStates, ClientStates
<1> HIDE DEF new
<1>4. thread' \in [Threads -> ThreadStates]
      /\ \A u \in Threads : thread'[u] = IF u = t THEN new ELSE thread[u]
  BY <1>1, <1>2, <1>3
<1>5. GpuTypes'
  BY <1>1, <1>2, <1>4 DEF GpuTypes
<1>6. ThreadMoved(t)
  BY <1>3, <1>4 DEF ThreadMoved
<1>7. \A u \in Threads : ThreadMoved(u)
  BY <1>4, <1>6, ThreadStays
<1>8. ToldKept
  <2>1. ASSUME NEW x \in Seqs
        PROVE  \/ client'[x].told = client[x].told
               \/ client'[x].told = thread[t].release
    BY DEF Released
  <2>2. QED
    BY <2>1 DEF ToldKept
<1>9. GraphKept /\ OrderKept /\ DestroyingBound'
  BY <1>1, GraphSame, OrderSame, DestroyingSame
<1>10. QED
  BY <1>5, <1>7, <1>8, <1>9 DEF NumbersKept

LEMMA ThreadStepKeeps ==
    ASSUME GpuSound, NEW t \in Threads, NEW new, ThreadStep(t, new), checks' \in BOOLEAN,
           ThreadMoved(t)
    PROVE  /\ GpuTypes' /\ NumbersKept
           /\ \A u \in Threads : thread'[u] = IF u = t THEN new ELSE thread[u]
<1>1. GpuTypes /\ DestroyingBound /\ thread \in [Threads -> ThreadStates]
  BY DEF GpuSound, GpuTypes, Numbered
<1>2. thread' \in [Threads -> ThreadStates]
      /\ \A u \in Threads : thread'[u] = IF u = t THEN new ELSE thread[u]
  BY <1>1 DEF ThreadStep
<1>3. GpuTypes'
  BY <1>1, <1>2 DEF GpuTypes, ThreadStep
<1>4. \A u \in Threads : ThreadMoved(u)
  BY <1>2, ThreadStays
<1>5. GraphKept /\ OrderKept /\ ToldKept /\ DestroyingBound'
  BY <1>1, GraphSame, OrderSame, DestroyingSame DEF ThreadStep, ToldKept
<1>6. QED
  BY <1>2, <1>3, <1>4, <1>5 DEF NumbersKept, ThreadStep

\* The task has been continued, and returns.
LEMMA ReturnsKeeps ==
    ASSUME GpuSound, NEW t \in Threads, TaskReturns(t),
           ~ IsProcessingOrderNumber(order[thread[t].seq])
    PROVE  /\ GpuTypes' /\ NumbersKept
           /\ ThreadStep(t, [thread[t] EXCEPT !.pc = "finish"])
           /\ thread[t].pc = "task" /\ UNCHANGED <<client, checks>>
<1> DEFINE new == [thread[t] EXCEPT !.pc = "finish"]
<1>1. /\ Now(t, "task")
      /\ thread' = [thread EXCEPT ![t] = new]
      /\ UNCHANGED <<client, checks>>
      /\ UNCHANGED <<graph_validation, order, graph, adding, destroying, last_order, used>>
  BY DEF TaskReturns
<1>2. /\ thread[t] \in ThreadStates /\ thread \in [Threads -> ThreadStates]
      /\ thread[t].pc = "task"
  BY <1>1, NowLemma
<1>3. new \in ThreadStates /\ new.pc = "finish" /\ new.seq = thread[t].seq
      /\ new.release = thread[t].release
  BY <1>2 DEF ThreadStates, Pcs, Executing
<1> HIDE DEF new
<1>4. client \in [Seqs -> ClientStates] /\ checks \in BOOLEAN
  BY DEF GpuSound, GpuTypes
<1>5. ThreadStep(t, new)
  BY <1>1, <1>3, <1>4 DEF ThreadStep
<1>6. thread'[t] = new
  BY <1>1, <1>2
<1>7. ThreadMoved(t)
  BY <1>2, <1>3, <1>6 DEF ThreadMoved
<1>8. QED
  BY <1>1, <1>2, <1>4, <1>5, <1>7, ThreadStepKeeps DEF new

LEMMA EnsureWaitKeeps ==
    ASSUME GpuSound, NEW t \in Threads, EnsureWaitReleased(t)
    PROVE  /\ GpuTypes' /\ NumbersKept
           /\ \E new, f, ended : WaitEnded(t, new, f, ended)
<1>1. /\ Now(t, "overdue")
      /\ UNCHANGED <<graph_validation, order, graph, adding, destroying, last_order,
                     checks, used>>
  BY DEF EnsureWaitReleased
<1>2. /\ thread[t] \in ThreadStates /\ thread \in [Threads -> ThreadStates]
      /\ thread[t].pc = "overdue" /\ thread[t].callbacks = {}
  BY <1>1, NowLemma
<1>3. PICK f \in Earliest(thread[t].fences) :
          /\ ~ FenceLocked(f.client)
          /\ client' = [client EXCEPT ![f.client].callbacks = @ \ Ended(client[f.client], f)]
          /\ thread' = [thread EXCEPT ![t].fences = thread[t].fences \ {f},
                                      ![t].callbacks = Ended(client[f.client], f),
                                      ![t].pc = IF thread[t].fences \ {f} = {} THEN "finish"
                                                ELSE @]
  BY DEF EnsureWaitReleased
<1>4. f \in thread[t].fences /\ f \in OrderFences /\ f.client \in Seqs
  BY <1>2 DEF Earliest, ThreadStates, OrderFences
<1> DEFINE ended == Ended(client[f.client], f)
           c == [client[f.client] EXCEPT !.callbacks = @ \ ended]
           new == [thread[t] EXCEPT !.fences = @ \ {f}, !.callbacks = ended,
                                    !.pc = IF thread[t].fences \ {f} = {} THEN "finish" ELSE @]
<1>5. client \in [Seqs -> ClientStates] /\ client[f.client] \in ClientStates
      /\ checks \in BOOLEAN
  BY <1>4 DEF GpuSound, GpuTypes
<1>6. ended \subseteq client[f.client].callbacks /\ \A r \in ended : r.id = f.id
  BY DEF Ended
<1>7. client' = [client EXCEPT ![f.client] = c] /\ thread' = [thread EXCEPT ![t] = new]
  BY <1>3
<1> HIDE DEF ended
<1>8. ended \in SUBSET Callbacks
  BY <1>5, <1>6 DEF ClientStates
<1>9. /\ c \in ClientStates /\ c.callbacks = client[f.client].callbacks \ ended
      /\ c.mapped = client[f.client].mapped /\ c.released = client[f.client].released
      /\ c.told = client[f.client].told
  BY <1>5, <1>8 DEF ClientStates
<1>10. /\ new \in ThreadStates /\ new.pc \in {"overdue", "finish"} /\ new.callbacks = ended
       /\ new.fences \subseteq thread[t].fences
       /\ new.seq = thread[t].seq /\ new.order = thread[t].order
       /\ new.release = thread[t].release
       /\ new.running = thread[t].running /\ new.posted = thread[t].posted
  BY <1>2, <1>8 DEF ThreadStates, Pcs, Executing
<1> HIDE DEF c, new
<1>11. client' \in [Seqs -> ClientStates]
       /\ \A x \in Seqs : client'[x] = IF x = f.client THEN c ELSE client[x]
  BY <1>4, <1>5, <1>7, <1>9
<1>12. thread'[t] = new
  BY <1>2, <1>7
<1>13. ThreadStep(t, new)
  BY <1>1, <1>7, <1>9, <1>10, <1>11 DEF ThreadStep
<1>14. ThreadMoved(t)
  BY <1>2, <1>10, <1>12 DEF ThreadMoved
<1>15. WaitEnded(t, new, f, ended)
  BY <1>1, <1>2, <1>3, <1>4, <1>6, <1>9, <1>10, <1>11, <1>13 DEF WaitEnded
<1>16. GpuTypes' /\ NumbersKept
  BY <1>1, <1>5, <1>13, <1>14, ThreadStepKeeps
<1>17. QED
  BY <1>15, <1>16

LEMMA RunAgainKeeps ==
    ASSUME GpuSound, NEW t \in Threads, RunAgain(t)
    PROVE  /\ GpuTypes' /\ NumbersKept
           /\ ThreadStep(t, [NewThread EXCEPT !.running = HasAnyUnblockedTasksOnRunner(graph, t),
                                              !.posted = HasAnyUnblockedTasksOnRunner(graph, t)])
           /\ thread[t].pc = "again" /\ thread[t].callbacks = {} /\ adding = << >>
           /\ UNCHANGED <<client, checks>>
<1> DEFINE more == HasAnyUnblockedTasksOnRunner(graph, t)
           new == [NewThread EXCEPT !.running = more, !.posted = more]
<1>1. /\ Now(t, "again") /\ adding = << >> /\ thread' = [thread EXCEPT ![t] = new]
      /\ UNCHANGED <<graph_validation, order, client, graph, adding, destroying,
                     last_order, checks, used>>
  BY DEF RunAgain, GraphUnlocked
<1>2. /\ thread[t] \in ThreadStates /\ thread \in [Threads -> ThreadStates]
      /\ thread[t].pc = "again" /\ thread[t].callbacks = {}
  BY <1>1, NowLemma
<1>3. more \in BOOLEAN
  BY DEF HasAnyUnblockedTasksOnRunner
<1> HIDE DEF more
<1>4. new \in ThreadStates /\ new.pc = "idle" /\ new.release = 0
  <2>1. 0 \in 0..MaxTasks /\ 0 \in Seqs \cup {0}
    BY Constants
  <2>2. NewThread \in ThreadStates /\ NewThread.pc = "idle" /\ NewThread.release = 0
    BY <2>1 DEF ThreadStates, Pcs, NewThread
  <2>3. QED
    BY <1>3, <2>2 DEF ThreadStates
<1> HIDE DEF new
<1>5. client \in [Seqs -> ClientStates] /\ checks \in BOOLEAN
  BY DEF GpuSound, GpuTypes
<1>6. ThreadStep(t, new)
  BY <1>1, <1>4, <1>5 DEF ThreadStep
<1>7. thread'[t] = new
  BY <1>1, <1>2
<1>8. ThreadMoved(t)
  BY <1>2, <1>4, <1>7 DEF ThreadMoved
<1>9. GpuTypes' /\ NumbersKept
  BY <1>1, <1>5, <1>6, <1>8, ThreadStepKeeps
<1>10. QED
  BY <1>1, <1>2, <1>6, <1>9 DEF new, more

LEMMA CallbackKeeps ==
    ASSUME GpuSound, NEW r \in Callbacks, NEW th \in [Threads -> ThreadStates],
           CalledBack(r, th),
           \A u \in Threads : /\ th[u].pc = thread[u].pc /\ th[u].seq = thread[u].seq
                              /\ th[u].order = thread[u].order
                              /\ th[u].release = thread[u].release,
           destroying' \in Seq(Destructions) /\ Len(destroying') <= 1, DestroyingBound',
           UNCHANGED <<graph_validation, order, client, adding, last_order, used>>
    PROVE  GpuTypes' /\ NumbersKept
<1>1. GpuTypes
  BY DEF GpuSound
<1>2. GpuTypes'
  BY <1>1 DEF GpuTypes, CalledBack
<1>3. GraphKept
  BY DEF GraphKept, SameTasks, CalledBack
<1>4. ASSUME NEW u \in Threads PROVE ThreadMoved(u)
  BY DEF ThreadMoved, CalledBack, Woken, SameThread
<1>5. QED
  BY <1>2, <1>3, <1>4, OrderSame, ToldSame DEF NumbersKept

LEMMA ThreadCallbackKeeps ==
    ASSUME GpuSound, NEW t \in Threads, ThreadCallback(t)
    PROVE  /\ GpuTypes' /\ NumbersKept
           /\ \E r : ThreadCalled(t, r)
<1>1. PICK r \in Lowest(thread[t].callbacks) :
          RunCallback(r, [thread EXCEPT ![t].callbacks = @ \ {r}])
  BY DEF ThreadCallback
<1>2. GpuTypes /\ DestroyingBound /\ thread \in [Threads -> ThreadStates]
      /\ thread[t] \in ThreadStates
  BY DEF GpuSound, GpuTypes, Numbered
<1>3. r \in thread[t].callbacks /\ r \in Callbacks
  BY <1>1, <1>2 DEF Lowest, ThreadStates
<1> DEFINE me == [thread[t] EXCEPT !.callbacks = @ \ {r}]
           th == [thread EXCEPT ![t].callbacks = @ \ {r}]
<1>4. th = [thread EXCEPT ![t] = me]
  OBVIOUS
<1>5. /\ me \in ThreadStates /\ me.pc = thread[t].pc /\ me.seq = thread[t].seq
      /\ me.order = thread[t].order /\ me.release = thread[t].release
  BY <1>2 DEF ThreadStates
<1> HIDE DEF me, th
<1>6. /\ th \in [Threads -> ThreadStates]
      /\ \A u \in Threads : th[u] = IF u = t THEN me ELSE thread[u]
  BY <1>2, <1>4, <1>5
<1>7. CalledBack(r, th)
  BY <1>1, <1>2, <1>3, <1>6, CallbackLemma DEF th
<1>8. UNCHANGED <<graph_validation, order, client, adding, destroying, last_order, used>>
  BY DEF ThreadCallback
<1>9. GraphKept
  BY <1>7 DEF GraphKept, SameTasks, CalledBack
<1>10. destroying \in Seq(Destructions) /\ Len(destroying) <= 1
  BY <1>2 DEF GpuTypes
<1>11. GpuTypes' /\ NumbersKept
  BY <1>2, <1>3, <1>5, <1>6, <1>7, <1>8, <1>9, <1>10, CallbackKeeps, DestroyingSame
<1>12. ThreadCalled(t, r)
  BY <1>3, <1>7, <1>8 DEF ThreadCalled, th
<1>13. QED
  BY <1>11, <1>12

LEMMA FinishTaskKeeps ==
    ASSUME GpuSound, NEW t \in Threads, FinishTask(t)
    PROVE  GpuTypes' /\ NumbersKept /\ TaskFinished(t)
<1> DEFINE s == thread[t].seq
           base == [graph[s] EXCEPT !.running = FALSE, !.current = 0]
           q == UpdateValidationTimer(base)
           new == [thread[t] EXCEPT !.pc = "again"]
<1>1. /\ Now(t, "finish") /\ adding = << >>
      /\ graph' = IF ~ graph[s].sched THEN graph ELSE [graph EXCEPT ![s] = q]
      /\ checks' = (checks /\ (graph[s].sched => graph[s].running))
      /\ thread' = [thread EXCEPT ![t] = new]
      /\ thread' = [thread EXCEPT ![t].pc = "again"]
      /\ UNCHANGED <<graph_validation, order, client, adding, destroying, last_order, used>>
  BY DEF FinishTask, GraphUnlocked
<1>2. /\ thread[t] \in ThreadStates /\ thread \in [Threads -> ThreadStates]
      /\ thread[t].pc = "finish" /\ thread[t].callbacks = {} /\ s \in Seqs /\ RunnerOf[s] = t
  BY <1>1, NowLemma
<1>3. /\ new \in ThreadStates /\ new.pc = "again" /\ new.seq = s
      /\ new.release = thread[t].release /\ new.callbacks = thread[t].callbacks
      /\ new.running = thread[t].running /\ new.posted = thread[t].posted
      /\ new.fences = thread[t].fences
  BY <1>2 DEF ThreadStates, Pcs
<1>4. graph \in [Seqs -> Sequences] /\ graph[s] \in Sequences /\ checks \in BOOLEAN
      /\ GpuTypes /\ DestroyingBound
  BY <1>2 DEF GpuSound, GpuTypes, Numbered
<1>5. /\ base \in Sequences /\ base.tasks = graph[s].tasks /\ base.sched = graph[s].sched
      /\ base.map = graph[s].map /\ base.waits = graph[s].waits /\ base.current = 0
      /\ base.enabled = graph[s].enabled /\ base.running = FALSE
  <2>1. 0 \in 0..MaxTasks
    BY Constants
  <2>2. base \in Sequences
    BY <1>4, <2>1 DEF Sequences
  <2>3. /\ base.tasks = graph[s].tasks /\ base.sched = graph[s].sched
        /\ base.map = graph[s].map /\ base.waits = graph[s].waits /\ base.current = 0
        /\ base.enabled = graph[s].enabled /\ base.running = FALSE
    BY <1>4 DEF Sequences
  <2>4. QED
    BY <2>2, <2>3
<1>6. SameSequence(q, base)
  <2> HIDE DEF base
  <2>1. QED
    BY <1>5, TimerLemma
<1> HIDE DEF base, q, new, s
<1>7. /\ q \in Sequences /\ SameTasks(q.tasks, graph[s].tasks) /\ q.sched = graph[s].sched
      /\ q.map = graph[s].map /\ q.waits = graph[s].waits /\ q.current = 0
      /\ q.enabled = graph[s].enabled /\ q.running = FALSE
  BY <1>5, <1>6 DEF SameSequence
<1>8. /\ graph' \in [Seqs -> Sequences]
      /\ \A x \in Seqs :
             graph'[x] = IF x = s /\ graph[s].sched THEN q ELSE graph[x]
  BY <1>1, <1>2, <1>4, <1>7
<1>9. thread' \in [Threads -> ThreadStates]
      /\ \A u \in Threads : thread'[u] = IF u = t THEN new ELSE thread[u]
  BY <1>1, <1>2, <1>3
<1>10. \A x \in Seqs :
          /\ SameTasks(graph'[x].tasks, graph[x].tasks)
          /\ graph'[x].sched = graph[x].sched /\ graph'[x].map = graph[x].map
          /\ graph'[x].waits = graph[x].waits /\ graph'[x].enabled = graph[x].enabled
          /\ x # s => graph'[x] = graph[x]
          /\ graph'[x].current \in {graph[x].current, 0}
  <2>1. \A x \in Seqs : SameTasks(graph[x].tasks, graph[x].tasks)
    BY DEF SameTasks
  <2>2. QED
    BY <1>7, <1>8, <2>1
<1>11. GraphKept
  BY <1>10 DEF GraphKept
<1>12. ThreadMoved(t)
  BY <1>2, <1>3, <1>9 DEF ThreadMoved, s
<1>13. \A u \in Threads : ThreadMoved(u)
  BY <1>9, <1>12, ThreadStays
<1>14. checks' \in BOOLEAN
  BY <1>1
<1>15. GpuTypes'
  BY <1>1, <1>4, <1>8, <1>9, <1>14 DEF GpuTypes
<1>16. OrderKept /\ ToldKept /\ DestroyingBound'
  BY <1>1, <1>4, <1>11, OrderSame, ToldSame, DestroyingSame
<1>17. NumbersKept
  BY <1>1, <1>11, <1>13, <1>16 DEF NumbersKept
<1>18. graph[s].sched => ~ graph'[s].running
  BY <1>2, <1>7, <1>8
<1>19. TaskFinished(t)
  BY <1>1, <1>2, <1>3, <1>8, <1>9, <1>10, <1>12, <1>18 DEF TaskFinished, s
<1>20. QED
  BY <1>15, <1>17, <1>19

\* The destruction under way.
LEMMA DestroyingLemma ==
    ASSUME GpuTypes, NEW i \in 1..Len(destroying)
    PROVE  /\ i = 1 /\ Len(destroying) = 1 /\ destroying = <<destroying[1]>>
           /\ destroying[1] \in Destructions /\ destroying[1].seq \in Seqs
<1>1. destroying \in Seq(Destructions) /\ Len(destroying) <= 1
  BY DEF GpuTypes
<1>2. Len(destroying) \in Nat
  BY <1>1
<1>3. i = 1 /\ Len(destroying) = 1
  BY <1>1, <1>2
<1>4. destroying[1] \in Destructions /\ destroying = <<destroying[1]>>
  BY <1>1, <1>3
<1>5. QED
  BY <1>3, <1>4 DEF Destructions

LEMMA DestroyingPc ==
    ASSUME GpuTypes, NEW pc, Destroying(pc)
    PROVE  /\ 1 \in 1..Len(destroying) /\ destroying[1].pc = pc
           /\ Len(destroying) = 1 /\ destroying = <<destroying[1]>>
           /\ destroying[1] \in Destructions /\ Doomed \in Seqs /\ Doomed = destroying[1].seq
<1>1. PICK i \in 1..Len(destroying) : destroying[i].pc = pc
  BY DEF Destroying
<1>2. i = 1
  BY <1>1, DestroyingLemma
<1>3. QED
  BY <1>1, <1>2, DestroyingLemma DEF Doomed

LEMMA DestroyStepKeeps ==
    ASSUME GpuSound, NEW s, NEW q, NEW d, DestroyStep(s, q, d), used' \in 0..MaxExtras,
           d.pc \notin {"only", "end"} => d.seq = s /\ ~ q.sched
    PROVE  /\ GpuTypes' /\ NumbersKept
           /\ \A x \in Seqs : graph'[x] = IF x = s THEN q ELSE graph[x]
<1>1. GpuTypes /\ graph \in [Seqs -> Sequences]
  BY DEF GpuSound, GpuTypes
<1>2. /\ graph' \in [Seqs -> Sequences]
      /\ \A x \in Seqs : graph'[x] = IF x = s THEN q ELSE graph[x]
  BY <1>1 DEF DestroyStep
<1>3. /\ destroying' \in Seq(Destructions) /\ Len(destroying') = 1 /\ destroying'[1] = d
  BY DEF DestroyStep
<1>4. GpuTypes'
  BY <1>1, <1>2, <1>3 DEF GpuTypes, DestroyStep
<1>5. GraphKept
  BY <1>2 DEF GraphKept, SameTasks, DestroyStep
<1>6. DestroyingBound'
  <2>1. ASSUME NEW i \in 1..Len(destroying'), destroying'[i].pc \notin {"only", "end"}
        PROVE  ~ graph'[destroying'[i].seq].sched
    <3>1. i = 1
      BY <1>3
    <3>2. d.seq = s /\ ~ q.sched /\ s \in Seqs
      BY <1>3, <2>1, <3>1 DEF DestroyStep
    <3>3. QED
      BY <1>2, <1>3, <3>1, <3>2
  <2>2. QED
    BY <2>1 DEF DestroyingBound
<1>7. \A t \in Threads : ThreadMoved(t)
  BY ThreadStays DEF DestroyStep
<1>8. OrderKept /\ ToldKept
  BY OrderSame, ToldSame DEF DestroyStep
<1>9. QED
  BY <1>2, <1>4, <1>5, <1>6, <1>7, <1>8 DEF NumbersKept, DestroyStep

LEMMA ExtraLemma ==
    ASSUME GpuTypes, MayDoExtra
    PROVE  used' \in 0..MaxExtras
BY Constants DEF GpuTypes, MayDoExtra

LEMMA DestroySequenceKeeps ==
    ASSUME GpuSound, NEW s \in Seqs, DestroySequence(s)
    PROVE  /\ GpuTypes' /\ NumbersKept /\ graph[s].sched /\ destroying = << >>
           /\ \E q, d : /\ DestroyStep(s, q, d) /\ ~ q.sched /\ q.map = graph[s].map
                        /\ d = [seq |-> s, pc |-> "map", callbacks |-> {}]
<1> DEFINE q == [graph[s] EXCEPT !.sched = FALSE]
           d == [seq |-> s, pc |-> "map", callbacks |-> {}]
<1>1. /\ graph' = [graph EXCEPT ![s] = q] /\ destroying' = <<d>> /\ MayDoExtra
      /\ graph[s].sched /\ destroying = << >>
      /\ UNCHANGED <<graph_validation, order, client, thread, adding, last_order, checks>>
  BY DEF DestroySequence, BeginDestroy
<1>2. graph[s] \in Sequences /\ GpuTypes
  BY DEF GpuSound, GpuTypes
<1>3. /\ q \in Sequences /\ q.tasks = graph[s].tasks /\ q.waits = graph[s].waits
      /\ q.current = graph[s].current /\ q.enabled = graph[s].enabled
      /\ q.running = graph[s].running /\ ~ q.sched /\ q.map = graph[s].map
  BY <1>2 DEF Sequences
<1>4. d \in Destructions /\ d.seq = s
  BY DEF Destructions
<1>5. used' \in 0..MaxExtras
  BY <1>1, <1>2, ExtraLemma
<1> HIDE DEF q
<1>6. DestroyStep(s, q, d)
  BY <1>1, <1>3, <1>4 DEF DestroyStep
<1>7. GpuTypes' /\ NumbersKept
  BY <1>3, <1>4, <1>5, <1>6, DestroyStepKeeps
<1>8. QED
  BY <1>1, <1>3, <1>6, <1>7

LEMMA RemoveSequenceKeeps ==
    ASSUME GpuSound, RemoveSequence
    PROVE  /\ GpuTypes' /\ NumbersKept /\ Destroying("map")
           /\ \E q, d : /\ DestroyStep(Doomed, q, d) /\ ~ q.sched /\ ~ q.map
                        /\ d = [destroying[1] EXCEPT !.pc = "client"]
                        /\ d.pc = "client" /\ d.seq = Doomed
                        /\ d.callbacks = destroying[1].callbacks
<1> DEFINE q == [graph[Doomed] EXCEPT !.map = FALSE, !.timer = FALSE]
           d == [destroying[1] EXCEPT !.pc = "client"]
<1>1. /\ Destroying("map") /\ graph' = [graph EXCEPT ![Doomed] = q] /\ destroying' = <<d>>
      /\ UNCHANGED <<graph_validation, order, client, thread, adding, last_order, checks, used>>
  BY DEF RemoveSequence
<1>2. GpuTypes /\ DestroyingBound /\ used \in 0..MaxExtras
  BY DEF GpuSound, GpuTypes, Numbered
<1>3. /\ destroying[1] \in Destructions /\ destroying[1].pc = "map" /\ Doomed \in Seqs
      /\ Doomed = destroying[1].seq /\ 1 \in 1..Len(destroying)
  BY <1>1, <1>2, DestroyingPc
<1>4. ~ graph[Doomed].sched /\ graph[Doomed] \in Sequences
  BY <1>2, <1>3 DEF DestroyingBound, GpuTypes
<1>5. /\ q \in Sequences /\ q.tasks = graph[Doomed].tasks /\ q.waits = graph[Doomed].waits
      /\ q.current = graph[Doomed].current /\ q.enabled = graph[Doomed].enabled
      /\ q.running = graph[Doomed].running /\ q.sched = graph[Doomed].sched /\ ~ q.map
  BY <1>4 DEF Sequences
<1>6. d \in Destructions /\ d.seq = Doomed /\ d.pc = "client"
      /\ d.callbacks = destroying[1].callbacks
  BY <1>3 DEF Destructions
<1> HIDE DEF q, d
<1>7. DestroyStep(Doomed, q, d)
  BY <1>1, <1>3, <1>5, <1>6 DEF DestroyStep
<1>8. GpuTypes' /\ NumbersKept
  BY <1>1, <1>2, <1>4, <1>5, <1>6, <1>7, DestroyStepKeeps
<1>9. QED
  BY <1>1, <1>4, <1>5, <1>6, <1>7, <1>8 DEF d

LEMMA DestroyClientOnlyKeeps ==
    ASSUME GpuSound, NEW s \in Seqs, DestroyClientOnly(s)
    PROVE  /\ GpuTypes' /\ NumbersKept /\ destroying = << >>
           /\ \E d : /\ DestroyStep(s, graph[s], d)
                     /\ d = [seq |-> s, pc |-> "only", callbacks |-> {}]
<1> DEFINE d == [seq |-> s, pc |-> "only", callbacks |-> {}]
<1>1. /\ graph' = graph /\ destroying' = <<d>> /\ MayDoExtra /\ destroying = << >>
      /\ UNCHANGED <<graph_validation, order, client, thread, adding, last_order, checks>>
  BY DEF DestroyClientOnly, BeginDestroy
<1>2. graph[s] \in Sequences /\ GpuTypes /\ graph \in [Seqs -> Sequences]
  BY DEF GpuSound, GpuTypes
<1>3. d \in Destructions /\ d.pc = "only"
  BY DEF Destructions
<1>4. used' \in 0..MaxExtras
  BY <1>1, <1>2, ExtraLemma
<1>5. DestroyStep(s, graph[s], d)
  BY <1>1, <1>2, <1>3 DEF DestroyStep
<1>6. GpuTypes' /\ NumbersKept
  BY <1>3, <1>4, <1>5, DestroyStepKeeps
<1>7. QED
  BY <1>1, <1>5, <1>6

LEMMA DestroyClientKeeps ==
    ASSUME GpuSound, DestroyClient
    PROVE  /\ GpuTypes' /\ NumbersKept
           /\ \E d : ClientGone(d)
<1> DEFINE e == destroying[1]
           c == client[e.seq]
           k == DestroyClientState(c)
           d == [e EXCEPT !.pc = IF e.pc = "only" THEN "end" ELSE "order",
                          !.callbacks = Returned(c)]
<1>1. /\ Destroying("client") \/ Destroying("only")
      /\ client' = [client EXCEPT ![e.seq] = k] /\ destroying' = <<d>> /\ ManagerUnlocked
      /\ UNCHANGED <<graph_validation, order, graph, thread, adding, last_order, checks, used>>
  BY DEF DestroyClient
<1>2. GpuTypes /\ DestroyingBound /\ client \in [Seqs -> ClientStates]
  BY DEF GpuSound, GpuTypes, Numbered
<1>3. /\ e \in Destructions /\ e.pc \in {"client", "only"} /\ e.seq \in Seqs
      /\ Len(destroying) = 1 /\ 1 \in 1..Len(destroying)
  BY <1>1, <1>2, DestroyingPc DEF Doomed
<1>4. /\ c \in ClientStates /\ Returned(c) = c.callbacks /\ c.callbacks \in SUBSET Callbacks
  BY <1>2, <1>3 DEF ClientStates, Returned
<1>5. /\ d \in Destructions /\ d.seq = e.seq /\ d.callbacks = c.callbacks
      /\ e.pc = "only" => d.pc = "end"
      /\ e.pc = "client" => d.pc = "order"
  BY <1>3, <1>4 DEF Destructions
<1>6. /\ k \in ClientStates /\ ~ k.mapped /\ k.released = Forever /\ k.told = c.told
      /\ k.callbacks = {}
  <2>1. Forever \in 0..Forever
    BY Constants
  <2>2. QED
    BY <1>4, <2>1 DEF DestroyClientState, ClientStates
<1> HIDE DEF k, d
<1>7. /\ client' \in [Seqs -> ClientStates]
      /\ \A x \in Seqs : client'[x] = IF x = e.seq THEN k ELSE client[x]
  BY <1>1, <1>2, <1>3, <1>6
<1>8. destroying' \in Seq(Destructions) /\ Len(destroying') = 1 /\ destroying'[1] = d
  BY <1>1, <1>5
<1>9. GpuTypes'
  BY <1>1, <1>2, <1>7, <1>8 DEF GpuTypes
<1>10. ToldKept
  BY <1>6, <1>7 DEF ToldKept
<1>11. DestroyingBound'
  <2>1. ASSUME NEW i \in 1..Len(destroying'), destroying'[i].pc \notin {"only", "end"}
        PROVE  ~ graph'[destroying'[i].seq].sched
    <3>1. i = 1
      BY <1>8
    <3>2. e.pc = "client"
      BY <1>3, <1>5, <1>8, <2>1, <3>1
    <3>3. QED
      BY <1>1, <1>2, <1>3, <1>5, <1>8, <3>1, <3>2 DEF DestroyingBound
  <2>2. QED
    BY <2>1 DEF DestroyingBound
<1>12. \A t \in Threads : ThreadMoved(t)
  BY <1>1, ThreadStays
<1>13. NumbersKept
  BY <1>1, <1>2, <1>10, <1>11, <1>12, GraphSame, OrderSame DEF NumbersKept
<1>14. ClientGone(d)
  BY <1>1, <1>3, <1>5, <1>6, <1>7 DEF ClientGone
<1>15. QED
  BY <1>9, <1>13, <1>14

LEMMA DestroyCallbackKeeps ==
    ASSUME GpuSound, DestroyCallback
    PROVE  /\ GpuTypes' /\ NumbersKept
           /\ \E d, r : DestroyCalled(d, r)
<1>1. PICK i \in 1..Len(destroying) : \E r \in Lowest(destroying[i].callbacks) :
           /\ RunCallback(r, thread)
           /\ destroying' = <<[destroying[i] EXCEPT !.callbacks = @ \ {r}]>>
  BY DEF DestroyCallback
<1>2. GpuTypes /\ DestroyingBound /\ thread \in [Threads -> ThreadStates]
  BY DEF GpuSound, GpuTypes, Numbered
<1>3. i = 1 /\ Len(destroying) = 1 /\ destroying[1] \in Destructions
      /\ destroying[1].seq \in Seqs
  BY <1>2, DestroyingLemma
<1>4. PICK r \in Lowest(destroying[1].callbacks) :
           /\ RunCallback(r, thread)
           /\ destroying' = <<[destroying[1] EXCEPT !.callbacks = @ \ {r}]>>
  BY <1>1, <1>3
<1>5. r \in destroying[1].callbacks /\ r \in Callbacks
  BY <1>3, <1>4 DEF Lowest, Destructions
<1> DEFINE d == [destroying[1] EXCEPT !.callbacks = @ \ {r}]
<1>6. /\ d \in Destructions /\ d.seq = destroying[1].seq /\ d.pc = destroying[1].pc
      /\ d.callbacks = destroying[1].callbacks \ {r}
  BY <1>3 DEF Destructions
<1> HIDE DEF d
<1>7. CalledBack(r, thread)
  BY <1>2, <1>4, <1>5, CallbackLemma
<1>8. UNCHANGED <<graph_validation, order, client, adding, last_order, used>>
  BY DEF DestroyCallback
<1>9. destroying' = <<d>>
  BY <1>4 DEF d
<1>10. destroying' \in Seq(Destructions) /\ Len(destroying') = 1 /\ destroying'[1] = d
  BY <1>6, <1>9
<1>11. DestroyingBound'
  <2>1. ASSUME NEW j \in 1..Len(destroying'), destroying'[j].pc \notin {"only", "end"}
        PROVE  ~ graph'[destroying'[j].seq].sched
    <3>1. j = 1 /\ 1 \in 1..Len(destroying)
      BY <1>3, <1>10
    <3>2. ~ graph[destroying[1].seq].sched
      BY <1>2, <1>6, <1>10, <2>1, <3>1 DEF DestroyingBound
    <3>3. QED
      BY <1>3, <1>6, <1>7, <1>10, <3>1, <3>2 DEF CalledBack
  <2>2. QED
    BY <2>1 DEF DestroyingBound
<1>12. GpuTypes' /\ NumbersKept
  BY <1>2, <1>5, <1>7, <1>8, <1>10, <1>11, CallbackKeeps
<1>13. DestroyCalled(d, r)
  BY <1>3, <1>5, <1>6, <1>7, <1>8, <1>9 DEF DestroyCalled
<1>14. QED
  BY <1>12, <1>13

LEMMA DestroyOrderKeeps ==
    ASSUME GpuSound, DestroyOrder
    PROVE  /\ GpuTypes' /\ NumbersKept
           /\ \E d : OrderGone(d)
<1> DEFINE e == destroying[1]
           o == DestroyOrderData(order[e.seq])
           d == [e EXCEPT !.pc = "sequence"]
<1>1. /\ Destroying("order") /\ e.callbacks = {}
      /\ order' = [order EXCEPT ![e.seq] = o] /\ destroying' = <<d>>
      /\ checks' = (checks /\ ~ order[e.seq].destroyed)
      /\ UNCHANGED <<graph_validation, client, graph, thread, adding, last_order, used>>
  BY DEF DestroyOrder, Doomed
<1>2. GpuTypes /\ DestroyingBound /\ order \in [Seqs -> OrderDatas]
  BY DEF GpuSound, GpuTypes, Numbered
<1>3. /\ e \in Destructions /\ e.pc = "order" /\ e.seq \in Seqs
      /\ Len(destroying) = 1 /\ 1 \in 1..Len(destroying)
  BY <1>1, <1>2, DestroyingPc DEF Doomed
<1>4. d \in Destructions /\ d.seq = e.seq /\ d.callbacks = {} /\ d.pc = "sequence"
  BY <1>1, <1>3 DEF Destructions
<1>5. /\ o \in OrderDatas /\ o.destroyed /\ o.fences = {}
      /\ o.nums = order[e.seq].nums /\ o.processed = order[e.seq].processed
      /\ o.current = order[e.seq].current /\ o.paused = order[e.seq].paused
      /\ o.last = order[e.seq].last
  BY <1>2, <1>3 DEF DestroyOrderData, OrderDatas
<1> HIDE DEF o, d
<1>6. /\ order' \in [Seqs -> OrderDatas]
      /\ \A x \in Seqs : order'[x] = IF x = e.seq THEN o ELSE order[x]
  BY <1>1, <1>2, <1>3, <1>5
<1>7. destroying' \in Seq(Destructions) /\ Len(destroying') = 1 /\ destroying'[1] = d
  BY <1>1, <1>4
<1>8. checks' \in BOOLEAN
  BY <1>1
<1>9. GpuTypes'
  BY <1>1, <1>2, <1>6, <1>7, <1>8 DEF GpuTypes
<1>10. OrderKept
  BY <1>5, <1>6 DEF OrderKept
<1>11. DestroyingBound'
  BY <1>1, <1>2, <1>3, <1>4, <1>7 DEF DestroyingBound
<1>12. \A t \in Threads : ThreadMoved(t)
  BY <1>1, ThreadStays
<1>13. NumbersKept
  BY <1>1, <1>2, <1>10, <1>11, <1>12, GraphSame, ToldSame DEF NumbersKept
<1>14. OrderGone(d)
  BY <1>1, <1>3, <1>4, <1>5, <1>6 DEF OrderGone
<1>15. QED
  BY <1>9, <1>13, <1>14

LEMMA ClientDestroyedKeeps ==
    ASSUME GpuSound, ClientDestroyed
    PROVE  /\ GpuTypes' /\ NumbersKept /\ destroying' = << >>
           /\ Len(destroying) = 1 /\ destroying[1].callbacks = {}
           /\ destroying[1].pc = "end"
           /\ UNCHANGED <<graph_validation, order, client, graph, thread, adding, last_order,
                          checks, used>>
<1>1. /\ Destroying("end") /\ destroying[1].callbacks = {} /\ destroying' = << >>
      /\ UNCHANGED <<graph_validation, order, client, graph, thread, adding, last_order,
                     checks, used>>
  BY DEF ClientDestroyed
<1>2. GpuTypes
  BY DEF GpuSound
<1>3. Len(destroying) = 1 /\ destroying[1].pc = "end"
  BY <1>1, <1>2, DestroyingPc
<1>4. destroying' \in Seq(Destructions) /\ Len(destroying') = 0
  BY <1>1
<1>5. GpuTypes'
  BY <1>1, <1>2, <1>4 DEF GpuTypes
<1>6. DestroyingBound'
  BY <1>4 DEF DestroyingBound
<1>7. \A t \in Threads : ThreadMoved(t)
  BY <1>1, ThreadStays
<1>8. NumbersKept
  BY <1>1, <1>2, <1>6, <1>7, GraphSame, OrderSame, ToldSame DEF NumbersKept
<1>9. QED
  BY <1>1, <1>3, <1>5, <1>8

LEMMA ValidationTimerKeeps ==
    ASSUME GpuSound, NEW s \in Seqs, ValidationTimer(s)
    PROVE  /\ GpuTypes' /\ NumbersKept
           /\ \E new : Validated(s, new)
<1> DEFINE t == RunnerOf[s]
           force(v) == {k \in [client : Seqs, count : 1..MaxCount] :
                           k.count = v.force[k.client]}
           ts(v, x) == [i \in 1..Len(graph[x].tasks) |->
                           [graph[x].tasks[i] EXCEPT !.validated = @ \/ v.next[x] > i,
                                                     !.due = @ /\ x # s]]
           q(v, x) == [graph[x] EXCEPT !.timer = @ /\ x # s, !.tasks = ts(v, x)]
           new(v) == [thread[t] EXCEPT !.force = force(v),
                                       !.pc = IF force(v) = {} THEN @ ELSE "force"]
<1>1. PICK v \in {Search(s, last) : last \in OldEnough(s)} :
          /\ graph' = [x \in Seqs |-> q(v, x)]
          /\ thread' = [thread EXCEPT ![t].force = force(v),
                                      ![t].pc = IF force(v) = {} THEN @ ELSE "force"]
  BY Zenon DEF ValidationTimer
<1>2. /\ Now(t, "idle") /\ adding = << >>
      /\ UNCHANGED <<graph_validation, order, client, adding, destroying,
                     last_order, checks, used>>
  BY DEF ValidationTimer, TimerMayFire, GraphUnlocked
<1>3. t \in Threads
  BY Constants
<1>4. /\ thread[t] \in ThreadStates /\ thread \in [Threads -> ThreadStates]
      /\ thread[t].pc = "idle" /\ thread[t].callbacks = {}
  BY <1>2, <1>3, NowLemma
<1>5. GpuTypes /\ DestroyingBound
  BY DEF GpuSound, Numbered
<1> HIDE DEF t
<1>6. ASSUME NEW x \in Seqs PROVE SameSequence(q(v, x), graph[x])
  <2>1. /\ graph[x] \in Sequences /\ graph[x].tasks \in Seq(Tasks)
        /\ Len(graph[x].tasks) \in Nat
    BY <1>5 DEF GpuTypes, Sequences
  <2>2. \A i \in 1..Len(graph[x].tasks) : graph[x].tasks[i] \in Tasks
    BY <2>1
  <2>3. ASSUME NEW i \in 1..Len(graph[x].tasks)
        PROVE  /\ ts(v, x)[i] \in Tasks /\ ts(v, x)[i].order = graph[x].tasks[i].order
               /\ ts(v, x)[i].release = graph[x].tasks[i].release
               /\ ts(v, x)[i].waits = graph[x].tasks[i].waits
    <3> DEFINE b == graph[x].tasks[i].validated \/ v.next[x] > i
    <3>1. b \in BOOLEAN /\ graph[x].tasks[i] \in Tasks
      BY <2>2
    <3>2. ts(v, x)[i] = [graph[x].tasks[i] EXCEPT !.validated = b, !.due = @ /\ x # s]
      OBVIOUS
    <3> HIDE DEF b, ts
    <3>3. QED
      BY <3>1, <3>2 DEF Tasks
  <2>4. ts(v, x) \in Seq(Tasks) /\ Len(ts(v, x)) = Len(graph[x].tasks)
    <3>1. ts(v, x) = [i \in 1..Len(graph[x].tasks) |-> ts(v, x)[i]]
      OBVIOUS
    <3> HIDE DEF ts
    <3>2. ts(v, x) \in [1..Len(graph[x].tasks) -> Tasks]
      BY <2>3, <3>1
    <3>3. QED
      BY <2>1, <3>2, FunctionSeq
  <2>5. SameTasks(ts(v, x), graph[x].tasks)
    <3> HIDE DEF ts
    <3>1. QED
      BY <2>3, <2>4 DEF SameTasks
  <2> DEFINE u == ts(v, x)
             p == [graph[x] EXCEPT !.timer = @ /\ x # s, !.tasks = u]
  <2>6. p = q(v, x)
    OBVIOUS
  <2> HIDE DEF u
  <2>7. p \in Sequences
    BY <2>1, <2>4 DEF Sequences, u
  <2>8. /\ p.tasks = u /\ p.sched = graph[x].sched /\ p.map = graph[x].map
        /\ p.waits = graph[x].waits /\ p.current = graph[x].current
        /\ p.enabled = graph[x].enabled /\ p.running = graph[x].running
    BY <2>1 DEF Sequences
  <2> HIDE DEF p
  <2>9. SameSequence(p, graph[x])
    BY <2>5, <2>7, <2>8 DEF SameSequence, u
  <2>10. QED
    BY <2>6, <2>9
<1>7. thread' = [thread EXCEPT ![t] = new(v)]
  BY <1>1
<1>8. force(v) \in SUBSET [client : Seqs, count : 1..MaxCount]
  OBVIOUS
<1> DEFINE f == force(v)
           me == [thread[t] EXCEPT !.force = f, !.pc = IF f = {} THEN @ ELSE "force"]
<1>9. me = new(v)
  OBVIOUS
<1>10. graph' = [x \in Seqs |-> graph'[x]] /\ \A x \in Seqs : graph'[x] = q(v, x)
  BY <1>1
<1> HIDE DEF force, f, q, new
<1>11. /\ me \in ThreadStates /\ me.pc \in {"idle", "force"} /\ me.seq = thread[t].seq
       /\ me.order = thread[t].order /\ me.release = thread[t].release
       /\ me.callbacks = thread[t].callbacks /\ me.fences = thread[t].fences
       /\ me.running = thread[t].running /\ me.posted = thread[t].posted
  BY <1>4, <1>8 DEF ThreadStates, Pcs, f
<1> HIDE DEF me
<1>12. /\ graph' \in [Seqs -> Sequences]
       /\ \A x \in Seqs : SameSequence(graph'[x], graph[x])
  <2>1. \A x \in Seqs : SameSequence(graph'[x], graph[x])
    BY <1>6, <1>10
  <2>2. \A x \in Seqs : graph'[x] \in Sequences
    BY <2>1 DEF SameSequence
  <2>3. QED
    BY <1>10, <2>1, <2>2
<1>13. /\ thread' \in [Threads -> ThreadStates]
       /\ \A u \in Threads : thread'[u] = IF u = t THEN me ELSE thread[u]
  BY <1>3, <1>4, <1>7, <1>9, <1>11
<1>14. GpuTypes'
  BY <1>2, <1>5, <1>12, <1>13 DEF GpuTypes
<1>15. GraphKept
  BY <1>12 DEF GraphKept, SameSequence
<1>16. ThreadMoved(t)
  BY <1>3, <1>4, <1>11, <1>13 DEF ThreadMoved
<1>17. \A u \in Threads : ThreadMoved(u)
  BY <1>13, <1>16, ThreadStays
<1>18. NumbersKept
  BY <1>2, <1>5, <1>15, <1>17, OrderSame, ToldSame, DestroyingSame DEF NumbersKept
<1>19. Validated(s, me)
  BY <1>2, <1>3, <1>4, <1>7, <1>9, <1>11, <1>12, <1>13 DEF Validated, t
<1>20. QED
  BY <1>14, <1>18, <1>19

-----------------------------------------------------------------------------
(***************************************************************************)
(* The actions that give out, process or drop order numbers                *)
(***************************************************************************)

LEMMA DeleteLemma ==
    ASSUME GpuSound, DeleteSequence
    PROVE  GpuTypes' /\ \E x : Deleted(x)
<1> DEFINE x == Doomed
           q == [graph[x] EXCEPT !.tasks = << >>, !.waits = {}]
           freed == {w.client : w \in graph[Doomed].waits}
           awake == {RunnerOf[s] : s \in {r \in freed : graph[r].sched /\ ~ graph[r].running}}
<1>1. /\ Destroying("sequence") /\ adding = << >> /\ destroying' = << >>
      /\ graph' = [graph EXCEPT ![x] = q]
      /\ thread' = [t \in Threads |->
                IF t \in awake /\ ~ thread[t].running /\ HasAnyUnblockedTasksOnRunner(graph, t)
                THEN Posted(thread, t)[t] ELSE thread[t]]
      /\ checks' = (checks /\ \A s \in freed :
                        graph[s].sched => TryScheduleChecks(graph, thread, s))
      /\ UNCHANGED <<graph_validation, order, client, adding, last_order, used>>
  BY DEF DeleteSequence, GraphUnlocked
<1>2. GpuTypes /\ DestroyingBound /\ thread \in [Threads -> ThreadStates]
      /\ graph \in [Seqs -> Sequences]
  BY DEF GpuSound, GpuTypes, Numbered
<1>3. /\ destroying[1].pc = "sequence" /\ x \in Seqs /\ x = destroying[1].seq
      /\ Len(destroying) = 1 /\ 1 \in 1..Len(destroying)
  BY <1>1, <1>2, DestroyingPc
<1>4. ~ graph[x].sched /\ graph[x] \in Sequences
  BY <1>2, <1>3 DEF DestroyingBound
<1>5. /\ q \in Sequences /\ q.tasks = << >> /\ q.waits = {} /\ q.sched = graph[x].sched
      /\ q.map = graph[x].map /\ q.current = graph[x].current /\ q.running = graph[x].running
  <2>1. << >> \in Seq(Tasks)
    OBVIOUS
  <2>2. q \in Sequences
    BY <1>4, <2>1 DEF Sequences
  <2>3. QED
    BY <1>4, <2>2 DEF Sequences
<1>6. freed \subseteq Seqs
  BY <1>2, <1>3 DEF Sequences, Fences
<1> HIDE DEF q, awake, freed
<1>7. /\ checks' \in BOOLEAN
       /\ (checks /\ \A s \in Seqs : graph[s].sched => TryScheduleChecks(graph, thread, s))
              => checks'
  BY <1>1, <1>6
<1>8. ASSUME NEW u \in Threads
      PROVE  thread'[u] \in ThreadStates /\ Woken(thread'[u], thread[u])
  <2>1. Woken(thread[u], thread[u]) /\ thread[u] \in ThreadStates
    BY <1>2 DEF Woken, SameThread
  <2>2. ~ thread[u].running => Posted(thread, u)[u] \in ThreadStates
                               /\ Woken(Posted(thread, u)[u], thread[u])
    BY <1>2, PostedLemma
  <2>3. thread'[u] = IF u \in awake /\ ~ thread[u].running
                             /\ HasAnyUnblockedTasksOnRunner(graph, u)
                     THEN Posted(thread, u)[u] ELSE thread[u]
    BY <1>1
  <2>4. QED
    BY <2>1, <2>2, <2>3
<1>9. thread' \in [Threads -> ThreadStates]
  BY <1>1, <1>8
<1>10. /\ graph' \in [Seqs -> Sequences]
      /\ \A s \in Seqs : graph'[s] = IF s = x THEN q ELSE graph[s]
  BY <1>1, <1>2, <1>3, <1>5
<1>11. destroying' \in Seq(Destructions) /\ Len(destroying') = 0
  BY <1>1
<1>12. GpuTypes'
  BY <1>1, <1>2, <1>9, <1>10, <1>11, <1>7 DEF GpuTypes
<1>13. Deleted(x)
  BY <1>1, <1>3, <1>4, <1>5, <1>8, <1>9, <1>10, <1>7 DEF Deleted
<1>14. QED
  BY <1>12, <1>13

LEMMA DeleteNumbered ==
    ASSUME GpuSound, GpuTypes', NEW x, Deleted(x)
    PROVE  Numbered'
<1>1. /\ GpuTypes
      /\ \A t \in Threads : ThreadBound(t)
      /\ \A s \in Seqs : /\ Ascending(s) /\ Ahead(s) /\ WaitsHaveTasks(s)
                         /\ NumsMatch(s) /\ Releases(s)
      /\ \A s, r \in Seqs : s # r => Apart(s, r)
  BY DEF GpuSound, Numbered
<1>2. /\ x \in Seqs /\ adding' = << >> /\ destroying' = << >>
      /\ order' = order /\ client' = client /\ last_order' = last_order
      /\ \A s \in Seqs : s # x => graph'[s] = graph[s]
      /\ graph'[x].tasks = << >> /\ graph'[x].waits = {} /\ ~ graph'[x].sched
      /\ graph'[x].current = graph[x].current
  BY DEF Deleted
<1>3. \A u \in Threads : /\ thread'[u].pc = thread[u].pc /\ thread'[u].seq = thread[u].seq
                         /\ thread'[u].order = thread[u].order
                         /\ thread'[u].release = thread[u].release
  BY DEF Deleted, Woken, SameThread
<1>4. \A s \in Seqs : Ascending(s)'
  BY <1>1, <1>2 DEF Ascending
<1>5. \A s \in Seqs : Ahead(s)'
  BY <1>1, <1>2 DEF Ahead
<1>6. \A s \in Seqs : WaitsHaveTasks(s)'
  BY <1>1, <1>2 DEF WaitsHaveTasks
<1>7. ASSUME NEW s \in Seqs PROVE NumsMatch(s)'
  <2>1. RunnerOf[s] \in Threads
    BY Constants
  <2>2. Processing(s)' <=> Processing(s)
    BY <1>2, <1>3, <2>1 DEF Processing
  <2>3. CASE s = x
    BY <1>1, <1>2, <2>2, <2>3 DEF NumsMatch
  <2>4. CASE s # x
    <3>1. graph'[s] = graph[s]
      BY <1>2, <2>4
    <3>2. QED
      BY <1>1, <1>2, <2>2, <3>1 DEF NumsMatch
  <2>5. QED
    BY <2>3, <2>4
<1>8. \A s \in Seqs : Releases(s)'
  BY <1>1, <1>2, <1>3 DEF Releases
<1>9. ASSUME NEW s \in Seqs, NEW r \in Seqs, s # r PROVE Apart(s, r)'
  <2>1. Apart(s, r)
    BY <1>1, <1>9
  <2>2. /\ s = x => Len(graph'[s].tasks) = 0
        /\ s # x => graph'[s] = graph[s]
        /\ r = x => Len(graph'[r].tasks) = 0
        /\ r # x => graph'[r] = graph[r]
    BY <1>2
  <2>3. order' = order
    BY <1>2
  <2>4. order'[s].current # 0 => order'[s].current # order'[r].current
    BY <2>1, <2>3 DEF Apart
  <2>5. \A i \in 1..Len(graph'[r].tasks) : order'[s].current # graph'[r].tasks[i].order
    BY <2>1, <2>2, <2>3 DEF Apart
  <2>6. \A i \in 1..Len(graph'[s].tasks), j \in 1..Len(graph'[r].tasks) :
            graph'[s].tasks[i].order # graph'[r].tasks[j].order
    <3>1. CASE s = x \/ r = x
      <4>1. Len(graph'[s].tasks) = 0 \/ Len(graph'[r].tasks) = 0
        BY <2>2, <3>1
      <4>2. 1..0 = {}
        OBVIOUS
      <4>3. QED
        BY <4>1, <4>2
    <3>2. CASE s # x /\ r # x
      BY <2>1, <2>2, <3>2 DEF Apart
    <3>3. QED
      BY <3>1, <3>2
  <2>7. QED
    BY <2>4, <2>5, <2>6 DEF Apart
<1>10. ASSUME NEW t \in Threads PROVE ThreadBound(t)'
  <2>1. ThreadBound(t)
    BY <1>1
  <2>2. thread'[t].pc = "chosen" /\ graph'[thread'[t].seq].sched =>
            /\ thread[t].seq \in Seqs /\ thread[t].seq # x
            /\ graph'[thread[t].seq] = graph[thread[t].seq]
    BY <1>2, <1>3, <2>1 DEF ThreadBound
  <2>3. QED
    BY <1>2, <1>3, <2>1, <2>2 DEF ThreadBound, IsFrontTaskUnblocked, Front
<1>11. AddingBound' /\ DestroyingBound'
  BY <1>2 DEF AddingBound, DestroyingBound
<1>12. QED
  BY <1>4, <1>5, <1>6, <1>7, <1>8, <1>9, <1>10, <1>11 DEF Numbered

LEMMA StoreWaitKeeps ==
    ASSUME GpuSound, StoreWait
    PROVE  GpuTypes' /\ NumbersKept /\ \E a : WaitStored(a)
<1>1. /\ GpuTypes /\ DestroyingBound /\ client \in [Seqs -> ClientStates]
      /\ graph \in [Seqs -> Sequences] /\ adding \in Seq(Additions) /\ Len(adding) <= 1
  BY DEF GpuSound, GpuTypes, Numbered
<1> DEFINE cb(a) == [client |-> a.token[1], count |-> a.token[2], seq |-> a.seq,
                     id |-> a.order]
<1>2. PICK i \in 1..Len(adding) :
          /\ client' = [client EXCEPT ![adding[i].token[1]] =
                            AddCallback(@, cb(adding[i]))]
          /\ TaskAdded(adding[i].seq,
                       [graph EXCEPT ![adding[i].seq].waits = @ \cup {FenceOf(cb(adding[i]))}])
          /\ adding' = << >>
          /\ UNCHANGED <<graph_validation, order, destroying, last_order, used>>
  BY DEF StoreWait, FenceOf
<1>3. i = 1 /\ Len(adding) = 1
  <2>1. \A n \in Nat : \A j \in 1..n : n <= 1 => j = 1 /\ n = 1
    OBVIOUS
  <2>2. Len(adding) \in Nat /\ Len(adding) <= 1
    BY <1>1
  <2>3. QED
    BY <2>1, <2>2
<1> DEFINE a == adding[1]
           x == a.token[1]
           s == a.seq
           r == cb(a)
           q == [graph[s] EXCEPT !.waits = @ \cup {FenceOf(r)}]
           c == [client[x] EXCEPT !.callbacks = @ \cup {r}]
           g == [graph EXCEPT ![s] = q]
<1>4. a \in Additions
  <2>1. 1 \in 1..Len(adding)
    BY <1>3
  <2>2. QED
    BY <1>1, <2>1
<1>5. /\ x \in Seqs /\ s \in Seqs /\ a.token[2] \in 1..MaxCount /\ a.order \in 1..MaxTasks
      /\ r \in Callbacks /\ FenceOf(r) \in Fences
  BY <1>4 DEF Additions, AllTokens, Callbacks, FenceOf, Fences
<1>6. client[x] \in ClientStates /\ graph[s] \in Sequences
  BY <1>1, <1>5
<1>7. client' = [client EXCEPT ![x] = c] /\ TaskAdded(s, g)
  BY <1>2, <1>3 DEF AddCallback
<1>8. /\ c \in ClientStates /\ c.callbacks = client[x].callbacks \cup {r}
      /\ c.mapped = client[x].mapped /\ c.released = client[x].released
      /\ c.told = client[x].told
  BY <1>5, <1>6 DEF ClientStates
<1>9. /\ q \in Sequences /\ q.waits = graph[s].waits \cup {FenceOf(r)}
      /\ q.tasks = graph[s].tasks /\ q.sched = graph[s].sched /\ q.map = graph[s].map
      /\ q.current = graph[s].current /\ q.enabled = graph[s].enabled
      /\ q.running = graph[s].running
  BY <1>5, <1>6 DEF Sequences
<1> HIDE DEF c, q
<1>10. /\ client' \in [Seqs -> ClientStates]
       /\ \A y \in Seqs : client'[y] = IF y = x THEN c ELSE client[y]
  BY <1>1, <1>7, <1>8
<1>11. /\ g \in [Seqs -> Sequences]
       /\ \A y \in Seqs : g[y] = IF y = s THEN q ELSE graph[y]
  BY <1>1, <1>9
<1> HIDE DEF g
<1>12. Added(s, g)
  BY <1>1, <1>5, <1>7, <1>11, AddedLemma
<1>13. \A y \in Seqs :
           /\ SameTasks(graph'[y].tasks, graph[y].tasks)
           /\ graph'[y].sched = graph[y].sched /\ graph'[y].map = graph[y].map
           /\ graph'[y].waits = IF y = s THEN graph[y].waits \cup {FenceOf(r)}
                                ELSE graph[y].waits
           /\ graph'[y].current = graph[y].current
           /\ graph'[y].enabled = graph[y].enabled /\ graph'[y].running = graph[y].running
  <2>1. SUFFICES ASSUME NEW y \in Seqs
                 PROVE  /\ SameTasks(graph'[y].tasks, graph[y].tasks)
                        /\ graph'[y].sched = graph[y].sched /\ graph'[y].map = graph[y].map
                        /\ graph'[y].waits = IF y = s THEN graph[y].waits \cup {FenceOf(r)}
                                             ELSE graph[y].waits
                        /\ graph'[y].current = graph[y].current
                        /\ graph'[y].enabled = graph[y].enabled
                        /\ graph'[y].running = graph[y].running
    OBVIOUS
  <2>2. SameSequence(graph'[y], g[y])
    BY <1>12 DEF Added
  <2>3. g[y] = IF y = s THEN q ELSE graph[y]
    BY <1>11
  <2> HIDE DEF s, r
  <2>4. CASE y = s
    BY <1>9, <2>2, <2>3, <2>4 DEF SameSequence
  <2>5. CASE y # s
    BY <2>2, <2>3, <2>5 DEF SameSequence
  <2>6. QED
    BY <2>4, <2>5
<1>14. WaitStored(a)
  BY <1>2, <1>3, <1>4, <1>5, <1>8, <1>10, <1>12, <1>13 DEF WaitStored, Added
<1>15. adding' \in Seq(Additions) /\ Len(adding') = 0
  BY <1>2
<1>16. GpuTypes'
  BY <1>1, <1>2, <1>10, <1>12, <1>15 DEF GpuTypes, Added
<1>17. GraphKept
  <2>1. ASSUME NEW y \in Seqs, NEW w \in graph'[y].waits, w \notin graph[y].waits
        PROVE  y = s /\ w.order = a.order
    <3>1. y = s /\ w \in graph[y].waits \cup {FenceOf(r)}
      BY <1>13, <2>1
    <3>2. w = FenceOf(r)
      BY <2>1, <3>1
    <3>3. QED
      BY <3>1, <3>2 DEF FenceOf
  <2>2. 1 \in 1..Len(adding) /\ adding[1].order = a.order
    BY <1>3
  <2>3. QED
    BY <1>13, <2>1, <2>2 DEF GraphKept
<1>18. \A u \in Threads : ThreadMoved(u)
  BY <1>12, ThreadSame DEF Added
<1>19. ToldKept
  BY <1>8, <1>10 DEF ToldKept
<1>20. OrderKept /\ DestroyingBound'
  BY <1>1, <1>2, <1>17, OrderSame, DestroyingSame
<1>21. QED
  BY <1>2, <1>14, <1>16, <1>17, <1>18, <1>19, <1>20 DEF NumbersKept

LEMMA GuardLemma ==
    ASSUME NEW o \in OrderDatas, NEW x \in Seqs, NEW count \in 1..MaxCount,
           NEW num \in 1..MaxTasks, ValidWait(o, num, graph_validation)
    PROVE  Guarded(GuardWait(o, x, count, num, graph_validation), o, x, num)
<1>1. CASE graph_validation
  BY <1>1 DEF GuardWait, Guarded
<1>2. CASE ~ graph_validation
  <2> DEFINE n == o.nums[Len(o.nums)]
             f == [order |-> Min({n, num}), client |-> x, count |-> count, id |-> num]
             p == [o EXCEPT !.fences = @ \cup {f}]
  <2>1. o.nums \in Seq(1..MaxTasks) /\ o.nums # << >>
    BY <1>2 DEF ValidWait, OrderDatas
  <2>2. Len(o.nums) \in Nat /\ Len(o.nums) # 0
    BY <2>1
  <2>3. n \in 1..MaxTasks
    <3>1. \A m \in 1..Len(o.nums) : o.nums[m] \in 1..MaxTasks
      BY <2>1, SeqElement
    <3>2. Len(o.nums) \in 1..Len(o.nums)
      BY <2>2
    <3>3. QED
      BY <3>1, <3>2
  <2>4. Min({n, num}) \in 1..MaxTasks
    <3>1. {n, num} \subseteq Nat /\ {n, num} # {}
      BY <2>3, Constants
    <3>2. Min({n, num}) \in {n, num}
      BY <3>1, MinLemma
    <3>3. QED
      BY <2>3, <3>2
  <2>5. f \in OrderFences
    BY <2>4 DEF OrderFences
  <2>6. GuardWait(o, x, count, num, graph_validation) = p
    BY <1>2 DEF GuardWait
  <2>7. f.client = x /\ f.id = num /\ f.order = Min({o.nums[Len(o.nums)], num})
    OBVIOUS
  <2> HIDE DEF f
  <2>8. /\ p \in OrderDatas /\ p.nums = o.nums /\ p.last = o.last
        /\ p.processed = o.processed /\ p.current = o.current /\ p.paused = o.paused
        /\ p.destroyed = o.destroyed /\ p.fences = o.fences \cup {f}
    BY <2>5 DEF OrderDatas
  <2> HIDE DEF p
  <2>9. \A e \in p.fences :
            \/ e \in o.fences
            \/ /\ ~ graph_validation /\ o.nums # << >> /\ e.client = x /\ e.id = num
               /\ e.order = Min({o.nums[Len(o.nums)], num})
    BY <1>2, <2>1, <2>7, <2>8
  <2>10. QED
    BY <2>6, <2>8, <2>9 DEF Guarded
<1>3. QED
  BY <1>1, <1>2

LEMMA CountsLemma ==
    ASSUME GpuSound, NEW s \in Seqs
    PROVE  /\ last_order \in Nat /\ Max(CountsOf(s)) + 1 \in 1..(last_order + 1)
           /\ \A c \in CountsOf(s) : c < Max(CountsOf(s)) + 1
<1>1. GpuTypes /\ Releases(s)
  BY DEF GpuSound, Numbered
<1>2. last_order \in Nat /\ graph[s].current \in Nat /\ client[s].told \in Nat
  BY <1>1, Constants DEF GpuTypes, Sequences, ClientStates
<1>3. \A i \in 1..Len(graph[s].tasks) : graph[s].tasks[i].release \in Nat
  BY <1>1, TaskType, Constants
<1>4. CountsOf(s) \subseteq 0..last_order
  <2>1. graph[s].current \in 0..last_order /\ client[s].told \in 0..last_order
    BY <1>1, <1>2 DEF Releases
  <2>2. \A i \in 1..Len(graph[s].tasks) : graph[s].tasks[i].release \in 0..last_order
    BY <1>1, <1>2, <1>3 DEF Releases
  <2>3. QED
    BY <2>1, <2>2 DEF CountsOf
<1>5. CountsOf(s) # {}
  BY DEF CountsOf
<1> DEFINE m == Max(CountsOf(s))
<1>6. m \in CountsOf(s) /\ \A c \in CountsOf(s) : m >= c
  BY <1>2, <1>4, <1>5, MaxLemma
<1> HIDE DEF m
<1>7. m \in Nat /\ m <= last_order /\ \A c \in CountsOf(s) : c \in Nat
  BY <1>2, <1>4, <1>6
<1>8. m + 1 \in 1..(last_order + 1)
  BY <1>2, <1>7
<1>9. \A c \in CountsOf(s) : c < m + 1
  BY <1>6, <1>7
<1>10. QED
  BY <1>2, <1>8, <1>9 DEF m

LEMMA AddTaskLemma ==
    ASSUME GpuSound, AddTask
    PROVE  GpuTypes' /\ \E s, task : TaskQueued(s, task)
<1>1. /\ GpuTypes /\ order \in [Seqs -> OrderDatas] /\ graph \in [Seqs -> Sequences]
      /\ thread \in [Threads -> ThreadStates] /\ checks \in BOOLEAN /\ last_order \in Nat
      /\ MaxTasks \in Nat
  BY Constants DEF GpuSound, GpuTypes
<1> DEFINE num == last_order + 1
           task(s, ws) == [order |-> num, release |-> Max(CountsOf(s)) + 1,
                           waits |-> ws, validated |-> FALSE, due |-> FALSE]
           g(s, ws) == [graph EXCEPT ![s].tasks = Append(@, task(s, ws))]
           valid(ws) == {k \in ws : Waits(num, k)}
           of(ws, x) == {k \in valid(ws) : k[1] = x}
           guarded(ws, x) == IF of(ws, x) = {} THEN order[x]
                             ELSE GuardWait(order[x], x, Max({k[2] : k \in of(ws, x)}), num,
                                            graph_validation)
           Queued(s, ws) ==
             /\ GraphUnlocked /\ graph[s].sched /\ num <= MaxTasks
             /\ last_order' = num
             /\ order' = [x \in Seqs |-> IF x = s THEN GenerateUnprocessedOrderNumber(order[s], num)
                                         ELSE guarded(ws, x)]
             /\ IF valid(ws) = {}
                THEN TaskAdded(s, g(s, ws)) /\ UNCHANGED adding
                ELSE /\ \E k \in valid(ws) : adding' = <<[seq |-> s, order |-> num, token |-> k]>>
                     /\ graph' = g(s, ws)
                     /\ UNCHANGED <<thread, checks>>
             /\ UNCHANGED <<graph_validation, client, destroying, used>>
<1>0. PICK s \in Seqs : \E ws \in {{}} \cup {{k} : k \in Tokens(s)} : Queued(s, ws)
  BY DEF AddTask, CountsOf
<1>2. PICK ws \in {{}} \cup {{k} : k \in Tokens(s)} : Queued(s, ws)
  BY <1>0
<1> DEFINE new == task(s, ws)
           q == [graph[s] EXCEPT !.tasks = Append(@, new)]
           h == g(s, ws)
<1>3. num \in 1..MaxTasks /\ num \in Nat
  BY <1>1, <1>2
<1>4. ws \subseteq AllTokens /\ \A k \in ws : ws = {k} /\ k[1] # s
  <2>1. Tokens(s) \subseteq AllTokens /\ \A k \in Tokens(s) : k[1] # s
    BY DEF Tokens, AllTokens
  <2>2. QED
    BY <2>1
<1>5. /\ Max(CountsOf(s)) + 1 \in 1..num
      /\ \A c \in CountsOf(s) : c < Max(CountsOf(s)) + 1
  BY CountsLemma
<1>6. Max(CountsOf(s)) + 1 \in 0..MaxTasks /\ Max(CountsOf(s)) + 1 <= num
  BY <1>1, <1>3, <1>5
<1>7. /\ new \in Tasks /\ new.order = num /\ new.release = Max(CountsOf(s)) + 1
      /\ new.waits = ws
  BY <1>3, <1>4, <1>6 DEF Tasks
<1> HIDE DEF task
<1>8. /\ client[s].told < new.release /\ graph[s].current < new.release
      /\ \A i \in 1..Len(graph[s].tasks) : graph[s].tasks[i].release < new.release
  BY <1>5, <1>7 DEF CountsOf
<1>9. /\ q \in Sequences /\ q.tasks = Append(graph[s].tasks, new)
      /\ q.sched = graph[s].sched /\ q.map = graph[s].map /\ q.waits = graph[s].waits
      /\ q.current = graph[s].current /\ q.enabled = graph[s].enabled
      /\ q.running = graph[s].running
  <2>1. graph[s] \in Sequences /\ graph[s].tasks \in Seq(Tasks)
    BY <1>1 DEF Sequences
  <2>2. Append(graph[s].tasks, new) \in Seq(Tasks)
    BY <1>7, <2>1
  <2>3. QED
    BY <2>1, <2>2 DEF Sequences
<1>10. h = [graph EXCEPT ![s] = q]
  OBVIOUS
<1> HIDE DEF q, g
<1>11. h \in [Seqs -> Sequences] /\ \A x \in Seqs : h[x] = IF x = s THEN q ELSE graph[x]
  BY <1>1, <1>9, <1>10
<1>12. /\ graph' \in [Seqs -> Sequences] /\ thread' \in [Threads -> ThreadStates]
       /\ checks' \in BOOLEAN
       /\ \A x \in Seqs : SameSequence(graph'[x], h[x])
       /\ \A u \in Threads : Woken(thread'[u], thread[u])
  <2>1. CASE valid(ws) = {}
    <3>1. TaskAdded(s, h)
      BY <1>2, <2>1
    <3>2. Added(s, h)
      BY <1>1, <1>11, <3>1, AddedLemma
    <3>3. QED
      BY <3>2 DEF Added
  <2>2. CASE valid(ws) # {}
    <3>1. graph' = h /\ thread' = thread /\ checks' = checks
      BY <1>2, <2>2
    <3>2. \A x \in Seqs : SameSequence(h[x], h[x])
      BY <1>11, SameSequenceRefl
    <3>3. QED
      BY <1>1, <1>11, <3>1, <3>2 DEF Woken, SameThread
  <2>3. QED
    BY <2>1, <2>2
<1>13. ASSUME NEW x \in Seqs
       PROVE  /\ SameTasks(graph'[x].tasks, IF x = s THEN Append(graph[x].tasks, new)
                                            ELSE graph[x].tasks)
              /\ graph'[x].sched = graph[x].sched /\ graph'[x].map = graph[x].map
              /\ graph'[x].waits = graph[x].waits /\ graph'[x].current = graph[x].current
              /\ graph'[x].enabled = graph[x].enabled /\ graph'[x].running = graph[x].running
  <2>1. SameSequence(graph'[x], h[x]) /\ h[x] = IF x = s THEN q ELSE graph[x]
    BY <1>11, <1>12
  <2> HIDE DEF h, new
  <2>2. QED
    BY <1>9, <2>1 DEF SameSequence
<1>14. ASSUME NEW x \in Seqs \ {s}
       PROVE  Guarded(order'[x], order[x], x, num)
  <2>1. order'[x] = guarded(ws, x) /\ order[x] \in OrderDatas /\ x \in Seqs
    BY <1>1, <1>2
  <2>2. CASE of(ws, x) = {}
    BY <2>1, <2>2 DEF Guarded
  <2>3. CASE of(ws, x) # {}
    <3>1. PICK k \in ws : Waits(num, k) /\ k[1] = x
      BY <2>3
    <3>2. k \in AllTokens /\ of(ws, x) = {k}
      BY <1>4, <3>1
    <3>3. k[2] \in 1..MaxCount
      BY <3>2 DEF AllTokens
    <3>4. {j[2] : j \in of(ws, x)} = {k[2]}
      BY <3>2
    <3>5. Max({k[2]}) \in {k[2]}
      <4>1. {k[2]} \subseteq 0..MaxCount /\ {k[2]} # {} /\ MaxCount \in Nat
        BY <3>3, Constants
      <4>2. QED
        BY <4>1, MaxLemma
    <3>6. Max({j[2] : j \in of(ws, x)}) = k[2]
      BY <3>4, <3>5
    <3>7. ValidWait(order[x], num, graph_validation)
      BY <3>1 DEF Waits
    <3>8. Guarded(GuardWait(order[x], x, k[2], num, graph_validation), order[x], x, num)
      BY <1>3, <2>1, <3>3, <3>7, GuardLemma
    <3>9. QED
      BY <2>1, <2>3, <3>6, <3>8
  <2>4. QED
    BY <2>2, <2>3
<1>15. order'[s] = GenerateUnprocessedOrderNumber(order[s], num) /\ order'[s] \in OrderDatas
  <2>1. order'[s] = GenerateUnprocessedOrderNumber(order[s], num)
    BY <1>2
  <2>2. order[s] \in OrderDatas /\ order[s].nums \in Seq(1..MaxTasks)
    BY <1>1 DEF OrderDatas
  <2>3. Append(order[s].nums, num) \in Seq(1..MaxTasks) /\ num \in 0..MaxTasks
    BY <1>3, <2>2
  <2> HIDE DEF num
  <2>4. [order[s] EXCEPT !.nums = Append(@, num), !.last = num] \in OrderDatas
    BY <2>2, <2>3 DEF OrderDatas
  <2>5. QED
    BY <2>1, <2>4 DEF GenerateUnprocessedOrderNumber
<1>16. order' \in [Seqs -> OrderDatas]
  <2>1. \A x \in Seqs : order'[x] \in OrderDatas
    BY <1>14, <1>15 DEF Guarded
  <2>2. order' = [x \in Seqs |-> order'[x]]
    BY <1>2
  <2>3. QED
    BY <2>1, <2>2
<1>17. /\ adding = << >>
       /\ \/ /\ adding' = << >> /\ \A k \in new.waits : ~ Waits(new.order, k)
             /\ \/ graph'[s].running
                \/ ~ HasAnyUnblockedTasksOnRunner(graph', RunnerOf[s])
                \/ thread'[RunnerOf[s]].running
             /\ checks' = (/\ checks /\ TryScheduleChecks(graph', thread, s)
                           /\ ~ order[s].destroyed)
          \/ /\ thread' = thread /\ checks' = checks
             /\ \E k \in AllTokens :
                    /\ new.waits = {k} /\ Waits(new.order, k)
                    /\ adding' = <<[seq |-> s, order |-> new.order, token |-> k]>>
  <2>1. adding = << >>
    BY <1>2 DEF GraphUnlocked
  <2>2. CASE valid(ws) = {}
    <3>1. TaskAdded(s, h) /\ adding' = << >>
      BY <1>2, <2>1, <2>2
    <3>2. Added(s, h)
      BY <1>1, <1>11, <3>1, AddedLemma
    <3>3. \A k \in new.waits : ~ Waits(new.order, k)
      BY <1>7, <2>2
    <3>4. QED
      BY <2>1, <3>1, <3>2, <3>3 DEF Added
  <2>3. CASE valid(ws) # {}
    <3>1. PICK k \in ws : Waits(num, k) /\ adding' = <<[seq |-> s, order |-> num, token |-> k]>>
      BY <1>2, <2>3
    <3>2. thread' = thread /\ checks' = checks
      BY <1>2, <2>3
    <3>3. k \in AllTokens /\ ws = {k}
      BY <1>4, <3>1
    <3> HIDE DEF new, num
    <3>4. QED
      BY <1>7, <2>1, <3>1, <3>2, <3>3
  <2>4. QED
    BY <2>2, <2>3
<1> HIDE DEF new, num
<1>18. last_order + 1 = num
  BY DEF num
<1>19. TaskQueued(s, new)
  BY <1>1, <1>2, <1>4, <1>6, <1>7, <1>8, <1>12, <1>13, <1>14, <1>15, <1>16, <1>17, <1>18
  DEF TaskQueued
<1>20. adding' \in Seq(Additions) /\ Len(adding') <= 1
  <2>1. ASSUME NEW k \in AllTokens, adding' = <<[seq |-> s, order |-> new.order, token |-> k]>>
        PROVE  adding' \in Seq(Additions) /\ Len(adding') <= 1
    <3>1. [seq |-> s, order |-> new.order, token |-> k] \in Additions
      BY <1>3, <1>7 DEF Additions
    <3>2. QED
      BY <2>1, <3>1
  <2>2. CASE adding' = << >>
    BY <2>2
  <2>3. QED
    BY <1>17, <2>1, <2>2
<1>21. last_order' \in 0..MaxTasks
  BY <1>2, <1>3
<1>22. GpuTypes'
  BY <1>1, <1>2, <1>12, <1>16, <1>20, <1>21 DEF GpuTypes
<1>23. QED
  BY <1>19, <1>22

\* What a new task leaves of the other sequences, and of its own.
LEMMA QueuedNumbered ==
    ASSUME GpuSound, GpuTypes', NEW q, NEW task, TaskQueued(q, task)
    PROVE  Numbered'
<1> DEFINE num == last_order + 1
<1>1. /\ GpuTypes
      /\ \A t \in Threads : ThreadBound(t)
      /\ \A s \in Seqs : /\ Ascending(s) /\ Ahead(s) /\ WaitsHaveTasks(s)
                         /\ NumsMatch(s) /\ Releases(s)
      /\ \A s, r \in Seqs : s # r => Apart(s, r)
      /\ DestroyingBound
  BY DEF GpuSound, Numbered
<1>2. /\ q \in Seqs /\ task \in Tasks /\ task.order = num /\ last_order' = num
      /\ num \in Nat /\ last_order \in Nat /\ last_order < num /\ num \in 1..MaxTasks
      /\ task.release <= num /\ client' = client /\ adding = << >>
      /\ destroying' = destroying
  BY DEF TaskQueued, Tasks
<1>3. \A u \in Threads : /\ thread'[u].pc = thread[u].pc /\ thread'[u].seq = thread[u].seq
                         /\ thread'[u].order = thread[u].order
                         /\ thread'[u].release = thread[u].release
  BY DEF TaskQueued, Woken, SameThread
<1>4. ASSUME NEW s \in Seqs
      PROVE  /\ graph[s].tasks \in Seq(Tasks) /\ graph'[s].tasks \in Seq(Tasks)
             /\ Len(graph[s].tasks) \in Nat
             /\ Len(graph'[s].tasks) = IF s = q THEN Len(graph[s].tasks) + 1
                                       ELSE Len(graph[s].tasks)
             /\ \A i \in 1..Len(graph[s].tasks) :
                    /\ graph'[s].tasks[i].order = graph[s].tasks[i].order
                    /\ graph'[s].tasks[i].release = graph[s].tasks[i].release
             /\ s = q => /\ graph'[s].tasks[Len(graph'[s].tasks)].order = num
                         /\ graph'[s].tasks[Len(graph'[s].tasks)].release = task.release
             /\ graph'[s].sched = graph[s].sched /\ graph'[s].waits = graph[s].waits
             /\ graph'[s].current = graph[s].current
  <2>1. graph[s].tasks \in Seq(Tasks) /\ graph'[s].tasks \in Seq(Tasks)
        /\ Len(graph[s].tasks) \in Nat
    BY <1>1 DEF GpuTypes, Sequences
  <2>2. /\ SameTasks(graph'[s].tasks, IF s = q THEN Append(graph[s].tasks, task)
                                      ELSE graph[s].tasks)
        /\ graph'[s].sched = graph[s].sched /\ graph'[s].waits = graph[s].waits
        /\ graph'[s].current = graph[s].current
    BY DEF TaskQueued
  <2>3. CASE s = q
    <3> DEFINE ts == Append(graph[s].tasks, task)
               n == Len(graph[s].tasks)
    <3>1. Len(ts) = n + 1 /\ ts[n + 1] = task /\ \A i \in 1..n : ts[i] = graph[s].tasks[i]
      BY <1>2, <2>1
    <3>2. SameTasks(graph'[s].tasks, ts)
      BY <2>2, <2>3
    <3> HIDE DEF ts
    <3>3. n + 1 \in 1..Len(ts) /\ \A i \in 1..n : i \in 1..Len(ts)
      BY <2>1, <3>1
    <3>4. Len(graph'[s].tasks) = n + 1
      BY <3>1, <3>2 DEF SameTasks
    <3>5. /\ graph'[s].tasks[n + 1].order = num
          /\ graph'[s].tasks[n + 1].release = task.release
      BY <1>2, <3>1, <3>2, <3>3 DEF SameTasks
    <3>6. \A i \in 1..n : /\ graph'[s].tasks[i].order = graph[s].tasks[i].order
                          /\ graph'[s].tasks[i].release = graph[s].tasks[i].release
      BY <3>1, <3>2, <3>3 DEF SameTasks
    <3>7. QED
      BY <2>1, <2>2, <2>3, <3>4, <3>5, <3>6
  <2>4. CASE s # q
    BY <2>1, <2>2, <2>4 DEF SameTasks
  <2>5. QED
    BY <2>3, <2>4
<1>5. ASSUME NEW s \in Seqs
      PROVE  /\ order[s].nums \in Seq(1..MaxTasks) /\ Len(order[s].nums) \in Nat
             /\ order'[s].nums = IF s = q THEN Append(order[s].nums, num) ELSE order[s].nums
             /\ order'[s].processed = order[s].processed
             /\ order'[s].current = order[s].current /\ order'[s].paused = order[s].paused
             /\ order[s].processed \in Nat /\ order[s].current \in Nat
  <2>1. order[s] \in OrderDatas
    BY <1>1 DEF GpuTypes
  <2>2. order[s].nums \in Seq(1..MaxTasks) /\ Len(order[s].nums) \in Nat
        /\ order[s].processed \in Nat /\ order[s].current \in Nat
    BY <2>1, Constants DEF OrderDatas
  <2>3. CASE s = q
    <3>1. order'[s] = [order[s] EXCEPT !.nums = Append(@, num), !.last = num]
      BY <1>2, <2>3 DEF TaskQueued, GenerateUnprocessedOrderNumber
    <3> HIDE DEF num
    <3>2. QED
      BY <2>1, <2>2, <2>3, <3>1 DEF OrderDatas
  <2>4. CASE s # q
    <3>1. Guarded(order'[s], order[s], s, num)
      BY <1>2, <2>4 DEF TaskQueued
    <3>2. QED
      BY <2>2, <2>4, <3>1 DEF Guarded
  <2>5. QED
    BY <2>3, <2>4
<1> HIDE DEF num
<1>6. \A s \in Seqs : \A i \in 1..Len(graph[s].tasks) :
          graph[s].tasks[i].order \in Nat /\ graph[s].tasks[i].order <= last_order
          /\ graph[s].tasks[i].order < num
  <2>1. ASSUME NEW s \in Seqs, NEW i \in 1..Len(graph[s].tasks)
        PROVE  graph[s].tasks[i].order \in Nat /\ graph[s].tasks[i].order <= last_order
    BY <1>1, TaskType, Constants DEF Ascending
  <2>2. QED
    BY <1>2, <2>1
<1>7. \A s \in Seqs : \A i \in 1..Len(order[s].nums) :
          order[s].nums[i] \in Nat /\ order[s].nums[i] <= last_order /\ order[s].nums[i] < num
  <2>1. ASSUME NEW s \in Seqs, NEW i \in 1..Len(order[s].nums)
        PROVE  order[s].nums[i] \in Nat /\ order[s].nums[i] <= last_order
    <3>1. order[s].nums[i] \in 1..MaxTasks
      BY <1>5, SeqElement
    <3>2. QED
      BY <1>1, <3>1, Constants DEF Ascending
  <2>2. QED
    BY <1>2, <2>1
\* Each task of s is one it had, or the new one at the end.
<1>8. ASSUME NEW s \in Seqs, NEW i \in 1..Len(graph'[s].tasks)
      PROVE  \/ /\ i \in 1..Len(graph[s].tasks)
                /\ graph'[s].tasks[i].order = graph[s].tasks[i].order
                /\ graph'[s].tasks[i].release = graph[s].tasks[i].release
             \/ /\ s = q /\ i = Len(graph[s].tasks) + 1
                /\ graph'[s].tasks[i].order = num /\ graph'[s].tasks[i].release = task.release
  <2>1. CASE i \in 1..Len(graph[s].tasks)
    BY <1>4, <2>1
  <2>2. CASE i \notin 1..Len(graph[s].tasks)
    <3>1. s = q /\ i = Len(graph[s].tasks) + 1 /\ i = Len(graph'[s].tasks)
      <4>1. /\ Len(graph[s].tasks) \in Nat
            /\ Len(graph'[s].tasks) = IF s = q THEN Len(graph[s].tasks) + 1
                                      ELSE Len(graph[s].tasks)
        BY <1>4
      <4>2. QED
        BY <2>2, <4>1
    <3>2. QED
      BY <1>4, <3>1
  <2>3. QED
    BY <2>1, <2>2
<1>9. ASSUME NEW s \in Seqs PROVE Ascending(s)'
  <2>1. ASSUME NEW i \in 1..Len(graph'[s].tasks), NEW j \in 1..Len(graph'[s].tasks), i < j
        PROVE  graph'[s].tasks[i].order < graph'[s].tasks[j].order
    <3>1. CASE j \in 1..Len(graph[s].tasks)
      <4>1. i \in 1..Len(graph[s].tasks)
        BY <1>4, <2>1, <3>1
      <4>2. graph[s].tasks[i].order < graph[s].tasks[j].order
        BY <1>1, <2>1, <3>1, <4>1 DEF Ascending
      <4>3. QED
        BY <1>4, <3>1, <4>1, <4>2
    <3>2. CASE j \notin 1..Len(graph[s].tasks)
      <4>1. j = Len(graph[s].tasks) + 1 /\ graph'[s].tasks[j].order = num
        BY <1>8, <3>2
      <4>2. i \in 1..Len(graph[s].tasks)
        BY <1>4, <2>1, <4>1
      <4>3. QED
        BY <1>4, <1>6, <4>1, <4>2
    <3>3. QED
      BY <3>1, <3>2
  <2>2. \A i \in 1..Len(graph'[s].tasks) : graph'[s].tasks[i].order <= last_order'
    <3>1. num <= num
      BY <1>2
    <3>2. \A i \in 1..Len(graph[s].tasks) : graph[s].tasks[i].order <= num
      BY <1>2, <1>6
    <3>3. QED
      BY <1>2, <1>8, <3>1, <3>2
  <2>3. /\ \A i, j \in 1..Len(order'[s].nums) : i < j => order'[s].nums[i] < order'[s].nums[j]
        /\ \A i \in 1..Len(order'[s].nums) : order'[s].nums[i] <= last_order'
    <3>0. num <= num /\ \A i \in 1..Len(order[s].nums) : order[s].nums[i] <= num
      BY <1>2, <1>7
    <3>1. CASE s = q
      <4>1. /\ order'[s].nums = Append(order[s].nums, num)
            /\ Len(order'[s].nums) = Len(order[s].nums) + 1
            /\ order'[s].nums[Len(order[s].nums) + 1] = num
            /\ \A i \in 1..Len(order[s].nums) : order'[s].nums[i] = order[s].nums[i]
        <5>1. order[s].nums \in Seq(1..MaxTasks) /\ order'[s].nums = Append(order[s].nums, num)
          BY <1>5, <3>1
        <5>2. QED
          BY <1>2, <5>1, SeqAppend
      <4>2. \A i \in 1..Len(order'[s].nums) :
                i \in 1..Len(order[s].nums) \/ i = Len(order[s].nums) + 1
        BY <1>5, <4>1
      <4>3. ASSUME NEW i \in 1..Len(order'[s].nums), NEW j \in 1..Len(order'[s].nums), i < j
            PROVE  order'[s].nums[i] < order'[s].nums[j]
        <5>1. i \in 1..Len(order[s].nums)
          BY <1>5, <4>1, <4>3
        <5>2. CASE j \in 1..Len(order[s].nums)
          <6>1. order[s].nums[i] < order[s].nums[j]
            BY <1>1, <4>3, <5>1, <5>2 DEF Ascending
          <6>2. QED
            BY <4>1, <5>1, <5>2, <6>1
        <5>3. CASE j = Len(order[s].nums) + 1
          BY <1>7, <4>1, <5>1, <5>3
        <5>4. QED
          BY <4>2, <5>2, <5>3
      <4>4. \A i \in 1..Len(order'[s].nums) : order'[s].nums[i] <= last_order'
        BY <1>2, <3>0, <4>1, <4>2
      <4>5. QED
        BY <4>3, <4>4
    <3>2. CASE s # q
      <4>1. order'[s].nums = order[s].nums
        BY <1>5, <3>2
      <4>2. QED
        BY <1>1, <1>2, <3>0, <4>1 DEF Ascending
    <3>3. QED
      BY <3>1, <3>2
  <2>4. QED
    BY <2>1, <2>2, <2>3 DEF Ascending
<1>10. ASSUME NEW s \in Seqs PROVE Ahead(s)'
  <2>1. Ahead(s)
    BY <1>1
  <2>2. /\ order'[s].processed = order[s].processed /\ order'[s].current = order[s].current
        /\ order'[s].paused = order[s].paused
        /\ order[s].processed \in Nat /\ order[s].current \in Nat
        /\ order[s].processed <= order[s].current /\ order[s].current <= last_order
    BY <1>5, <2>1 DEF Ahead
  <2>3. /\ order[s].processed < num /\ order[s].current < num /\ order[s].current <= num
    BY <1>2, <2>2
  <2>4. ASSUME NEW i \in 1..Len(graph'[s].tasks)
        PROVE  /\ order[s].processed < graph'[s].tasks[i].order
               /\ order[s].current <= graph'[s].tasks[i].order
               /\ ~ order[s].paused => order[s].current < graph'[s].tasks[i].order
    <3>1. \/ /\ i \in 1..Len(graph[s].tasks)
             /\ graph'[s].tasks[i].order = graph[s].tasks[i].order
          \/ graph'[s].tasks[i].order = num
      BY <1>8
    <3>2. QED
      BY <2>1, <2>3, <3>1 DEF Ahead
  <2>5. QED
    BY <1>2, <2>2, <2>3, <2>4 DEF Ahead
<1>11. ASSUME NEW s \in Seqs PROVE WaitsHaveTasks(s)'
  <2>0. /\ Len(graph[s].tasks) \in Nat
        /\ Len(graph'[s].tasks) = IF s = q THEN Len(graph[s].tasks) + 1
                                  ELSE Len(graph[s].tasks)
    BY <1>4
  <2>1. \A i \in 1..Len(graph[s].tasks) :
            /\ i \in 1..Len(graph'[s].tasks)
            /\ graph'[s].tasks[i].order = graph[s].tasks[i].order
    <3>1. \A i \in 1..Len(graph[s].tasks) : i \in 1..Len(graph'[s].tasks)
      BY <2>0
    <3>2. QED
      BY <1>4, <3>1
  <2>2. WaitsHaveTasks(s) /\ graph'[s].waits = graph[s].waits
    BY <1>1, <1>4
  <2>3. QED
    BY <2>1, <2>2 DEF WaitsHaveTasks
<1>12. ASSUME NEW s \in Seqs PROVE NumsMatch(s)'
  <2>1. RunnerOf[s] \in Threads
    BY Constants
  <2>2. Processing(s)' <=> Processing(s)
    BY <1>3, <1>5, <2>1 DEF Processing, IsProcessingOrderNumber
  <2>3. NumsMatch(s)
    BY <1>1
  <2>4. CASE s # q
    <3>1. /\ order'[s].nums = order[s].nums /\ order'[s].current = order[s].current
          /\ Len(graph'[s].tasks) = Len(graph[s].tasks)
          /\ \A i \in 1..Len(graph[s].tasks) :
                 graph'[s].tasks[i].order = graph[s].tasks[i].order
          /\ graph'[s].sched = graph[s].sched
      <4>1. Len(graph'[s].tasks) = Len(graph[s].tasks)
        <5>1. /\ Len(graph[s].tasks) \in Nat
              /\ Len(graph'[s].tasks) = IF s = q THEN Len(graph[s].tasks) + 1
                                        ELSE Len(graph[s].tasks)
          BY <1>4
        <5>2. QED
          BY <2>4, <5>1
      <4>2. QED
        BY <1>4, <1>5, <2>4, <4>1
    <3>2. QED
      BY <2>2, <2>3, <3>1 DEF NumsMatch
  <2>5. CASE s = q
    <3> DEFINE n == Len(graph[s].tasks)
               m == Len(order[s].nums)
    <3>1. /\ n \in Nat /\ m \in Nat
          /\ Len(order'[s].nums) = m + 1
          /\ order'[s].nums[m + 1] = num /\ order'[s].nums # << >>
          /\ \A i \in 1..m : order'[s].nums[i] = order[s].nums[i]
          /\ order'[s].current = order[s].current
      <4>1. order'[s].nums = Append(order[s].nums, num)
        BY <1>5, <2>5
      <4>2. n \in Nat /\ order'[s].current = order[s].current
        BY <1>4, <1>5
      <4>3. QED
        BY <1>2, <1>5, <4>1, <4>2, SeqAppend
    <3>2. /\ Len(graph'[s].tasks) = n + 1 /\ graph'[s].tasks[n + 1].order = num
          /\ \A i \in 1..n : graph'[s].tasks[i].order = graph[s].tasks[i].order
          /\ graph'[s].sched = graph[s].sched
      BY <1>4, <2>5
    <3>3. Processing(s) => order'[s].nums[1] = order'[s].current
      <4>1. Processing(s) => m # 0 /\ order[s].nums[1] = order[s].current
        BY <1>5, <2>3 DEF NumsMatch
      <4>2. QED
        BY <3>1, <4>1
    <3>4. ASSUME graph[s].sched, Processing(s)
          PROVE  /\ Len(order'[s].nums) = Len(graph'[s].tasks) + 1
                 /\ \A i \in 1..Len(graph'[s].tasks) :
                        order'[s].nums[i + 1] = graph'[s].tasks[i].order
      <4>1. m = n + 1 /\ \A i \in 1..n : order[s].nums[i + 1] = graph[s].tasks[i].order
        BY <2>3, <3>4 DEF NumsMatch
      <4> HIDE DEF n, m
      <4>2. \A i \in 1..(n + 1) : order'[s].nums[i + 1] = graph'[s].tasks[i].order
        <5>1. SUFFICES ASSUME NEW i \in 1..(n + 1)
                       PROVE  order'[s].nums[i + 1] = graph'[s].tasks[i].order
          OBVIOUS
        <5>2. CASE i \in 1..n
          <6>1. i + 1 \in 1..m
            BY <3>1, <4>1, <5>2
          <6>2. QED
            BY <3>1, <3>2, <4>1, <5>2, <6>1
        <5>3. CASE i = n + 1
          BY <3>1, <3>2, <4>1, <5>3
        <5>4. QED
          BY <3>1, <5>2, <5>3
      <4>3. QED
        BY <3>1, <3>2, <4>1, <4>2
    <3>5. ASSUME graph[s].sched, ~ Processing(s)
          PROVE  /\ Len(order'[s].nums) = Len(graph'[s].tasks)
                 /\ \A i \in 1..Len(graph'[s].tasks) :
                        order'[s].nums[i] = graph'[s].tasks[i].order
      <4>1. m = n /\ \A i \in 1..n : order[s].nums[i] = graph[s].tasks[i].order
        BY <2>3, <3>5 DEF NumsMatch
      <4> HIDE DEF n, m
      <4>2. \A i \in 1..(n + 1) : order'[s].nums[i] = graph'[s].tasks[i].order
        <5>1. \A i \in 1..(n + 1) : i \in 1..n \/ i = n + 1
          BY <3>1
        <5>2. QED
          BY <3>1, <3>2, <4>1, <5>1
      <4>3. QED
        BY <3>1, <3>2, <4>1, <4>2
    <3>6. QED
      BY <2>2, <3>1, <3>2, <3>3, <3>4, <3>5 DEF NumsMatch
  <2>6. QED
    BY <2>4, <2>5
<1>13. ASSUME NEW s \in Seqs PROVE Releases(s)'
  <2>1. Releases(s) /\ graph'[s].current = graph[s].current /\ client'[s].told = client[s].told
    BY <1>1, <1>2, <1>4
  <2>2. /\ client[s].told \in Nat /\ graph[s].current \in Nat
        /\ \A t \in Threads : thread[t].release \in Nat
        /\ \A i \in 1..Len(graph[s].tasks) : graph[s].tasks[i].release \in Nat
    <3>1. client[s] \in ClientStates /\ graph[s] \in Sequences
          /\ \A t \in Threads : thread[t] \in ThreadStates
      BY <1>1 DEF GpuTypes
    <3>2. /\ client[s].told \in Nat /\ graph[s].current \in Nat
          /\ \A t \in Threads : thread[t].release \in Nat
      BY <3>1, Constants DEF ClientStates, Sequences, ThreadStates
    <3>3. \A i \in 1..Len(graph[s].tasks) : graph[s].tasks[i].release \in Nat
      BY <1>1, TaskType, Constants
    <3>4. QED
      BY <3>2, <3>3
  <2>3. /\ client[s].told <= num /\ graph[s].current <= num
        /\ \A t \in Threads : thread[t].release <= num
        /\ \A i \in 1..Len(graph[s].tasks) : graph[s].tasks[i].release <= num
    BY <1>2, <2>1, <2>2 DEF Releases
  <2>4. \A i \in 1..Len(graph'[s].tasks) : graph'[s].tasks[i].release <= num
    BY <1>2, <1>8, <2>3
  <2>5. QED
    BY <1>2, <1>3, <2>1, <2>3, <2>4 DEF Releases
<1>14. ASSUME NEW s \in Seqs, NEW r \in Seqs, s # r PROVE Apart(s, r)'
  <2>1. Apart(s, r) /\ Ahead(s)
    BY <1>1, <1>14
  <2>2. order'[s].current = order[s].current /\ order'[r].current = order[r].current
        /\ order[s].current \in Nat
    BY <1>5
  <2>3. order'[s].current # 0 => order'[s].current # order'[r].current
    BY <2>1, <2>2 DEF Apart
  <2>4. order[s].current # num
    BY <1>2, <2>1, <2>2 DEF Ahead
  <2>5. \A i \in 1..Len(graph'[r].tasks) : order'[s].current # graph'[r].tasks[i].order
    BY <1>8, <2>1, <2>2, <2>4 DEF Apart
  <2>6. ASSUME NEW i \in 1..Len(graph'[s].tasks), NEW j \in 1..Len(graph'[r].tasks)
        PROVE  graph'[s].tasks[i].order # graph'[r].tasks[j].order
    <3>1. \/ /\ i \in 1..Len(graph[s].tasks)
             /\ graph'[s].tasks[i].order = graph[s].tasks[i].order
          \/ s = q /\ graph'[s].tasks[i].order = num
      BY <1>8
    <3>2. \/ /\ j \in 1..Len(graph[r].tasks)
             /\ graph'[r].tasks[j].order = graph[r].tasks[j].order
          \/ r = q /\ graph'[r].tasks[j].order = num
      BY <1>8
    <3>3. CASE i \in 1..Len(graph[s].tasks) /\ j \in 1..Len(graph[r].tasks)
      <4>1. graph[s].tasks[i].order # graph[r].tasks[j].order
        BY <2>1, <3>3 DEF Apart
      <4>2. QED
        BY <1>4, <3>3, <4>1
    <3>4. CASE i \in 1..Len(graph[s].tasks) /\ j \notin 1..Len(graph[r].tasks)
      <4>1. graph'[r].tasks[j].order = num
        BY <3>2, <3>4
      <4>2. graph'[s].tasks[i].order \in Nat /\ graph'[s].tasks[i].order < num
        BY <1>4, <1>6, <3>4
      <4>3. QED
        BY <1>2, <4>1, <4>2
    <3>5. CASE i \notin 1..Len(graph[s].tasks)
      <4>1. j \in 1..Len(graph[r].tasks)
        BY <1>14, <3>1, <3>2, <3>5
      <4>2. graph'[r].tasks[j].order \in Nat /\ graph'[r].tasks[j].order < num
        BY <1>4, <1>6, <4>1
      <4>3. graph'[s].tasks[i].order = num
        BY <3>1, <3>5
      <4>4. QED
        BY <1>2, <4>2, <4>3
    <3>6. QED
      BY <3>3, <3>4, <3>5
  <2>7. QED
    BY <2>3, <2>5, <2>6 DEF Apart
<1>15. ASSUME NEW t \in Threads PROVE ThreadBound(t)'
  <2>1. ThreadBound(t) /\ thread'[t].pc = thread[t].pc /\ thread'[t].seq = thread[t].seq
        /\ thread'[t].order = thread[t].order
    BY <1>1, <1>3
  <2>2. thread'[t].pc \notin {"idle", "force"} =>
            thread'[t].seq \in Seqs /\ RunnerOf[thread'[t].seq] = t
    BY <2>1 DEF ThreadBound
  <2>3. thread'[t].pc \in {"task", "processed"} =>
            thread'[t].order = order'[thread'[t].seq].current
    BY <1>5, <2>1, <2>2 DEF ThreadBound
  <2>4. thread'[t].pc = "processed" => IsProcessingOrderNumber(order'[thread'[t].seq])
    BY <1>5, <2>1, <2>2 DEF ThreadBound, IsProcessingOrderNumber
  <2>5. ASSUME thread'[t].pc = "chosen", graph'[thread'[t].seq].sched
        PROVE  /\ IsFrontTaskUnblocked(graph', thread'[t].seq)
               /\ \A i \in 1..Len(adding') :
                      adding'[i].seq = thread'[t].seq =>
                          Front(graph', thread'[t].seq).order < adding'[i].order
    <3> DEFINE s == thread[t].seq
    <3>1. s \in Seqs /\ graph[s].sched
      BY <1>4, <2>1, <2>2, <2>5
    <3>2. IsFrontTaskUnblocked(graph, s)
      BY <2>1, <2>5, <3>1 DEF ThreadBound
    <3> HIDE DEF s
    <3>3. /\ graph[s].tasks # << >> /\ \A w \in graph[s].waits : w.order > Front(graph, s).order
      BY <3>2 DEF IsFrontTaskUnblocked
    <3>4. 1 \in 1..Len(graph[s].tasks) /\ Front(graph, s) = graph[s].tasks[1]
      BY <1>1, <3>1, <3>3, FrontLemma
    <3>5. /\ graph'[s].tasks # << >> /\ Front(graph', s) = graph'[s].tasks[1]
      <4>1. /\ graph'[s].tasks \in Seq(Tasks) /\ Len(graph[s].tasks) \in Nat
            /\ Len(graph'[s].tasks) = IF s = q THEN Len(graph[s].tasks) + 1
                                      ELSE Len(graph[s].tasks)
        BY <1>4, <3>1
      <4>2. Len(graph'[s].tasks) # 0
        BY <3>4, <4>1
      <4>3. QED
        BY <4>1, <4>2 DEF Front
    <3>6. Front(graph', s).order = Front(graph, s).order /\ Front(graph, s).order < num
      BY <1>4, <1>6, <3>1, <3>4, <3>5
    <3>7. IsFrontTaskUnblocked(graph', s)
      BY <1>4, <3>1, <3>3, <3>5, <3>6 DEF IsFrontTaskUnblocked
    <3>8. \A i \in 1..Len(adding') : adding'[i].order = num
      <4>1. CASE adding' = << >>
        BY <4>1
      <4>2. CASE adding' # << >>
        <5>1. PICK k : adding' = <<[seq |-> q, order |-> num, token |-> k]>>
          BY <1>2, <4>2 DEF TaskQueued
        <5>2. QED
          BY <5>1
      <4>3. QED
        BY <4>1, <4>2
    <3>9. QED
      BY <2>1, <3>6, <3>7, <3>8 DEF s
  <2>6. QED
    BY <2>2, <2>3, <2>4, <2>5 DEF ThreadBound
<1>16. AddingBound'
  <2>1. CASE adding' = << >>
    BY <2>1 DEF AddingBound
  <2>2. CASE adding' # << >>
    <3>1. PICK k : adding' = <<[seq |-> q, order |-> num, token |-> k]>>
      BY <1>2, <2>2 DEF TaskQueued
    <3>2. /\ Len(graph'[q].tasks) \in 1..Len(graph'[q].tasks)
          /\ graph'[q].tasks[Len(graph'[q].tasks)].order = num
      <4>1. /\ Len(graph[q].tasks) \in Nat
            /\ Len(graph'[q].tasks) = Len(graph[q].tasks) + 1
            /\ graph'[q].tasks[Len(graph'[q].tasks)].order = num
        BY <1>2, <1>4
      <4>2. QED
        BY <4>1
    <3>3. \A i \in 1..Len(adding') : adding'[i].seq = q /\ adding'[i].order = num
      BY <3>1
    <3>4. QED
      BY <1>2, <3>2, <3>3 DEF AddingBound
  <2>3. QED
    BY <2>1, <2>2
<1>17. DestroyingBound'
  <2>1. \A i \in 1..Len(destroying) : destroying[i].seq \in Seqs
    BY <1>1, DestroyingLemma
  <2>2. QED
    BY <1>1, <1>2, <1>4, <2>1 DEF DestroyingBound
<1>18. QED
  BY <1>9, <1>10, <1>11, <1>12, <1>13, <1>14, <1>15, <1>16, <1>17 DEF Numbered

LEMMA OneNumbered ==
    ASSUME GpuSound, NEW t, NEW s, OneMoved(t, s), OneKept(t, s)
    PROVE  Numbered'
<1>1. /\ GpuTypes
      /\ \A u \in Threads : ThreadBound(u)
      /\ \A x \in Seqs : /\ Ascending(x) /\ Ahead(x) /\ WaitsHaveTasks(x)
                         /\ NumsMatch(x) /\ Releases(x)
      /\ \A x, r \in Seqs : x # r => Apart(x, r)
      /\ AddingBound /\ DestroyingBound
  BY DEF GpuSound, Numbered
<1>2. /\ t \in Threads /\ s \in Seqs /\ RunnerOf[s] = t
      /\ thread[t].seq = s /\ thread'[t].seq = s
      /\ \A x \in Seqs \ {s} : graph'[x] = graph[x] /\ order'[x] = order[x]
      /\ \A u \in Threads \ {t} : thread'[u] = thread[u]
      /\ graph'[s].sched = graph[s].sched
      /\ adding = << >> \/ graph' = graph
      /\ client' = client /\ adding' = adding /\ destroying' = destroying
      /\ last_order' = last_order
  BY DEF OneMoved
<1>3. ASSUME NEW x \in Seqs \ {s}
      PROVE  Ascending(x)' /\ Ahead(x)' /\ WaitsHaveTasks(x)' /\ NumsMatch(x)'
  <2>1. graph'[x] = graph[x] /\ order'[x] = order[x] /\ last_order' = last_order
        /\ Ascending(x) /\ Ahead(x) /\ WaitsHaveTasks(x) /\ NumsMatch(x)
    BY <1>1, <1>2
  <2>2. Ascending(x)' /\ Ahead(x)' /\ WaitsHaveTasks(x)'
    BY <2>1 DEF Ascending, Ahead, WaitsHaveTasks
  <2>3. Processing(x)' <=> Processing(x)
    <3>1. RunnerOf[x] \in Threads
      BY Constants
    <3>2. CASE RunnerOf[x] = t
      BY <1>2, <3>2 DEF Processing
    <3>3. CASE RunnerOf[x] # t
      BY <1>2, <2>1, <3>1, <3>3 DEF Processing
    <3>4. QED
      BY <3>2, <3>3
  <2>4. NumsMatch(x)'
    BY <2>1, <2>3 DEF NumsMatch
  <2>5. QED
    BY <2>2, <2>4
<1>4. ASSUME NEW x \in Seqs PROVE Releases(x)'
  <2>1. Releases(x) /\ client'[x].told <= last_order'
    BY <1>1, <1>2 DEF Releases
  <2>2. /\ graph'[x].current <= last_order'
        /\ \A i \in 1..Len(graph'[x].tasks) : graph'[x].tasks[i].release <= last_order'
    <3>1. CASE x = s
      BY <1>2, <3>1 DEF OneKept
    <3>2. CASE x # s
      <4>1. graph'[x] = graph[x]
        BY <1>2, <3>2
      <4>2. QED
        BY <1>2, <2>1, <4>1 DEF Releases
    <3>3. QED
      BY <3>1, <3>2
  <2>3. ASSUME NEW u \in Threads PROVE thread'[u].release <= last_order'
    <3>1. CASE u = t
      BY <1>2, <3>1 DEF OneKept
    <3>2. CASE u # t
      BY <1>2, <2>1, <3>2 DEF Releases
    <3>3. QED
      BY <3>1, <3>2
  <2>4. QED
    BY <2>1, <2>2, <2>3 DEF Releases
<1>5. ASSUME NEW x \in Seqs, NEW r \in Seqs, x # r PROVE Apart(x, r)'
  <2>1. CASE x = s
    BY <1>5, <2>1 DEF OneKept
  <2>2. CASE r = s
    BY <1>5, <2>2 DEF OneKept
  <2>3. CASE x # s /\ r # s
    <3>1. /\ graph'[x] = graph[x] /\ order'[x] = order[x]
          /\ graph'[r] = graph[r] /\ order'[r] = order[r]
          /\ Apart(x, r)
      BY <1>1, <1>2, <1>5, <2>3
    <3>2. QED
      BY <3>1 DEF Apart
  <2>4. QED
    BY <2>1, <2>2, <2>3
<1>6. ASSUME NEW u \in Threads PROVE ThreadBound(u)'
  <2>1. CASE u = t
    BY <2>1 DEF OneKept
  <2>2. CASE u # t
    <3>1. thread'[u] = thread[u] /\ ThreadBound(u)
      BY <1>1, <1>2, <2>2
    <3>2. CASE thread[u].pc \in {"idle", "force"}
      BY <3>1, <3>2 DEF ThreadBound
    <3>3. CASE thread[u].pc \notin {"idle", "force"}
      <4>1. thread[u].seq \in Seqs /\ thread[u].seq # s
        BY <1>2, <2>2, <3>1, <3>3 DEF ThreadBound
      <4>2. /\ graph'[thread[u].seq] = graph[thread[u].seq]
            /\ order'[thread[u].seq] = order[thread[u].seq]
        BY <1>2, <4>1
      <4>3. adding' = adding
        BY <1>2
      <4>4. QED
        BY <3>1, <4>2, <4>3 DEF ThreadBound, IsFrontTaskUnblocked, Front
    <3>4. QED
      BY <3>2, <3>3
  <2>3. QED
    BY <2>1, <2>2
<1>7. AddingBound'
  BY <1>1, <1>2 DEF AddingBound
<1>8. DestroyingBound'
  <2>1. \A i \in 1..Len(destroying) : destroying[i].seq \in Seqs
    BY <1>1, DestroyingLemma
  <2>2. \A x \in Seqs : graph'[x].sched = graph[x].sched
    BY <1>2
  <2>3. QED
    BY <1>1, <1>2, <2>1, <2>2 DEF DestroyingBound
<1>9. \A x \in Seqs : Ascending(x)' /\ Ahead(x)' /\ WaitsHaveTasks(x)' /\ NumsMatch(x)'
  BY <1>3 DEF OneKept
<1>10. QED
  BY <1>4, <1>5, <1>6, <1>7, <1>8, <1>9 DEF Numbered

\* The chosen sequence s of thread t has no task to run any more.
LEMMA MissedKeeps ==
    ASSUME GpuSound, NEW t \in Threads, ExecuteSequence(t),
           ~ (/\ graph[thread[t].seq].sched /\ graph[thread[t].seq].enabled
              /\ graph[thread[t].seq].tasks # << >>)
    PROVE  /\ GpuTypes' /\ NumbersKept
           /\ ThreadStep(t, [thread[t] EXCEPT !.pc = "again"])
           /\ thread[t].pc = "chosen" /\ client' = client /\ checks' = FALSE
<1> DEFINE new == [thread[t] EXCEPT !.pc = "again"]
<1>1. /\ Now(t, "chosen")
      /\ thread' = [thread EXCEPT ![t] = new]
      /\ checks' = FALSE
      /\ UNCHANGED <<graph_validation, order, graph, client, adding, destroying, last_order, used>>
  BY DEF ExecuteSequence
<1>2. /\ thread[t] \in ThreadStates /\ thread \in [Threads -> ThreadStates]
      /\ thread[t].pc = "chosen"
  BY <1>1, NowLemma
<1>3. new \in ThreadStates /\ new.pc = "again" /\ new.seq = thread[t].seq
      /\ new.release = thread[t].release
  BY <1>2 DEF ThreadStates, Pcs, Executing
<1> HIDE DEF new
<1>4. client \in [Seqs -> ClientStates]
  BY DEF GpuSound, GpuTypes
<1>5. ThreadStep(t, new)
  BY <1>1, <1>3, <1>4 DEF ThreadStep
<1>6. thread'[t] = new
  BY <1>1, <1>2
<1>7. ThreadMoved(t)
  BY <1>2, <1>3, <1>6 DEF ThreadMoved
<1>8. QED
  BY <1>1, <1>2, <1>4, <1>5, <1>7, ThreadStepKeeps DEF new

LEMMA StartedLemma ==
    ASSUME GpuSound, NEW t \in Threads, ExecuteSequence(t),
           graph[thread[t].seq].sched, graph[thread[t].seq].enabled,
           graph[thread[t].seq].tasks # << >>
    PROVE  GpuTypes' /\ TaskStarted(t, thread[t].seq)
<1> DEFINE s == thread[t].seq
           task == Front(graph, s)
           q == [graph[s] EXCEPT !.tasks = Tail(@), !.running = TRUE, !.current = task.release]
           o == [order[s] EXCEPT !.current = task.order, !.paused = FALSE]
           new == [thread[t] EXCEPT !.pc = "task", !.order = task.order,
                                    !.release = task.release]
<1>1. /\ Now(t, "chosen") /\ adding = << >>
      /\ graph' = [graph EXCEPT ![s] = q]
      /\ order' = [order EXCEPT ![s] = o]
      /\ thread' = [thread EXCEPT ![t] = new]
      /\ checks' = (checks /\ ~ graph[s].running /\ BeginChecks(order[s], task.order))
      /\ UNCHANGED <<graph_validation, client, adding, destroying, last_order, used>>
  BY DEF ExecuteSequence, GraphUnlocked, BeginProcessingOrderNumber
<1>2. /\ thread[t] \in ThreadStates /\ thread \in [Threads -> ThreadStates]
      /\ thread[t].pc = "chosen" /\ thread[t].callbacks = {} /\ s \in Seqs /\ RunnerOf[s] = t
  BY <1>1, NowLemma
<1>3. /\ GpuTypes /\ graph \in [Seqs -> Sequences] /\ order \in [Seqs -> OrderDatas]
      /\ graph[s] \in Sequences /\ order[s] \in OrderDatas
      /\ graph[s].tasks \in Seq(Tasks) /\ ThreadBound(t) /\ Free(t)
  BY <1>1, <1>2 DEF GpuSound, GpuTypes, Numbered, Sequences, Now
<1>4. task \in Tasks /\ task.order \in 1..MaxTasks /\ task.release \in 0..MaxTasks
      /\ task.order \in 0..MaxTasks
  BY <1>2, <1>3, FrontLemma
<1>5. IsFrontTaskUnblocked(graph, s)
  BY <1>2, <1>3 DEF ThreadBound
<1> HIDE DEF task
<1>6. /\ q \in Sequences /\ q.tasks = Tail(graph[s].tasks) /\ q.current = task.release
      /\ q.running /\ q.sched = graph[s].sched /\ q.map = graph[s].map
      /\ q.waits = graph[s].waits /\ q.enabled = graph[s].enabled
  <2>1. Tail(graph[s].tasks) \in Seq(Tasks)
    BY <1>3, SeqTail
  <2> HIDE DEF s
  <2>2. QED
    BY <1>3, <1>4, <2>1 DEF Sequences
<1>7. /\ o \in OrderDatas /\ o.current = task.order /\ ~ o.paused
      /\ o.nums = order[s].nums /\ o.processed = order[s].processed
      /\ o.last = order[s].last /\ o.fences = order[s].fences
      /\ o.destroyed = order[s].destroyed
  <2> HIDE DEF s
  <2>1. QED
    BY <1>3, <1>4 DEF OrderDatas
<1>8. /\ new \in ThreadStates /\ new.pc = "task" /\ new.seq = s /\ new.order = task.order
      /\ new.release = task.release /\ new.callbacks = {} /\ new.running = thread[t].running
      /\ new.posted = thread[t].posted /\ new.fences = thread[t].fences
  BY <1>2, <1>4 DEF ThreadStates, Pcs, Executing
<1>9. /\ graph' \in [Seqs -> Sequences]
      /\ \A x \in Seqs : graph'[x] = IF x = s THEN q ELSE graph[x]
  <2> HIDE DEF s, q
  <2>1. QED
    BY <1>1, <1>2, <1>3, <1>6
<1>10. /\ order' \in [Seqs -> OrderDatas]
       /\ \A x \in Seqs : order'[x] = IF x = s THEN o ELSE order[x]
  <2> HIDE DEF s, o
  <2>1. QED
    BY <1>1, <1>2, <1>3, <1>7
<1>11. /\ thread' \in [Threads -> ThreadStates]
       /\ \A u \in Threads : thread'[u] = IF u = t THEN new ELSE thread[u]
  <2> HIDE DEF new
  <2>1. QED
    BY <1>1, <1>2, <1>8
<1>12. checks' \in BOOLEAN
  BY <1>1
<1>13. GpuTypes'
  BY <1>1, <1>3, <1>9, <1>10, <1>11, <1>12 DEF GpuTypes
<1> HIDE DEF q, o
<1>14. thread'[t] = [thread[t] EXCEPT !.pc = "task", !.order = task.order,
                                      !.release = task.release]
  BY <1>11
<1> HIDE DEF new, s
<1>15. thread[t].seq = s
  BY DEF s
<1>16. TaskStarted(t, s)
  BY <1>1, <1>2, <1>3, <1>5, <1>6, <1>7, <1>8, <1>9, <1>10, <1>11, <1>14, <1>15
  DEF TaskStarted, task, s
<1>17. QED
  BY <1>13, <1>15, <1>16

LEMMA StartedNumbered ==
    ASSUME GpuSound, GpuTypes', NEW t, NEW s, TaskStarted(t, s)
    PROVE  Numbered'
<1> DEFINE task == Front(graph, s)
           n == Len(graph'[s].tasks)
<1>1. /\ GpuTypes /\ t \in Threads /\ s \in Seqs /\ RunnerOf[s] = t
      /\ graph[s].tasks # << >> /\ last_order' = last_order
      /\ Ascending(s) /\ Ahead(s) /\ WaitsHaveTasks(s) /\ NumsMatch(s) /\ Releases(s)
      /\ \A r \in Seqs \ {s} : Apart(s, r) /\ Apart(r, s)
  BY DEF GpuSound, Numbered, TaskStarted
<1>2. /\ graph[s].tasks \in Seq(Tasks) /\ order[s] \in OrderDatas /\ last_order \in Nat
  BY <1>1, Constants DEF GpuTypes, Sequences
<1>3. /\ graph'[s].tasks = Tail(graph[s].tasks) /\ graph'[s].current = task.release
      /\ graph'[s].sched = graph[s].sched /\ graph'[s].waits = graph[s].waits
      /\ order'[s].current = task.order /\ ~ order'[s].paused
      /\ order'[s].nums = order[s].nums /\ order'[s].processed = order[s].processed
      /\ thread[t].pc = "chosen" /\ thread'[t].pc = "task" /\ thread'[t].seq = s
      /\ thread'[t].order = task.order /\ thread'[t].release = task.release
      /\ graph[s].sched /\ IsFrontTaskUnblocked(graph, s)
  BY DEF TaskStarted
<1>4. /\ n \in Nat /\ n + 1 = Len(graph[s].tasks) /\ 1 \in 1..Len(graph[s].tasks)
      /\ task = graph[s].tasks[1]
      /\ \A i \in 1..n : i + 1 \in 1..Len(graph[s].tasks)
                         /\ graph'[s].tasks[i] = graph[s].tasks[i + 1]
  BY <1>1, <1>2, <1>3, SeqTail DEF Front
<1>5. /\ task.order \in Nat /\ order[s].processed \in Nat
      /\ \A i \in 1..Len(graph[s].tasks) : graph[s].tasks[i].order \in Nat
  <2>1. \A i \in 1..Len(graph[s].tasks) : graph[s].tasks[i].order \in Nat
    BY <1>1, TaskType, Constants
  <2>2. order[s].processed \in Nat
    BY <1>2, Constants DEF OrderDatas
  <2>3. QED
    BY <1>4, <2>1, <2>2
<1> HIDE DEF task, n
<1>6. OneMoved(t, s)
  BY DEF TaskStarted, OneMoved
<1>7. \A i \in 1..n : task.order < graph'[s].tasks[i].order
  <2>1. ASSUME NEW i \in 1..n PROVE task.order < graph'[s].tasks[i].order
    <3>1. i + 1 \in 1..Len(graph[s].tasks) /\ 1 < i + 1
      BY <1>4
    <3>2. graph[s].tasks[1].order < graph[s].tasks[i + 1].order
      BY <1>1, <1>4, <3>1 DEF Ascending
    <3>3. QED
      BY <1>4, <3>2
  <2>2. QED
    BY <2>1
<1>8. Ascending(s)'
  <2>1. ASSUME NEW i \in 1..n, NEW j \in 1..n, i < j
        PROVE  graph'[s].tasks[i].order < graph'[s].tasks[j].order
    <3>1. i + 1 \in 1..Len(graph[s].tasks) /\ j + 1 \in 1..Len(graph[s].tasks) /\ i + 1 < j + 1
      BY <1>4, <2>1
    <3>2. graph[s].tasks[i + 1].order < graph[s].tasks[j + 1].order
      BY <1>1, <3>1 DEF Ascending
    <3>3. QED
      BY <1>4, <3>2
  <2>2. \A i \in 1..n : graph'[s].tasks[i].order <= last_order
    BY <1>1, <1>4 DEF Ascending
  <2>3. QED
    BY <1>1, <1>3, <2>1, <2>2 DEF Ascending, n
<1>9. Ahead(s)'
  <2>1. order[s].processed < task.order /\ task.order <= last_order
    BY <1>1, <1>4 DEF Ahead, Ascending
  <2>2. \A i \in 1..n : order[s].processed < graph'[s].tasks[i].order
    BY <1>1, <1>4 DEF Ahead
  <2>3. \A i \in 1..n : graph'[s].tasks[i].order \in Nat
    BY <1>4, <1>5
  <2>4. \A i \in 1..n : task.order <= graph'[s].tasks[i].order
    BY <1>5, <1>7, <2>3
  <2>5. order[s].processed <= task.order
    BY <1>5, <2>1
  <2>6. QED
    BY <1>1, <1>3, <1>7, <2>1, <2>2, <2>4, <2>5 DEF Ahead, n
<1>10. WaitsHaveTasks(s)'
  <2>1. ASSUME NEW w \in graph[s].waits
        PROVE  \E i \in 1..n : graph'[s].tasks[i].order = w.order
    <3>1. PICK i \in 1..Len(graph[s].tasks) : graph[s].tasks[i].order = w.order
      BY <1>1 DEF WaitsHaveTasks
    <3>2. w.order > task.order
      BY <1>3 DEF IsFrontTaskUnblocked, task
    <3>3. i # 1
      BY <1>4, <1>5, <3>1, <3>2
    <3>4. i - 1 \in 1..n /\ (i - 1) + 1 = i
      BY <1>4, <3>3
    <3>5. graph'[s].tasks[i - 1] = graph[s].tasks[i]
      BY <1>4, <3>4
    <3>6. QED
      BY <3>1, <3>4, <3>5
  <2>2. QED
    BY <1>3, <2>1 DEF WaitsHaveTasks, n
<1>11. NumsMatch(s)'
  <2>1. ~ Processing(s)
    BY <1>1, <1>3 DEF Processing
  <2>2. /\ Len(order[s].nums) = n + 1
        /\ \A i \in 1..(n + 1) : order[s].nums[i] = graph[s].tasks[i].order
    BY <1>1, <1>3, <1>4, <2>1 DEF NumsMatch
  <2>3. Processing(s)'
    <3>1. order'[s].current > order'[s].processed
      BY <1>1, <1>3, <1>4, <1>5 DEF Ahead
    <3>2. QED
      BY <1>1, <1>3, <3>1 DEF Processing, IsProcessingOrderNumber
  <2>4. order[s].nums # << >> /\ order[s].nums[1] = task.order
    <3>1. 1 \in 1..(n + 1) /\ Len(order[s].nums) # 0
      BY <1>4, <2>2
    <3>2. QED
      BY <1>4, <2>2, <3>1
  <2>5. \A i \in 1..n : order[s].nums[i + 1] = graph'[s].tasks[i].order
    BY <1>4, <2>2
  <2>6. QED
    BY <1>3, <2>2, <2>3, <2>4, <2>5 DEF NumsMatch, n
<1>12. /\ graph'[s].current <= last_order /\ thread'[t].release <= last_order
       /\ \A i \in 1..n : graph'[s].tasks[i].release <= last_order
  BY <1>1, <1>3, <1>4 DEF Releases
<1>13. ASSUME NEW r \in Seqs \ {s} PROVE Apart(s, r)' /\ Apart(r, s)'
  <2>1. /\ Apart(s, r) /\ Apart(r, s)
        /\ graph'[r] = graph[r] /\ order'[r] = order[r]
    BY <1>1 DEF TaskStarted
  <2>2. /\ task.order # order[r].current
        /\ \A i \in 1..Len(graph[r].tasks) : task.order # graph[r].tasks[i].order
    BY <1>4, <2>1 DEF Apart
  <2>3. ASSUME NEW i \in 1..n
        PROVE  /\ order[r].current # graph'[s].tasks[i].order
               /\ \A j \in 1..Len(graph[r].tasks) :
                      graph'[s].tasks[i].order # graph[r].tasks[j].order
    BY <1>4, <2>1 DEF Apart
  <2>4. Apart(s, r)'
    BY <1>3, <2>1, <2>2, <2>3 DEF Apart, n
  <2>5. order'[r].current # 0 => order'[r].current # order'[s].current
    BY <1>3, <2>1, <2>2
  <2>6. \A i \in 1..n : order'[r].current # graph'[s].tasks[i].order
    BY <2>1, <2>3
  <2>7. \A j \in 1..Len(graph'[r].tasks), i \in 1..n :
            graph'[r].tasks[j].order # graph'[s].tasks[i].order
    BY <2>1, <2>3
  <2>8. Apart(r, s)'
    BY <2>5, <2>6, <2>7 DEF Apart, n
  <2>9. QED
    BY <2>4, <2>8
<1>14. ThreadBound(t)'
  BY <1>1, <1>3 DEF ThreadBound
<1>15. OneKept(t, s)
  BY <1>8, <1>9, <1>10, <1>11, <1>12, <1>13, <1>14 DEF OneKept, n
<1>16. QED
  BY <1>6, <1>15, OneNumbered

LEMMA ContinuedLemma ==
    ASSUME GpuSound, NEW t \in Threads, TaskContinues(t)
    PROVE  GpuTypes' /\ \E task : TaskContinued(t, thread[t].seq, task)
<1> DEFINE s == thread[t].seq
           task == [order |-> order[s].current, release |-> graph[s].current, waits |-> {},
                    validated |-> FALSE, due |-> FALSE]
           q == [graph[s] EXCEPT !.tasks = <<task>> \o @, !.current = 0]
           o == [order[s] EXCEPT !.paused = TRUE]
<1>1. /\ Now(t, "task") /\ adding = << >> /\ MayDoExtra
      /\ graph[s].sched /\ IsProcessingOrderNumber(order[s])
      /\ graph' = [graph EXCEPT ![s] = q]
      /\ order' = [order EXCEPT ![s] = o]
      /\ checks' = (checks /\ graph[s].running)
      /\ UNCHANGED <<graph_validation, client, thread, adding, destroying, last_order>>
  BY DEF TaskContinues, GraphUnlocked, PauseProcessingOrderNumber
<1>2. thread[t].pc = "task" /\ s \in Seqs /\ RunnerOf[s] = t
  BY <1>1, NowLemma
<1> HIDE DEF s
<1>3. /\ GpuTypes /\ graph \in [Seqs -> Sequences] /\ order \in [Seqs -> OrderDatas]
      /\ graph[s] \in Sequences /\ order[s] \in OrderDatas
      /\ graph[s].tasks \in Seq(Tasks)
  BY <1>2 DEF GpuSound, GpuTypes, Sequences
<1>4. task \in Tasks
  <2>1. order[s].current \in 0..MaxTasks /\ order[s].processed \in 0..MaxTasks
        /\ graph[s].current \in 0..MaxTasks
    BY <1>3 DEF OrderDatas, Sequences
  <2>2. order[s].current \in 1..MaxTasks
    BY <1>1, <2>1, Constants DEF IsProcessingOrderNumber
  <2>3. QED
    BY <2>1, <2>2 DEF Tasks
<1>5. /\ task.order = order[s].current /\ task.release = graph[s].current
      /\ task.waits = {}
  OBVIOUS
<1> HIDE DEF task
<1>6. /\ q \in Sequences /\ q.tasks = <<task>> \o graph[s].tasks /\ q.current = 0
      /\ q.running = graph[s].running /\ q.sched = graph[s].sched /\ q.map = graph[s].map
      /\ q.waits = graph[s].waits /\ q.enabled = graph[s].enabled
  <2>1. <<task>> \o graph[s].tasks \in Seq(Tasks)
    BY <1>3, <1>4, SeqCons
  <2>2. 0 \in 0..MaxTasks
    BY Constants
  <2>3. QED
    BY <1>3, <2>1, <2>2 DEF Sequences
<1>7. /\ o \in OrderDatas /\ o.current = order[s].current /\ o.paused
      /\ o.nums = order[s].nums /\ o.processed = order[s].processed
      /\ o.last = order[s].last /\ o.fences = order[s].fences
      /\ o.destroyed = order[s].destroyed
  BY <1>3 DEF OrderDatas
<1> HIDE DEF q, o
<1>8. /\ graph' \in [Seqs -> Sequences]
      /\ \A x \in Seqs : graph'[x] = IF x = s THEN q ELSE graph[x]
  BY <1>1, <1>2, <1>3, <1>6
<1>9. /\ order' \in [Seqs -> OrderDatas]
      /\ \A x \in Seqs : order'[x] = IF x = s THEN o ELSE order[x]
  BY <1>1, <1>2, <1>3, <1>7
<1>10. checks' \in BOOLEAN
  BY <1>1
<1>11. used' \in 0..MaxExtras
  BY <1>1, <1>3, ExtraLemma
<1>12. GpuTypes'
  BY <1>1, <1>3, <1>8, <1>9, <1>10, <1>11 DEF GpuTypes
<1>13. TaskContinued(t, s, task)
  BY <1>1, <1>2, <1>4, <1>5, <1>6, <1>7, <1>8, <1>9 DEF TaskContinued, s
<1>14. QED
  BY <1>12, <1>13 DEF s

LEMMA ContinuedNumbered ==
    ASSUME GpuSound, GpuTypes', NEW t, NEW s, NEW task, TaskContinued(t, s, task)
    PROVE  Numbered'
<1> DEFINE n == Len(graph[s].tasks)
           num == order[s].current
<1>1. /\ GpuTypes /\ t \in Threads /\ s \in Seqs /\ RunnerOf[s] = t
      /\ last_order' = last_order /\ ThreadBound(t)
      /\ Ascending(s) /\ Ahead(s) /\ WaitsHaveTasks(s) /\ NumsMatch(s) /\ Releases(s)
      /\ \A r \in Seqs \ {s} : Apart(s, r) /\ Apart(r, s)
  BY DEF GpuSound, Numbered, TaskContinued
<1>2. /\ graph[s].tasks \in Seq(Tasks) /\ order[s] \in OrderDatas /\ last_order \in Nat
      /\ task \in Tasks
  BY <1>1, Constants DEF GpuTypes, Sequences, TaskContinued
<1>3. /\ graph'[s].tasks = <<task>> \o graph[s].tasks /\ graph'[s].current = 0
      /\ graph'[s].sched = graph[s].sched /\ graph'[s].waits = graph[s].waits
      /\ order'[s].current = num /\ order'[s].paused
      /\ order'[s].nums = order[s].nums /\ order'[s].processed = order[s].processed
      /\ thread[t].pc = "task" /\ thread[t].seq = s /\ thread' = thread
      /\ IsProcessingOrderNumber(order[s]) /\ graph[s].sched
      /\ task.order = num /\ task.release = graph[s].current
  BY DEF TaskContinued
<1>4. /\ n \in Nat /\ Len(graph'[s].tasks) = n + 1 /\ graph'[s].tasks[1] = task
      /\ \A i \in 2..(n + 1) : i - 1 \in 1..n /\ graph'[s].tasks[i] = graph[s].tasks[i - 1]
  BY <1>2, <1>3, SeqCons
<1>5. /\ num \in Nat /\ order[s].processed \in Nat /\ ~ order[s].paused
      /\ num > order[s].processed
      /\ \A i \in 1..n : graph[s].tasks[i].order \in Nat
  <2>1. \A i \in 1..n : graph[s].tasks[i].order \in Nat
    BY <1>1, TaskType, Constants
  <2>2. order[s].processed \in Nat /\ num \in Nat
    BY <1>2, Constants DEF OrderDatas
  <2>3. QED
    BY <1>3, <2>1, <2>2 DEF IsProcessingOrderNumber
<1> HIDE DEF num, n
<1>6. OneMoved(t, s)
  BY DEF TaskContinued, OneMoved
<1>7. /\ \A i \in 1..n : num < graph[s].tasks[i].order /\ order[s].processed < graph[s].tasks[i].order
      /\ num <= last_order
  BY <1>1, <1>5 DEF Ahead, n, num
<1>8. \A i \in 1..(n + 1) : i = 1 \/ i \in 2..(n + 1)
  BY <1>4
<1>9. Ascending(s)'
  <2>1. ASSUME NEW i \in 1..(n + 1), NEW j \in 1..(n + 1), i < j
        PROVE  graph'[s].tasks[i].order < graph'[s].tasks[j].order
    <3>1. j \in 2..(n + 1)
      BY <1>4, <2>1
    <3>2. j - 1 \in 1..n /\ graph'[s].tasks[j] = graph[s].tasks[j - 1]
      BY <1>4, <3>1
    <3>3. CASE i = 1
      BY <1>3, <1>4, <1>7, <3>2, <3>3
    <3>4. CASE i \in 2..(n + 1)
      <4>1. i - 1 \in 1..n /\ graph'[s].tasks[i] = graph[s].tasks[i - 1] /\ i - 1 < j - 1
        BY <1>4, <2>1, <3>4
      <4>2. graph[s].tasks[i - 1].order < graph[s].tasks[j - 1].order
        BY <1>1, <3>2, <4>1 DEF Ascending, n
      <4>3. QED
        BY <3>2, <4>1, <4>2
    <3>5. QED
      BY <1>8, <3>3, <3>4
  <2>2. ASSUME NEW i \in 1..(n + 1) PROVE graph'[s].tasks[i].order <= last_order
    <3>1. CASE i = 1
      BY <1>3, <1>4, <1>7, <3>1
    <3>2. CASE i \in 2..(n + 1)
      BY <1>1, <1>4, <3>2 DEF Ascending, n
    <3>3. QED
      BY <1>8, <3>1, <3>2
  <2>3. QED
    BY <1>1, <1>3, <1>4, <2>1, <2>2 DEF Ascending
<1>10. Ahead(s)'
  <2>1. ASSUME NEW i \in 1..(n + 1)
        PROVE  /\ order[s].processed < graph'[s].tasks[i].order
               /\ num <= graph'[s].tasks[i].order
    <3>1. CASE i = 1
      BY <1>3, <1>4, <1>5, <3>1
    <3>2. CASE i \in 2..(n + 1)
      <4>1. i - 1 \in 1..n /\ graph'[s].tasks[i] = graph[s].tasks[i - 1]
        BY <1>4, <3>2
      <4>2. num < graph[s].tasks[i - 1].order /\ order[s].processed < graph[s].tasks[i - 1].order
            /\ graph[s].tasks[i - 1].order \in Nat
        BY <1>5, <1>7, <4>1
      <4>3. QED
        BY <1>5, <4>1, <4>2
    <3>3. QED
      BY <1>8, <3>1, <3>2
  <2>2. order[s].processed <= num
    BY <1>5
  <2>3. QED
    BY <1>1, <1>3, <1>4, <1>7, <2>1, <2>2 DEF Ahead
<1>11. WaitsHaveTasks(s)'
  <2>1. ASSUME NEW w \in graph[s].waits
        PROVE  \E i \in 1..(n + 1) : graph'[s].tasks[i].order = w.order
    <3>1. PICK i \in 1..n : graph[s].tasks[i].order = w.order
      BY <1>1 DEF WaitsHaveTasks, n
    <3>2. i + 1 \in 2..(n + 1) /\ i + 1 \in 1..(n + 1) /\ (i + 1) - 1 = i
      BY <1>4
    <3>3. graph'[s].tasks[i + 1] = graph[s].tasks[i]
      BY <1>4, <3>2
    <3>4. QED
      BY <3>1, <3>2, <3>3
  <2>2. QED
    BY <1>3, <1>4, <2>1 DEF WaitsHaveTasks
<1>12. NumsMatch(s)'
  <2>1. Processing(s)
    BY <1>1, <1>3 DEF Processing
  <2>2. /\ order[s].nums[1] = num /\ Len(order[s].nums) = n + 1
        /\ \A i \in 1..n : order[s].nums[i + 1] = graph[s].tasks[i].order
    BY <1>1, <1>3, <2>1 DEF NumsMatch, n, num
  <2>3. ~ Processing(s)'
    BY <1>3 DEF Processing, IsProcessingOrderNumber
  <2>4. ASSUME NEW i \in 1..(n + 1) PROVE order[s].nums[i] = graph'[s].tasks[i].order
    <3>1. CASE i = 1
      BY <1>3, <1>4, <2>2, <3>1
    <3>2. CASE i \in 2..(n + 1)
      <4>1. i - 1 \in 1..n /\ graph'[s].tasks[i] = graph[s].tasks[i - 1] /\ (i - 1) + 1 = i
        BY <1>4, <3>2
      <4>2. QED
        BY <2>2, <4>1
    <3>3. QED
      BY <1>8, <3>1, <3>2
  <2>5. QED
    BY <1>3, <1>4, <2>2, <2>3, <2>4 DEF NumsMatch
<1>13. /\ graph'[s].current <= last_order /\ thread'[t].release <= last_order
       /\ \A i \in 1..(n + 1) : graph'[s].tasks[i].release <= last_order
  <2>1. 0 <= last_order /\ task.release <= last_order
    BY <1>1, <1>2, <1>3 DEF Releases
  <2>2. \A i \in 1..n : graph[s].tasks[i].release <= last_order
    BY <1>1 DEF Releases, n
  <2>3. QED
    BY <1>1, <1>3, <1>4, <1>8, <2>1, <2>2 DEF Releases
<1>14. ASSUME NEW r \in Seqs \ {s} PROVE Apart(s, r)' /\ Apart(r, s)'
  <2>1. /\ Apart(s, r) /\ Apart(r, s)
        /\ graph'[r] = graph[r] /\ order'[r] = order[r]
    BY <1>1 DEF TaskContinued
  <2>2. num # 0
    BY <1>5
  <2>3. /\ num # order[r].current
        /\ \A j \in 1..Len(graph[r].tasks) : num # graph[r].tasks[j].order
    BY <2>1, <2>2 DEF Apart, num
  <2>4. ASSUME NEW i \in 1..(n + 1)
        PROVE  /\ order[r].current # graph'[s].tasks[i].order
               /\ \A j \in 1..Len(graph[r].tasks) :
                      graph'[s].tasks[i].order # graph[r].tasks[j].order
    <3>1. CASE i = 1
      BY <1>3, <1>4, <2>3, <3>1
    <3>2. CASE i \in 2..(n + 1)
      <4>1. i - 1 \in 1..Len(graph[s].tasks) /\ graph'[s].tasks[i] = graph[s].tasks[i - 1]
        BY <1>4, <3>2 DEF n
      <4>2. QED
        BY <2>1, <4>1 DEF Apart
    <3>3. QED
      BY <1>8, <3>1, <3>2
  <2>5. Apart(s, r)'
    BY <1>3, <1>4, <2>1, <2>3, <2>4 DEF Apart
  <2>6. order'[r].current # 0 => order'[r].current # order'[s].current
    BY <1>3, <2>1, <2>3
  <2>7. \A i \in 1..(n + 1) : order'[r].current # graph'[s].tasks[i].order
    BY <2>1, <2>4
  <2>8. \A j \in 1..Len(graph'[r].tasks), i \in 1..(n + 1) :
            graph'[r].tasks[j].order # graph'[s].tasks[i].order
    BY <2>1, <2>4
  <2>9. Apart(r, s)'
    BY <1>4, <2>6, <2>7, <2>8 DEF Apart
  <2>10. QED
    BY <2>5, <2>9
<1>15. ThreadBound(t)'
  BY <1>1, <1>3 DEF ThreadBound, num
<1>16. OneKept(t, s)
  BY <1>4, <1>9, <1>10, <1>11, <1>12, <1>13, <1>14, <1>15 DEF OneKept
<1>17. QED
  BY <1>6, <1>16, OneNumbered

LEMMA DoneLemma ==
    ASSUME GpuSound, NEW t \in Threads, FinishProcessing(t)
    PROVE  GpuTypes' /\ \E overdue : NumberDone(t, thread[t].seq, overdue)
<1> DEFINE s == thread[t].seq
           num == thread[t].order
           fin == FinishOrderNumber(order[s], num)
           overdue == IF graph_validation THEN {} ELSE Overdue(fin)
           o == [order[s] EXCEPT !.processed = num, !.nums = Tail(@), !.fences = @ \ overdue]
           new == [thread[t] EXCEPT !.pc = IF overdue = {} THEN "finish" ELSE "overdue",
                                    !.fences = overdue]
<1>1. /\ Now(t, "processed")
      /\ order' = [order EXCEPT ![s] = [fin EXCEPT !.fences = @ \ overdue]]
      /\ thread' = [thread EXCEPT ![t] = new]
      /\ checks' = (checks /\ FinishChecks(order[s], num))
      /\ UNCHANGED <<graph_validation, client, graph, adding, destroying, last_order, used>>
  BY DEF FinishProcessing
<1>2. /\ thread[t] \in ThreadStates /\ thread \in [Threads -> ThreadStates]
      /\ thread[t].pc = "processed" /\ thread[t].callbacks = {} /\ s \in Seqs /\ RunnerOf[s] = t
  BY <1>1, NowLemma
<1>3. /\ GpuTypes /\ order \in [Seqs -> OrderDatas] /\ order[s] \in OrderDatas
      /\ ThreadBound(t) /\ NumsMatch(s)
      /\ order[s].nums \in Seq(1..MaxTasks)
  BY <1>2 DEF GpuSound, GpuTypes, Numbered, OrderDatas
<1>4. num = order[s].current /\ IsProcessingOrderNumber(order[s])
  BY <1>2, <1>3 DEF ThreadBound
<1>5. order[s].nums # << >> /\ order[s].nums[1] = order[s].current
  <2>1. Processing(s)
    BY <1>2, <1>4 DEF Processing
  <2>2. QED
    BY <1>3, <2>1 DEF NumsMatch
<1>6. /\ fin \in OrderDatas /\ fin.nums = Tail(order[s].nums) /\ fin.fences = order[s].fences
      /\ fin = [order[s] EXCEPT !.processed = num, !.nums = Tail(@)]
  <2>1. Tail(order[s].nums) \in Seq(1..MaxTasks)
    BY <1>3, <1>5, SeqTail
  <2>2. num \in 0..MaxTasks
    BY <1>2 DEF ThreadStates
  <2>3. fin = [order[s] EXCEPT !.processed = num, !.nums = Tail(@)]
    BY DEF FinishOrderNumber
  <2> HIDE DEF num, s, fin
  <2>4. QED
    BY <1>3, <2>1, <2>2, <2>3 DEF OrderDatas
<1>7. /\ overdue \subseteq order[s].fences
      /\ overdue = IF graph_validation THEN {}
                   ELSE {f \in order[s].fences :
                            fin.nums = << >> \/ f.order < Head(fin.nums)}
  BY <1>6 DEF Overdue
<1>8. [fin EXCEPT !.fences = @ \ overdue] = o
  <2> HIDE DEF overdue, num, s, fin
  <2>1. QED
    BY <1>3, <1>6 DEF OrderDatas
<1> HIDE DEF overdue
<1>9. /\ o \in OrderDatas /\ o.processed = num /\ o.nums = Tail(order[s].nums)
      /\ o.fences = order[s].fences \ overdue /\ o.current = order[s].current
      /\ o.paused = order[s].paused /\ o.last = order[s].last
      /\ o.destroyed = order[s].destroyed
  <2>1. Tail(order[s].nums) \in Seq(1..MaxTasks)
    BY <1>3, <1>5, SeqTail
  <2>2. num \in 0..MaxTasks
    BY <1>2 DEF ThreadStates
  <2> HIDE DEF num, s, fin
  <2>3. QED
    BY <1>3, <2>1, <2>2 DEF OrderDatas
<1>10. /\ new \in ThreadStates /\ new.pc \in {"finish", "overdue"} /\ new.seq = s
       /\ new.fences = overdue /\ new.callbacks = {} /\ new.release = thread[t].release
       /\ new.running = thread[t].running /\ new.posted = thread[t].posted
  <2>1. overdue \subseteq OrderFences
    BY <1>3, <1>7 DEF OrderDatas
  <2>2. QED
    BY <1>2, <2>1 DEF ThreadStates, Pcs, Executing
<1> HIDE DEF o, new, fin
<1>11. /\ order' \in [Seqs -> OrderDatas]
       /\ \A x \in Seqs : order'[x] = IF x = s THEN o ELSE order[x]
  <2> HIDE DEF s
  <2>1. QED
    BY <1>1, <1>2, <1>3, <1>8, <1>9
<1>12. /\ thread' \in [Threads -> ThreadStates]
       /\ \A u \in Threads : thread'[u] = IF u = t THEN new ELSE thread[u]
  BY <1>1, <1>2, <1>10
<1>13. checks' \in BOOLEAN
  BY <1>1
<1>14. GpuTypes'
  BY <1>1, <1>3, <1>11, <1>12, <1>13 DEF GpuTypes
<1> HIDE DEF s
<1>15. thread[t].seq = s
  BY DEF s
<1>16. order'[s] = o
  BY <1>2, <1>11
<1>17. overdue = IF graph_validation THEN {}
                 ELSE {f \in order[s].fences :
                          order'[s].nums = << >> \/ f.order < Head(order'[s].nums)}
  <2>1. fin.nums = order'[s].nums
    BY <1>6, <1>9, <1>16
  <2>2. QED
    BY <1>7, <2>1
<1>18. \A x \in Seqs \ {s} : order'[x] = order[x]
  BY <1>11
<1>19. \A u \in Threads \ {t} : thread'[u] = thread[u]
  BY <1>12
<1>20. thread'[t] = new
  BY <1>12
<1>21. NumberDone(t, s, overdue)
  BY <1>1, <1>2, <1>4, <1>5, <1>7, <1>9, <1>10, <1>15, <1>16, <1>17, <1>18, <1>19, <1>20
  DEF NumberDone
<1>22. QED
  BY <1>14, <1>15, <1>21

LEMMA DoneNumbered ==
    ASSUME GpuSound, GpuTypes', NEW t, NEW s, NEW overdue, NumberDone(t, s, overdue)
    PROVE  Numbered'
<1> DEFINE n == Len(order'[s].nums)
<1>1. /\ GpuTypes /\ t \in Threads /\ s \in Seqs /\ RunnerOf[s] = t
      /\ last_order' = last_order /\ graph' = graph /\ thread'[t].seq = s
      /\ thread'[t].pc \in {"finish", "overdue"} /\ thread'[t].release = thread[t].release
      /\ Ascending(s) /\ Ahead(s) /\ WaitsHaveTasks(s) /\ NumsMatch(s) /\ Releases(s)
      /\ \A r \in Seqs \ {s} : Apart(s, r) /\ Apart(r, s)
  BY DEF GpuSound, Numbered, NumberDone
<1>2. /\ order[s] \in OrderDatas /\ order[s].nums \in Seq(1..MaxTasks)
      /\ order[s].current \in Nat /\ order[s].processed \in Nat
  <2>1. order[s] \in OrderDatas
    BY <1>1 DEF GpuTypes
  <2>2. QED
    BY <2>1, Constants DEF OrderDatas
<1>3. /\ order[s].nums # << >> /\ order'[s].nums = Tail(order[s].nums)
      /\ order'[s].processed = order[s].current
      /\ order'[s].current = order[s].current /\ order'[s].paused = order[s].paused
      /\ IsProcessingOrderNumber(order[s]) /\ ~ order[s].paused
      /\ thread[t].seq = s /\ thread[t].pc = "processed"
  BY DEF NumberDone, IsProcessingOrderNumber
<1>4. /\ n \in Nat /\ n + 1 = Len(order[s].nums)
      /\ \A i \in 1..n : i + 1 \in 1..Len(order[s].nums)
                         /\ order'[s].nums[i] = order[s].nums[i + 1]
  BY <1>2, <1>3, SeqTail
<1> HIDE DEF n
<1>5. OneMoved(t, s)
  BY <1>1 DEF NumberDone, OneMoved
<1>6. Ascending(s)'
  <2>1. ASSUME NEW i \in 1..n, NEW j \in 1..n, i < j
        PROVE  order'[s].nums[i] < order'[s].nums[j]
    <3>1. i + 1 \in 1..Len(order[s].nums) /\ j + 1 \in 1..Len(order[s].nums) /\ i + 1 < j + 1
      BY <1>4, <2>1
    <3>2. order[s].nums[i + 1] < order[s].nums[j + 1]
      BY <1>1, <3>1 DEF Ascending
    <3>3. QED
      BY <1>4, <3>2
  <2>2. \A i \in 1..n : order'[s].nums[i] <= last_order
    BY <1>1, <1>4 DEF Ascending
  <2>3. QED
    BY <1>1, <2>1, <2>2 DEF Ascending, n
<1>7. Ahead(s)'
  <2>1. order[s].current <= order[s].current
    BY <1>2
  <2>2. QED
    BY <1>1, <1>3, <2>1 DEF Ahead
<1>8. WaitsHaveTasks(s)'
  BY <1>1 DEF WaitsHaveTasks
<1>9. NumsMatch(s)'
  <2>1. Processing(s)
    BY <1>1, <1>3 DEF Processing
  <2>2. ~ Processing(s)'
    BY <1>1 DEF Processing
  <2>3. ASSUME graph[s].sched
        PROVE  n = Len(graph[s].tasks)
               /\ \A i \in 1..Len(graph[s].tasks) : order'[s].nums[i] = graph[s].tasks[i].order
    <3>1. /\ Len(order[s].nums) = Len(graph[s].tasks) + 1
          /\ \A i \in 1..Len(graph[s].tasks) : order[s].nums[i + 1] = graph[s].tasks[i].order
      BY <1>1, <2>1, <2>3 DEF NumsMatch
    <3>2. Len(graph[s].tasks) \in Nat
      BY <1>1 DEF GpuTypes, Sequences
    <3>3. n = Len(graph[s].tasks)
      BY <1>4, <3>1, <3>2
    <3>4. QED
      BY <1>4, <3>1, <3>3
  <2>4. QED
    BY <1>1, <2>2, <2>3 DEF NumsMatch, n
<1>10. /\ graph'[s].current <= last_order /\ thread'[t].release <= last_order
       /\ \A i \in 1..Len(graph'[s].tasks) : graph'[s].tasks[i].release <= last_order
  BY <1>1 DEF Releases
<1>11. ASSUME NEW r \in Seqs \ {s} PROVE Apart(s, r)' /\ Apart(r, s)'
  <2>1. /\ Apart(s, r) /\ Apart(r, s)
        /\ order'[r] = order[r] /\ order'[s].current = order[s].current
    BY <1>1, <1>3 DEF NumberDone
  <2>2. QED
    BY <1>1, <2>1 DEF Apart
<1>12. ThreadBound(t)'
  BY <1>1 DEF ThreadBound
<1>13. OneKept(t, s)
  BY <1>6, <1>7, <1>8, <1>9, <1>10, <1>11, <1>12 DEF OneKept
<1>14. QED
  BY <1>5, <1>13, OneNumbered

-----------------------------------------------------------------------------
(***************************************************************************)
(* What a step is                                                          *)
(***************************************************************************)

LEMMA NextLemma ==
    ASSUME GpuSound, NEW t \in Threads, RunNextTask(t)
    PROVE  \E new : NextChosen(t, new)
<1> DEFINE found == FindNextTask(t)
           me == thread[t]
           new == [me EXCEPT !.posted = FALSE, !.running = found # {},
                             !.pc = IF found = {} THEN @ ELSE "chosen",
                             !.seq = IF found = {} THEN @ ELSE Min(found)]
<1>1. /\ me \in ThreadStates /\ me.pc = "idle" /\ me.callbacks = {}
      /\ thread \in [Threads -> ThreadStates]
      /\ GpuTypes /\ graph \in [Seqs -> Sequences] /\ client \in [Seqs -> ClientStates]
  <2>1. Now(t, "idle")
    BY DEF RunNextTask
  <2>2. QED
    BY <2>1, NowLemma DEF GpuSound, GpuTypes
<1>2. /\ thread' = [thread EXCEPT ![t] = new] /\ adding = << >> /\ me.posted
      /\ UNCHANGED <<graph_validation, order, client, graph, adding, destroying,
                     last_order, checks, used>>
  BY DEF RunNextTask, GraphUnlocked
<1>3. found # {} => Min(found) \in Candidates(t)
  BY <1>1, FindNextType
<1> HIDE DEF found
<1>4. found # {} => Min(found) \in Seqs
  BY <1>3 DEF Candidates
<1>5. /\ new \in ThreadStates /\ new.release = me.release /\ new.callbacks = {}
      /\ new.fences = me.fences /\ ~ new.posted
      /\ \/ found = {} /\ new.pc = "idle" /\ ~ new.running
         \/ found # {} /\ new.pc = "chosen" /\ new.running /\ new.seq = Min(found)
  BY <1>1, <1>4 DEF ThreadStates, Pcs
<1> HIDE DEF new
<1>6. thread'[t] = new /\ \A u \in Threads \ {t} : thread'[u] = thread[u]
  BY <1>1, <1>2
<1>7. ThreadStep(t, new)
  BY <1>1, <1>2, <1>5 DEF ThreadStep
<1>8. NextChosen(t, new)
  BY <1>1, <1>2, <1>3, <1>5, <1>6, <1>7 DEF NextChosen, found
<1>9. QED
  BY <1>8

LEMMA EnabledLemma ==
    ASSUME GpuSound, NEW s \in Seqs, NEW enabled \in BOOLEAN, SetEnabled(s, enabled),
           enabled \/ (thread[RunnerOf[s]].pc = "task" /\ thread[RunnerOf[s]].seq = s)
    PROVE  EnabledSet(s)
<1> DEFINE q == [graph[s] EXCEPT !.enabled = enabled]
<1>1. /\ graph \in [Seqs -> Sequences] /\ graph[s] \in Sequences
      /\ thread \in [Threads -> ThreadStates]
  BY DEF GpuSound, GpuTypes
<1>2. /\ graph' = [graph EXCEPT ![s] = q] /\ adding = << >> /\ graph[s].sched
      /\ thread' = TryScheduleSequence(graph', thread, s)
      /\ checks' = (checks /\ TryScheduleChecks(graph', thread, s))
      /\ UNCHANGED <<graph_validation, order, client, adding, destroying, last_order>>
  BY DEF SetEnabled, GraphUnlocked
<1>3. /\ q \in Sequences /\ q.tasks = graph[s].tasks /\ q.sched = graph[s].sched
      /\ q.map = graph[s].map /\ q.waits = graph[s].waits /\ q.current = graph[s].current
      /\ q.running = graph[s].running /\ q.enabled = enabled
  BY <1>1 DEF Sequences
<1> HIDE DEF q
<1>4. graph' \in [Seqs -> Sequences]
      /\ \A x \in Seqs : graph'[x] = IF x = s THEN q ELSE graph[x]
  BY <1>1, <1>2, <1>3
<1>5. /\ \A u \in Threads : Woken(thread'[u], thread[u])
      /\ \/ graph'[s].running
         \/ ~ HasAnyUnblockedTasksOnRunner(graph', RunnerOf[s])
         \/ thread'[RunnerOf[s]].running
  BY <1>1, <1>2, ScheduleLemma
<1>6. QED
  BY <1>2, <1>3, <1>4, <1>5 DEF EnabledSet

\* Every step of a thread is one of a thread that is not busy destroying a sequence.
LEMMA FreeLemma ==
    ASSUME NEW t \in Threads, RunThread(t) \/ TaskActs(t)
    PROVE  Free(t)
BY DEF RunThread, RunNextTask, ExecuteSequence, TaskReturns, FinishProcessing,
       EnsureWaitReleased, ThreadCallback, FinishTask, RunAgain, ForceRelease,
       TaskActs, TaskReleases, TaskContinues, DisableSequence, Now

\* A step of a thread: its effect, and what the invariant says after it.
LEMMA ThreadLemma ==
    ASSUME GpuSound, NEW t \in Threads, RunThread(t) \/ TaskActs(t)
    PROVE  GpuTypes' /\ Numbered' /\ StepShape
<1>0. Free(t)
  BY FreeLemma
<1>1. CASE RunNextTask(t)
  BY <1>0, <1>1, RunNextTaskKeeps, NumberedKept, NextLemma DEF StepShape, ThreadShape
<1>2. CASE ExecuteSequence(t)
  <2> DEFINE fine == /\ graph[thread[t].seq].sched /\ graph[thread[t].seq].enabled
                     /\ graph[thread[t].seq].tasks # << >>
  <2>1. CASE ~ fine
    <3>1. GpuTypes' /\ NumbersKept /\ TaskMissed(t)
      BY <1>2, <2>1, MissedKeeps DEF TaskMissed
    <3>2. QED
      BY <1>0, <3>1, NumberedKept DEF StepShape, ThreadShape
  <2>2. CASE fine
    <3>1. GpuTypes' /\ TaskStarted(t, thread[t].seq)
      BY <1>2, <2>2, StartedLemma
    <3>2. Numbered'
      BY <3>1, StartedNumbered
    <3>3. QED
      BY <1>0, <3>1, <3>2 DEF StepShape, ThreadShape
  <2>3. QED
    BY <2>1, <2>2
<1>3. CASE Releasing(t)
  <2>1. PICK me, s, count, cause, taken : ReleaseStep(t, me, s, count, cause, taken)
    BY <1>3, ReleasingLemma
  <2>2. GpuTypes' /\ NumbersKept
    BY <2>1, ReleaseKeeps
  <2>3. ThreadShape(t)
    BY <2>1 DEF ThreadShape
  <2>4. QED
    BY <1>0, <2>2, <2>3, NumberedKept DEF StepShape
<1>4. CASE TaskReturns(t) /\ ~ IsProcessingOrderNumber(order[thread[t].seq])
  <2>1. GpuTypes' /\ NumbersKept /\ TaskReturned(t)
    BY <1>4, ReturnsKeeps DEF TaskReturned
  <2>2. QED
    BY <1>0, <2>1, NumberedKept DEF StepShape, ThreadShape
<1>5. CASE FinishProcessing(t)
  <2>1. GpuTypes'
    BY <1>5, DoneLemma
  <2>2. PICK overdue : NumberDone(t, thread[t].seq, overdue)
    BY <1>5, DoneLemma
  <2>3. Numbered'
    BY <2>1, <2>2, DoneNumbered
  <2>4. QED
    BY <1>0, <2>1, <2>2, <2>3 DEF StepShape, ThreadShape
<1>6. CASE EnsureWaitReleased(t)
  BY <1>0, <1>6, EnsureWaitKeeps, NumberedKept DEF StepShape, ThreadShape
<1>7. CASE ThreadCallback(t)
  BY <1>0, <1>7, ThreadCallbackKeeps, NumberedKept DEF StepShape, ThreadShape
<1>8. CASE FinishTask(t)
  BY <1>0, <1>8, FinishTaskKeeps, NumberedKept DEF StepShape, ThreadShape
<1>9. CASE RunAgain(t)
  <2>1. GpuTypes' /\ NumbersKept /\ RanAgain(t)
    BY <1>9, RunAgainKeeps DEF RanAgain
  <2>2. QED
    BY <1>0, <2>1, NumberedKept DEF StepShape, ThreadShape
<1>10. CASE TaskContinues(t)
  <2>1. GpuTypes'
    BY <1>10, ContinuedLemma
  <2>2. PICK task : TaskContinued(t, thread[t].seq, task)
    BY <1>10, ContinuedLemma
  <2>3. Numbered'
    BY <2>1, <2>2, ContinuedNumbered
  <2>4. QED
    BY <1>0, <2>1, <2>2, <2>3 DEF StepShape, ThreadShape
<1>11. CASE DisableSequence(t)
  <2> DEFINE s == thread[t].seq
  <2>1. /\ Now(t, "task") /\ MayDoExtra /\ SetEnabled(s, FALSE)
    BY <1>11 DEF DisableSequence
  <2>2. s \in Seqs /\ RunnerOf[s] = t /\ thread[t].pc = "task"
    BY <2>1, NowLemma
  <2>3. used' \in 0..MaxExtras
    BY <2>1, ExtraLemma DEF GpuSound
  <2> HIDE DEF s
  <2>4. GpuTypes' /\ NumbersKept
    BY <2>1, <2>2, <2>3, SetEnabledKeeps
  <2>5. EnabledSet(s)
    BY <2>1, <2>2, EnabledLemma DEF s
  <2>6. QED
    BY <1>0, <2>2, <2>4, <2>5, NumberedKept DEF StepShape
<1>12. QED
  BY <1>1, <1>2, <1>3, <1>4, <1>5, <1>6, <1>7, <1>8, <1>9, <1>10, <1>11
     DEF RunThread, TaskActs, Releasing

LEMMA DestroyLemma ==
    ASSUME GpuSound, FinishDestroy \/ \E s \in Seqs : DestroySequence(s) \/ DestroyClientOnly(s)
    PROVE  GpuTypes' /\ Numbered' /\ StepShape
<1> USE DEF StepShape, DestroyShape
<1>1. CASE RemoveSequence
  <2>1. GpuTypes' /\ NumbersKept /\ Destroying("map")
    BY <1>1, RemoveSequenceKeeps
  <2>2. PICK q, d : /\ DestroyStep(Doomed, q, d) /\ ~ q.sched /\ ~ q.map
                    /\ d = [destroying[1] EXCEPT !.pc = "client"]
                    /\ d.pc = "client" /\ d.seq = Doomed
                    /\ d.callbacks = destroying[1].callbacks
    BY <1>1, RemoveSequenceKeeps
  <2>3. Len(destroying) = 1 /\ destroying[1].pc = "map" /\ destroying[1].seq = Doomed
    BY <2>1, DestroyingPc DEF GpuSound
  <2>4. graph' \in [Seqs -> Sequences] /\ \A x \in Seqs : graph'[x] = IF x = Doomed THEN q ELSE graph[x]
    BY <2>2 DEF DestroyStep, GpuSound, GpuTypes
  <2>5. adding = << >> /\ destroying # << >>
    BY <1>1, <2>3 DEF RemoveSequence, GraphUnlocked
  <2>6. DestroyMoved(Doomed, q, d)
    BY <2>2, <2>3, <2>4, <2>5 DEF DestroyMoved
  <2>7. QED
    BY <2>1, <2>6, NumberedKept
<1>2. CASE DestroyClient
  BY <1>2, DestroyClientKeeps, NumberedKept
<1>3. CASE DestroyCallback
  BY <1>3, DestroyCallbackKeeps, NumberedKept
<1>4. CASE DestroyOrder
  BY <1>4, DestroyOrderKeeps, NumberedKept
<1>5. CASE DeleteSequence
  <2>1. GpuTypes' /\ \E x : Deleted(x)
    BY <1>5, DeleteLemma
  <2>2. PICK x : Deleted(x)
    BY <2>1
  <2>3. Numbered'
    BY <2>1, <2>2, DeleteNumbered
  <2>4. QED
    BY <2>1, <2>3
<1>6. CASE ClientDestroyed
  BY <1>6, ClientDestroyedKeeps, NumberedKept DEF DestroyEnded
<1>7. ASSUME NEW s \in Seqs, DestroySequence(s)
      PROVE  GpuTypes' /\ Numbered' /\ StepShape
  <2>1. GpuTypes' /\ NumbersKept /\ graph[s].sched /\ destroying = << >>
    BY <1>7, DestroySequenceKeeps
  <2>2. PICK q, d : /\ DestroyStep(s, q, d) /\ ~ q.sched /\ q.map = graph[s].map
                    /\ d = [seq |-> s, pc |-> "map", callbacks |-> {}]
    BY <1>7, DestroySequenceKeeps
  <2>3. graph' \in [Seqs -> Sequences] /\ \A x \in Seqs : graph'[x] = IF x = s THEN q ELSE graph[x]
    BY <2>2 DEF DestroyStep, GpuSound, GpuTypes
  <2>4. /\ adding = << >>
        /\ AnyThread \/ thread[RunnerOf[s]].pc \in {"idle", "task"}
    BY <1>7 DEF DestroySequence, BeginDestroy, GraphUnlocked, Now
  <2>5. DestroyMoved(s, q, d)
    BY <2>1, <2>2, <2>3, <2>4 DEF DestroyMoved
  <2>6. QED
    BY <2>1, <2>5, NumberedKept
<1>8. ASSUME NEW s \in Seqs, DestroyClientOnly(s)
      PROVE  GpuTypes' /\ Numbered' /\ StepShape
  <2>1. GpuTypes' /\ NumbersKept /\ destroying = << >>
    BY <1>8, DestroyClientOnlyKeeps
  <2>2. PICK d : /\ DestroyStep(s, graph[s], d)
                 /\ d = [seq |-> s, pc |-> "only", callbacks |-> {}]
    BY <1>8, DestroyClientOnlyKeeps
  <2>3. /\ graph' \in [Seqs -> Sequences]
        /\ \A x \in Seqs : graph'[x] = IF x = s THEN graph[s] ELSE graph[x]
    BY <2>2 DEF DestroyStep, GpuSound, GpuTypes
  <2>4. /\ adding = << >>
        /\ AnyThread \/ thread[RunnerOf[s]].pc \in {"idle", "task"}
    BY <1>8 DEF DestroyClientOnly, BeginDestroy, GraphUnlocked, Now
  <2>5. DestroyMoved(s, graph[s], d)
    BY <2>1, <2>2, <2>3, <2>4 DEF DestroyMoved
  <2>6. QED
    BY <2>1, <2>5, NumberedKept
<1>9. QED
  BY <1>1, <1>2, <1>3, <1>4, <1>5, <1>6, <1>7, <1>8 DEF FinishDestroy

\* Every step keeps the types and the order of the numbers, and has one of the effects.
LEMMA StepLemma ==
    ASSUME GpuSound, [GpuNext]_gpuVars
    PROVE  GpuTypes' /\ Numbered' /\ StepShape
<1>1. CASE UNCHANGED gpuVars
  <2>1. GpuTypes'
    BY <1>1 DEF GpuSound, GpuTypes, gpuVars
  <2>2. GraphKept /\ OrderKept /\ ToldKept
    BY <1>1, GraphSame, OrderSame, ToldSame DEF gpuVars, GpuSound
  <2>3. \A t \in Threads : ThreadMoved(t)
    BY <1>1, ThreadStays DEF gpuVars
  <2>4. DestroyingBound'
    BY <1>1, <2>2, DestroyingSame DEF gpuVars, GpuSound, Numbered
  <2>5. NumbersKept
    BY <1>1, <2>2, <2>3, <2>4 DEF NumbersKept, gpuVars
  <2>6. QED
    BY <1>1, <2>1, <2>5, NumberedKept DEF StepShape
<1>2. CASE AddTask
  <2>1. GpuTypes' /\ \E s, task : TaskQueued(s, task)
    BY <1>2, AddTaskLemma
  <2>2. PICK s, task : TaskQueued(s, task)
    BY <2>1
  <2>3. Numbered'
    BY <2>1, <2>2, QueuedNumbered
  <2>4. QED
    BY <2>1, <2>3 DEF StepShape
<1>3. CASE StoreWait
  BY <1>3, StoreWaitKeeps, NumberedKept DEF StepShape
<1>4. CASE FinishDestroy
  BY <1>4, DestroyLemma
<1>5. ASSUME NEW t \in Threads, RunThread(t) \/ TaskActs(t)
      PROVE  GpuTypes' /\ Numbered' /\ StepShape
  BY <1>5, ThreadLemma
<1>6. ASSUME NEW s \in Seqs, EnableSequence(s)
      PROVE  GpuTypes' /\ Numbered' /\ StepShape
  <2>1. SetEnabled(s, TRUE) /\ used' = used
    BY <1>6 DEF EnableSequence
  <2>2. used' \in 0..MaxExtras
    BY <2>1 DEF GpuSound, GpuTypes
  <2>3. GpuTypes' /\ NumbersKept
    BY <2>1, <2>2, SetEnabledKeeps
  <2>4. EnabledSet(s)
    BY <2>1, EnabledLemma
  <2>5. QED
    BY <2>3, <2>4, NumberedKept DEF StepShape
<1>7. ASSUME NEW s \in Seqs, DestroySequence(s) \/ DestroyClientOnly(s)
      PROVE  GpuTypes' /\ Numbered' /\ StepShape
  BY <1>7, DestroyLemma
<1>8. ASSUME NEW s \in Seqs, ValidationTimer(s)
      PROVE  GpuTypes' /\ Numbered' /\ StepShape
  BY <1>8, ValidationTimerKeeps, NumberedKept DEF StepShape
<1>9. QED
  BY <1>1, <1>2, <1>3, <1>4, <1>5, <1>6, <1>7, <1>8 DEF GpuNext

LEMMA InitSound == GpuInit => GpuSound
<1> SUFFICES ASSUME GpuInit PROVE GpuSound
  OBVIOUS
<1>1. /\ order = [s \in Seqs |-> NewOrderData] /\ client = [s \in Seqs |-> NewClientState]
      /\ graph = [s \in Seqs |-> NewSequence] /\ thread = [t \in Threads |-> NewThread]
      /\ adding = << >> /\ destroying = << >> /\ last_order = 0 /\ checks = TRUE /\ used = 0
      /\ graph_validation \in Modes
  BY DEF GpuInit
<1>2. /\ MaxTasks \in Nat /\ MaxExtras \in Nat /\ Forever \in Nat /\ Modes \subseteq BOOLEAN
      /\ RunnerOf \in [Seqs -> Threads]
  BY Constants
<1>3. << >> \in Seq(Tasks) /\ << >> \in Seq(1..MaxTasks)
      /\ << >> \in Seq(Additions) /\ << >> \in Seq(Destructions) /\ 0 \in 0..MaxTasks
      /\ 0 \in 0..Forever /\ 0 \in 0..MaxExtras /\ Len(<< >>) = 0
  BY <1>2
<1>4. NewOrderData \in OrderDatas
  BY <1>3 DEF NewOrderData, OrderDatas
<1>5. NewClientState \in ClientStates
  BY <1>3 DEF NewClientState, ClientStates
<1>6. NewSequence \in Sequences
  BY <1>3 DEF NewSequence, Sequences
<1>7. NewThread \in ThreadStates
  BY <1>3 DEF NewThread, ThreadStates, Pcs
<1>8. GpuTypes
  BY <1>1, <1>2, <1>3, <1>4, <1>5, <1>6, <1>7 DEF GpuTypes
<1>9. /\ \A s \in Seqs : /\ graph[s].tasks = << >> /\ graph[s].waits = {} /\ graph[s].current = 0
                         /\ order[s].nums = << >> /\ order[s].processed = 0
                         /\ order[s].current = 0 /\ ~ order[s].paused /\ client[s].told = 0
      /\ \A t \in Threads : thread[t].pc = "idle" /\ thread[t].release = 0
  BY <1>1 DEF NewSequence, NewOrderData, NewClientState, NewThread
<1>10. \A s \in Seqs : /\ Ascending(s) /\ Ahead(s) /\ WaitsHaveTasks(s) /\ NumsMatch(s)
                       /\ Releases(s)
  <2> SUFFICES ASSUME NEW s \in Seqs
               PROVE  Ascending(s) /\ Ahead(s) /\ WaitsHaveTasks(s) /\ NumsMatch(s) /\ Releases(s)
    OBVIOUS
  <2>1. ~ Processing(s)
    BY <1>9 DEF Processing, IsProcessingOrderNumber
  <2>2. Ascending(s) /\ Ahead(s) /\ WaitsHaveTasks(s)
    BY <1>1, <1>9, <1>3 DEF Ascending, Ahead, WaitsHaveTasks
  <2>3. NumsMatch(s)
    BY <1>9, <1>3, <2>1 DEF NumsMatch
  <2>4. Releases(s)
    BY <1>1, <1>9, <1>3 DEF Releases
  <2>5. QED
    BY <2>2, <2>3, <2>4
<1>11. \A s, r \in Seqs : s # r => Apart(s, r)
  BY <1>3, <1>9 DEF Apart
<1>12. \A t \in Threads : ThreadBound(t)
  BY <1>9 DEF ThreadBound
<1>13. AddingBound /\ DestroyingBound
  BY <1>1, <1>3 DEF AddingBound, DestroyingBound
<1>14. QED
  BY <1>8, <1>10, <1>11, <1>12, <1>13 DEF GpuSound, Numbered

\* What the invariant says of the state: the records have their types, order numbers are
\* given out and processed in order and by one sequence each, waits belong to tasks that
\* are still there, and what a thread has begun (scheduler.cc ExecuteSequence) is not
\* finished by another.
THEOREM SchedulerSound == GpuSpec => []GpuSound
<1>1. GpuSound /\ [GpuNext]_gpuVars => GpuSound'
  BY StepLemma DEF GpuSound
<1>2. QED
  BY InitSound, <1>1, PTL DEF GpuSpec

-----------------------------------------------------------------------------
(***************************************************************************)
(* Every wait keeps its callback                                           *)
(***************************************************************************)
LEMMA DroppedLemma ==
    /\ Dropped \subseteq UNION {destroying[i].callbacks : i \in 1..Len(destroying)}
    /\ GpuTypes => Dropped \subseteq Callbacks
    /\ destroying = << >> => Dropped = {}
    /\ \A d \in Destructions : destroying = <<d>> => Dropped = d.callbacks
<1>1. GpuTypes => Dropped \subseteq Callbacks
  <2> SUFFICES ASSUME GpuTypes, NEW i \in 1..Len(destroying)
               PROVE  destroying[i].callbacks \subseteq Callbacks
    BY DEF Dropped
  <2>1. destroying[i] \in Destructions
    BY DEF GpuTypes
  <2>2. QED
    BY <2>1 DEF Destructions
<1>2. destroying = << >> => Dropped = {}
  BY DEF Dropped
<1>3. ASSUME NEW d \in Destructions, destroying = <<d>>
      PROVE  Dropped = d.callbacks
  <2>1. Len(destroying) = 1 /\ destroying[1] = d /\ 1..1 = {1}
    BY <1>3
  <2>2. {destroying[i].callbacks : i \in 1..Len(destroying)} = {d.callbacks}
    BY <2>1
  <2>3. QED
    BY <2>2 DEF Dropped
<1>4. QED
  BY <1>1, <1>2, <1>3 DEF Dropped

LEMMA DroppedNext ==
    /\ destroying' = destroying => Dropped' = Dropped
    /\ destroying' = << >> => Dropped' = {}
    /\ \A d \in Destructions : destroying' = <<d>> => Dropped' = d.callbacks
<1>1. ASSUME NEW d \in Destructions, destroying' = <<d>>
      PROVE  Dropped' = d.callbacks
  <2>1. Len(destroying') = 1 /\ destroying'[1] = d /\ 1..1 = {1}
    BY <1>1
  <2>2. {destroying'[i].callbacks : i \in 1..Len(destroying')} = {d.callbacks}
    BY <2>1
  <2>3. QED
    BY <2>2 DEF Dropped
<1>2. QED
  BY <1>1 DEF Dropped

LEMMA CallbackIds ==
    ASSUME GpuTypes
    PROVE  /\ \A x \in Seqs : \A r \in client[x].callbacks : r \in Callbacks /\ r.id \in Nat
           /\ \A t \in Threads : \A r \in thread[t].callbacks :
                  r \in Callbacks /\ r.id \in Nat /\ r.client \in Seqs
           /\ \A r \in Dropped : r \in Callbacks /\ r.id \in Nat /\ r.client \in Seqs
           /\ \A s \in Seqs : \A w \in graph[s].waits :
                  /\ w \in Fences /\ w.client \in Seqs /\ w.order \in Nat
                  /\ CallbackOf(w, s) \in Callbacks
           /\ \A i \in 1..Len(adding) : adding[i] \in Additions /\ adding[i].order \in Nat
<1>1. MaxTasks \in Nat
  BY Constants
<1>2. \A x \in Seqs : client[x] \in ClientStates
  BY DEF GpuTypes
<1>3. \A t \in Threads : thread[t] \in ThreadStates
  BY DEF GpuTypes
<1>4. \A s \in Seqs : graph[s] \in Sequences
  BY DEF GpuTypes
<1>5. \A r \in Callbacks : r.id \in Nat /\ r.client \in Seqs
  BY <1>1 DEF Callbacks
<1>6. \A x \in Seqs : \A r \in client[x].callbacks : r \in Callbacks
  BY <1>2 DEF ClientStates
<1>7. \A t \in Threads : \A r \in thread[t].callbacks : r \in Callbacks
  BY <1>3 DEF ThreadStates
<1>8. \A r \in Dropped : r \in Callbacks
  BY DroppedLemma
<1>9. \A s \in Seqs : \A w \in graph[s].waits : w \in Fences
  BY <1>4 DEF Sequences
<1>10. \A w \in Fences : \A s \in Seqs :
           w.client \in Seqs /\ w.order \in Nat /\ CallbackOf(w, s) \in Callbacks
  BY <1>1 DEF Fences, CallbackOf, Callbacks
<1>11. \A i \in 1..Len(adding) : adding[i] \in Additions
  BY DEF GpuTypes
<1>12. \A a \in Additions : a.order \in Nat
  BY <1>1 DEF Additions
<1>13. QED
  BY <1>5, <1>6, <1>7, <1>8, <1>9, <1>10, <1>11, <1>12

LEMMA CallbacksLeftKeeps ==
    ASSUME GpuTypes, CallbacksSound, NEW gone, CallbacksLeft(gone)
    PROVE  CallbacksSound'
<1>1. /\ \A x \in Seqs : client'[x].callbacks = client[x].callbacks
      /\ \A t \in Threads : thread'[t].callbacks \subseteq thread[t].callbacks
      /\ Dropped' \subseteq Dropped /\ DroppedLate'
      /\ last_order \in Nat /\ last_order' \in Nat /\ last_order' >= last_order
  BY DEF CallbacksLeft
<1>2. CallbacksApart'
  <2>1. \A x \in Seqs : \A r \in client[x].callbacks : r.client = x /\ r.id <= last_order'
    BY <1>1, CallbackIds DEF CallbacksSound, CallbacksApart
  <2>2. \A t \in Threads : \A r \in thread[t].callbacks :
            /\ r \notin client[r.client].callbacks /\ r.id <= last_order' /\ r.client \in Seqs
            /\ \A u \in Threads : u # t => r \notin thread[u].callbacks
    BY <1>1, CallbackIds DEF CallbacksSound, CallbacksApart
  <2>3. \A r \in Dropped :
            /\ r \notin client[r.client].callbacks /\ r.id <= last_order' /\ r.client \in Seqs
            /\ \A t \in Threads : r \notin thread[t].callbacks
    BY <1>1, CallbackIds DEF CallbacksSound, CallbacksApart
  <2>4. \A x \in Seqs : \A r \in client'[x].callbacks : r.client = x /\ r.id <= last_order'
    BY <1>1, <2>1
  <2>5. \A t \in Threads : \A r \in thread'[t].callbacks :
            /\ r \notin client'[r.client].callbacks /\ r.id <= last_order'
            /\ \A u \in Threads : u # t => r \notin thread'[u].callbacks
    BY <1>1, <2>2
  <2>6. \A r \in Dropped' :
            /\ r \notin client'[r.client].callbacks /\ r.id <= last_order'
            /\ \A t \in Threads : r \notin thread'[t].callbacks
    BY <1>1, <2>3
  <2>7. QED
    BY <2>4, <2>5, <2>6 DEF CallbacksApart
<1>3. CallbackAhead'
  <2> SUFFICES ASSUME NEW i \in 1..Len(adding')
               PROVE  /\ \A x \in Seqs : \A r \in client'[x].callbacks : r.id < adding'[i].order
                      /\ \A t \in Threads : \A r \in thread'[t].callbacks :
                             r.id < adding'[i].order
                      /\ \A r \in Dropped' : r.id < adding'[i].order
    BY DEF CallbackAhead
  <2>1. CASE adding' = adding
    BY <1>1, <2>1 DEF CallbacksSound, CallbackAhead
  <2>2. CASE adding' = << >>
    BY <2>2
  <2>3. CASE \A j \in 1..Len(adding') : adding'[j].order = last_order + 1
    <3>1. adding'[i].order = last_order + 1
      BY <2>3
    <3>2. \A n \in Nat : n <= last_order => n < last_order + 1
      BY <1>1
    <3>3. \A x \in Seqs : \A r \in client[x].callbacks : r.id < last_order + 1
      BY <3>2, CallbackIds DEF CallbacksSound, CallbacksApart
    <3>4. \A t \in Threads : \A r \in thread[t].callbacks : r.id < last_order + 1
      BY <3>2, CallbackIds DEF CallbacksSound, CallbacksApart
    <3>5. \A r \in Dropped : r.id < last_order + 1
      BY <3>2, CallbackIds DEF CallbacksSound, CallbacksApart
    <3>6. QED
      BY <1>1, <3>1, <3>3, <3>4, <3>5
  <2>4. QED
    BY <2>1, <2>2, <2>3 DEF CallbacksLeft
<1>4. WaitsCovered'
  <2> SUFFICES ASSUME NEW s \in Seqs, graph'[s].map, NEW w \in graph'[s].waits
               PROVE  \/ CallbackOf(w, s) \in client'[w.client].callbacks
                      \/ \E t \in Threads : CallbackOf(w, s) \in thread'[t].callbacks
                      \/ CallbackOf(w, s) \in Dropped'
    BY DEF WaitsCovered, CallbackOf
  <2>1. graph[s].map /\ w \in graph[s].waits /\ CallbackOf(w, s) \notin gone
    BY DEF CallbacksLeft
  <2>2. w.client \in Seqs
    BY <2>1, CallbackIds
  <2>3. \/ CallbackOf(w, s) \in client[w.client].callbacks
        \/ \E t \in Threads : CallbackOf(w, s) \in thread[t].callbacks
        \/ CallbackOf(w, s) \in Dropped
    BY <2>1 DEF CallbacksSound, WaitsCovered
  <2>4. /\ \A t \in Threads : CallbackOf(w, s) \in thread[t].callbacks
              => CallbackOf(w, s) \in thread'[t].callbacks
        /\ CallbackOf(w, s) \in Dropped => CallbackOf(w, s) \in Dropped'
    BY <2>1 DEF CallbacksLeft
  <2>5. QED
    BY <1>1, <2>2, <2>3, <2>4
<1>5. QED
  BY <1>1, <1>2, <1>3, <1>4 DEF CallbacksSound

\* What the queues, threads and the destruction hold, all together, is as before.
LEMMA HeldKept ==
    ASSUME GpuTypes, CallbacksSound, NEW x, NEW taken, QueueLeft(x, taken),
           \A t \in Threads : thread'[t].callbacks \subseteq thread[t].callbacks \cup taken,
           Dropped' \subseteq Dropped \cup taken,
           \A t \in Threads : thread[t].callbacks \subseteq thread'[t].callbacks,
           Dropped \subseteq Dropped',
           taken # {} => \/ taken \subseteq Dropped'
                         \/ \E t \in Threads : taken \subseteq thread'[t].callbacks
    PROVE  CallbackAhead' /\ WaitsCovered'
<1>1. \A r \in taken : r \in client[x].callbacks /\ x \in Seqs
  BY DEF QueueLeft
<1>2. \A y \in Seqs : client'[y].callbacks \subseteq client[y].callbacks
  BY DEF QueueLeft
<1>3. CallbackAhead'
  <2> SUFFICES ASSUME NEW i \in 1..Len(adding)
               PROVE  /\ \A y \in Seqs : \A r \in client'[y].callbacks : r.id < adding[i].order
                      /\ \A t \in Threads : \A r \in thread'[t].callbacks :
                             r.id < adding[i].order
                      /\ \A r \in Dropped' : r.id < adding[i].order
    BY DEF CallbackAhead, QueueLeft
  <2>1. /\ \A y \in Seqs : \A r \in client[y].callbacks : r.id < adding[i].order
        /\ \A t \in Threads : \A r \in thread[t].callbacks : r.id < adding[i].order
        /\ \A r \in Dropped : r.id < adding[i].order
    BY DEF CallbacksSound, CallbackAhead
  <2>2. \A r \in taken : r.id < adding[i].order
    BY <1>1, <2>1
  <2>3. QED
    BY <1>2, <2>1, <2>2
<1>4. WaitsCovered'
  <2> SUFFICES ASSUME NEW s \in Seqs, graph[s].map, NEW w \in graph[s].waits
               PROVE  \/ CallbackOf(w, s) \in client'[w.client].callbacks
                      \/ \E t \in Threads : CallbackOf(w, s) \in thread'[t].callbacks
                      \/ CallbackOf(w, s) \in Dropped'
    BY DEF WaitsCovered, CallbackOf, QueueLeft
  <2>1. w.client \in Seqs
    BY CallbackIds
  <2>2. \/ CallbackOf(w, s) \in client[w.client].callbacks
        \/ \E t \in Threads : CallbackOf(w, s) \in thread[t].callbacks
        \/ CallbackOf(w, s) \in Dropped
    BY DEF CallbacksSound, WaitsCovered
  <2>3. CallbackOf(w, s) \in client[w.client].callbacks =>
            \/ CallbackOf(w, s) \in client'[w.client].callbacks
            \/ CallbackOf(w, s) \in taken
    BY <2>1 DEF QueueLeft
  <2>4. QED
    BY <2>2, <2>3
<1>5. QED
  BY <1>3, <1>4

LEMMA TakenKeeps ==
    ASSUME GpuTypes, CallbacksSound, NEW x, NEW taken, QueueLeft(x, taken), NEW t \in Threads,
           thread[t].callbacks = {}, thread'[t].callbacks = taken,
           \A u \in Threads \ {t} : thread'[u].callbacks = thread[u].callbacks,
           Dropped' = Dropped
    PROVE  CallbacksSound'
<1>1. CallbackAhead' /\ WaitsCovered'
  BY HeldKept
<1>2. /\ x \in Seqs /\ taken \subseteq client[x].callbacks /\ last_order' = last_order
      /\ \A y \in Seqs : client'[y].callbacks = IF y = x THEN client[y].callbacks \ taken
                                                ELSE client[y].callbacks
  BY DEF QueueLeft
<1>3. \A y \in Seqs : \A r \in client[y].callbacks : r.client = y /\ r.id <= last_order
  BY DEF CallbacksSound, CallbacksApart
<1>4. \A u \in Threads : \A r \in thread[u].callbacks :
          /\ r \notin client[r.client].callbacks /\ r.id <= last_order /\ r.client \in Seqs
          /\ \A v \in Threads : v # u => r \notin thread[v].callbacks
  BY CallbackIds DEF CallbacksSound, CallbacksApart
<1>5. \A r \in Dropped :
          /\ r \notin client[r.client].callbacks /\ r.id <= last_order /\ r.client \in Seqs
          /\ \A u \in Threads : r \notin thread[u].callbacks
  BY CallbackIds DEF CallbacksSound, CallbacksApart
<1>6. \A r \in taken : /\ r.client = x /\ r.id <= last_order /\ r \notin client'[x].callbacks
                       /\ r \notin Dropped
                       /\ \A u \in Threads : r \notin thread[u].callbacks
  <2> SUFFICES ASSUME NEW r \in taken
               PROVE  /\ r.client = x /\ r.id <= last_order /\ r \notin client'[x].callbacks
                      /\ r \notin Dropped
                      /\ \A u \in Threads : r \notin thread[u].callbacks
    OBVIOUS
  <2>1. r \in client[x].callbacks /\ r \notin client'[x].callbacks
    BY <1>2
  <2>2. r.client = x /\ r.id <= last_order
    BY <1>2, <1>3, <2>1
  <2>3. r \notin Dropped
    BY <1>5, <2>1, <2>2
  <2>4. \A u \in Threads : r \notin thread[u].callbacks
    BY <1>4, <2>1, <2>2
  <2>5. QED
    BY <2>1, <2>2, <2>3, <2>4
<1>7. \A y \in Seqs : client'[y].callbacks \subseteq client[y].callbacks
  BY <1>2
<1>8. \A u \in Threads : \A r \in thread'[u].callbacks :
          /\ r \notin client'[r.client].callbacks /\ r.id <= last_order
          /\ \A v \in Threads : v # u => r \notin thread'[v].callbacks
  <2> SUFFICES ASSUME NEW u \in Threads, NEW r \in thread'[u].callbacks
               PROVE  /\ r \notin client'[r.client].callbacks /\ r.id <= last_order
                      /\ \A v \in Threads : v # u => r \notin thread'[v].callbacks
    OBVIOUS
  <2>1. CASE u = t
    BY <2>1, <1>6
  <2>2. CASE u # t
    <3>1. r \in thread[u].callbacks
      BY <2>2
    <3>2. r \notin taken
      BY <1>6, <3>1
    <3>3. QED
      BY <1>4, <1>7, <3>1, <3>2
  <2>3. QED
    BY <2>1, <2>2
<1>9. \A r \in Dropped' :
          /\ r \notin client'[r.client].callbacks /\ r.id <= last_order
          /\ \A u \in Threads : r \notin thread'[u].callbacks
  BY <1>5, <1>6, <1>7
<1>10. \A y \in Seqs : \A r \in client'[y].callbacks : r.client = y /\ r.id <= last_order
  BY <1>3, <1>7
<1>11. CallbacksApart'
  BY <1>2, <1>8, <1>9, <1>10 DEF CallbacksApart
<1>12. QED
  BY <1>1, <1>11 DEF CallbacksSound, QueueLeft

LEMMA ClientGoneKeeps ==
    ASSUME GpuTypes, CallbacksSound, NEW d, ClientGone(d)
    PROVE  CallbacksSound'
<1> DEFINE x == d.seq
           taken == client[x].callbacks
<1>1. /\ d \in Destructions /\ x \in Seqs /\ destroying' = <<d>> /\ d.callbacks = taken
      /\ Len(destroying) = 1 /\ destroying[1].pc \in {"client", "only"}
      /\ d.pc \in {"order", "end"}
      /\ \A y \in Seqs : y # x => client'[y] = client[y]
      /\ client'[x].callbacks = {}
      /\ UNCHANGED <<graph, thread, adding, last_order>>
  BY DEF ClientGone
<1>2. destroying[1].callbacks = {}
  BY <1>1 DEF CallbacksSound, DroppedLate
<1>3. Dropped = {}
  <2>1. destroying = <<destroying[1]>> /\ destroying[1] \in Destructions
    BY <1>1, DestroyingLemma
  <2>2. QED
    BY <1>2, <2>1, DroppedLemma
<1>4. Dropped' = taken
  BY <1>1, DroppedNext
<1>5. DroppedLate'
  <2>1. Len(destroying') = 1 /\ destroying'[1] = d
    BY <1>1
  <2>2. QED
    BY <1>1, <2>1 DEF DroppedLate
<1>6. QueueLeft(x, taken)
  BY <1>1, <1>5 DEF QueueLeft
<1>7. CallbackAhead' /\ WaitsCovered'
  BY <1>1, <1>3, <1>4, <1>6, HeldKept
<1>8. \A y \in Seqs : \A r \in client[y].callbacks : r.client = y /\ r.id <= last_order
  BY DEF CallbacksSound, CallbacksApart
<1>9. \A u \in Threads : \A r \in thread[u].callbacks :
          /\ r \notin client[r.client].callbacks /\ r.id <= last_order /\ r.client \in Seqs
          /\ \A v \in Threads : v # u => r \notin thread[v].callbacks
  BY CallbackIds DEF CallbacksSound, CallbacksApart
<1>10. \A y \in Seqs : client'[y].callbacks \subseteq client[y].callbacks
  BY <1>1
<1>11. \A r \in taken : /\ r.client = x /\ r.id <= last_order /\ r \notin client'[r.client].callbacks
                        /\ \A u \in Threads : r \notin thread[u].callbacks
  BY <1>1, <1>8, <1>9
<1>12. CallbacksApart'
  <2>1. \A y \in Seqs : \A r \in client'[y].callbacks : r.client = y /\ r.id <= last_order'
    BY <1>1, <1>8, <1>10
  <2>2. \A u \in Threads : \A r \in thread'[u].callbacks :
            /\ r \notin client'[r.client].callbacks /\ r.id <= last_order'
            /\ \A v \in Threads : v # u => r \notin thread'[v].callbacks
    BY <1>1, <1>9, <1>10
  <2>3. \A r \in Dropped' :
            /\ r \notin client'[r.client].callbacks /\ r.id <= last_order'
            /\ \A u \in Threads : r \notin thread'[u].callbacks
    BY <1>1, <1>4, <1>11
  <2>4. QED
    BY <2>1, <2>2, <2>3 DEF CallbacksApart
<1>13. QED
  BY <1>5, <1>7, <1>12 DEF CallbacksSound

LEMMA WaitStoredKeeps ==
    ASSUME GpuSound, CallbacksSound, NEW a, WaitStored(a)
    PROVE  CallbacksSound'
<1> DEFINE x == a.token[1]
           r == [client |-> x, count |-> a.token[2], seq |-> a.seq, id |-> a.order]
<1>1. /\ x \in Seqs /\ r \in Callbacks /\ r.client = x /\ r.id = a.order /\ a.seq \in Seqs
      /\ r.seq = a.seq
      /\ Len(adding) = 1 /\ adding[1] = a /\ adding' = << >>
      /\ \A y \in Seqs : client'[y].callbacks = IF y = x THEN client[y].callbacks \cup {r}
                                                ELSE client[y].callbacks
      /\ \A s \in Seqs : /\ graph'[s].map = graph[s].map
                         /\ graph'[s].waits = IF s = a.seq THEN graph[s].waits \cup {FenceOf(r)}
                                              ELSE graph[s].waits
      /\ \A u \in Threads : thread'[u].callbacks = thread[u].callbacks
      /\ destroying' = destroying /\ last_order' = last_order
  BY DEF WaitStored, Woken, SameThread
<1>2. a.order = last_order /\ last_order \in Nat /\ GpuTypes
  <2>1. MaxTasks \in Nat /\ 1 \in 1..Len(adding)
    BY <1>1, Constants
  <2>2. QED
    BY <1>1, <2>1 DEF GpuSound, GpuTypes, Numbered, AddingBound
<1>3. /\ \A y \in Seqs : \A c \in client[y].callbacks : c.id < a.order
      /\ \A u \in Threads : \A c \in thread[u].callbacks : c.id < a.order
      /\ \A c \in Dropped : c.id < a.order
  BY <1>1 DEF CallbacksSound, CallbackAhead
<1>14. /\ \A y \in Seqs : \A c \in client'[y].callbacks :
              c \in client[y].callbacks \/ (y = x /\ c = r)
       /\ \A y \in Seqs : client[y].callbacks \subseteq client'[y].callbacks
       /\ r \in client'[x].callbacks
  <2>1. \A y \in Seqs : client'[y].callbacks = IF y = x THEN client[y].callbacks \cup {r}
                                               ELSE client[y].callbacks
    BY <1>1
  <2>2. x \in Seqs
    BY <1>1
  <2> HIDE DEF r, x
  <2>3. QED
    BY <2>1, <2>2
<1> HIDE DEF r, x
<1>4. \A y \in Seqs : \A c \in client[y].callbacks : c.client = y /\ c.id <= last_order
  BY DEF CallbacksSound, CallbacksApart
<1>5. \A u \in Threads : \A c \in thread[u].callbacks :
          /\ c \notin client[c.client].callbacks /\ c.id <= last_order /\ c.client \in Seqs
          /\ \A v \in Threads : v # u => c \notin thread[v].callbacks
  BY <1>2, CallbackIds DEF CallbacksSound, CallbacksApart
<1>6. \A c \in Dropped :
          /\ c \notin client[c.client].callbacks /\ c.id <= last_order /\ c.client \in Seqs
          /\ \A u \in Threads : c \notin thread[u].callbacks
  BY <1>2, CallbackIds DEF CallbacksSound, CallbacksApart
<1>7. Dropped' = Dropped
  BY <1>1, DroppedNext
<1>8. /\ \A u \in Threads : r \notin thread[u].callbacks
      /\ r \notin Dropped
  BY <1>1, <1>2, <1>3
<1>9. CallbacksApart'
  <2>1. \A y \in Seqs : \A c \in client'[y].callbacks : c.client = y /\ c.id <= last_order'
    <3>1. r.client = x /\ r.id <= last_order /\ last_order' = last_order
      BY <1>1, <1>2
    <3>2. QED
      BY <3>1, <1>4, <1>14
  <2>2. \A y \in Seqs : \A c \in client'[y].callbacks : c \in client[y].callbacks \/ c = r
    BY <1>14
  <2>3. \A u \in Threads : \A c \in thread'[u].callbacks :
            /\ c \notin client'[c.client].callbacks /\ c.id <= last_order'
            /\ \A v \in Threads : v # u => c \notin thread'[v].callbacks
    BY <1>1, <1>5, <1>8, <2>2
  <2>4. \A c \in Dropped' :
            /\ c \notin client'[c.client].callbacks /\ c.id <= last_order'
            /\ \A u \in Threads : c \notin thread'[u].callbacks
    BY <1>1, <1>6, <1>7, <1>8, <2>2
  <2>5. QED
    BY <2>1, <2>3, <2>4 DEF CallbacksApart
<1>10. DroppedLate'
  BY <1>1 DEF DroppedLate, CallbacksSound
<1>11. CallbackAhead'
  BY <1>1 DEF CallbackAhead
<1>12. WaitsCovered'
  <2> SUFFICES ASSUME NEW s \in Seqs, graph'[s].map, NEW w \in graph'[s].waits
               PROVE  \/ CallbackOf(w, s) \in client'[w.client].callbacks
                      \/ \E t \in Threads : CallbackOf(w, s) \in thread'[t].callbacks
                      \/ CallbackOf(w, s) \in Dropped'
    BY DEF WaitsCovered, CallbackOf
  <2>1. CASE w \in graph[s].waits
    <3>1. \/ CallbackOf(w, s) \in client[w.client].callbacks
          \/ \E t \in Threads : CallbackOf(w, s) \in thread[t].callbacks
          \/ CallbackOf(w, s) \in Dropped
      BY <1>1, <2>1 DEF CallbacksSound, WaitsCovered
    <3>2. w.client \in Seqs
      BY <1>2, <2>1, CallbackIds
    <3>3. client[w.client].callbacks \subseteq client'[w.client].callbacks
      BY <1>14, <3>2
    <3>4. QED
      BY <1>1, <1>7, <3>1, <3>3
  <2>2. CASE w \notin graph[s].waits
    <3>1. s = a.seq /\ w = FenceOf(r)
      <4>1. graph'[s].waits = IF s = a.seq THEN graph[s].waits \cup {FenceOf(r)}
                              ELSE graph[s].waits
        BY <1>1
      <4>2. QED
        BY <2>2, <4>1
    <3>2. w.client = x /\ CallbackOf(w, s) = r
      BY <3>1, <1>1 DEF FenceOf, CallbackOf, r
    <3>3. QED
      BY <1>14, <3>2
  <2>3. QED
    BY <2>1, <2>2
<1>13. QED
  BY <1>9, <1>10, <1>11, <1>12 DEF CallbacksSound

LEMMA StayKeeps ==
    ASSUME GpuTypes, CallbacksSound, CallbacksStay
    PROVE  CallbacksSound'
<1>1. last_order \in Nat
  BY Constants DEF GpuTypes
<1>2. Dropped' = Dropped /\ DroppedLate'
  <2>1. CASE destroying' = destroying
    BY <2>1, DroppedNext DEF CallbacksSound, DroppedLate
  <2>2. QED
    BY <2>1 DEF CallbacksStay
<1>3. last_order' \in Nat /\ last_order' >= last_order
  BY <1>1 DEF CallbacksStay
<1>4. CallbacksLeft({})
  BY <1>1, <1>2, <1>3 DEF CallbacksLeft, CallbacksStay
<1>5. QED
  BY <1>4, CallbacksLeftKeeps

LEMMA CalledKeeps ==
    ASSUME GpuTypes, CallbacksSound, NEW r \in Callbacks, NEW th, CalledBack(r, th),
           \A t \in Threads : th[t].callbacks \in {thread[t].callbacks, thread[t].callbacks \ {r}},
           Dropped' \in {Dropped, Dropped \ {r}}, DroppedLate',
           client' = client, adding' = adding, last_order' = last_order
    PROVE  CallbacksSound'
<1>1. \A t \in Threads : thread'[t].callbacks = th[t].callbacks
  BY DEF CalledBack, Woken, SameThread
<1>2. last_order \in Nat
  BY Constants DEF GpuTypes
<1>3. \A s \in Seqs : \A w \in graph[s].waits :
          CallbackOf(w, s) \in {r} => w = FenceOf(r) /\ s = r.seq
  <2> SUFFICES ASSUME NEW s \in Seqs, NEW w \in graph[s].waits, CallbackOf(w, s) = r
               PROVE  w = FenceOf(r) /\ s = r.seq
    OBVIOUS
  <2>1. w \in Fences
    BY CallbackIds
  <2>2. r.client = w.client /\ r.count = w.count /\ r.seq = s /\ r.id = w.order
    BY DEF CallbackOf
  <2>3. QED
    BY <2>1, <2>2 DEF Fences, FenceOf
<1>4. \A s \in Seqs :
          /\ graph'[s].map = graph[s].map /\ graph'[s].waits \subseteq graph[s].waits
          /\ graph'[s].map => \A w \in graph'[s].waits : CallbackOf(w, s) \notin {r}
  BY <1>3 DEF CalledBack
<1>5. CallbacksLeft({r})
  BY <1>1, <1>2, <1>4 DEF CallbacksLeft
<1>6. QED
  BY <1>5, CallbacksLeftKeeps

LEMMA ThreadCallbacks ==
    ASSUME GpuSound, GpuTypes', CallbacksSound, NEW t \in Threads, ThreadShape(t)
    PROVE  CallbacksSound'
<1> USE DEF GpuSound
<1>1. thread[t] \in ThreadStates
  BY DEF GpuTypes
<1>2. ASSUME NEW new, ThreadStep(t, new), new.callbacks = thread[t].callbacks,
             \A x \in Seqs : client'[x].callbacks = client[x].callbacks
      PROVE  CallbacksSound'
  <2>1. \A u \in Threads : thread'[u].callbacks = thread[u].callbacks
    BY <1>2 DEF ThreadStep, GpuTypes
  <2>2. CallbacksStay
    BY <1>2, <2>1 DEF CallbacksStay, ThreadStep
  <2>3. QED
    BY <2>2, StayKeeps
<1>3. ASSUME NEW new, NextChosen(t, new)
      PROVE  CallbacksSound'
  BY <1>2, <1>3 DEF NextChosen
<1>4. ASSUME TaskMissed(t)
      PROVE  CallbacksSound'
  <2>1. [thread[t] EXCEPT !.pc = "again"].callbacks = thread[t].callbacks
    BY <1>1 DEF ThreadStates
  <2>2. QED
    BY <1>2, <1>4, <2>1 DEF TaskMissed
<1>5. ASSUME TaskReturned(t)
      PROVE  CallbacksSound'
  <2>1. [thread[t] EXCEPT !.pc = "finish"].callbacks = thread[t].callbacks
    BY <1>1 DEF ThreadStates
  <2>2. QED
    BY <1>2, <1>5, <2>1 DEF TaskReturned
<1>6. ASSUME RanAgain(t)
      PROVE  CallbacksSound'
  <2>1. [NewThread EXCEPT !.running = HasAnyUnblockedTasksOnRunner(graph, t),
                          !.posted = HasAnyUnblockedTasksOnRunner(graph, t)].callbacks = {}
    BY DEF NewThread
  <2>2. QED
    BY <1>2, <1>6, <2>1 DEF RanAgain
<1>7. ASSUME NEW s, TaskStarted(t, s)
      PROVE  CallbacksSound'
  <2>1. \A u \in Threads : thread'[u].callbacks = thread[u].callbacks
    <3>1. /\ \A u \in Threads \ {t} : thread'[u] = thread[u]
          /\ thread'[t].callbacks = {} /\ thread[t].callbacks = {}
      BY <1>7 DEF TaskStarted
    <3>2. QED
      BY <3>1
  <2>2. \A x \in Seqs : graph'[x].map = graph[x].map /\ graph'[x].waits = graph[x].waits
    BY <1>7 DEF TaskStarted
  <2>3. CallbacksStay
    BY <1>7, <2>1, <2>2 DEF CallbacksStay, TaskStarted
  <2>4. QED
    BY <2>3, StayKeeps
<1>8. ASSUME NEW s, NEW task, TaskContinued(t, s, task)
      PROVE  CallbacksSound'
  <2>1. \A x \in Seqs : graph'[x].map = graph[x].map /\ graph'[x].waits = graph[x].waits
    BY <1>8 DEF TaskContinued
  <2>2. CallbacksStay
    BY <1>8, <2>1 DEF CallbacksStay, TaskContinued
  <2>3. QED
    BY <2>2, StayKeeps
<1>9. ASSUME NEW me, NEW s, NEW count, NEW cause, NEW taken,
             ReleaseStep(t, me, s, count, cause, taken)
      PROVE  CallbacksSound'
  <2>1. /\ s \in Seqs /\ me \in ThreadStates /\ thread[t].callbacks = {}
        /\ UNCHANGED <<graph, adding, destroying, last_order>>
    BY <1>9 DEF ReleaseStep
  <2>2. /\ taken \subseteq client[s].callbacks
        /\ \A x \in Seqs : client'[x].callbacks = IF x = s THEN client[x].callbacks \ taken
                                                  ELSE client[x].callbacks
        /\ thread' = [thread EXCEPT ![t] = [me EXCEPT !.callbacks = taken]]
    BY <1>9 DEF ReleaseStep, Released
  <2>3. [me EXCEPT !.callbacks = taken].callbacks = taken
    BY <2>1 DEF ThreadStates
  <2>4. /\ thread'[t].callbacks = taken
        /\ \A u \in Threads \ {t} : thread'[u].callbacks = thread[u].callbacks
    BY <2>2, <2>3 DEF GpuTypes
  <2>5. DroppedLate' /\ Dropped' = Dropped
    BY <2>1, DroppedNext DEF DroppedLate, CallbacksSound
  <2>6. QueueLeft(s, taken)
    BY <2>1, <2>2, <2>5 DEF QueueLeft
  <2>7. QED
    BY <2>1, <2>4, <2>5, <2>6, TakenKeeps
<1>10. ASSUME NEW s, NEW overdue, NumberDone(t, s, overdue)
       PROVE  CallbacksSound'
  <2>1. \A u \in Threads : thread'[u].callbacks = thread[u].callbacks
    BY <1>10 DEF NumberDone
  <2>2. CallbacksStay
    BY <1>10, <2>1 DEF CallbacksStay, NumberDone
  <2>3. QED
    BY <2>2, StayKeeps
<1>11. ASSUME NEW new, NEW f, NEW ended, WaitEnded(t, new, f, ended)
       PROVE  CallbacksSound'
  <2>1. f.client \in Seqs
    BY <1>11 DEF WaitEnded, OrderFences
  <2>2. /\ ended \subseteq client[f.client].callbacks /\ thread[t].callbacks = {}
        /\ \A x \in Seqs : client'[x].callbacks = IF x = f.client THEN client[x].callbacks \ ended
                                                  ELSE client[x].callbacks
        /\ new.callbacks = ended /\ thread' = [thread EXCEPT ![t] = new]
        /\ UNCHANGED <<graph, adding, destroying, last_order>>
    BY <1>11 DEF WaitEnded, ThreadStep
  <2>3. /\ thread'[t].callbacks = ended
        /\ \A u \in Threads \ {t} : thread'[u].callbacks = thread[u].callbacks
    BY <2>2 DEF GpuTypes
  <2>4. DroppedLate' /\ Dropped' = Dropped
    BY <2>2, DroppedNext DEF DroppedLate, CallbacksSound
  <2>5. QueueLeft(f.client, ended)
    BY <2>1, <2>2, <2>4 DEF QueueLeft
  <2>6. QED
    BY <2>2, <2>3, <2>4, <2>5, TakenKeeps
<1>12. ASSUME NEW r, ThreadCalled(t, r)
       PROVE  CallbacksSound'
  <2> DEFINE th == [thread EXCEPT ![t].callbacks = @ \ {r}]
  <2>1. /\ r \in Callbacks /\ CalledBack(r, th)
        /\ UNCHANGED <<client, adding, destroying, last_order>>
    BY <1>12 DEF ThreadCalled
  <2>2. \A u \in Threads : th[u].callbacks \in {thread[u].callbacks, thread[u].callbacks \ {r}}
    BY <1>1 DEF GpuTypes, ThreadStates
  <2>3. DroppedLate' /\ Dropped' = Dropped
    BY <2>1, DroppedNext DEF DroppedLate, CallbacksSound
  <2> HIDE DEF th
  <2>4. QED
    BY <2>1, <2>2, <2>3, CalledKeeps
<1>13. ASSUME TaskFinished(t)
       PROVE  CallbacksSound'
  <2>1. \A u \in Threads : thread'[u].callbacks = thread[u].callbacks
    BY <1>13 DEF TaskFinished
  <2>2. CallbacksStay
    BY <1>13, <2>1 DEF CallbacksStay, TaskFinished
  <2>3. QED
    BY <2>2, StayKeeps
<1>14. QED
  BY <1>3, <1>4, <1>5, <1>6, <1>7, <1>8, <1>9, <1>10, <1>11, <1>12, <1>13 DEF ThreadShape

LEMMA DestroyCallbacks ==
    ASSUME GpuSound, GpuTypes', CallbacksSound, DestroyShape
    PROVE  CallbacksSound'
<1> USE DEF GpuSound
<1>1. ASSUME NEW s, NEW q, NEW d, DestroyMoved(s, q, d)
      PROVE  CallbacksSound'
  <2>1. /\ d \in Destructions /\ destroying' = <<d>> /\ d.pc \in {"map", "only", "client"}
        /\ UNCHANGED <<client, thread, adding, last_order>>
        /\ \A x \in Seqs : /\ graph'[x].map => graph[x].map
                           /\ graph'[x].waits = graph[x].waits
        /\ s \in Seqs
    BY <1>1 DEF DestroyMoved, DestroyStep
  <2>2. d.callbacks = {} /\ Dropped = {}
    <3>1. CASE destroying = << >>
      BY <1>1, <3>1, DroppedLemma DEF DestroyMoved
    <3>2. CASE Len(destroying) = 1 /\ destroying[1].pc = "map"
      <4>1. destroying = <<destroying[1]>> /\ destroying[1] \in Destructions
        BY <3>2, DestroyingLemma
      <4>2. destroying[1].callbacks = {}
        BY <3>2 DEF CallbacksSound, DroppedLate
      <4>3. Dropped = {}
        BY <4>1, <4>2, DroppedLemma
      <4>4. d.callbacks = {}
        <5>1. destroying # << >>
          BY <3>2
        <5>2. QED
          BY <1>1, <4>2, <5>1 DEF DestroyMoved
      <4>5. QED
        BY <4>3, <4>4
    <3>3. QED
      BY <1>1, <3>1, <3>2 DEF DestroyMoved
  <2>3. Dropped' = {}
    BY <2>1, <2>2, DroppedNext
  <2>4. DroppedLate'
    <3>1. Len(destroying') = 1 /\ destroying'[1] = d
      BY <2>1
    <3>2. QED
      BY <2>2, <3>1 DEF DroppedLate
  <2>5. CallbacksStay
    BY <2>1, <2>2, <2>3, <2>4 DEF CallbacksStay
  <2>6. QED
    BY <2>5, StayKeeps
<1>2. ASSUME NEW d, ClientGone(d)
      PROVE  CallbacksSound'
  BY <1>2, ClientGoneKeeps
<1>3. ASSUME NEW d, NEW r, DestroyCalled(d, r)
      PROVE  CallbacksSound'
  <2>1. /\ Len(destroying) = 1 /\ r \in Callbacks /\ CalledBack(r, thread)
        /\ destroying' = <<d>> /\ d \in Destructions /\ d.pc = destroying[1].pc
        /\ d.callbacks = destroying[1].callbacks \ {r}
        /\ UNCHANGED <<client, adding, last_order>>
    BY <1>3 DEF DestroyCalled
  <2>2. destroying = <<destroying[1]>> /\ destroying[1] \in Destructions
    BY <2>1, DestroyingLemma
  <2>3. Dropped' = Dropped \ {r}
    BY <2>1, <2>2, DroppedLemma, DroppedNext
  <2>4. DroppedLate'
    <3>1. Len(destroying') = 1 /\ destroying'[1] = d
      BY <2>1
    <3>2. QED
      BY <2>1, <3>1 DEF DroppedLate, CallbacksSound
  <2>5. QED
    BY <2>1, <2>3, <2>4, CalledKeeps
<1>4. ASSUME NEW d, OrderGone(d)
      PROVE  CallbacksSound'
  <2>1. /\ Len(destroying) = 1 /\ destroying[1].callbacks = {} /\ d.callbacks = {}
        /\ destroying' = <<d>> /\ d \in Destructions
        /\ UNCHANGED <<client, graph, thread, adding, last_order>>
    BY <1>4 DEF OrderGone
  <2>2. destroying = <<destroying[1]>> /\ destroying[1] \in Destructions
    BY <2>1, DestroyingLemma
  <2>3. Dropped' = Dropped
    <3>1. Dropped = {}
      BY <2>1, <2>2, DroppedLemma
    <3>2. Dropped' = {}
      BY <2>1, DroppedNext
    <3>3. QED
      BY <3>1, <3>2
  <2>4. DroppedLate'
    <3>1. Len(destroying') = 1 /\ destroying'[1] = d
      BY <2>1
    <3>2. QED
      BY <2>1, <3>1 DEF DroppedLate
  <2>5. CallbacksStay
    BY <2>1, <2>3, <2>4 DEF CallbacksStay
  <2>6. QED
    BY <2>5, StayKeeps
<1>5. ASSUME destroying' = << >>, Len(destroying) = 1,
             destroying[1].callbacks = {},
             \A x \in Seqs : graph'[x].map = graph[x].map /\ graph'[x].waits \subseteq graph[x].waits,
             \A t \in Threads : thread'[t].callbacks = thread[t].callbacks,
             UNCHANGED <<client, adding, last_order>>
      PROVE  CallbacksSound'
  <2>1. destroying = <<destroying[1]>> /\ destroying[1] \in Destructions
    BY <1>5, DestroyingLemma
  <2>2. Dropped' = Dropped
    BY <1>5, <2>1, DroppedLemma, DroppedNext
  <2>3. DroppedLate'
    BY <1>5 DEF DroppedLate
  <2>4. CallbacksStay
    BY <1>5, <2>2, <2>3 DEF CallbacksStay
  <2>5. QED
    BY <2>4, StayKeeps
<1>6. ASSUME NEW x, Deleted(x)
      PROVE  CallbacksSound'
  <2>1. /\ Len(destroying) = 1 /\ destroying[1].pc = "sequence" /\ destroying' = << >>
        /\ \A t \in Threads : thread'[t].callbacks = thread[t].callbacks
        /\ UNCHANGED <<client, adding, last_order>>
    BY <1>6 DEF Deleted, Woken, SameThread
  <2>2. destroying[1].callbacks = {}
    BY <2>1 DEF CallbacksSound, DroppedLate
  <2>3. \A s \in Seqs : graph'[s].map = graph[s].map /\ graph'[s].waits \subseteq graph[s].waits
    BY <1>6 DEF Deleted
  <2>4. QED
    BY <1>5, <2>1, <2>2, <2>3
<1>7. ASSUME DestroyEnded
      PROVE  CallbacksSound'
  BY <1>5, <1>7 DEF DestroyEnded
<1>8. QED
  BY <1>1, <1>2, <1>3, <1>4, <1>6, <1>7 DEF DestroyShape

LEMMA CallbacksKept ==
    ASSUME GpuSound, GpuTypes', CallbacksSound, StepShape
    PROVE  CallbacksSound'
<1> USE DEF GpuSound
<1>1. ASSUME UNCHANGED gpuVars
      PROVE  CallbacksSound'
  <2>1. CallbacksStay
    BY <1>1 DEF CallbacksStay, gpuVars
  <2>2. QED
    BY <2>1, StayKeeps
<1>2. ASSUME NEW s, NEW task, TaskQueued(s, task)
      PROVE  CallbacksSound'
  <2>1. /\ \A x \in Seqs : graph'[x].map = graph[x].map /\ graph'[x].waits = graph[x].waits
        /\ \A t \in Threads : thread'[t].callbacks = thread[t].callbacks
        /\ UNCHANGED <<client, destroying>>
        /\ last_order' = last_order + 1 /\ task.order = last_order + 1
    BY <1>2 DEF TaskQueued, Woken, SameThread
  <2>2. \A i \in 1..Len(adding') : adding'[i].order = last_order + 1
    <3>1. \/ adding' = << >>
          \/ \E k : adding' = <<[seq |-> s, order |-> task.order, token |-> k]>>
      BY <1>2 DEF TaskQueued
    <3>2. QED
      BY <2>1, <3>1
  <2>3. CallbacksStay
    BY <2>1, <2>2 DEF CallbacksStay
  <2>4. QED
    BY <2>3, StayKeeps
<1>3. ASSUME NEW a, WaitStored(a)
      PROVE  CallbacksSound'
  BY <1>3, WaitStoredKeeps
<1>4. ASSUME NEW s \in Seqs, EnabledSet(s)
      PROVE  CallbacksSound'
  <2>1. CallbacksStay
    BY <1>4 DEF CallbacksStay, EnabledSet, Woken, SameThread
  <2>2. QED
    BY <2>1, StayKeeps
<1>5. ASSUME NEW s \in Seqs, NEW new, Validated(s, new)
      PROVE  CallbacksSound'
  <2>1. /\ \A x \in Seqs : graph'[x].map = graph[x].map /\ graph'[x].waits = graph[x].waits
        /\ \A u \in Threads : thread'[u].callbacks = thread[u].callbacks
        /\ UNCHANGED <<client, adding, destroying, last_order>>
    BY <1>5 DEF Validated, SameSequence
  <2>2. CallbacksStay
    BY <2>1 DEF CallbacksStay
  <2>3. QED
    BY <2>2, StayKeeps
<1>6. QED
  BY <1>1, <1>2, <1>3, <1>4, <1>5, ThreadCallbacks, DestroyCallbacks DEF StepShape

LEMMA InitCallbacks == GpuInit => CallbacksSound
<1> SUFFICES ASSUME GpuInit PROVE CallbacksSound
  OBVIOUS
<1>1. /\ adding = << >> /\ destroying = << >> /\ Dropped = {}
      /\ \A x \in Seqs : client[x].callbacks = {} /\ graph[x].waits = {}
      /\ \A t \in Threads : thread[t].callbacks = {}
  BY DroppedLemma DEF GpuInit, NewClientState, NewSequence, NewThread
<1>2. QED
  BY <1>1 DEF CallbacksSound, CallbacksApart, DroppedLate, CallbackAhead, WaitsCovered

LEMMA OneCallback == GpuSound /\ CallbacksSound => NoWaitLost
<1> SUFFICES ASSUME GpuSound, CallbacksSound, NEW s \in Seqs, graph[s].map,
                    NEW w \in graph[s].waits
             PROVE  PendingCallbacks(w, s) = 1
  BY DEF NoWaitLost
<1> DEFINE r == [client |-> w.client, count |-> w.count, seq |-> s, id |-> w.order]
           queued == r \in client[w.client].callbacks
           held == {t \in Threads : r \in thread[t].callbacks}
           dropped == {i \in 1..Len(destroying) : r \in destroying[i].callbacks}
<1>1. r \in Callbacks /\ w.client \in Seqs /\ r.client = w.client
  BY CallbackIds DEF CallbackOf, GpuSound
<1>2. queued \/ (\E t \in Threads : r \in thread[t].callbacks) \/ r \in Dropped
  BY DEF CallbacksSound, WaitsCovered, CallbackOf
<1>3. /\ Len(destroying) \in Nat /\ Len(destroying) <= 1
  BY DEF GpuSound, GpuTypes
<1>4. r \in Dropped <=> dropped # {}
  BY DEF Dropped
<1>5. dropped # {} => dropped = {1}
  BY <1>3
<1>6. queued => held = {} /\ dropped = {}
  BY <1>1, <1>4 DEF CallbacksSound, CallbacksApart
<1>7. ASSUME NEW t \in held
      PROVE  dropped = {} /\ held = {t}
  <2>1. /\ \A u \in Threads : u # t => r \notin thread[u].callbacks
        /\ t \in Threads /\ r \in thread[t].callbacks
    BY <1>7 DEF CallbacksSound, CallbacksApart
  <2>2. r \notin Dropped
    BY <2>1 DEF CallbacksSound, CallbacksApart
  <2>3. held = {t}
    BY <2>1
  <2>4. QED
    BY <1>4, <2>2, <2>3
<1>8. /\ Cardinality({}) = 0 /\ \A t : Cardinality({t}) = 1
  BY FS_EmptySet, FS_Singleton
<1>9. PendingCallbacks(w, s) =
          (IF queued THEN 1 ELSE 0) + Cardinality(held) + Cardinality(dropped)
  BY DEF PendingCallbacks
<1> HIDE DEF r, queued, held, dropped
<1>10. CASE queued
  BY <1>6, <1>8, <1>9, <1>10
<1>11. CASE ~ queued /\ held # {}
  <2>1. PICK t : t \in held
    BY <1>11
  <2>2. dropped = {} /\ held = {t}
    BY <1>7, <2>1
  <2>3. Cardinality(held) = 1 /\ Cardinality(dropped) = 0
    BY <1>8, <2>2
  <2>4. QED
    BY <1>9, <1>11, <2>3
<1>12. CASE ~ queued /\ held = {}
  <2>1. dropped = {1}
    BY <1>2, <1>4, <1>5, <1>12 DEF held
  <2>2. Cardinality(held) = 0 /\ Cardinality(dropped) = 1
    BY <2>1, <1>8, <1>12
  <2>3. QED
    BY <1>9, <1>12, <2>2
<1>13. QED
  BY <1>10, <1>11, <1>12

\* No wait is lost, and none is ended twice: each wait fence of a sequence the task graph
\* still has (task_graph.cc wait_fences_) has exactly one callback, in the queue of the
\* client it waits for, with the thread that took it from there, or with the thread that
\* destroys that client.
THEOREM WaitsKeepCallbacks == GpuSpec => []NoWaitLost
<1>1. CallbacksSound /\ GpuSound /\ GpuSound' /\ [GpuNext]_gpuVars => CallbacksSound'
  BY StepLemma, CallbacksKept DEF GpuSound
<1>2. QED
  BY InitCallbacks, SchedulerSound, <1>1, OneCallback, PTL DEF GpuSpec

-----------------------------------------------------------------------------
(***************************************************************************)
(* No wakeup is missed                                                     *)
(***************************************************************************)
LEMMA UnblockedSame ==
    ASSUME GpuTypes, GpuTypes', NEW s \in Seqs,
           SameTasks(graph'[s].tasks, graph[s].tasks), graph'[s].waits = graph[s].waits
    PROVE  IsFrontTaskUnblocked(graph', s) <=> IsFrontTaskUnblocked(graph, s)
<1> DEFINE p == graph'[s].tasks
           q == graph[s].tasks
<1>1. p \in Seq(Tasks) /\ q \in Seq(Tasks)
  BY DEF GpuTypes, Sequences
<1>2. Len(p) = Len(q) /\ \A i \in 1..Len(q) : p[i].order = q[i].order
  BY DEF SameTasks
<1>3. p # << >> <=> q # << >>
  BY <1>1, <1>2
<1>4. q # << >> => Head(p).order = Head(q).order
  BY <1>1, <1>2
<1>5. QED
  BY <1>3, <1>4 DEF IsFrontTaskUnblocked, Front

\* Threads are at most woken, and no sequence gets ready unnoticed.
LEMMA WokenAwake ==
    ASSUME AwakeSound, \A u \in Threads : Woken(thread'[u], thread[u]),
           \A s \in Seqs : /\ graph'[s].sched => graph[s].sched
                           /\ graph'[s].running = graph[s].running
                           /\ Ready(s)' => Ready(s) \/ thread'[RunnerOf[s]].running
    PROVE  AwakeSound'
<1>1. \A s \in Seqs : RunnerOf[s] \in Threads
  BY Constants
<1>2. \A u \in Threads : /\ thread'[u].pc = thread[u].pc /\ thread'[u].seq = thread[u].seq
                         /\ thread[u].running => thread'[u].running
                         /\ \/ thread'[u] = thread[u]
                            \/ thread'[u].running /\ thread'[u].posted
  BY DEF Woken, SameThread
<1>3. Awake'
  BY <1>1, <1>2 DEF AwakeSound, Awake
<1>4. RunningBound'
  BY <1>1, <1>2 DEF AwakeSound, RunningBound
<1>5. ThreadsRun'
  BY <1>2 DEF AwakeSound, ThreadsRun
<1>6. QED
  BY <1>3, <1>4, <1>5 DEF AwakeSound

\* Only thread t moves.
LEMMA OneAwake ==
    ASSUME AwakeSound, NEW t \in Threads,
           \A u \in Threads \ {t} : thread'[u] = thread[u],
           thread'[t].running <=> thread'[t].posted \/ thread'[t].pc \notin {"idle", "force"},
           \A s \in Seqs :
               /\ RunnerOf[s] # t => /\ Ready(s)' => Ready(s)
                                     /\ graph'[s].sched => graph[s].sched
                                     /\ graph'[s].running = graph[s].running
               /\ RunnerOf[s] = t /\ Ready(s)' => thread'[t].running
               /\ RunnerOf[s] = t /\ graph'[s].sched /\ graph'[s].running =>
                      thread'[t].pc \in Executing /\ thread'[t].seq = s
    PROVE  AwakeSound'
<1>1. \A s \in Seqs : RunnerOf[s] \in Threads
  BY Constants
<1>2. Awake'
  BY <1>1 DEF AwakeSound, Awake
<1>3. RunningBound'
  BY <1>1 DEF AwakeSound, RunningBound
<1>4. ThreadsRun'
  BY DEF AwakeSound, ThreadsRun
<1>5. QED
  BY <1>2, <1>3, <1>4 DEF AwakeSound

\* ... and goes on as it did, with the sequences as they were.
LEMMA GoesOn ==
    ASSUME AwakeSound, NEW t \in Threads,
           \A u \in Threads \ {t} : thread'[u] = thread[u],
           thread'[t].running = thread[t].running, thread'[t].posted = thread[t].posted,
           thread'[t].pc \in {"idle", "force"} <=> thread[t].pc \in {"idle", "force"},
           thread[t].pc \in Executing => thread'[t].pc \in Executing /\ thread'[t].seq = thread[t].seq,
           \A s \in Seqs : /\ Ready(s)' => Ready(s)
                           /\ graph'[s].sched => graph[s].sched
                           /\ graph'[s].running = graph[s].running
    PROVE  AwakeSound'
<1>1. \A s \in Seqs : RunnerOf[s] = t /\ Ready(s)' => thread'[t].running
  BY DEF AwakeSound, Awake
<1>2. \A s \in Seqs : RunnerOf[s] = t /\ graph'[s].sched /\ graph'[s].running =>
                      thread'[t].pc \in Executing /\ thread'[t].seq = s
  BY DEF AwakeSound, RunningBound
<1>3. thread'[t].running <=> thread'[t].posted \/ thread'[t].pc \notin {"idle", "force"}
  BY DEF AwakeSound, ThreadsRun
<1>4. QED
  BY <1>1, <1>2, <1>3, OneAwake

\* A thread that is at work is running, so its sequences need no waking.
LEMMA WorkRuns ==
    ASSUME AwakeSound, NEW t \in Threads, thread[t].pc \notin {"idle", "force"}
    PROVE  thread[t].running
BY DEF AwakeSound, ThreadsRun

\* After TryScheduleSequence for s the thread of s runs, if it has to.
LEMMA Scheduled ==
    ASSUME AwakeSound, NEW s \in Seqs, graph[s].sched, graph'[s].running = graph[s].running,
           \A u \in Threads : Woken(thread'[u], thread[u]),
           \/ graph'[s].running
           \/ ~ HasAnyUnblockedTasksOnRunner(graph', RunnerOf[s])
           \/ thread'[RunnerOf[s]].running
    PROVE  Ready(s)' => thread'[RunnerOf[s]].running
<1> SUFFICES ASSUME Ready(s)' PROVE thread'[RunnerOf[s]].running
  OBVIOUS
<1>1. RunnerOf[s] \in Threads
  BY Constants
<1>2. CASE graph'[s].running
  <2>1. thread[RunnerOf[s]].pc \in Executing
    BY <1>2 DEF AwakeSound, RunningBound
  <2>2. thread[RunnerOf[s]].running
    BY <1>1, <2>1, WorkRuns DEF Executing
  <2>3. QED
    BY <1>1, <2>2 DEF Woken
<1>3. HasAnyUnblockedTasksOnRunner(graph', RunnerOf[s])
  BY DEF Ready, HasAnyUnblockedTasksOnRunner
<1>4. QED
  BY <1>2, <1>3

\* A sequence whose record is the same, beside an addition that is, is ready as before.
LEMMA ReadySame ==
    ASSUME GpuTypes, GpuTypes', NEW s \in Seqs,
           SameTasks(graph'[s].tasks, graph[s].tasks), graph'[s].waits = graph[s].waits,
           graph'[s].sched => graph[s].sched, graph'[s].enabled => graph[s].enabled,
           adding' = adding \/ \A i \in 1..Len(adding) : adding[i].seq # s
    PROVE  Ready(s)' => Ready(s)
<1>1. IsFrontTaskUnblocked(graph', s) <=> IsFrontTaskUnblocked(graph, s)
  BY UnblockedSame
<1>2. QED
  BY <1>1 DEF Ready

LEMMA ReadyEqual ==
    ASSUME NEW s \in Seqs, graph'[s] = graph[s],
           adding' = adding \/ \A i \in 1..Len(adding) : adding[i].seq # s
    PROVE  Ready(s)' => Ready(s)
BY DEF Ready, IsFrontTaskUnblocked, Front

LEMMA SameTasksRefl == \A p : SameTasks(p, p)
BY DEF SameTasks

LEMMA QueuedAwake ==
    ASSUME GpuSound, GpuTypes', AwakeSound, NEW s, NEW task, TaskQueued(s, task)
    PROVE  AwakeSound'
<1>1. /\ s \in Seqs /\ graph[s].sched /\ adding = << >>
      /\ \A u \in Threads : Woken(thread'[u], thread[u])
      /\ \A x \in Seqs : /\ x # s => SameTasks(graph'[x].tasks, graph[x].tasks)
                         /\ graph'[x].sched = graph[x].sched /\ graph'[x].waits = graph[x].waits
                         /\ graph'[x].enabled = graph[x].enabled
                         /\ graph'[x].running = graph[x].running
  BY DEF TaskQueued
<1>2. \A x \in Seqs \ {s} : Ready(x)' => Ready(x)
  BY <1>1, ReadySame DEF GpuSound
<1>3. Ready(s)' => thread'[RunnerOf[s]].running
  <2>1. CASE adding' = << >>
    <3>1. \/ graph'[s].running
          \/ ~ HasAnyUnblockedTasksOnRunner(graph', RunnerOf[s])
          \/ thread'[RunnerOf[s]].running
      BY <2>1 DEF TaskQueued
    <3>2. QED
      BY <1>1, <3>1, Scheduled
  <2>2. CASE \E k \in AllTokens : adding' = <<[seq |-> s, order |-> task.order, token |-> k]>>
    <3>1. Len(adding') = 1 /\ adding'[1].seq = s
      BY <2>2
    <3>2. ~ Ready(s)'
      BY <3>1 DEF Ready
    <3>3. QED
      BY <3>2
  <2>3. QED
    BY <2>1, <2>2 DEF TaskQueued
<1>4. QED
  BY <1>1, <1>2, <1>3, WokenAwake

LEMMA StoredAwake ==
    ASSUME GpuSound, GpuTypes', AwakeSound, NEW a, WaitStored(a)
    PROVE  AwakeSound'
<1> DEFINE s == a.seq
<1>1. /\ s \in Seqs /\ Len(adding) = 1 /\ adding[1] = a
      /\ \A u \in Threads : Woken(thread'[u], thread[u])
      /\ \A x \in Seqs : /\ SameTasks(graph'[x].tasks, graph[x].tasks)
                         /\ graph'[x].sched = graph[x].sched
                         /\ x # s => graph'[x].waits = graph[x].waits
                         /\ graph'[x].enabled = graph[x].enabled
                         /\ graph'[x].running = graph[x].running
      /\ \/ graph'[s].running
         \/ ~ HasAnyUnblockedTasksOnRunner(graph', RunnerOf[s])
         \/ thread'[RunnerOf[s]].running
  BY DEF WaitStored
<1>2. \A x \in Seqs \ {s} : \A i \in 1..Len(adding) : adding[i].seq # x
  BY <1>1
<1> HIDE DEF s
<1>3. \A x \in Seqs \ {s} : Ready(x)' => Ready(x)
  BY <1>1, <1>2, ReadySame DEF GpuSound
<1>4. Ready(s)' => thread'[RunnerOf[s]].running
  <2>1. graph[s].sched \/ ~ Ready(s)'
    BY <1>1 DEF Ready
  <2>2. QED
    BY <1>1, <2>1, Scheduled
<1>5. QED
  BY <1>1, <1>3, <1>4, WokenAwake

LEMMA EnabledAwake ==
    ASSUME GpuSound, GpuTypes', AwakeSound, NEW s, EnabledSet(s)
    PROVE  AwakeSound'
<1>1. /\ s \in Seqs /\ graph[s].sched /\ adding' = adding
      /\ \A u \in Threads : Woken(thread'[u], thread[u])
      /\ \A x \in Seqs : /\ x # s => graph'[x] = graph[x]
                         /\ graph'[x].sched = graph[x].sched
                         /\ graph'[x].running = graph[x].running
      /\ \/ graph'[s].running
         \/ ~ HasAnyUnblockedTasksOnRunner(graph', RunnerOf[s])
         \/ thread'[RunnerOf[s]].running
  BY DEF EnabledSet
<1>2. \A x \in Seqs \ {s} : Ready(x)' => Ready(x)
  BY <1>1, ReadyEqual
<1>3. Ready(s)' => thread'[RunnerOf[s]].running
  BY <1>1, Scheduled
<1>4. QED
  BY <1>1, <1>2, <1>3, WokenAwake

\* A wait that ends leaves the front task blocked, or its thread is scheduled.
LEMMA CalledAwake ==
    ASSUME GpuSound, GpuTypes', AwakeSound, NEW r \in Callbacks,
           NEW th \in [Threads -> ThreadStates], CalledBack(r, th), adding' = adding,
           \A u \in Threads : /\ th[u].pc = thread[u].pc /\ th[u].seq = thread[u].seq
                              /\ th[u].running = thread[u].running
                              /\ th[u].posted = thread[u].posted
    PROVE  AwakeSound'
<1> DEFINE x == r.seq
<1>1. x \in Seqs /\ RunnerOf[x] \in Threads
  BY Constants DEF Callbacks
<1>2. /\ \A u \in Threads : Woken(thread'[u], th[u])
      /\ \A s \in Seqs : /\ graph'[s].tasks = graph[s].tasks /\ graph'[s].sched = graph[s].sched
                         /\ graph'[s].enabled = graph[s].enabled
                         /\ graph'[s].running = graph[s].running
                         /\ graph'[s].waits \subseteq graph[s].waits
                         /\ graph[s].waits \ graph'[s].waits \subseteq {w \in {FenceOf(r)} : s = x}
  BY DEF CalledBack
<1>3. \A s \in Seqs \ {x} : Ready(s)' => Ready(s)
  <2> SUFFICES ASSUME NEW s \in Seqs, s # x PROVE Ready(s)' => Ready(s)
    OBVIOUS
  <2>1. graph'[s].waits = graph[s].waits
    BY <1>2
  <2>2. SameTasks(graph'[s].tasks, graph[s].tasks)
    BY <1>2, SameTasksRefl
  <2>3. QED
    BY <1>2, <2>1, <2>2, ReadySame DEF GpuSound
<1>4. \A u \in Threads : /\ thread'[u].pc = thread[u].pc /\ thread'[u].seq = thread[u].seq
                         /\ thread[u].running => thread'[u].running
                         /\ \/ thread'[u].running = thread[u].running
                               /\ thread'[u].posted = thread[u].posted
                            \/ thread'[u].running /\ thread'[u].posted
  BY <1>2 DEF Woken, SameThread
<1>5. Ready(x)' => Ready(x) \/ thread'[RunnerOf[x]].running
  <2> SUFFICES ASSUME Ready(x)', ~ Ready(x)
               PROVE  thread'[RunnerOf[x]].running
    OBVIOUS
  <2>1. graph' # graph
    BY DEF Ready
  <2>2. FenceOf(r) \in graph[x].waits /\ thread' = FenceGone(graph', th, r)
    BY <2>1 DEF CalledBack
  <2>3. /\ graph[x].sched /\ graph[x].enabled /\ graph[x].tasks # << >>
        /\ IsFrontTaskUnblocked(graph', x) /\ ~ IsFrontTaskUnblocked(graph, x)
        /\ Front(graph', x) = Front(graph, x)
    <3>1. graph[x].sched /\ graph[x].enabled /\ graph'[x].tasks = graph[x].tasks
      BY <1>1, <1>2 DEF Ready
    <3>2. IsFrontTaskUnblocked(graph', x) /\ ~ IsFrontTaskUnblocked(graph, x)
      BY <3>1 DEF Ready
    <3>3. QED
      BY <3>1, <3>2 DEF IsFrontTaskUnblocked, Front
  <2>4. Front(graph', x).order = r.id
    <3>1. PICK w \in graph[x].waits : ~ (w.order > Front(graph, x).order)
      BY <2>3 DEF IsFrontTaskUnblocked
    <3>2. w = FenceOf(r)
      <4>1. w \notin graph'[x].waits
        BY <2>3, <3>1 DEF IsFrontTaskUnblocked
      <4>2. QED
        BY <1>1, <1>2, <4>1
    <3>3. PICK i \in 1..Len(graph[x].tasks) : graph[x].tasks[i].order = w.order
      BY <1>1 DEF GpuSound, Numbered, WaitsHaveTasks
    <3>4. Front(graph, x) = graph[x].tasks[1] /\ 1 \in 1..Len(graph[x].tasks)
          /\ Front(graph, x).order \in Nat
      BY <1>1, <2>3, FrontLemma, Constants DEF GpuSound
    <3>5. i # 1 => graph[x].tasks[1].order < graph[x].tasks[i].order
      BY <1>1, <3>4 DEF GpuSound, Numbered, Ascending
    <3>6. w.order = Front(graph, x).order
      BY <3>1, <3>3, <3>4, <3>5
    <3>7. QED
      BY <2>3, <3>2, <3>6 DEF FenceOf
  <2>5. thread' = TryScheduleSequence(graph', th, x)
    BY <2>2, <2>3, <2>4 DEF FenceGone
  <2>6. \/ graph'[x].running
        \/ ~ HasAnyUnblockedTasksOnRunner(graph', RunnerOf[x])
        \/ thread'[RunnerOf[x]].running
    BY <1>1, <2>5, ScheduleLemma
  <2>7. HasAnyUnblockedTasksOnRunner(graph', RunnerOf[x])
    BY <1>1 DEF Ready, HasAnyUnblockedTasksOnRunner
  <2>8. graph'[x].running => thread'[RunnerOf[x]].running
    <3>1. graph[x].running => thread[RunnerOf[x]].pc \in Executing
      BY <1>1, <2>3 DEF AwakeSound, RunningBound
    <3>2. graph[x].running => thread[RunnerOf[x]].running
      BY <1>1, <3>1, WorkRuns DEF Executing
    <3>3. QED
      BY <1>1, <1>2, <1>4, <3>2
  <2>9. QED
    BY <2>6, <2>7, <2>8
<1> HIDE DEF x
<1>6. \A s \in Seqs : RunnerOf[s] \in Threads
  BY Constants
<1>7. Awake'
  BY <1>1, <1>3, <1>4, <1>5, <1>6 DEF AwakeSound, Awake
<1>8. RunningBound'
  BY <1>2, <1>4, <1>6 DEF AwakeSound, RunningBound
<1>9. ThreadsRun'
  BY <1>4 DEF AwakeSound, ThreadsRun
<1>10. QED
  BY <1>7, <1>8, <1>9 DEF AwakeSound

\* The search finds nothing only if the thread has nothing it could run.
LEMMA ChosenAwake ==
    ASSUME GpuSound, GpuTypes', AwakeSound, NEW t \in Threads, NEW new, NextChosen(t, new)
    PROVE  AwakeSound'
<1>1. /\ thread'[t] = new /\ \A u \in Threads \ {t} : thread'[u] = thread[u]
      /\ graph' = graph /\ adding' = adding /\ ~ new.posted /\ thread[t].pc = "idle"
  BY DEF NextChosen, ThreadStep
<1>2. \A s \in Seqs : Ready(s)' => Ready(s)
  BY <1>1, ReadyEqual
<1>3. \A s \in Seqs : RunnerOf[s] = t => ~ (graph[s].sched /\ graph[s].running)
  BY <1>1 DEF AwakeSound, RunningBound, Executing
<1>4. CASE FindNextTask(t) = {} /\ new.pc = "idle" /\ ~ new.running
  <2>1. \A s \in Seqs : RunnerOf[s] = t => ~ Ready(s)
    <3> SUFFICES ASSUME NEW s \in Seqs, RunnerOf[s] = t, Ready(s) PROVE FALSE
      OBVIOUS
    <3>1. s \in Candidates(t)
      BY <1>3 DEF Candidates, IsRunnable, Ready, IsFrontTaskUnblocked
    <3>2. MaxTasks > 0
      <4>1. graph[s].tasks # << >>
        BY DEF Ready, IsFrontTaskUnblocked
      <4>2. Front(graph, s).order \in 1..MaxTasks
        BY <4>1, FrontLemma DEF GpuSound
      <4>3. QED
        BY <4>2, Constants
    <3>3. FindNextTask(t) # {}
      BY <3>1, <3>2, FindNextComplete DEF GpuSound, GpuTypes, Numbered
    <3>4. QED
      BY <1>4, <3>3
  <2>2. QED
    BY <1>1, <1>2, <1>3, <1>4, <2>1, OneAwake
<1>5. CASE new.pc = "chosen" /\ new.running
  BY <1>1, <1>2, <1>3, <1>5, OneAwake
<1>6. QED
  BY <1>4, <1>5 DEF NextChosen

LEMMA StartedAwake ==
    ASSUME GpuSound, GpuTypes', AwakeSound, NEW t \in Threads, NEW s, TaskStarted(t, s)
    PROVE  AwakeSound'
<1>1. /\ s \in Seqs /\ RunnerOf[s] = t /\ thread[t].pc = "chosen" /\ adding' = adding
      /\ \A x \in Seqs \ {s} : graph'[x] = graph[x]
      /\ \A u \in Threads \ {t} : thread'[u] = thread[u]
      /\ thread'[t].pc = "task" /\ thread'[t].seq = s
      /\ thread'[t].running = thread[t].running
  BY DEF TaskStarted
<1>2. thread'[t].running
  BY <1>1, WorkRuns
<1>3. \A x \in Seqs \ {s} : Ready(x)' => Ready(x)
  BY <1>1, ReadyEqual
<1>4. \A x \in Seqs : RunnerOf[x] = t => ~ (graph[x].sched /\ graph[x].running)
  BY <1>1 DEF AwakeSound, RunningBound, Executing
<1>5. \A x \in Seqs : RunnerOf[x] = t /\ graph'[x].sched /\ graph'[x].running =>
          thread'[t].pc \in Executing /\ thread'[t].seq = x
  BY <1>1, <1>4 DEF Executing
<1>6. \A x \in Seqs : RunnerOf[x] # t => graph'[x] = graph[x] /\ (Ready(x)' => Ready(x))
  BY <1>1, <1>3
<1>7. thread'[t].pc \notin {"idle", "force"}
  BY <1>1
<1>8. QED
  BY <1>1, <1>2, <1>5, <1>6, <1>7, OneAwake

LEMMA ContinuedAwake ==
    ASSUME GpuSound, GpuTypes', AwakeSound, NEW t \in Threads, NEW s, NEW task,
           TaskContinued(t, s, task)
    PROVE  AwakeSound'
<1>1. /\ s \in Seqs /\ RunnerOf[s] = t /\ thread[t].pc = "task" /\ adding' = adding
      /\ thread' = thread
      /\ \A x \in Seqs \ {s} : graph'[x] = graph[x]
      /\ graph'[s].sched = graph[s].sched /\ graph'[s].running = graph[s].running
  BY DEF TaskContinued
<1>2. thread[t].running
  BY <1>1, WorkRuns
<1>3. \A x \in Seqs \ {s} : Ready(x)' => Ready(x)
  BY <1>1, ReadyEqual
<1>4. \A u \in Threads : Woken(thread'[u], thread[u])
  BY <1>1 DEF Woken, SameThread
<1>5. \A x \in Seqs : /\ graph'[x].sched => graph[x].sched
                      /\ graph'[x].running = graph[x].running
                      /\ Ready(x)' => Ready(x) \/ thread'[RunnerOf[x]].running
  BY <1>1, <1>2, <1>3
<1>6. QED
  BY <1>4, <1>5, WokenAwake

LEMMA FinishedAwake ==
    ASSUME GpuSound, GpuTypes', AwakeSound, NEW t \in Threads, TaskFinished(t)
    PROVE  AwakeSound'
<1> DEFINE s == thread[t].seq
<1>1. /\ s \in Seqs /\ RunnerOf[s] = t /\ thread[t].pc = "finish" /\ adding' = adding
      /\ \A x \in Seqs :
             /\ SameTasks(graph'[x].tasks, graph[x].tasks)
             /\ graph'[x].sched = graph[x].sched /\ graph'[x].waits = graph[x].waits
             /\ graph'[x].enabled = graph[x].enabled
             /\ x # s => graph'[x] = graph[x]
      /\ graph[s].sched => ~ graph'[s].running
      /\ \A u \in Threads \ {t} : thread'[u] = thread[u]
      /\ thread'[t].pc = "again" /\ thread'[t].running = thread[t].running
  BY DEF TaskFinished
<1>2. thread'[t].running
  BY <1>1, WorkRuns
<1>3. \A x \in Seqs : Ready(x)' => Ready(x)
  BY <1>1, ReadySame DEF GpuSound
<1>4. \A x \in Seqs : RunnerOf[x] = t => ~ (graph'[x].sched /\ graph'[x].running)
  BY <1>1 DEF AwakeSound, RunningBound
<1> HIDE DEF s
<1>5. \A x \in Seqs : RunnerOf[x] # t => graph'[x] = graph[x]
  BY <1>1
<1>6. thread'[t].pc \notin {"idle", "force"}
  BY <1>1
<1>7. QED
  BY <1>1, <1>2, <1>3, <1>4, <1>5, <1>6, OneAwake

LEMMA AgainAwake ==
    ASSUME GpuSound, GpuTypes', AwakeSound, NEW t \in Threads, RanAgain(t)
    PROVE  AwakeSound'
<1> DEFINE more == HasAnyUnblockedTasksOnRunner(graph, t)
           new == [NewThread EXCEPT !.running = more, !.posted = more]
<1>1. /\ thread' = [thread EXCEPT ![t] = new] /\ thread[t].pc = "again"
      /\ graph' = graph /\ adding' = adding
  BY DEF RanAgain, ThreadStep
<1>2. new.pc = "idle" /\ new.running = more /\ new.posted = more
  BY DEF NewThread
<1>3. \A s \in Seqs : RunnerOf[s] = t /\ Ready(s) => more
  BY DEF Ready, HasAnyUnblockedTasksOnRunner
<1> HIDE DEF new, more
<1>4. thread'[t] = new /\ \A u \in Threads \ {t} : thread'[u] = thread[u]
  BY <1>1 DEF GpuSound, GpuTypes
<1>5. \A s \in Seqs : Ready(s)' => Ready(s)
  BY <1>1, ReadyEqual
<1>6. \A s \in Seqs : RunnerOf[s] = t => ~ (graph[s].sched /\ graph[s].running)
  BY <1>1 DEF AwakeSound, RunningBound, Executing
<1>7. QED
  BY <1>1, <1>2, <1>3, <1>4, <1>5, <1>6, OneAwake

LEMMA ThreadAwakeKeeps ==
    ASSUME GpuSound, GpuTypes', AwakeSound, NEW t \in Threads, ThreadShape(t)
    PROVE  AwakeSound'
<1> USE DEF GpuSound
<1>1. thread[t] \in ThreadStates /\ thread \in [Threads -> ThreadStates]
  BY DEF GpuTypes
<1>2. ASSUME NEW new, thread' = [thread EXCEPT ![t] = new], graph' = graph, adding' = adding,
             new.running = thread[t].running, new.posted = thread[t].posted,
             new.pc \in {"idle", "force"} <=> thread[t].pc \in {"idle", "force"},
             thread[t].pc \in Executing => new.pc \in Executing /\ new.seq = thread[t].seq
      PROVE  AwakeSound'
  <2>1. thread'[t] = new /\ \A u \in Threads \ {t} : thread'[u] = thread[u]
    BY <1>1, <1>2
  <2>2. \A s \in Seqs : Ready(s)' => Ready(s)
    BY <1>2, ReadyEqual
  <2>3. QED
    BY <1>2, <2>1, <2>2, GoesOn
<1>3. ASSUME TaskMissed(t)
      PROVE  AwakeSound'
  <2> DEFINE new == [thread[t] EXCEPT !.pc = "again"]
  <2>1. /\ new.pc = "again" /\ new.seq = thread[t].seq /\ new.running = thread[t].running
        /\ new.posted = thread[t].posted
    BY <1>1 DEF ThreadStates
  <2>2. thread' = [thread EXCEPT ![t] = new] /\ graph' = graph /\ adding' = adding
        /\ thread[t].pc = "chosen"
    BY <1>3 DEF TaskMissed, ThreadStep
  <2> HIDE DEF new
  <2>3. QED
    BY <1>2, <2>1, <2>2 DEF Executing
<1>4. ASSUME TaskReturned(t)
      PROVE  AwakeSound'
  <2> DEFINE new == [thread[t] EXCEPT !.pc = "finish"]
  <2>1. /\ new.pc = "finish" /\ new.seq = thread[t].seq /\ new.running = thread[t].running
        /\ new.posted = thread[t].posted
    BY <1>1 DEF ThreadStates
  <2>2. thread' = [thread EXCEPT ![t] = new] /\ graph' = graph /\ adding' = adding
        /\ thread[t].pc = "task"
    BY <1>4 DEF TaskReturned, ThreadStep
  <2> HIDE DEF new
  <2>3. QED
    BY <1>2, <2>1, <2>2 DEF Executing
<1>5. ASSUME NEW me, NEW s, NEW count, NEW cause, NEW taken,
             ReleaseStep(t, me, s, count, cause, taken)
      PROVE  AwakeSound'
  <2> DEFINE new == [me EXCEPT !.callbacks = taken]
  <2>1. /\ me \in ThreadStates /\ graph' = graph /\ adding' = adding
        /\ me.seq = thread[t].seq
        /\ me.running = thread[t].running /\ me.posted = thread[t].posted
        /\ \/ me.pc = thread[t].pc
           \/ me.pc = "idle" /\ thread[t].pc = "force"
           \/ me.pc = "processed" /\ thread[t].pc = "task"
    BY <1>5 DEF ReleaseStep
  <2>2. thread' = [thread EXCEPT ![t] = new]
    BY <1>5 DEF ReleaseStep, Released
  <2>3. /\ new.pc = me.pc /\ new.seq = me.seq /\ new.running = me.running
        /\ new.posted = me.posted
    BY <2>1 DEF ThreadStates
  <2> HIDE DEF new
  <2>4. /\ new.pc \in {"idle", "force"} <=> thread[t].pc \in {"idle", "force"}
        /\ thread[t].pc \in Executing => new.pc \in Executing /\ new.seq = thread[t].seq
    BY <2>1, <2>3 DEF Executing
  <2>5. QED
    BY <1>2, <2>1, <2>2, <2>3, <2>4
<1>6. ASSUME NEW s, NEW overdue, NumberDone(t, s, overdue)
      PROVE  AwakeSound'
  <2>1. /\ thread[t].pc = "processed" /\ thread'[t].pc \in {"finish", "overdue"}
        /\ thread[t].seq = s /\ thread'[t].seq = s
        /\ thread'[t].running = thread[t].running /\ thread'[t].posted = thread[t].posted
        /\ \A u \in Threads \ {t} : thread'[u] = thread[u]
        /\ graph' = graph /\ adding' = adding
    BY <1>6 DEF NumberDone
  <2>2. \A x \in Seqs : Ready(x)' => Ready(x)
    BY <2>1, ReadyEqual
  <2>3. /\ thread'[t].pc \in {"idle", "force"} <=> thread[t].pc \in {"idle", "force"}
        /\ thread[t].pc \in Executing =>
               thread'[t].pc \in Executing /\ thread'[t].seq = thread[t].seq
    BY <2>1 DEF Executing
  <2>4. QED
    BY <2>1, <2>2, <2>3, GoesOn
<1>7. ASSUME NEW new, NEW f, NEW ended, WaitEnded(t, new, f, ended)
      PROVE  AwakeSound'
  <2>1. /\ thread[t].pc = "overdue" /\ new.pc \in {"overdue", "finish"}
        /\ new.seq = thread[t].seq /\ new.running = thread[t].running
        /\ new.posted = thread[t].posted
        /\ thread' = [thread EXCEPT ![t] = new] /\ graph' = graph /\ adding' = adding
    BY <1>7 DEF WaitEnded, ThreadStep
  <2>2. QED
    BY <1>2, <2>1 DEF Executing
<1>8. ASSUME NEW r, ThreadCalled(t, r)
      PROVE  AwakeSound'
  <2> DEFINE th == [thread EXCEPT ![t].callbacks = @ \ {r}]
  <2>1. /\ r \in Callbacks /\ CalledBack(r, th) /\ adding' = adding
    BY <1>8 DEF ThreadCalled
  <2>2. \A u \in Threads : /\ th[u].pc = thread[u].pc /\ th[u].seq = thread[u].seq
                           /\ th[u].running = thread[u].running
                           /\ th[u].posted = thread[u].posted
    BY <1>1 DEF ThreadStates
  <2>3. th \in [Threads -> ThreadStates]
    BY <1>1 DEF ThreadStates
  <2> HIDE DEF th
  <2>4. QED
    BY <2>1, <2>2, <2>3, CalledAwake
<1>9. QED
  BY <1>3, <1>4, <1>5, <1>6, <1>7, <1>8, ChosenAwake, StartedAwake, ContinuedAwake,
     FinishedAwake, AgainAwake DEF ThreadShape

LEMMA DestroyAwake ==
    ASSUME GpuSound, GpuTypes', AwakeSound, DestroyShape
    PROVE  AwakeSound'
<1> USE DEF GpuSound
<1>1. ASSUME UNCHANGED <<thread, adding>>,
             \A x \in Seqs : /\ graph'[x].tasks = graph[x].tasks
                             /\ graph'[x].waits = graph[x].waits
                             /\ graph'[x].sched => graph[x].sched
                             /\ graph'[x].enabled = graph[x].enabled
                             /\ graph'[x].running = graph[x].running
      PROVE  AwakeSound'
  <2>1. \A x \in Seqs : Ready(x)' => Ready(x)
    BY <1>1, ReadySame, SameTasksRefl
  <2>2. \A u \in Threads : Woken(thread'[u], thread[u])
    BY <1>1 DEF Woken, SameThread
  <2>3. QED
    BY <1>1, <2>1, <2>2, WokenAwake
<1>2. ASSUME NEW s, NEW q, NEW d, DestroyMoved(s, q, d)
      PROVE  AwakeSound'
  <2>1. /\ UNCHANGED <<thread, adding>>
        /\ q.tasks = graph[s].tasks /\ q.waits = graph[s].waits
        /\ q.enabled = graph[s].enabled /\ q.running = graph[s].running
        /\ q.sched => graph[s].sched
        /\ \A x \in Seqs : graph'[x] = IF x = s THEN q ELSE graph[x]
    BY <1>2 DEF DestroyMoved, DestroyStep
  <2>2. QED
    BY <1>1, <2>1
<1>3. ASSUME NEW d, ClientGone(d)
      PROVE  AwakeSound'
  BY <1>1, <1>3 DEF ClientGone
<1>4. ASSUME NEW d, NEW r, DestroyCalled(d, r)
      PROVE  AwakeSound'
  <2>1. r \in Callbacks /\ CalledBack(r, thread) /\ adding' = adding
    BY <1>4 DEF DestroyCalled
  <2>2. QED
    BY <2>1, CalledAwake DEF GpuTypes
<1>5. ASSUME NEW d, OrderGone(d)
      PROVE  AwakeSound'
  BY <1>1, <1>5 DEF OrderGone
<1>6. ASSUME NEW x, Deleted(x)
      PROVE  AwakeSound'
  <2>1. /\ \A s \in Seqs : s # x => graph'[s] = graph[s]
        /\ graph'[x].tasks = << >> /\ graph'[x].sched = graph[x].sched
        /\ graph'[x].running = graph[x].running /\ adding' = adding
        /\ \A u \in Threads : Woken(thread'[u], thread[u])
    BY <1>6 DEF Deleted
  <2>2. ~ Ready(x)'
    BY <2>1 DEF Ready, IsFrontTaskUnblocked
  <2>3. \A s \in Seqs : Ready(s)' => Ready(s)
    BY <2>1, <2>2, ReadyEqual
  <2>4. QED
    BY <2>1, <2>3, WokenAwake
<1>7. ASSUME DestroyEnded
      PROVE  AwakeSound'
  BY <1>1, <1>7 DEF DestroyEnded
<1>8. QED
  BY <1>2, <1>3, <1>4, <1>5, <1>6, <1>7 DEF DestroyShape

LEMMA AwakeKept ==
    ASSUME GpuSound, GpuTypes', AwakeSound, StepShape
    PROVE  AwakeSound'
<1> USE DEF GpuSound
<1>1. ASSUME UNCHANGED gpuVars
      PROVE  AwakeSound'
  <2>1. \A x \in Seqs : Ready(x)' => Ready(x)
    BY <1>1, ReadyEqual DEF gpuVars
  <2>2. \A u \in Threads : Woken(thread'[u], thread[u])
    BY <1>1 DEF Woken, SameThread, gpuVars
  <2>3. QED
    BY <1>1, <2>1, <2>2, WokenAwake DEF gpuVars
<1>2. ASSUME NEW s \in Seqs, NEW new, Validated(s, new)
      PROVE  AwakeSound'
  <2> DEFINE t == RunnerOf[s]
  <2>1. /\ t \in Threads /\ adding' = adding
        /\ \A x \in Seqs : SameSequence(graph'[x], graph[x])
        /\ \A u \in Threads : thread'[u] = IF u = t THEN new ELSE thread[u]
        /\ new.running = thread[t].running /\ new.posted = thread[t].posted
        /\ new.pc \in {"idle", "force"} /\ thread[t].pc = "idle"
    BY <1>2 DEF Validated
  <2>2. \A x \in Seqs : /\ Ready(x)' => Ready(x)
                        /\ graph'[x].sched => graph[x].sched
                        /\ graph'[x].running = graph[x].running
    BY <2>1, ReadySame DEF SameSequence
  <2> HIDE DEF t
  <2>3. QED
    BY <2>1, <2>2, GoesOn DEF Executing
<1>3. QED
  BY <1>1, <1>2, QueuedAwake, StoredAwake, EnabledAwake, ThreadAwakeKeeps, DestroyAwake
     DEF StepShape

LEMMA InitAwake == GpuInit => AwakeSound
<1> SUFFICES ASSUME GpuInit PROVE AwakeSound
  OBVIOUS
<1>1. /\ \A s \in Seqs : graph[s].tasks = << >> /\ ~ graph[s].running
      /\ \A t \in Threads : ~ thread[t].running /\ ~ thread[t].posted /\ thread[t].pc = "idle"
  BY DEF GpuInit, NewSequence, NewThread
<1>2. QED
  BY <1>1 DEF AwakeSound, Awake, Ready, IsFrontTaskUnblocked, RunningBound, ThreadsRun

\* No wakeup is missed: while the task graph is not locked, a thread that could run a task
\* of one of its enabled sequences has a RunNextTask posted or under way (scheduler.cc
\* TryScheduleSequence is called whenever a task gets unblocked), and a thread that counts
\* as running has one.
THEOREM ThreadsAwake == GpuSpec => []ThreadAwake
<1>1. AwakeSound /\ GpuSound /\ GpuSound' /\ [GpuNext]_gpuVars => AwakeSound'
  BY StepLemma, AwakeKept DEF GpuSound
<1>2. AwakeSound => ThreadAwake
  <2> SUFFICES ASSUME AwakeSound, NEW t \in Threads
               PROVE  /\ GraphUnlocked /\ HasAnyUnblockedTasksOnRunner(graph, t)
                             => thread[t].running
                      /\ thread[t].running <=>
                             thread[t].posted \/ thread[t].pc \notin {"idle", "force"}
    BY DEF ThreadAwake
  <2>1. ASSUME GraphUnlocked, NEW s \in Seqs, RunnerOf[s] = t, graph[s].sched,
               graph[s].enabled, IsFrontTaskUnblocked(graph, s)
        PROVE  thread[t].running
    <3>1. Ready(s)
      BY <2>1 DEF Ready, GraphUnlocked
    <3>2. QED
      BY <2>1, <3>1 DEF AwakeSound, Awake
  <2>2. QED
    BY <2>1 DEF HasAnyUnblockedTasksOnRunner, AwakeSound, ThreadsRun
<1>3. QED
  BY InitAwake, SchedulerSound, <1>1, <1>2, PTL DEF GpuSpec

-----------------------------------------------------------------------------
(***************************************************************************)
(* Tasks start when their waits allow                                      *)
(***************************************************************************)
LEMMA ExcusedKept ==
    ASSUME ExcusesKept, NEW x \in Seqs, NEW count \in Nat, NEW num \in Nat, num <= last_order,
           Excused(x, count, num)
    PROVE  Excused(x, count, num)'
<1>1. CASE client[x].released >= count
  <2>1. \A a, b \in Nat : b >= a /\ a >= count => b >= count
    OBVIOUS
  <2>2. client'[x].released >= count
    BY <1>1, <2>1 DEF ExcusesKept
  <2>3. QED
    BY <2>2 DEF Excused
<1>2. CASE order[x].destroyed
  BY <1>2 DEF ExcusesKept, Excused
<1>3. CASE ~ graph_validation /\ \A i \in 1..Len(order[x].nums) : order[x].nums[i] > num
  <2>1. ~ graph_validation'
    BY <1>3 DEF ExcusesKept
  <2>2. ASSUME NEW i \in 1..Len(order'[x].nums)
        PROVE  order'[x].nums[i] > num
    <3>1. /\ order'[x].nums[i] \in Nat /\ last_order \in Nat
          /\ \/ \E j \in 1..Len(order[x].nums) : order'[x].nums[i] = order[x].nums[j]
             \/ order'[x].nums[i] > last_order
      BY DEF ExcusesKept
    <3>2. CASE order'[x].nums[i] > last_order
      <4>1. \A a, b \in Nat : b >= num /\ a > b => a > num
        OBVIOUS
      <4>2. QED
        BY <3>1, <3>2, <4>1
    <3>3. QED
      BY <1>3, <3>1, <3>2
  <2>3. QED
    BY <2>1, <2>2 DEF Excused
<1>4. QED
  BY <1>1, <1>2, <1>3 DEF Excused

LEMMA NumsType ==
    ASSUME GpuTypes
    PROVE  /\ last_order \in Nat /\ Forever \in Nat
           /\ \A x \in Seqs :
                  /\ client[x].released \in Nat /\ client[x].released <= Forever
                  /\ order[x].nums \in Seq(1..MaxTasks)
                  /\ \A i \in 1..Len(order[x].nums) : order[x].nums[i] \in Nat
                  /\ \A f \in order[x].fences : f \in OrderFences
           /\ \A t \in Threads : \A f \in thread[t].fences : f \in OrderFences
           /\ \A f \in OrderFences : f.client \in Seqs /\ f.id \in Nat /\ f.order \in Nat
<1>1. MaxTasks \in Nat /\ Forever \in Nat
  BY Constants
<1>2. \A x \in Seqs : client[x] \in ClientStates /\ order[x] \in OrderDatas
  BY DEF GpuTypes
<1>3. \A t \in Threads : thread[t] \in ThreadStates
  BY DEF GpuTypes
<1>4. \A x \in Seqs : client[x].released \in 0..Forever
  BY <1>2 DEF ClientStates
<1>5. \A x \in Seqs : /\ order[x].nums \in Seq(1..MaxTasks)
                      /\ \A f \in order[x].fences : f \in OrderFences
  BY <1>2 DEF OrderDatas
<1>6. \A t \in Threads : \A f \in thread[t].fences : f \in OrderFences
  BY <1>3 DEF ThreadStates
<1>7. \A f \in OrderFences : f.client \in Seqs /\ f.id \in Nat /\ f.order \in Nat
  BY <1>1 DEF OrderFences
<1>8. \A x \in Seqs : \A i \in 1..Len(order[x].nums) : order[x].nums[i] \in Nat
  BY <1>1, <1>5, SeqElement
<1>9. last_order \in Nat
  BY <1>1 DEF GpuTypes
<1>10. QED
  BY <1>1, <1>4, <1>5, <1>6, <1>7, <1>8, <1>9

LEMMA NumsTypeNext ==
    ASSUME GpuTypes'
    PROVE  \A x \in Seqs :
               /\ client'[x].released \in Nat /\ client'[x].released <= Forever
               /\ order'[x].nums \in Seq(1..MaxTasks)
               /\ \A i \in 1..Len(order'[x].nums) : order'[x].nums[i] \in Nat
<1>1. MaxTasks \in Nat /\ Forever \in Nat
  BY Constants
<1>2. \A x \in Seqs : client'[x] \in ClientStates /\ order'[x] \in OrderDatas
  BY DEF GpuTypes
<1>3. \A x \in Seqs : client'[x].released \in 0..Forever
  BY <1>2 DEF ClientStates
<1>4. \A x \in Seqs : order'[x].nums \in Seq(1..MaxTasks)
  BY <1>2 DEF OrderDatas
<1>5. \A x \in Seqs : \A i \in 1..Len(order'[x].nums) : order'[x].nums[i] \in Nat
  BY <1>1, <1>4, SeqElement
<1>6. QED
  BY <1>1, <1>3, <1>4, <1>5

LEMMA StayExcused ==
    ASSUME GpuTypes, GpuTypes', FencesSound, WaitsStay
    PROVE  ExcusesKept /\ FencesSound'
<1>1. ExcusesKept
  BY NumsType, NumsTypeNext DEF WaitsStay, ExcusesKept
<1>2. \A x \in Seqs : ~ client'[x].mapped => client'[x].released = Forever
  BY DEF WaitsStay, FencesSound
<1>3. \A x \in Seqs : \A f \in order'[x].fences :
           /\ f.client = x /\ f.id <= last_order'
           /\ \A i \in 1..Len(order'[x].nums) :
                  order'[x].nums[i] > f.order => order'[x].nums[i] > f.id
  BY DEF WaitsStay, FencesSound
<1>4. \A t \in Threads : \A f \in thread'[t].fences :
           /\ ~ graph_validation' /\ f.id <= last_order'
           /\ \A i \in 1..Len(order'[f.client].nums) : order'[f.client].nums[i] > f.id
  <2> SUFFICES ASSUME NEW t \in Threads, NEW f \in thread'[t].fences
               PROVE  /\ ~ graph_validation' /\ f.id <= last_order'
                      /\ \A i \in 1..Len(order'[f.client].nums) : order'[f.client].nums[i] > f.id
    OBVIOUS
  <2>1. f \in thread[t].fences
    BY DEF WaitsStay
  <2>2. f.client \in Seqs
    BY <2>1, NumsType
  <2>3. QED
    BY <2>1, <2>2 DEF WaitsStay, FencesSound
<1>5. QED
  BY <1>1, <1>2, <1>3, <1>4 DEF FencesSound

LEMMA CallbacksExcusedKept ==
    ASSUME GpuTypes, CallbacksSound, CallbacksExcused, ExcusesKept,
           NEW taken, CallbacksFrom(taken)
    PROVE  CallbacksExcused'
<1>1. \A r \in Callbacks : r.client \in Seqs /\ r.count \in Nat /\ r.id \in Nat
  BY Constants DEF Callbacks
<1>2. ASSUME NEW r \in Callbacks, r.id <= last_order, Excused(r.client, r.count, r.id)
      PROVE  Excused(r.client, r.count, r.id)'
  BY <1>1, <1>2, ExcusedKept
<1>3. ASSUME NEW t \in Threads, NEW r \in thread[t].callbacks
      PROVE  Excused(r.client, r.count, r.id)'
  <2>1. r \in Callbacks
    BY CallbackIds
  <2>2. r.id <= last_order
    BY DEF CallbacksSound, CallbacksApart
  <2>3. Excused(r.client, r.count, r.id)
    BY DEF CallbacksExcused
  <2>4. QED
    BY <1>2, <2>1, <2>2, <2>3
<1>4. ASSUME NEW r \in Dropped
      PROVE  Excused(r.client, r.count, r.id)'
  <2>1. r \in Callbacks
    BY CallbackIds
  <2>2. r.id <= last_order
    BY DEF CallbacksSound, CallbacksApart
  <2>3. Excused(r.client, r.count, r.id)
    BY DEF CallbacksExcused
  <2>4. QED
    BY <1>2, <2>1, <2>2, <2>3
<1>5. \A t \in Threads : \A r \in thread'[t].callbacks : Excused(r.client, r.count, r.id)'
  BY <1>3 DEF CallbacksFrom
<1>6. \A r \in Dropped' : Excused(r.client, r.count, r.id)'
  BY <1>4 DEF CallbacksFrom
<1>7. QED
  BY <1>5, <1>6 DEF CallbacksExcused

LEMMA CoveredKept ==
    ASSUME ExcusesKept, WaitsGoOn, NEW s \in Seqs, NEW k \in AllTokens, NEW num \in Nat,
           num <= last_order, graph'[s].tasks # << >>, Covered(s, k, num)
    PROVE  Covered(s, k, num)'
<1>1. k[1] \in Seqs /\ k[2] \in Nat
  BY Constants DEF AllTokens
<1> DEFINE w == [client |-> k[1], count |-> k[2], order |-> num]
<1>2. w.client = k[1] /\ w.count = k[2] /\ w.order = num
  OBVIOUS
<1>3. CASE Excused(k[1], k[2], num)
  <2>1. Excused(k[1], k[2], num)'
    BY <1>1, <1>3, ExcusedKept
  <2>2. QED
    BY <2>1 DEF Covered
<1>4. CASE w \in graph[s].waits
  <2> HIDE DEF w
  <2>1. w \in graph'[s].waits \/ Excused(w.client, w.count, w.order)'
    BY <1>4 DEF WaitsGoOn
  <2>2. w \in graph'[s].waits \/ Excused(k[1], k[2], num)'
    BY <1>2, <2>1
  <2>3. QED
    BY <2>2 DEF Covered, w
<1>5. ASSUME NEW j \in 1..Len(adding), adding[j] = [seq |-> s, order |-> num, token |-> k]
      PROVE  Covered(s, k, num)'
  <2>1. CASE adding' = adding
    BY <1>5, <2>1 DEF Covered
  <2>2. CASE adding' # adding
    <3>1. /\ adding[j].seq = s /\ adding[j].order = num /\ adding[j].token = k
      BY <1>5
    <3>2. [client |-> k[1], count |-> k[2], order |-> num] \in graph'[s].waits
      BY <2>2, <3>1 DEF WaitsGoOn
    <3>3. QED
      BY <3>2 DEF Covered
  <2>3. QED
    BY <2>1, <2>2
<1>6. QED
  BY <1>3, <1>4, <1>5 DEF Covered

LEMMA TasksWaitKept ==
    ASSUME GpuSound, TasksWait, ExcusesKept, WaitsGoOn, TasksFrom
    PROVE  TasksWait'
<1> SUFFICES ASSUME NEW s \in Seqs, NEW i \in 1..Len(graph'[s].tasks),
                    NEW k \in graph'[s].tasks[i].waits
             PROVE  Covered(s, k, graph[s].tasks[i].order)'
  BY DEF TasksWait
<1>1. PICK num : /\ graph'[s].tasks[i].order = num
                 /\ \/ \E j \in 1..Len(graph[s].tasks) : /\ graph[s].tasks[j].order = num
                                                         /\ k \in graph[s].tasks[j].waits
                    \/ Covered(s, k, num)'
  BY DEF TasksFrom
<1>2. ASSUME NEW j \in 1..Len(graph[s].tasks), graph[s].tasks[j].order = num,
             k \in graph[s].tasks[j].waits
      PROVE  Covered(s, k, num)'
  <2>1. graph[s].tasks[j] \in Tasks /\ graph[s].tasks[j].order \in 1..MaxTasks
    BY TaskType DEF GpuSound
  <2>2. k \in AllTokens
    BY <1>2, <2>1 DEF Tasks
  <2>3. num \in Nat /\ num <= last_order
    BY <1>2, <2>1, Constants DEF GpuSound, Numbered, Ascending
  <2>4. Covered(s, k, num)
    BY <1>2 DEF TasksWait
  <2>5. graph'[s].tasks # << >>
    OBVIOUS
  <2>6. QED
    BY <2>2, <2>3, <2>4, <2>5, CoveredKept
<1>3. Covered(s, k, num)'
  BY <1>1, <1>2
<1>4. QED
  BY <1>1, <1>3 DEF Covered, Excused

\* Where the tasks are the same, or fewer.
LEMMA SameTasksFrom ==
    ASSUME \A s \in Seqs : SameTasks(graph'[s].tasks, graph[s].tasks) \/ graph'[s].tasks = << >>
    PROVE  TasksFrom
<1> SUFFICES ASSUME NEW s \in Seqs, NEW i \in 1..Len(graph'[s].tasks),
                    NEW k \in graph'[s].tasks[i].waits
             PROVE  \E j \in 1..Len(graph[s].tasks) :
                        /\ graph[s].tasks[j].order = graph'[s].tasks[i].order
                        /\ k \in graph[s].tasks[j].waits
  BY DEF TasksFrom
<1>1. SameTasks(graph'[s].tasks, graph[s].tasks)
  OBVIOUS
<1>2. QED
  BY <1>1 DEF SameTasks

\* A step that changes neither tasks nor waits, and releases at most.
LEMMA StayWaits ==
    ASSUME GpuSound, GpuTypes', CallbacksSound, WaitsSound, WaitsStay, adding' = adding,
           \A s \in Seqs : /\ SameTasks(graph'[s].tasks, graph[s].tasks)
                           /\ graph'[s].waits = graph[s].waits,
           NEW taken, CallbacksFrom(taken)
    PROVE  WaitsSound'
<1>1. ExcusesKept /\ FencesSound'
  BY StayExcused DEF WaitsSound, GpuSound
<1>2. CallbacksExcused'
  BY <1>1, CallbacksExcusedKept DEF WaitsSound, GpuSound
<1>3. WaitsGoOn
  BY DEF WaitsGoOn
<1>4. TasksWait'
  BY <1>1, <1>3, SameTasksFrom, TasksWaitKept DEF WaitsSound
<1>5. QED
  BY <1>1, <1>2, <1>4 DEF WaitsSound

LEMMA NoneTaken ==
    ASSUME \A t \in Threads : thread'[t].callbacks \subseteq thread[t].callbacks,
           Dropped' \subseteq Dropped
    PROVE  CallbacksFrom({})
BY DEF CallbacksFrom

LEMMA ClientsStay ==
    ASSUME GpuTypes, client' = client,
           graph_validation' = graph_validation, last_order' = last_order,
           \A x \in Seqs : /\ order'[x].nums = order[x].nums
                           /\ order[x].destroyed => order'[x].destroyed
                           /\ order'[x].fences \subseteq order[x].fences,
           \A t \in Threads : thread'[t].fences \subseteq thread[t].fences,
           FencesSound
    PROVE  WaitsStay
<1>1. \A n \in Nat : n >= n
  OBVIOUS
<1>2. QED
  BY <1>1, NumsType DEF WaitsStay, FencesSound

LEMMA MinOfTwo ==
    ASSUME NEW a \in Nat, NEW b \in Nat, a <= b
    PROVE  Min({a, b}) = a
<1>1. Min({a, b}) \in {a, b} /\ \A y \in {a, b} : Min({a, b}) <= y
  BY MinLemma
<1>2. QED
  BY <1>1

LEMMA QueuedFences ==
    ASSUME GpuSound, GpuTypes', FencesSound, NEW s, NEW task, TaskQueued(s, task)
    PROVE  ExcusesKept /\ FencesSound'
<1> DEFINE num == last_order + 1
<1>1. /\ s \in Seqs /\ last_order \in Nat /\ last_order' = num /\ num \in Nat
      /\ order'[s] = GenerateUnprocessedOrderNumber(order[s], num)
      /\ \A x \in Seqs \ {s} : Guarded(order'[x], order[x], x, num)
      /\ \A u \in Threads : thread'[u].fences = thread[u].fences
      /\ client' = client /\ graph_validation' = graph_validation
  BY DEF TaskQueued, Woken, SameThread
<1>2. /\ order[s].nums \in Seq(1..MaxTasks) /\ order'[s].nums = Append(order[s].nums, num)
      /\ order'[s].fences = order[s].fences /\ order'[s].destroyed = order[s].destroyed
  <2>1. order[s] \in OrderDatas
    BY <1>1 DEF GpuSound, GpuTypes
  <2>2. QED
    BY <1>1, <2>1 DEF GenerateUnprocessedOrderNumber, OrderDatas
<1>3. ASSUME NEW i \in 1..Len(order'[s].nums)
      PROVE  order'[s].nums[i] = num
             \/ (i \in 1..Len(order[s].nums) /\ order'[s].nums[i] = order[s].nums[i])
  BY <1>2, SeqAppend
<1>4. \A x \in Seqs \ {s} : /\ order'[x].nums = order[x].nums
                            /\ order'[x].destroyed = order[x].destroyed
  BY <1>1 DEF Guarded
<1>5. \A x \in Seqs : \A i \in 1..Len(order'[x].nums) :
          \/ order'[x].nums[i] = num
          \/ i \in 1..Len(order[x].nums) /\ order'[x].nums[i] = order[x].nums[i]
  BY <1>3, <1>4
<1>6. num > last_order
  BY <1>1
<1> HIDE DEF num
<1>7. ExcusesKept
  <2>1. \A n \in Nat : n >= n
    OBVIOUS
  <2>2. \A x \in Seqs : /\ client[x].released \in Nat /\ client'[x].released \in Nat
                        /\ client'[x].released >= client[x].released
    BY <1>1, <2>1, NumsType DEF GpuSound
  <2>3. \A x \in Seqs : order[x].destroyed => order'[x].destroyed
    BY <1>2, <1>4
  <2>4. \A x \in Seqs : \A i \in 1..Len(order'[x].nums) :
            /\ order'[x].nums[i] \in Nat
            /\ \/ \E j \in 1..Len(order[x].nums) : order'[x].nums[i] = order[x].nums[j]
               \/ order'[x].nums[i] > last_order
    BY <1>5, <1>6, NumsTypeNext
  <2>5. QED
    BY <1>1, <2>2, <2>3, <2>4 DEF ExcusesKept
<1>8. \A n \in Nat : n <= last_order => n <= num /\ num > n
  BY <1>1, <1>6
<1>9. \A x \in Seqs : \A f \in order[x].fences :
          /\ f.client = x /\ f.id <= last_order /\ f.id \in Nat /\ f.order \in Nat
          /\ \A i \in 1..Len(order[x].nums) : order[x].nums[i] > f.order => order[x].nums[i] > f.id
  BY NumsType DEF FencesSound, GpuSound
<1>10. ASSUME NEW x \in Seqs, NEW f \in order[x].fences
       PROVE  /\ f.client = x /\ f.id <= last_order'
              /\ \A i \in 1..Len(order'[x].nums) :
                     order'[x].nums[i] > f.order => order'[x].nums[i] > f.id
  <2>1. /\ f.client = x /\ f.id <= last_order' /\ num > f.id
    BY <1>1, <1>8, <1>9
  <2>2. ASSUME NEW i \in 1..Len(order'[x].nums), order'[x].nums[i] > f.order
        PROVE  order'[x].nums[i] > f.id
    <3>1. \/ order'[x].nums[i] = num
          \/ i \in 1..Len(order[x].nums) /\ order'[x].nums[i] = order[x].nums[i]
      BY <1>5
    <3>2. \A j \in 1..Len(order[x].nums) :
              order[x].nums[j] > f.order => order[x].nums[j] > f.id
      BY <1>9
    <3>3. QED
      BY <2>1, <2>2, <3>1, <3>2
  <2>3. QED
    BY <2>1, <2>2
<1>11. ASSUME NEW x \in Seqs \ {s}, NEW f \in order'[x].fences, f \notin order[x].fences
       PROVE  /\ f.client = x /\ f.id <= last_order'
              /\ \A i \in 1..Len(order'[x].nums) :
                     order'[x].nums[i] > f.order => order'[x].nums[i] > f.id
  <2> DEFINE nums == order[x].nums
  <2>1. /\ nums # << >> /\ f.client = x /\ f.id = num /\ order'[x].nums = nums
        /\ f.order = Min({nums[Len(nums)], num})
    BY <1>1, <1>11 DEF Guarded
  <2>2. nums \in Seq(1..MaxTasks) /\ Len(nums) \in 1..Len(nums) /\ nums[Len(nums)] \in Nat
    <3>1. nums \in Seq(1..MaxTasks)
      BY NumsType DEF GpuSound
    <3>2. Len(nums) \in 1..Len(nums)
      BY <2>1, <3>1
    <3>3. QED
      BY <3>1, <3>2, NumsType DEF GpuSound
  <2>3. /\ \A i, j \in 1..Len(nums) : i < j => nums[i] < nums[j]
        /\ \A i \in 1..Len(nums) : nums[i] <= last_order /\ nums[i] \in Nat
    BY NumsType DEF GpuSound, Numbered, Ascending
  <2> HIDE DEF nums
  <2>4. nums[Len(nums)] <= num
    BY <1>8, <2>2, <2>3
  <2>5. f.order = nums[Len(nums)]
    BY <1>1, <2>1, <2>2, <2>4, MinOfTwo
  <2>6. ASSUME NEW i \in 1..Len(nums)
        PROVE  ~ (nums[i] > f.order)
    <3>1. i < Len(nums) \/ i = Len(nums)
      BY <2>2
    <3>2. nums[i] <= nums[Len(nums)]
      BY <2>2, <2>3, <3>1
    <3>3. QED
      BY <2>2, <2>3, <2>5, <3>2
  <2>7. f.id <= last_order'
    BY <1>1, <2>1
  <2>8. QED
    BY <2>1, <2>6, <2>7
<1>12. \A x \in Seqs : \A f \in order'[x].fences :
           /\ f.client = x /\ f.id <= last_order'
           /\ \A i \in 1..Len(order'[x].nums) :
                  order'[x].nums[i] > f.order => order'[x].nums[i] > f.id
  BY <1>2, <1>10, <1>11
<1>13. \A t \in Threads : \A f \in thread'[t].fences :
           /\ ~ graph_validation' /\ f.id <= last_order'
           /\ \A i \in 1..Len(order'[f.client].nums) : order'[f.client].nums[i] > f.id
  <2> SUFFICES ASSUME NEW t \in Threads, NEW f \in thread'[t].fences
               PROVE  /\ ~ graph_validation' /\ f.id <= last_order'
                      /\ \A i \in 1..Len(order'[f.client].nums) : order'[f.client].nums[i] > f.id
    OBVIOUS
  <2>1. f \in thread[t].fences
    BY <1>1
  <2>2. f.client \in Seqs /\ f.id \in Nat
    BY <2>1, NumsType DEF GpuSound
  <2>3. /\ ~ graph_validation /\ f.id <= last_order
        /\ \A i \in 1..Len(order[f.client].nums) : order[f.client].nums[i] > f.id
    BY <2>1 DEF FencesSound
  <2>4. num > f.id /\ f.id <= last_order'
    BY <1>1, <1>8, <2>2, <2>3
  <2>5. \A i \in 1..Len(order'[f.client].nums) : order'[f.client].nums[i] > f.id
    BY <1>5, <2>2, <2>3, <2>4
  <2>6. QED
    BY <1>1, <2>3, <2>4, <2>5
<1>14. \A x \in Seqs : ~ client'[x].mapped => client'[x].released = Forever
  BY <1>1 DEF FencesSound
<1>15. QED
  BY <1>7, <1>12, <1>13, <1>14 DEF FencesSound

LEMMA QueuedWaits ==
    ASSUME GpuSound, GpuTypes', CallbacksSound, WaitsSound, NEW s, NEW task, TaskQueued(s, task)
    PROVE  WaitsSound'
<1> DEFINE num == task.order
<1>1. /\ s \in Seqs /\ last_order \in Nat /\ last_order' = num /\ num \in Nat
      /\ task \in Tasks /\ num = last_order + 1 /\ adding = << >>
      /\ \A x \in Seqs \ {s} : Guarded(order'[x], order[x], x, num)
      /\ \A k \in task.waits : k[1] # s
      /\ \A u \in Threads : thread'[u].callbacks = thread[u].callbacks
      /\ client' = client /\ graph_validation' = graph_validation /\ destroying' = destroying
      /\ \A x \in Seqs :
             /\ SameTasks(graph'[x].tasks, IF x = s THEN Append(graph[x].tasks, task)
                                           ELSE graph[x].tasks)
             /\ graph'[x].waits = graph[x].waits
  BY DEF TaskQueued, Woken, SameThread
<1>2. ExcusesKept /\ FencesSound'
  BY QueuedFences DEF WaitsSound
<1>3. CallbacksExcused'
  <2>1. CallbacksFrom({})
    BY <1>1, DroppedNext, NoneTaken
  <2>2. QED
    BY <1>2, <2>1, CallbacksExcusedKept DEF WaitsSound, GpuSound
<1>4. WaitsGoOn
  BY <1>1 DEF WaitsGoOn
<1>5. ASSUME NEW k \in task.waits
      PROVE  Covered(s, k, num)'
  <2>1. k \in AllTokens /\ k[1] \in Seqs \ {s} /\ k[2] \in 1..MaxCount
    BY <1>1 DEF Tasks, AllTokens
  <2>2. CASE Waits(num, k)
    <3>1. \E j \in AllTokens : task.waits = {j}
               /\ adding' = <<[seq |-> s, order |-> task.order, token |-> j]>>
      BY <1>1, <1>5, <2>2 DEF TaskQueued
    <3>2. adding' = <<[seq |-> s, order |-> num, token |-> k]>>
      BY <1>1, <1>5, <3>1
    <3>3. 1 \in 1..Len(adding') /\ adding'[1] = [seq |-> s, order |-> num, token |-> k]
      BY <3>2
    <3>4. QED
      BY <3>3 DEF Covered
  <2>3. CASE ~ Waits(num, k)
    <3> DEFINE x == k[1]
    <3>1. /\ order'[x].nums = order[x].nums /\ order'[x].destroyed = order[x].destroyed
          /\ client'[x] = client[x]
      BY <1>1, <2>1 DEF Guarded
    <3>2. CASE ~ client[x].mapped
      <4>1. client[x].released = Forever
        BY <2>1, <3>2 DEF WaitsSound, FencesSound
      <4>2. client'[x].released >= k[2]
        BY <2>1, <3>1, <4>1, Constants
      <4>3. QED
        BY <4>2 DEF Covered, Excused
    <3>3. CASE ~ (k[2] > client[x].released)
      <4>1. client[x].released \in Nat
        BY <2>1, NumsType DEF GpuSound
      <4>2. client'[x].released >= k[2]
        BY <2>1, <3>1, <3>3, <4>1, Constants
      <4>3. QED
        BY <4>2 DEF Covered, Excused
    <3>4. CASE order[x].destroyed
      BY <3>1, <3>4 DEF Covered, Excused
    <3>5. CASE ~ graph_validation /\ (order[x].nums = << >> \/ ~ (num > Head(order[x].nums)))
      <4>1. order[x].nums = << >>
        <5>1. order[x].nums \in Seq(1..MaxTasks)
          BY <2>1, NumsType DEF GpuSound
        <5>2. order[x].nums # << >> => 1 \in 1..Len(order[x].nums)
              /\ Head(order[x].nums) = order[x].nums[1]
          BY <5>1
        <5>3. order[x].nums # << >> => /\ order[x].nums[1] <= last_order
                                       /\ order[x].nums[1] \in Nat
          BY <2>1, <5>2, NumsType DEF GpuSound, Numbered, Ascending
        <5>4. order[x].nums # << >> => num > Head(order[x].nums)
          BY <1>1, <5>2, <5>3
        <5>5. QED
          BY <3>5, <5>4
      <4>2. Len(order'[x].nums) = 0
        BY <3>1, <4>1
      <4>3. \A i \in 1..Len(order'[x].nums) : order'[x].nums[i] > num
        BY <4>2
      <4>4. Excused(x, k[2], num)'
        BY <1>1, <3>5, <4>3 DEF Excused
      <4>5. QED
        BY <4>4 DEF Covered
    <3>6. QED
      BY <2>3, <3>2, <3>3, <3>4, <3>5 DEF Waits, ValidWait
  <2>4. QED
    BY <2>2, <2>3
<1>6. TasksFrom
  <2> SUFFICES ASSUME NEW x \in Seqs, NEW i \in 1..Len(graph'[x].tasks),
                      NEW k \in graph'[x].tasks[i].waits
               PROVE  \E n : /\ graph'[x].tasks[i].order = n
                             /\ \/ \E j \in 1..Len(graph[x].tasks) :
                                      /\ graph[x].tasks[j].order = n
                                      /\ k \in graph[x].tasks[j].waits
                                \/ Covered(x, k, n)'
    BY DEF TasksFrom
  <2>1. CASE x # s
    <3>1. SameTasks(graph'[x].tasks, graph[x].tasks)
      BY <1>1, <2>1
    <3>2. QED
      BY <3>1 DEF SameTasks
  <2>2. CASE x = s
    <3>1. SameTasks(graph'[s].tasks, Append(graph[s].tasks, task))
      BY <1>1, <2>2
    <3>2. graph[s].tasks \in Seq(Tasks)
      BY <1>1 DEF GpuSound, GpuTypes, Sequences
    <3>3. /\ i \in 1..Len(Append(graph[s].tasks, task))
          /\ graph'[s].tasks[i].order = Append(graph[s].tasks, task)[i].order
          /\ k \in Append(graph[s].tasks, task)[i].waits
      BY <2>2, <3>1 DEF SameTasks
    <3>4. \/ Append(graph[s].tasks, task)[i] = task
          \/ i \in 1..Len(graph[s].tasks)
             /\ Append(graph[s].tasks, task)[i] = graph[s].tasks[i]
      BY <3>2, <3>3, SeqAppend
    <3>5. CASE Append(graph[s].tasks, task)[i] = task
      <4>1. Covered(s, k, num)'
        BY <1>5, <3>3, <3>5
      <4>2. graph'[s].tasks[i].order = num
        BY <1>1, <3>3, <3>5
      <4>3. QED
        BY <2>2, <4>1, <4>2
    <3>6. CASE i \in 1..Len(graph[s].tasks)
               /\ Append(graph[s].tasks, task)[i] = graph[s].tasks[i]
      BY <2>2, <3>3, <3>6
    <3>7. QED
      BY <3>4, <3>5, <3>6
  <2>3. QED
    BY <2>1, <2>2
<1>7. QED
  BY <1>2, <1>3, <1>4, <1>6, TasksWaitKept DEF WaitsSound

LEMMA QuietWaits ==
    ASSUME GpuSound, GpuTypes', CallbacksSound, WaitsSound,
           UNCHANGED <<graph_validation, order, client, adding, last_order>>,
           \A s \in Seqs : /\ SameTasks(graph'[s].tasks, graph[s].tasks)
                           /\ graph'[s].waits = graph[s].waits,
           \A t \in Threads : /\ thread'[t].callbacks \subseteq thread[t].callbacks
                              /\ thread'[t].fences \subseteq thread[t].fences,
           Dropped' \subseteq Dropped
    PROVE  WaitsSound'
<1>1. WaitsStay
  BY ClientsStay DEF WaitsSound, GpuSound
<1>2. CallbacksFrom({})
  BY NoneTaken
<1>3. QED
  BY <1>1, <1>2, StayWaits

LEMMA StoredWaits ==
    ASSUME GpuSound, GpuTypes', CallbacksSound, WaitsSound, NEW a, WaitStored(a)
    PROVE  WaitsSound'
<1> DEFINE r == [client |-> a.token[1], count |-> a.token[2], seq |-> a.seq, id |-> a.order]
<1>1. /\ a.seq \in Seqs /\ Len(adding) = 1 /\ adding[1] = a /\ adding' = << >>
      /\ \A y \in Seqs : /\ client'[y].mapped = client[y].mapped
                         /\ client'[y].released = client[y].released
      /\ \A s \in Seqs :
             /\ SameTasks(graph'[s].tasks, graph[s].tasks)
             /\ graph'[s].waits = IF s = a.seq THEN graph[s].waits \cup {FenceOf(r)}
                                  ELSE graph[s].waits
      /\ \A u \in Threads : /\ thread'[u].callbacks = thread[u].callbacks
                            /\ thread'[u].fences = thread[u].fences
      /\ UNCHANGED <<graph_validation, order, destroying, last_order>>
  BY DEF WaitStored, Woken, SameThread
<1>2. FenceOf(r) = [client |-> a.token[1], count |-> a.token[2], order |-> a.order]
  BY DEF FenceOf
<1> HIDE DEF r
<1>3. WaitsStay
  <2>1. \A n \in Nat : n >= n
    OBVIOUS
  <2>2. QED
    BY <1>1, <2>1, NumsType DEF WaitsStay, WaitsSound, FencesSound, GpuSound
<1>4. ExcusesKept /\ FencesSound'
  BY <1>3, StayExcused DEF WaitsSound, GpuSound
<1>5. CallbacksExcused'
  <2>1. CallbacksFrom({})
    BY <1>1, DroppedNext, NoneTaken
  <2>2. QED
    BY <1>4, <2>1, CallbacksExcusedKept DEF WaitsSound, GpuSound
<1>6. WaitsGoOn
  <2>1. \A s \in Seqs : \A w \in graph[s].waits : w \in graph'[s].waits
    BY <1>1
  <2>2. \A j \in 1..Len(adding) : adding[j] = a
    BY <1>1
  <2>3. [client |-> a.token[1], count |-> a.token[2], order |-> a.order] \in graph'[a.seq].waits
    BY <1>1, <1>2
  <2>4. QED
    BY <2>1, <2>2, <2>3 DEF WaitsGoOn
<1>7. TasksWait'
  BY <1>1, <1>4, <1>6, SameTasksFrom, TasksWaitKept DEF WaitsSound
<1>8. QED
  BY <1>4, <1>5, <1>7 DEF WaitsSound

\* The wait of a callback that is run ends, and its task is excused.
LEMMA CalledWaits ==
    ASSUME GpuSound, GpuTypes', CallbacksSound, WaitsSound, NEW r \in Callbacks, NEW th,
           CalledBack(r, th), Excused(r.client, r.count, r.id), r.id <= last_order,
           \A t \in Threads : /\ th[t].callbacks \subseteq thread[t].callbacks
                              /\ th[t].fences = thread[t].fences,
           Dropped' \subseteq Dropped,
           UNCHANGED <<graph_validation, order, client, adding, last_order>>
    PROVE  WaitsSound'
<1>1. \A t \in Threads : /\ thread'[t].callbacks \subseteq thread[t].callbacks
                         /\ thread'[t].fences \subseteq thread[t].fences
  BY DEF CalledBack, Woken, SameThread
<1>2. \A s \in Seqs :
          /\ graph'[s].tasks = graph[s].tasks
          /\ graph[s].waits \ graph'[s].waits \subseteq {w \in {FenceOf(r)} : s = r.seq}
  BY DEF CalledBack
<1>3. WaitsStay
  BY <1>1, ClientsStay DEF WaitsSound, GpuSound
<1>4. ExcusesKept /\ FencesSound'
  BY <1>3, StayExcused DEF WaitsSound, GpuSound
<1>5. CallbacksExcused'
  <2>1. CallbacksFrom({})
    BY <1>1, NoneTaken
  <2>2. QED
    BY <1>4, <2>1, CallbacksExcusedKept DEF WaitsSound, GpuSound
<1>6. Excused(r.client, r.count, r.id)'
  <2>1. r.client \in Seqs /\ r.count \in Nat /\ r.id \in Nat
    BY Constants DEF Callbacks
  <2>2. QED
    BY <1>4, <2>1, ExcusedKept
<1>7. WaitsGoOn
  <2>1. FenceOf(r).client = r.client /\ FenceOf(r).count = r.count /\ FenceOf(r).order = r.id
    BY DEF FenceOf
  <2>2. \A s \in Seqs : \A w \in graph[s].waits : w \in graph'[s].waits \/ w = FenceOf(r)
    BY <1>2
  <2>3. \A w : w = FenceOf(r) => Excused(w.client, w.count, w.order)'
    BY <1>6, <2>1
  <2>4. QED
    BY <2>2, <2>3 DEF WaitsGoOn
<1>8. TasksWait'
  <2>1. \A s \in Seqs : SameTasks(graph'[s].tasks, graph[s].tasks)
    BY <1>2, SameTasksRefl
  <2>2. QED
    BY <1>4, <1>7, <2>1, SameTasksFrom, TasksWaitKept DEF WaitsSound
<1>9. QED
  BY <1>4, <1>5, <1>8 DEF WaitsSound

\* Where only tasks change.
LEMMA MovedWaits ==
    ASSUME GpuSound, GpuTypes', CallbacksSound, WaitsSound,
           UNCHANGED <<graph_validation, client, adding, last_order>>,
           \A x \in Seqs : /\ order'[x].nums = order[x].nums
                           /\ order'[x].destroyed = order[x].destroyed
                           /\ order'[x].fences = order[x].fences,
           \A s \in Seqs : graph'[s].waits = graph[s].waits \/ graph'[s].tasks = << >>,
           \A t \in Threads : /\ thread'[t].callbacks \subseteq thread[t].callbacks
                              /\ thread'[t].fences \subseteq thread[t].fences,
           Dropped' \subseteq Dropped, TasksFrom
    PROVE  WaitsSound'
<1>1. WaitsStay
  BY ClientsStay DEF WaitsSound, GpuSound
<1>2. ExcusesKept /\ FencesSound'
  BY <1>1, StayExcused DEF WaitsSound, GpuSound
<1>3. CallbacksExcused'
  <2>1. CallbacksFrom({})
    BY NoneTaken
  <2>2. QED
    BY <1>2, <2>1, CallbacksExcusedKept DEF WaitsSound, GpuSound
<1>4. WaitsGoOn
  BY DEF WaitsGoOn
<1>5. TasksWait'
  BY <1>2, <1>4, TasksWaitKept DEF WaitsSound
<1>6. QED
  BY <1>2, <1>3, <1>5 DEF WaitsSound

LEMMA StartedWaits ==
    ASSUME GpuSound, GpuTypes', CallbacksSound, WaitsSound, NEW t, NEW s, TaskStarted(t, s)
    PROVE  WaitsSound'
<1>1. /\ s \in Seqs /\ graph[s].tasks # << >> /\ graph'[s].tasks = Tail(graph[s].tasks)
      /\ \A x \in Seqs \ {s} : graph'[x] = graph[x] /\ order'[x] = order[x]
      /\ UNCHANGED <<graph_validation, client, adding, destroying, last_order>>
  BY DEF TaskStarted
<1>2. \A x \in Seqs : /\ order'[x].nums = order[x].nums
                      /\ order'[x].destroyed = order[x].destroyed
                      /\ order'[x].fences = order[x].fences
                      /\ graph'[x].waits = graph[x].waits
  BY <1>1 DEF TaskStarted
<1>3. \A u \in Threads : /\ thread'[u].callbacks \subseteq thread[u].callbacks
                         /\ thread'[u].fences \subseteq thread[u].fences
  BY DEF TaskStarted
<1>4. Dropped' \subseteq Dropped
  BY <1>1, DroppedNext
<1>5. TasksFrom
  <2> SUFFICES ASSUME NEW x \in Seqs, NEW i \in 1..Len(graph'[x].tasks),
                      NEW k \in graph'[x].tasks[i].waits
               PROVE  \E j \in 1..Len(graph[x].tasks) :
                          /\ graph[x].tasks[j].order = graph'[x].tasks[i].order
                          /\ k \in graph[x].tasks[j].waits
    BY DEF TasksFrom
  <2>1. CASE x = s
    <3>1. graph[s].tasks \in Seq(Tasks)
      BY <1>1 DEF GpuSound, GpuTypes, Sequences
    <3>2. \A n \in 1..Len(Tail(graph[s].tasks)) :
              n + 1 \in 1..Len(graph[s].tasks) /\ Tail(graph[s].tasks)[n] = graph[s].tasks[n + 1]
      BY <1>1, <3>1, SeqTail
    <3>3. i + 1 \in 1..Len(graph[s].tasks) /\ graph'[s].tasks[i] = graph[s].tasks[i + 1]
      BY <1>1, <2>1, <3>2
    <3>4. QED
      BY <2>1, <3>3
  <2>2. CASE x # s
    BY <1>1, <2>2
  <2>3. QED
    BY <2>1, <2>2
<1>6. QED
  BY <1>1, <1>2, <1>3, <1>4, <1>5, MovedWaits

LEMMA ContinuedWaits ==
    ASSUME GpuSound, GpuTypes', CallbacksSound, WaitsSound, NEW t, NEW s, NEW task,
           TaskContinued(t, s, task)
    PROVE  WaitsSound'
<1>1. /\ s \in Seqs /\ task \in Tasks /\ task.waits = {}
      /\ graph'[s].tasks = <<task>> \o graph[s].tasks
      /\ \A x \in Seqs \ {s} : graph'[x] = graph[x] /\ order'[x] = order[x]
      /\ UNCHANGED <<graph_validation, client, thread, adding, destroying, last_order>>
  BY DEF TaskContinued
<1>2. \A x \in Seqs : /\ order'[x].nums = order[x].nums
                      /\ order'[x].destroyed = order[x].destroyed
                      /\ order'[x].fences = order[x].fences
                      /\ graph'[x].waits = graph[x].waits
  BY <1>1 DEF TaskContinued
<1>3. Dropped' \subseteq Dropped
  BY <1>1, DroppedNext
<1>4. TasksFrom
  <2> SUFFICES ASSUME NEW x \in Seqs, NEW i \in 1..Len(graph'[x].tasks),
                      NEW k \in graph'[x].tasks[i].waits
               PROVE  \E j \in 1..Len(graph[x].tasks) :
                          /\ graph[x].tasks[j].order = graph'[x].tasks[i].order
                          /\ k \in graph[x].tasks[j].waits
    BY DEF TasksFrom
  <2>1. CASE x = s
    <3>1. graph[s].tasks \in Seq(Tasks)
      BY <1>1 DEF GpuSound, GpuTypes, Sequences
    <3>2. /\ Len(graph[s].tasks) \in Nat /\ Len(graph'[s].tasks) = Len(graph[s].tasks) + 1
          /\ graph'[s].tasks[1] = task
          /\ \A n \in 2..(Len(graph[s].tasks) + 1) :
                 /\ n - 1 \in 1..Len(graph[s].tasks)
                 /\ graph'[s].tasks[n] = graph[s].tasks[n - 1]
      BY <1>1, <3>1, SeqCons
    <3>3. i # 1
      BY <1>1, <2>1, <3>2
    <3>4. i \in 2..(Len(graph[s].tasks) + 1)
      BY <2>1, <3>2, <3>3
    <3>5. i - 1 \in 1..Len(graph[s].tasks) /\ graph'[s].tasks[i] = graph[s].tasks[i - 1]
      BY <3>2, <3>4
    <3>6. QED
      BY <2>1, <3>5
  <2>2. CASE x # s
    BY <1>1, <2>2
  <2>3. QED
    BY <2>1, <2>2
<1>5. QED
  BY <1>1, <1>2, <1>3, <1>4, MovedWaits

\* The first unprocessed order number of s is gone, and with it the guards that no
\* number left can end.
LEMMA DoneWaits ==
    ASSUME GpuSound, GpuTypes', CallbacksSound, WaitsSound, NEW t, NEW s, NEW overdue,
           NumberDone(t, s, overdue)
    PROVE  WaitsSound'
<1> DEFINE nums == order[s].nums
<1>1. /\ t \in Threads /\ s \in Seqs /\ nums # << >> /\ order'[s].nums = Tail(nums)
      /\ overdue \subseteq order[s].fences
      /\ overdue = IF graph_validation THEN {}
                   ELSE {f \in order[s].fences :
                            order'[s].nums = << >> \/ f.order < Head(order'[s].nums)}
      /\ \A x \in Seqs \ {s} : order'[x] = order[x]
      /\ order'[s].fences = order[s].fences \ overdue
      /\ order'[s].destroyed = order[s].destroyed
      /\ \A u \in Threads \ {t} : thread'[u] = thread[u]
      /\ thread'[t].fences = overdue /\ thread'[t].callbacks = {}
      /\ UNCHANGED <<graph_validation, client, graph, adding, destroying, last_order>>
  BY DEF NumberDone
<1>2. /\ nums \in Seq(1..MaxTasks) /\ Tail(nums) \in Seq(1..MaxTasks)
      /\ \A i \in 1..Len(Tail(nums)) : i + 1 \in 1..Len(nums) /\ Tail(nums)[i] = nums[i + 1]
  <2>1. nums \in Seq(1..MaxTasks)
    BY <1>1, NumsType DEF GpuSound
  <2>2. nums # << >>
    BY <1>1
  <2> HIDE DEF nums
  <2>3. QED
    BY <2>1, <2>2, SeqTail
<1>3. \A x \in Seqs : \A i \in 1..Len(order'[x].nums) :
          \E j \in 1..Len(order[x].nums) : order'[x].nums[i] = order[x].nums[j]
  <2>1. ASSUME NEW i \in 1..Len(order'[s].nums)
        PROVE  \E j \in 1..Len(order[s].nums) : order'[s].nums[i] = order[s].nums[j]
    <3>1. i \in 1..Len(Tail(nums)) /\ order'[s].nums[i] = Tail(nums)[i]
      BY <1>1
    <3>2. QED
      BY <1>2, <3>1
  <2>2. \A x \in Seqs \ {s} : order'[x] = order[x]
    BY <1>1
  <2>3. ASSUME NEW x \in Seqs \ {s}, NEW i \in 1..Len(order'[x].nums)
        PROVE  \E j \in 1..Len(order[x].nums) : order'[x].nums[i] = order[x].nums[j]
    <3>1. i \in 1..Len(order[x].nums) /\ order'[x].nums[i] = order[x].nums[i]
      BY <2>2
    <3>2. QED
      BY <3>1
  <2>4. QED
    BY <2>1, <2>3
<1>4. ExcusesKept
  <2>1. \A n \in Nat : n >= n
    OBVIOUS
  <2>2. \A x \in Seqs : order[x].destroyed => order'[x].destroyed
    BY <1>1
  <2>3. \A x \in Seqs : /\ client[x].released \in Nat /\ client'[x].released \in Nat
                        /\ client'[x].released >= client[x].released
    BY <1>1, <2>1, NumsType DEF GpuSound
  <2>4. \A x \in Seqs : \A i \in 1..Len(order'[x].nums) : order'[x].nums[i] \in Nat
    BY NumsTypeNext
  <2>5. graph_validation' = graph_validation /\ last_order \in Nat
    BY <1>1, NumsType DEF GpuSound
  <2>6. QED
    BY <1>3, <2>2, <2>3, <2>4, <2>5 DEF ExcusesKept
<1>5. \A x \in Seqs : ~ client'[x].mapped => client'[x].released = Forever
  BY <1>1 DEF WaitsSound, FencesSound
<1>6. \A x \in Seqs : \A f \in order[x].fences :
          /\ f.client = x /\ f.id <= last_order'
          /\ \A i \in 1..Len(order'[x].nums) :
                 order'[x].nums[i] > f.order => order'[x].nums[i] > f.id
  <2> SUFFICES ASSUME NEW x \in Seqs, NEW f \in order[x].fences
               PROVE  /\ f.client = x /\ f.id <= last_order'
                      /\ \A i \in 1..Len(order'[x].nums) :
                             order'[x].nums[i] > f.order => order'[x].nums[i] > f.id
    OBVIOUS
  <2>1. /\ f.client = x /\ f.id <= last_order
        /\ \A i \in 1..Len(order[x].nums) : order[x].nums[i] > f.order => order[x].nums[i] > f.id
    BY DEF WaitsSound, FencesSound
  <2>2. ASSUME NEW i \in 1..Len(order'[x].nums), order'[x].nums[i] > f.order
        PROVE  order'[x].nums[i] > f.id
    <3>1. PICK j \in 1..Len(order[x].nums) : order'[x].nums[i] = order[x].nums[j]
      BY <1>3
    <3>2. QED
      BY <2>1, <2>2, <3>1
  <2>3. QED
    BY <1>1, <2>1, <2>2
<1>7. \A x \in Seqs : order'[x].fences \subseteq order[x].fences
  BY <1>1
<1>8. ASSUME NEW f \in overdue
      PROVE  /\ ~ graph_validation' /\ f.id <= last_order'
             /\ \A i \in 1..Len(order'[f.client].nums) : order'[f.client].nums[i] > f.id
  <2>1. ~ graph_validation /\ f \in order[s].fences
        /\ (order'[s].nums = << >> \/ f.order < Head(order'[s].nums))
    BY <1>1, <1>8
  <2>2. /\ f.client = s /\ f.id <= last_order'
        /\ \A i \in 1..Len(order'[s].nums) :
               order'[s].nums[i] > f.order => order'[s].nums[i] > f.id
    BY <1>1, <1>6, <2>1
  <2>3. ASSUME NEW i \in 1..Len(order'[s].nums)
        PROVE  order'[s].nums[i] > f.order
    <3>1. order'[s].nums # << >> /\ Len(Tail(nums)) \in Nat /\ Len(nums) \in Nat
          /\ i \in 1..Len(Tail(nums))
      <4>1. order'[s].nums = Tail(nums)
        BY <1>1
      <4>2. Len(Tail(nums)) \in Nat /\ Len(nums) \in Nat
        <5>1. Tail(nums) \in Seq(1..MaxTasks) /\ nums \in Seq(1..MaxTasks)
          BY <1>2
        <5>2. \A q \in Seq(1..MaxTasks) : Len(q) \in Nat
          OBVIOUS
        <5> HIDE DEF nums
        <5>3. QED
          BY <5>1, <5>2
      <4>3. Tail(nums) # << >>
        <5>1. SUFFICES ASSUME Tail(nums) = << >> PROVE FALSE
          OBVIOUS
        <5> HIDE DEF nums
        <5>2. order'[s].nums = << >> /\ Len(<< >>) = 0
          BY <4>1, <5>1
        <5>3. 1..0 = {}
          OBVIOUS
        <5>4. i \in 1..0
          BY <5>2
        <5>5. QED
          BY <5>3, <5>4
      <4>4. QED
        BY <2>3, <4>1, <4>2, <4>3
    <3>2. f.order < Head(order'[s].nums)
      BY <2>1, <3>1
    <3>3. 1 \in 1..Len(Tail(nums)) /\ Head(order'[s].nums) = order'[s].nums[1]
      BY <1>1, <1>2, <3>1
    <3>4. order'[s].nums[1] = nums[2] /\ 2 \in 1..Len(nums)
      <4>1. 1 + 1 = 2
        OBVIOUS
      <4>2. QED
        BY <1>1, <1>2, <3>3, <4>1
    <3>5. order'[s].nums[i] = nums[i + 1] /\ i + 1 \in 1..Len(nums)
      BY <1>1, <1>2, <3>1
    <3>6. i = 1 \/ 2 < i + 1
      OBVIOUS
    <3>7. i = 1 \/ nums[2] < nums[i + 1]
      BY <1>1, <3>4, <3>5, <3>6 DEF GpuSound, Numbered, Ascending
    <3>8. order'[s].nums[1] \in Nat /\ order'[s].nums[i] \in Nat /\ f.order \in Nat
      <4>1. \A n \in 1..Len(nums) : nums[n] \in Nat
        BY <1>1, NumsType DEF GpuSound
      <4>2. f.order \in Nat
        BY <1>1, <2>1, NumsType DEF GpuSound
      <4>3. QED
        BY <3>4, <3>5, <4>1, <4>2
    <3>9. order'[s].nums[1] <= order'[s].nums[i]
      BY <3>4, <3>5, <3>7, <3>8
    <3>10. \A a, b, c \in Nat : a < b /\ b <= c => c > a
      OBVIOUS
    <3>11. QED
      BY <3>2, <3>3, <3>8, <3>9, <3>10
  <2>4. QED
    <3>1. \A i \in 1..Len(order'[s].nums) : order'[s].nums[i] > f.id
      BY <2>2, <2>3
    <3>2. ~ graph_validation' /\ f.id <= last_order' /\ f.client = s
      BY <1>1, <2>1, <2>2
    <3>3. QED
      BY <3>1, <3>2
<1>9. \A u \in Threads : \A f \in thread'[u].fences :
          /\ ~ graph_validation' /\ f.id <= last_order'
          /\ \A i \in 1..Len(order'[f.client].nums) : order'[f.client].nums[i] > f.id
  <2> SUFFICES ASSUME NEW u \in Threads, NEW f \in thread'[u].fences
               PROVE  /\ ~ graph_validation' /\ f.id <= last_order'
                      /\ \A i \in 1..Len(order'[f.client].nums) : order'[f.client].nums[i] > f.id
    OBVIOUS
  <2>1. CASE u = t
    BY <1>1, <1>8, <2>1
  <2>2. CASE u # t
    <3>1. f \in thread[u].fences
      BY <1>1, <2>2
    <3>2. /\ ~ graph_validation /\ f.id <= last_order
          /\ \A i \in 1..Len(order[f.client].nums) : order[f.client].nums[i] > f.id
      BY <3>1 DEF WaitsSound, FencesSound
    <3>3. f.client \in Seqs
      BY <3>1, NumsType DEF GpuSound
    <3>4. ASSUME NEW i \in 1..Len(order'[f.client].nums)
          PROVE  order'[f.client].nums[i] > f.id
      <4>1. PICK j \in 1..Len(order[f.client].nums) :
                order'[f.client].nums[i] = order[f.client].nums[j]
        BY <1>3, <3>3
      <4>2. QED
        BY <3>2, <4>1
    <3>5. QED
      BY <1>1, <3>2, <3>4
  <2>3. QED
    BY <2>1, <2>2
<1>10. FencesSound'
  <2>1. \A x \in Seqs : \A f \in order'[x].fences :
            /\ f.client = x /\ f.id <= last_order'
            /\ \A i \in 1..Len(order'[x].nums) :
                   order'[x].nums[i] > f.order => order'[x].nums[i] > f.id
    BY <1>6, <1>7
  <2>2. QED
    BY <1>5, <1>9, <2>1 DEF FencesSound
<1>11. CallbacksExcused'
  <2>1. \A u \in Threads : thread'[u].callbacks \subseteq thread[u].callbacks
    BY <1>1
  <2>2. CallbacksFrom({})
    BY <1>1, <2>1, DroppedNext, NoneTaken
  <2>3. QED
    BY <1>4, <2>2, CallbacksExcusedKept DEF WaitsSound, GpuSound
<1>12. TasksWait'
  <2>1. WaitsGoOn
    BY <1>1 DEF WaitsGoOn
  <2>2. \A x \in Seqs : SameTasks(graph'[x].tasks, graph[x].tasks)
    BY <1>1, SameTasksRefl
  <2>3. QED
    BY <1>4, <2>1, <2>2, SameTasksFrom, TasksWaitKept DEF WaitsSound
<1>13. QED
  BY <1>10, <1>11, <1>12 DEF WaitsSound

LEMMA ReleasedWaits ==
    ASSUME GpuSound, GpuTypes', CallbacksSound, WaitsSound, NEW t \in Threads,
           NEW me, NEW s, NEW count, NEW cause, NEW taken,
           ReleaseStep(t, me, s, count, cause, taken)
    PROVE  WaitsSound'
<1>1. /\ s \in Seqs /\ me \in ThreadStates /\ me.fences = thread[t].fences /\ count \in Nat
      /\ taken \subseteq client[s].callbacks
      /\ \A x \in Seqs : /\ client'[x].mapped = client[x].mapped
                         /\ client'[x].released >= client[x].released
                         /\ x # s => client'[x] = client[x]
      /\ ~ client[s].mapped => client' = client
      /\ \A r \in taken : r.count <= client'[s].released
      /\ thread' = [thread EXCEPT ![t] = [me EXCEPT !.callbacks = taken]]
      /\ UNCHANGED <<graph_validation, order, graph, adding, destroying, last_order>>
  BY DEF ReleaseStep, Released
<1>2. /\ [me EXCEPT !.callbacks = taken].callbacks = taken
      /\ [me EXCEPT !.callbacks = taken].fences = thread[t].fences
  BY <1>1 DEF ThreadStates
<1>3. /\ thread'[t].callbacks = taken /\ thread'[t].fences = thread[t].fences
      /\ \A u \in Threads \ {t} : thread'[u] = thread[u]
  BY <1>1, <1>2 DEF GpuSound, GpuTypes
<1>4. WaitsStay
  <2>1. \A x \in Seqs : ~ client'[x].mapped =>
            ~ client[x].mapped /\ client'[x].released = client[x].released
    BY <1>1
  <2>2. \A u \in Threads : thread'[u].fences \subseteq thread[u].fences
    BY <1>3
  <2>3. QED
    BY <1>1, <2>1, <2>2 DEF WaitsStay
<1>5. CallbacksFrom(taken)
  <2>1. ASSUME NEW r \in taken
        PROVE  Excused(r.client, r.count, r.id)'
    <3>1. r \in client[s].callbacks /\ r.client = s /\ r \in Callbacks
      BY <1>1, CallbackIds DEF CallbacksSound, CallbacksApart, GpuSound
    <3>2. r.count \in Nat /\ client'[s].released \in Nat
      BY <1>1, <3>1, NumsTypeNext, Constants DEF Callbacks
    <3>3. \A a, b \in Nat : a <= b => b >= a
      OBVIOUS
    <3>4. client'[r.client].released >= r.count
      BY <1>1, <3>1, <3>2, <3>3
    <3>5. QED
      BY <3>4 DEF Excused
  <2>2. Dropped' \subseteq Dropped \cup taken
    BY <1>1, DroppedNext
  <2>3. \A u \in Threads : thread'[u].callbacks \subseteq thread[u].callbacks \cup taken
    BY <1>3
  <2>4. QED
    BY <2>1, <2>2, <2>3 DEF CallbacksFrom
<1>6. \A x \in Seqs : SameTasks(graph'[x].tasks, graph[x].tasks) /\ graph'[x].waits = graph[x].waits
  BY <1>1, SameTasksRefl
<1>7. adding' = adding
  BY <1>1
<1>8. QED
  BY <1>4, <1>5, <1>6, <1>7, StayWaits

\* A guard is used when no order number is left that is not above its task's.
LEMMA EndedWaits ==
    ASSUME GpuSound, GpuTypes', CallbacksSound, WaitsSound, NEW t \in Threads,
           NEW new, NEW f, NEW ended, WaitEnded(t, new, f, ended)
    PROVE  WaitsSound'
<1>1. /\ f \in thread[t].fences /\ f \in OrderFences
      /\ new.callbacks = ended /\ new.fences \subseteq thread[t].fences
      /\ ended \subseteq client[f.client].callbacks /\ \A r \in ended : r.id = f.id
      /\ \A x \in Seqs : /\ client'[x].mapped = client[x].mapped
                         /\ client'[x].released = client[x].released
      /\ thread' = [thread EXCEPT ![t] = new]
      /\ UNCHANGED <<graph_validation, order, graph, adding, destroying, last_order>>
  BY DEF WaitEnded, ThreadStep
<1>2. /\ thread'[t] = new /\ \A u \in Threads \ {t} : thread'[u] = thread[u]
  BY <1>1 DEF GpuSound, GpuTypes
<1>3. WaitsStay
  <2>1. \A n \in Nat : n >= n
    OBVIOUS
  <2>2. \A x \in Seqs : client'[x].released >= client[x].released
    BY <1>1, <2>1, NumsType DEF GpuSound
  <2>3. \A u \in Threads : thread'[u].fences \subseteq thread[u].fences
    BY <1>1, <1>2
  <2>4. QED
    BY <1>1, <2>2, <2>3 DEF WaitsStay
<1>4. CallbacksFrom(ended)
  <2>1. f.client \in Seqs
    BY <1>1 DEF OrderFences
  <2>2. /\ ~ graph_validation
        /\ \A i \in 1..Len(order[f.client].nums) : order[f.client].nums[i] > f.id
    BY <1>1 DEF WaitsSound, FencesSound
  <2>3. ASSUME NEW r \in ended
        PROVE  Excused(r.client, r.count, r.id)'
    <3>1. r.client = f.client /\ r.id = f.id
      BY <1>1, <2>1 DEF CallbacksSound, CallbacksApart
    <3>2. QED
      BY <1>1, <2>2, <3>1 DEF Excused
  <2>4. Dropped' \subseteq Dropped \cup ended
    BY <1>1, DroppedNext
  <2>5. \A u \in Threads : thread'[u].callbacks \subseteq thread[u].callbacks \cup ended
    BY <1>1, <1>2
  <2>6. QED
    BY <2>3, <2>4, <2>5 DEF CallbacksFrom
<1>5. \A x \in Seqs : SameTasks(graph'[x].tasks, graph[x].tasks) /\ graph'[x].waits = graph[x].waits
  BY <1>1, SameTasksRefl
<1>6. adding' = adding
  BY <1>1
<1>7. QED
  BY <1>3, <1>4, <1>5, <1>6, StayWaits

LEMMA GoneWaits ==
    ASSUME GpuSound, GpuTypes', CallbacksSound, WaitsSound, NEW d, ClientGone(d)
    PROVE  WaitsSound'
<1> DEFINE s == d.seq
<1>1. /\ d \in Destructions /\ s \in Seqs /\ destroying' = <<d>>
      /\ d.callbacks = client[s].callbacks
      /\ \A x \in Seqs : x # s => client'[x] = client[x]
      /\ ~ client'[s].mapped /\ client'[s].released = Forever
      /\ UNCHANGED <<graph_validation, order, graph, thread, adding, last_order>>
  BY DEF ClientGone
<1>2. WaitsStay
  <2>1. \A m, n \in Nat : n >= n /\ (m <= n => n >= m)
    OBVIOUS
  <2>2. \A x \in Seqs : client'[x].released >= client[x].released
    BY <1>1, <2>1, NumsType DEF GpuSound
  <2>3. \A x \in Seqs : ~ client'[x].mapped =>
            \/ client'[x].released = Forever
            \/ ~ client[x].mapped /\ client'[x].released = client[x].released
    BY <1>1
  <2>4. QED
    BY <1>1, <2>2, <2>3 DEF WaitsStay
<1>3. CallbacksFrom(d.callbacks)
  <2>1. ASSUME NEW r \in d.callbacks
        PROVE  Excused(r.client, r.count, r.id)'
    <3>1. r \in client[s].callbacks /\ r.client = s /\ r \in Callbacks
      BY <1>1, CallbackIds DEF CallbacksSound, CallbacksApart, GpuSound
    <3>2. r.count \in 1..MaxCount
      BY <3>1 DEF Callbacks
    <3>3. Forever >= r.count
      BY <3>2, Constants
    <3>4. QED
      BY <1>1, <3>1, <3>3 DEF Excused
  <2>2. Dropped' = d.callbacks
    BY <1>1, DroppedNext
  <2>3. QED
    BY <1>1, <2>1, <2>2 DEF CallbacksFrom
<1>4. \A x \in Seqs : SameTasks(graph'[x].tasks, graph[x].tasks) /\ graph'[x].waits = graph[x].waits
  BY <1>1, SameTasksRefl
<1>5. adding' = adding
  BY <1>1
<1>6. QED
  BY <1>2, <1>3, <1>4, <1>5, StayWaits

LEMMA ThreadWaits ==
    ASSUME GpuSound, GpuTypes', CallbacksSound, WaitsSound, NEW t \in Threads, ThreadShape(t)
    PROVE  WaitsSound'
<1>1. thread[t] \in ThreadStates
  BY DEF GpuSound, GpuTypes
<1>2. ASSUME NEW new, ThreadStep(t, new), client' = client,
             new.callbacks \subseteq thread[t].callbacks, new.fences \subseteq thread[t].fences
      PROVE  WaitsSound'
  <2>1. /\ thread' = [thread EXCEPT ![t] = new]
        /\ UNCHANGED <<graph_validation, order, graph, client, adding, destroying, last_order>>
    BY <1>2 DEF ThreadStep
  <2>2. \A u \in Threads : /\ thread'[u].callbacks \subseteq thread[u].callbacks
                           /\ thread'[u].fences \subseteq thread[u].fences
    BY <1>2, <2>1 DEF GpuSound, GpuTypes
  <2>3. \A s \in Seqs : /\ SameTasks(graph'[s].tasks, graph[s].tasks)
                        /\ graph'[s].waits = graph[s].waits
    BY <2>1, SameTasksRefl
  <2>4. Dropped' \subseteq Dropped
    BY <2>1, DroppedNext
  <2>5. QED
    BY <2>1, <2>2, <2>3, <2>4, QuietWaits
<1>3. ASSUME NEW new, NextChosen(t, new)
      PROVE  WaitsSound'
  BY <1>2, <1>3 DEF NextChosen
<1>4. ASSUME TaskMissed(t)
      PROVE  WaitsSound'
  <2>1. /\ [thread[t] EXCEPT !.pc = "again"].callbacks = thread[t].callbacks
        /\ [thread[t] EXCEPT !.pc = "again"].fences = thread[t].fences
    BY <1>1 DEF ThreadStates
  <2>2. QED
    BY <1>2, <1>4, <2>1 DEF TaskMissed
<1>5. ASSUME TaskReturned(t)
      PROVE  WaitsSound'
  <2>1. /\ [thread[t] EXCEPT !.pc = "finish"].callbacks = thread[t].callbacks
        /\ [thread[t] EXCEPT !.pc = "finish"].fences = thread[t].fences
    BY <1>1 DEF ThreadStates
  <2>2. QED
    BY <1>2, <1>5, <2>1 DEF TaskReturned
<1>6. ASSUME RanAgain(t)
      PROVE  WaitsSound'
  <2> DEFINE more == HasAnyUnblockedTasksOnRunner(graph, t)
             new == [NewThread EXCEPT !.running = more, !.posted = more]
  <2>1. new.callbacks = {} /\ new.fences = {}
    BY DEF NewThread
  <2>2. ThreadStep(t, new) /\ client' = client
    BY <1>6 DEF RanAgain
  <2> HIDE DEF new
  <2>3. QED
    BY <1>2, <2>1, <2>2
<1>7. ASSUME NEW r, ThreadCalled(t, r)
      PROVE  WaitsSound'
  <2> DEFINE th == [thread EXCEPT ![t].callbacks = @ \ {r}]
  <2>1. /\ r \in Callbacks /\ r \in thread[t].callbacks /\ CalledBack(r, th)
        /\ UNCHANGED <<order, client, adding, destroying, last_order, graph_validation>>
    BY <1>7 DEF ThreadCalled
  <2>2. \A u \in Threads : /\ th[u].callbacks \subseteq thread[u].callbacks
                           /\ th[u].fences = thread[u].fences
    BY <1>1 DEF GpuSound, GpuTypes, ThreadStates
  <2>3. Excused(r.client, r.count, r.id) /\ r.id <= last_order
    BY <2>1 DEF WaitsSound, CallbacksExcused, CallbacksSound, CallbacksApart
  <2>4. Dropped' \subseteq Dropped
    BY <2>1, DroppedNext
  <2> HIDE DEF th
  <2>5. QED
    BY <2>1, <2>2, <2>3, <2>4, CalledWaits
<1>8. ASSUME TaskFinished(t)
      PROVE  WaitsSound'
  <2>1. /\ \A s \in Seqs : /\ SameTasks(graph'[s].tasks, graph[s].tasks)
                           /\ graph'[s].waits = graph[s].waits
        /\ \A u \in Threads : /\ thread'[u].callbacks \subseteq thread[u].callbacks
                              /\ thread'[u].fences \subseteq thread[u].fences
        /\ UNCHANGED <<graph_validation, order, client, adding, destroying, last_order>>
    BY <1>8 DEF TaskFinished
  <2>2. Dropped' \subseteq Dropped
    BY <2>1, DroppedNext
  <2>3. QED
    BY <2>1, <2>2, QuietWaits
<1>9. QED
  BY <1>3, <1>4, <1>5, <1>6, <1>7, <1>8, StartedWaits, ContinuedWaits, ReleasedWaits,
     DoneWaits, EndedWaits DEF ThreadShape

LEMMA DestroyWaits ==
    ASSUME GpuSound, GpuTypes', CallbacksSound, WaitsSound, DestroyShape
    PROVE  WaitsSound'
<1>1. ASSUME NEW s, NEW q, NEW d, DestroyMoved(s, q, d)
      PROVE  WaitsSound'
  <2>1. /\ d \in Destructions /\ destroying' = <<d>>
        /\ UNCHANGED <<graph_validation, order, client, thread, adding, last_order>>
        /\ \A x \in Seqs : graph'[x] = IF x = s THEN q ELSE graph[x]
        /\ q.tasks = graph[s].tasks /\ q.waits = graph[s].waits
    BY <1>1 DEF DestroyMoved, DestroyStep
  <2>2. d.callbacks = {}
    <3>1. CASE destroying = << >>
      BY <1>1, <3>1 DEF DestroyMoved
    <3>2. CASE Len(destroying) = 1 /\ destroying[1].pc = "map"
      <4>1. destroying[1].callbacks = {}
        BY <3>2 DEF CallbacksSound, DroppedLate
      <4>2. destroying # << >>
        BY <3>2
      <4>3. QED
        BY <1>1, <4>1, <4>2 DEF DestroyMoved
    <3>3. QED
      BY <1>1, <3>1, <3>2 DEF DestroyMoved
  <2>3. Dropped' \subseteq Dropped
    BY <2>1, <2>2, DroppedNext
  <2>4. \A x \in Seqs : /\ SameTasks(graph'[x].tasks, graph[x].tasks)
                        /\ graph'[x].waits = graph[x].waits
    BY <2>1, SameTasksRefl
  <2>5. QED
    BY <2>1, <2>3, <2>4, QuietWaits
<1>2. ASSUME NEW d, NEW r, DestroyCalled(d, r)
      PROVE  WaitsSound'
  <2>1. /\ Len(destroying) = 1 /\ r \in destroying[1].callbacks /\ r \in Callbacks
        /\ CalledBack(r, thread) /\ destroying' = <<d>> /\ d \in Destructions
        /\ d.callbacks = destroying[1].callbacks \ {r}
        /\ UNCHANGED <<graph_validation, order, client, adding, last_order>>
    BY <1>2 DEF DestroyCalled
  <2>2. destroying = <<destroying[1]>> /\ destroying[1] \in Destructions
    BY <2>1, DestroyingLemma DEF GpuSound
  <2>3. Dropped' \subseteq Dropped /\ r \in Dropped
    BY <2>1, <2>2, DroppedLemma, DroppedNext
  <2>4. Excused(r.client, r.count, r.id) /\ r.id <= last_order
    BY <2>3 DEF WaitsSound, CallbacksExcused, CallbacksSound, CallbacksApart
  <2>5. QED
    BY <2>1, <2>3, <2>4, CalledWaits
<1>3. ASSUME NEW d, OrderGone(d)
      PROVE  WaitsSound'
  <2>1. /\ destroying' = <<d>> /\ d \in Destructions /\ d.callbacks = {}
        /\ \A x \in Seqs : x # d.seq => order'[x] = order[x]
        /\ order'[d.seq].destroyed /\ order'[d.seq].fences = {}
        /\ order'[d.seq].nums = order[d.seq].nums
        /\ UNCHANGED <<graph_validation, client, graph, thread, adding, last_order>>
    BY <1>3 DEF OrderGone
  <2>2. Dropped' = {}
    BY <2>1, DroppedNext
  <2>3. WaitsStay
    <3>1. \A x \in Seqs : /\ order'[x].nums = order[x].nums
                          /\ order[x].destroyed => order'[x].destroyed
                          /\ order'[x].fences \subseteq order[x].fences
      BY <2>1
    <3>2. QED
      BY <2>1, <3>1, ClientsStay DEF WaitsSound, GpuSound
  <2>4. CallbacksFrom({})
    BY <2>1, <2>2, NoneTaken
  <2>5. \A x \in Seqs : /\ SameTasks(graph'[x].tasks, graph[x].tasks)
                        /\ graph'[x].waits = graph[x].waits
    BY <2>1, SameTasksRefl
  <2>6. adding' = adding
    BY <2>1
  <2>7. QED
    BY <2>3, <2>4, <2>5, <2>6, StayWaits
<1>4. ASSUME NEW x, Deleted(x)
      PROVE  WaitsSound'
  <2>1. /\ destroying' = << >> /\ graph'[x].tasks = << >>
        /\ \A s \in Seqs : s # x => graph'[s] = graph[s]
        /\ \A u \in Threads : /\ thread'[u].callbacks \subseteq thread[u].callbacks
                              /\ thread'[u].fences \subseteq thread[u].fences
        /\ UNCHANGED <<graph_validation, order, client, adding, last_order>>
    BY <1>4 DEF Deleted, Woken, SameThread
  <2>2. Dropped' \subseteq Dropped
    BY <2>1, DroppedNext
  <2>3. TasksFrom
    <3>1. \A s \in Seqs :
              SameTasks(graph'[s].tasks, graph[s].tasks) \/ graph'[s].tasks = << >>
      BY <2>1, SameTasksRefl
    <3>2. QED
      BY <3>1, SameTasksFrom
  <2>4. \A s \in Seqs : graph'[s].waits = graph[s].waits \/ graph'[s].tasks = << >>
    BY <2>1
  <2>5. QED
    BY <2>1, <2>2, <2>3, <2>4, MovedWaits
<1>5. ASSUME DestroyEnded
      PROVE  WaitsSound'
  <2>1. /\ destroying' = << >>
        /\ UNCHANGED <<graph_validation, order, client, graph, thread, adding, last_order>>
    BY <1>5 DEF DestroyEnded
  <2>2. Dropped' \subseteq Dropped
    BY <2>1, DroppedNext
  <2>3. \A s \in Seqs : SameTasks(graph'[s].tasks, graph[s].tasks)
    BY <2>1, SameTasksRefl
  <2>4. QED
    BY <2>1, <2>2, <2>3, QuietWaits
<1>6. QED
  BY <1>1, <1>2, <1>3, <1>4, <1>5, GoneWaits DEF DestroyShape

LEMMA WaitsKept ==
    ASSUME GpuSound, GpuTypes', CallbacksSound, WaitsSound, StepShape
    PROVE  WaitsSound'
<1>1. ASSUME UNCHANGED gpuVars
      PROVE  WaitsSound'
  <2>1. UNCHANGED <<graph_validation, order, client, graph, thread, adding, destroying,
                    last_order>>
    BY <1>1 DEF gpuVars
  <2>2. Dropped' \subseteq Dropped
    BY <2>1, DroppedNext
  <2>3. \A s \in Seqs : SameTasks(graph'[s].tasks, graph[s].tasks)
    BY <2>1, SameTasksRefl
  <2>4. QED
    BY <2>1, <2>2, <2>3, QuietWaits
<1>2. ASSUME NEW s \in Seqs, EnabledSet(s)
      PROVE  WaitsSound'
  <2>1. /\ \A x \in Seqs : graph'[x].tasks = graph[x].tasks /\ graph'[x].waits = graph[x].waits
        /\ \A u \in Threads : /\ thread'[u].callbacks \subseteq thread[u].callbacks
                              /\ thread'[u].fences \subseteq thread[u].fences
        /\ UNCHANGED <<graph_validation, order, client, adding, destroying, last_order>>
    BY <1>2 DEF EnabledSet, Woken, SameThread
  <2>2. Dropped' \subseteq Dropped
    BY <2>1, DroppedNext
  <2>3. \A x \in Seqs : SameTasks(graph'[x].tasks, graph[x].tasks)
    BY <2>1, SameTasksRefl
  <2>4. QED
    BY <2>1, <2>2, <2>3, QuietWaits
<1>3. ASSUME NEW s \in Seqs, NEW new, Validated(s, new)
      PROVE  WaitsSound'
  <2>1. /\ \A x \in Seqs : /\ SameTasks(graph'[x].tasks, graph[x].tasks)
                           /\ graph'[x].waits = graph[x].waits
        /\ \A u \in Threads : /\ thread'[u].callbacks \subseteq thread[u].callbacks
                              /\ thread'[u].fences \subseteq thread[u].fences
        /\ UNCHANGED <<graph_validation, order, client, adding, destroying, last_order>>
    BY <1>3 DEF Validated, SameSequence
  <2>2. Dropped' \subseteq Dropped
    BY <2>1, DroppedNext
  <2>3. QED
    BY <2>1, <2>2, QuietWaits
<1>4. QED
  BY <1>1, <1>2, <1>3, QueuedWaits, StoredWaits, ThreadWaits, DestroyWaits DEF StepShape

LEMMA InitWaits == GpuInit => WaitsSound
<1> SUFFICES ASSUME GpuInit PROVE WaitsSound
  OBVIOUS
<1>1. /\ adding = << >> /\ Dropped = {}
      /\ \A x \in Seqs : /\ client[x].mapped /\ order[x].fences = {}
                         /\ graph[x].tasks = << >>
      /\ \A t \in Threads : thread[t].callbacks = {} /\ thread[t].fences = {}
  BY DroppedLemma DEF GpuInit, NewClientState, NewOrderData, NewSequence, NewThread
<1>2. QED
  BY <1>1 DEF WaitsSound, FencesSound, CallbacksExcused, TasksWait

LEMMA OnlyStarts ==
    ASSUME GpuTypes, StepShape, NEW t \in Threads, thread[t].pc = "chosen", thread'[t].pc = "task"
    PROVE  TaskStarted(t, thread[t].seq)
<1>1. thread'[t].pc # thread[t].pc
  OBVIOUS
<1>2. ASSUME \A u \in Threads : Woken(thread'[u], thread[u])
      PROVE  FALSE
  BY <1>1, <1>2 DEF Woken, SameThread
<1>3. ASSUME thread' = thread
      PROVE  FALSE
  BY <1>1, <1>3
<1>4. ASSUME NEW s \in Seqs, NEW new, Validated(s, new)
      PROVE  FALSE
  <2>1. thread'[t] = new \/ thread'[t] = thread[t]
    BY <1>4 DEF Validated
  <2>2. new.pc \in {"idle", "force"}
    BY <1>4 DEF Validated
  <2>3. QED
    BY <1>1, <2>1, <2>2
<1>5. ASSUME DestroyShape
      PROVE  FALSE
  <2>1. ASSUME NEW s, NEW q, NEW d, DestroyMoved(s, q, d)
        PROVE  FALSE
    BY <1>3, <2>1 DEF DestroyMoved, DestroyStep
  <2>2. ASSUME NEW d, ClientGone(d)
        PROVE  FALSE
    BY <1>3, <2>2 DEF ClientGone
  <2>3. ASSUME NEW d, NEW r, DestroyCalled(d, r)
        PROVE  FALSE
    BY <1>2, <2>3 DEF DestroyCalled, CalledBack
  <2>4. ASSUME NEW d, OrderGone(d)
        PROVE  FALSE
    BY <1>3, <2>4 DEF OrderGone
  <2>5. ASSUME NEW x, Deleted(x)
        PROVE  FALSE
    BY <1>2, <2>5 DEF Deleted
  <2>6. ASSUME DestroyEnded
        PROVE  FALSE
    BY <1>3, <2>6 DEF DestroyEnded
  <2>7. QED
    BY <1>5, <2>1, <2>2, <2>3, <2>4, <2>5, <2>6 DEF DestroyShape
<1>6. ASSUME NEW u \in Threads, ThreadShape(u)
      PROVE  TaskStarted(t, thread[t].seq)
  <2>1. thread \in [Threads -> ThreadStates]
    BY DEF GpuTypes
  <2>2. ASSUME NEW new, thread' = [thread EXCEPT ![u] = new],
               thread[u].pc # "chosen" \/ new.pc # "task"
        PROVE  FALSE
    <3>1. u = t /\ thread'[t] = new
      BY <1>1, <2>1, <2>2
    <3>2. QED
      BY <2>2, <3>1
  <2>3. ASSUME NEW new, ThreadStep(u, new), thread[u].pc # "chosen" \/ new.pc # "task"
        PROVE  FALSE
    BY <2>2, <2>3 DEF ThreadStep
  <2>4. ASSUME \A v \in Threads \ {u} : thread'[v] = thread[v], thread[u].pc # "chosen"
        PROVE  FALSE
    BY <1>1, <2>4
  <2>5. ASSUME NEW new, NextChosen(u, new)
        PROVE  FALSE
    BY <2>3, <2>5 DEF NextChosen
  <2>6. ASSUME TaskMissed(u)
        PROVE  FALSE
    <3>1. [thread[u] EXCEPT !.pc = "again"].pc = "again"
      BY <2>1 DEF ThreadStates
    <3>2. QED
      BY <2>3, <2>6, <3>1 DEF TaskMissed
  <2>7. ASSUME TaskStarted(u, thread[u].seq)
        PROVE  TaskStarted(t, thread[t].seq)
    <3>1. \A v \in Threads \ {u} : thread'[v] = thread[v]
      BY <2>7 DEF TaskStarted
    <3>2. u = t
      BY <1>1, <3>1
    <3>3. QED
      BY <2>7, <3>2
  <2>8. ASSUME NEW task, TaskContinued(u, thread[u].seq, task)
        PROVE  FALSE
    BY <1>3, <2>8 DEF TaskContinued
  <2>9. ASSUME NEW me, NEW s, NEW count, NEW cause, NEW taken,
               ReleaseStep(u, me, s, count, cause, taken)
        PROVE  FALSE
    <3>1. /\ thread' = [thread EXCEPT ![u] = [me EXCEPT !.callbacks = taken]]
          /\ me \in ThreadStates
          /\ \/ me.pc = thread[u].pc
             \/ me.pc = "idle"
             \/ me.pc = "processed"
      BY <2>9 DEF ReleaseStep, Released
    <3>2. [me EXCEPT !.callbacks = taken].pc = me.pc
      BY <3>1 DEF ThreadStates
    <3>3. thread[u].pc # "chosen" \/ [me EXCEPT !.callbacks = taken].pc # "task"
      BY <3>1, <3>2
    <3>4. QED
      BY <2>2, <3>1, <3>3
  <2>10. ASSUME TaskReturned(u)
         PROVE  FALSE
    BY <2>3, <2>10 DEF TaskReturned
  <2>11. ASSUME NEW overdue, NumberDone(u, thread[u].seq, overdue)
         PROVE  FALSE
    BY <2>4, <2>11 DEF NumberDone
  <2>12. ASSUME NEW new, NEW f, NEW ended, WaitEnded(u, new, f, ended)
         PROVE  FALSE
    BY <2>3, <2>12 DEF WaitEnded
  <2>13. ASSUME NEW r, ThreadCalled(u, r)
         PROVE  FALSE
    <3> DEFINE th == [thread EXCEPT ![u].callbacks = @ \ {r}]
    <3>1. th[t].pc = thread[t].pc
      BY <2>1 DEF ThreadStates
    <3>2. Woken(thread'[t], th[t])
      BY <2>13 DEF ThreadCalled, CalledBack
    <3>3. QED
      BY <1>1, <3>1, <3>2 DEF Woken, SameThread
  <2>14. ASSUME TaskFinished(u)
         PROVE  FALSE
    BY <2>4, <2>14 DEF TaskFinished
  <2>15. ASSUME RanAgain(u)
         PROVE  FALSE
    BY <2>3, <2>15 DEF RanAgain
  <2>16. QED
    BY <1>6, <2>5, <2>6, <2>7, <2>8, <2>9, <2>10, <2>11, <2>12, <2>13, <2>14, <2>15
       DEF ThreadShape
<1>7. ASSUME NEW s, NEW task, TaskQueued(s, task)
      PROVE  FALSE
  BY <1>2, <1>7 DEF TaskQueued
<1>8. ASSUME NEW a, WaitStored(a)
      PROVE  FALSE
  BY <1>2, <1>8 DEF WaitStored
<1>9. ASSUME NEW s \in Seqs, EnabledSet(s)
      PROVE  FALSE
  BY <1>2, <1>9 DEF EnabledSet
<1>10. ASSUME UNCHANGED gpuVars
       PROVE  FALSE
  BY <1>3, <1>10 DEF gpuVars
<1>11. QED
  BY <1>4, <1>5, <1>6, <1>7, <1>8, <1>9, <1>10 DEF StepShape

\* A task that starts is excused from all its waits.
LEMMA StartsExcused ==
    ASSUME GpuSound, WaitsSound, NEW t, NEW s, TaskStarted(t, s), NEW k \in Front(graph, s).waits
    PROVE  Excused(k[1], k[2], Front(graph, s).order)
<1>1. /\ s \in Seqs /\ graph[s].tasks # << >> /\ adding = << >>
      /\ IsFrontTaskUnblocked(graph, s)
  BY DEF TaskStarted
<1>2. 1 \in 1..Len(graph[s].tasks) /\ Front(graph, s) = graph[s].tasks[1]
  <2>1. graph[s].tasks \in Seq(Tasks)
    BY <1>1 DEF GpuSound, GpuTypes, Sequences
  <2>2. QED
    BY <1>1, <2>1, SeqTail DEF Front
<1> DEFINE num == graph[s].tasks[1].order
<1>3. Covered(s, k, num)
  BY <1>1, <1>2 DEF WaitsSound, TasksWait
<1>4. num \in Nat
  BY <1>1, <1>2, TaskType, Constants DEF GpuSound
<1>5. \A w \in graph[s].waits : w.order > num
  BY <1>1, <1>2 DEF IsFrontTaskUnblocked
<1>6. ~ (num > num)
  BY <1>4
<1>7. [client |-> k[1], count |-> k[2], order |-> num] \notin graph[s].waits
  <2> DEFINE w == [client |-> k[1], count |-> k[2], order |-> num]
  <2>1. w.order = num
    OBVIOUS
  <2> HIDE DEF w, num
  <2>2. w \notin graph[s].waits
    BY <1>5, <1>6, <2>1
  <2>3. QED
    BY <2>2 DEF w
<1> HIDE DEF num
<1>8. \A j \in 1..Len(adding) : FALSE
  BY <1>1
<1>9. Excused(k[1], k[2], num)
  BY <1>3, <1>7, <1>8 DEF Covered
<1>10. QED
  BY <1>2, <1>9 DEF num

\* A task starts only when each fence it was to wait for is released or gone, or, by
\* order numbers, its sequence has no earlier task left that could release it
\* (Scheduler::ExecuteSequence after AddTask, SyncTokenFenceReleased and the order
\* data's guards).
THEOREM StartsHonoured == GpuSpec => WaitsHonoured
<1> DEFINE A == \A t \in Threads :
                    thread[t].pc = "chosen" /\ thread'[t].pc = "task" =>
                        LET s == thread[t].seq
                            task == Front(graph, s)
                        IN  \A k \in task.waits :
                                LET x == k[1]
                                IN  \/ client[x].released >= k[2]
                                    \/ order[x].destroyed
                                    \/ ~ graph_validation
                                       /\ \A i \in 1..Len(order[x].nums) :
                                              order[x].nums[i] > task.order
<1>1. CallbacksSound /\ WaitsSound /\ GpuSound /\ [GpuNext]_gpuVars
          => CallbacksSound' /\ WaitsSound'
  BY StepLemma, CallbacksKept, WaitsKept
<1>2. ASSUME GpuSound, WaitsSound, [GpuNext]_gpuVars
      PROVE  A
  <2> SUFFICES ASSUME NEW t \in Threads, thread[t].pc = "chosen", thread'[t].pc = "task",
                      NEW k \in Front(graph, thread[t].seq).waits
               PROVE  Excused(k[1], k[2], Front(graph, thread[t].seq).order)
    BY DEF Excused
  <2>1. StepShape
    BY <1>2, StepLemma
  <2>2. TaskStarted(t, thread[t].seq)
    BY <1>2, <2>1, OnlyStarts DEF GpuSound
  <2>3. QED
    BY <1>2, <2>2, StartsExcused
<1>3. WaitsHonoured <=> [][A]_gpuVars
  BY DEF WaitsHonoured
<1>4. GpuSound /\ WaitsSound /\ [GpuNext]_gpuVars => [A]_gpuVars
  BY <1>2
<1> HIDE DEF A
<1>5. QED
  BY InitCallbacks, InitWaits, SchedulerSound, <1>1, <1>3, <1>4, PTL DEF GpuSpec

===============================================================================
