--------------------------- MODULE GpuScheduler_checks ---------------------------
(***************************************************************************)
(* Proof that, when sequences are destroyed on their own threads, no       *)
(* assertion of the GPU scheduler fails, but for the CHECK of the          *)
(* validation behind a continued task (ContinuedFirst).                    *)
(*                                                                         *)
(* ChecksSound, for the DCHECKs, is followed through the shapes of the     *)
(* steps, and needs more of each action than its shape. The CHECKs are     *)
(* those of a search: SearchResult says when they hold, by induction over  *)
(* the depth of the search, and over the tasks of a sequence at each       *)
(* depth; ValidatedFirst, an invariant, says when a sequence is fit for    *)
(* such a search.                                                          *)
(***************************************************************************)
EXTENDS GpuScheduler_proofs

-----------------------------------------------------------------------------
(***************************************************************************)
(* The search by the validation                                            *)
(***************************************************************************)
LEMMA ReleasesTyped ==
    ASSUME GpuTypes, NEW s \in Seqs
    PROVE  /\ graph[s].current \in 0..MaxTasks /\ Len(graph[s].tasks) \in Nat
           /\ \A i \in 1..Len(graph[s].tasks) : graph[s].tasks[i].release \in 0..MaxTasks
<1>1. graph[s] \in Sequences
  BY DEF GpuTypes
<1>2. graph[s].tasks \in Seq(Tasks) /\ graph[s].current \in 0..MaxTasks
  BY <1>1 DEF Sequences
<1>3. \A i \in 1..Len(graph[s].tasks) : graph[s].tasks[i] \in Tasks
  BY <1>2
<1>4. QED
  BY <1>2, <1>3 DEF Tasks

\* GetSequenceValidateState only adds the state of a sequence that was not met.
LEMMA StateFound ==
    ASSUME GpuTypes, NEW v, SearchSound(v), NEW s \in Seqs
    PROVE  LET e == GetSequenceValidateState(v, s)
               tasks == graph[s].tasks
           IN  /\ GoneOn(v, e) /\ e.fine = v.fine /\ e.next[s] \in Nat \ {0}
               /\ v.next[s] # 0 => e = v
               /\ v.next[s] = 0 =>
                      e.next[s] = Min({i \in 1..Len(tasks) : ~ tasks[i].validated}
                                          \cup {Len(tasks) + 1})
<1> DEFINE tasks == graph[s].tasks
           fresh == {i \in 1..Len(tasks) : ~ tasks[i].validated} \cup {Len(tasks) + 1}
           first == Min(fresh)
           releases == {v.pending[s], graph[s].current}
                         \cup {tasks[i].release : i \in 1..(first - 1)}
           e == [v EXCEPT !.next[s] = first, !.pending[s] = Max(releases)]
<1>1. v \in Searches /\ \A x \in v.busy : v.next[x] # 0
  BY DEF SearchSound
<1>2. v.pending[s] \in Nat /\ v.next[s] \in Nat
  BY <1>1 DEF Searches
<1>3. Len(tasks) \in Nat
  BY ReleasesTyped
<1>4. first \in fresh /\ fresh \subseteq Nat \ {0} /\ first <= Len(tasks) + 1
  <2>1. fresh \subseteq Nat \ {0} /\ fresh \subseteq Nat /\ fresh # {} /\ Len(tasks) + 1 \in fresh
    BY <1>3
  <2> HIDE DEF fresh
  <2>2. QED
    BY <2>1, MinLemma
<1>5. first \in Nat \ {0} /\ first - 1 <= Len(tasks)
  BY <1>3, <1>4
<1> HIDE DEF first, fresh
<1>6. Max(releases) \in Nat
  <2> DEFINE k == v.pending[s] + MaxTasks
  <2>1. k \in Nat /\ v.pending[s] \in 0..k /\ \A r \in 0..MaxTasks : r \in 0..k
    BY <1>2, Constants
  <2>2. \A i \in 1..(first - 1) : i \in 1..Len(tasks)
    BY <1>3, <1>5
  <2> HIDE DEF k
  <2>3. releases \subseteq 0..k
    BY <2>1, <2>2, ReleasesTyped
  <2>4. releases # {}
    OBVIOUS
  <2> HIDE DEF releases
  <2>5. Max(releases) \in releases
    BY <2>1, <2>3, <2>4, MaxLemma
  <2>6. \A r \in releases : r \in Nat
    BY <2>1, <2>3
  <2>7. QED
    BY <2>5, <2>6
<1>7. GetSequenceValidateState(v, s) = IF v.next[s] # 0 THEN v ELSE e
  BY DEF GetSequenceValidateState, first, fresh
<1> DEFINE m == Max(releases)
           d == [v EXCEPT !.next[s] = first, !.pending[s] = m]
<1>8. d = e
  OBVIOUS
<1> HIDE DEF m, releases
<1>9. /\ d \in Searches /\ d.busy = v.busy /\ d.fine = v.fine /\ d.next[s] = first
      /\ \A x \in Seqs : x # s => d.next[x] = v.next[x]
  BY <1>1, <1>5, <1>6 DEF Searches, m
<1>10. v.busy \subseteq Seqs
  BY <1>1 DEF Searches
<1>11. CASE v.next[s] # 0
  BY <1>1, <1>2, <1>7, <1>11 DEF GoneOn, SearchSound
<1>12. CASE v.next[s] = 0
  <2>1. GetSequenceValidateState(v, s) = d
    BY <1>7, <1>8, <1>12
  <2> HIDE DEF d, e
  <2>2. s \notin v.busy
    BY <1>1, <1>12
  <2>3. \A x \in v.busy : d.next[x] = v.next[x]
    BY <1>9, <1>10, <2>2
  <2>4. GoneOn(v, d)
    BY <1>1, <1>9, <2>3 DEF GoneOn, SearchSound
  <2>5. QED
    BY <1>5, <1>9, <1>12, <2>1, <2>4 DEF first, fresh
<1>13. QED
  BY <1>11, <1>12

\* What ValidateEach does, one task after the other.
LEMMA EachSolves ==
    ASSUME NEW validate, NEW v, NEW s, NEW ids, NEW last \in Nat
    PROVE  \E f : /\ f[0] = v
                  /\ \A k \in 1..last :
                         f[k] = IF k \in ids THEN At(validate, f[k - 1], s, k) ELSE f[k - 1]
                  /\ ValidateEach(validate, v, s, ids, last) = f[last]
<1> DEFINE Step(k, y) == IF k \in ids THEN At(validate, y, s, k) ELSE y
           F(f, m) == [k \in 0..m |-> IF k = 0 THEN v ELSE IF k \in ids
                                      THEN At(validate, f[k - 1], s, k) ELSE f[k - 1]]
           S == {m \in Nat : \E f : f = F(f, m)}
<1>1. ASSUME NEW m \in Nat, NEW f
      PROVE  /\ F(f, m)[0] = v
             /\ \A k \in 1..m : F(f, m)[k] = Step(k, f[k - 1])
             /\ F(f, m) = [k \in 0..m |-> F(f, m)[k]]
  <2>1. 0 \in 0..m /\ \A k \in 1..m : k \in 0..m /\ k # 0
    OBVIOUS
  <2>2. F(f, m)[0] = v
    BY <2>1
  <2>3. ASSUME NEW k \in 1..m PROVE F(f, m)[k] = Step(k, f[k - 1])
    BY <2>1
  <2>4. F(f, m) = [k \in 0..m |-> F(f, m)[k]]
    OBVIOUS
  <2> HIDE DEF F, Step
  <2>5. QED
    BY <2>2, <2>3, <2>4
<1>2. 0 \in S
  <2> DEFINE f == [k \in 0..0 |-> v]
  <2>1. f = F(f, 0)
    <3>1. \A k \in 0..0 : k = 0
      OBVIOUS
    <3>2. QED
      BY <3>1
  <2>2. QED
    BY <2>1
<1>3. ASSUME NEW m \in Nat, m \in S PROVE m + 1 \in S
  <2>1. PICK f : f = F(f, m)
    BY <1>3
  <2>2. /\ f[0] = v /\ \A k \in 1..m : f[k] = Step(k, f[k - 1])
    <3>1. F(f, m)[0] = v /\ \A k \in 1..m : F(f, m)[k] = Step(k, f[k - 1])
      BY <1>1
    <3> HIDE DEF F, Step
    <3>2. QED
      BY <2>1, <3>1
  <2> DEFINE u == Step(m + 1, f[m])
             g == [k \in 0..(m + 1) |-> IF k = m + 1 THEN u ELSE f[k]]
  <2>3. F(g, m + 1)[0] = v /\ \A k \in 1..(m + 1) : F(g, m + 1)[k] = Step(k, g[k - 1])
    <3>1. m + 1 \in Nat
      OBVIOUS
    <3> HIDE DEF F, Step, g
    <3>2. QED
      BY <1>1, <3>1
  <2>4. F(g, m + 1) = [k \in 0..(m + 1) |-> F(g, m + 1)[k]]
    <3>1. m + 1 \in Nat
      OBVIOUS
    <3> HIDE DEF F, Step, g
    <3>2. QED
      BY <1>1, <3>1
  <2> HIDE DEF F, Step, u
  <2>5. /\ g = [k \in 0..(m + 1) |-> g[k]]
        /\ \A k \in 0..(m + 1) : g[k] = IF k = m + 1 THEN u ELSE f[k]
    OBVIOUS
  <2> HIDE DEF g
  <2>6. ASSUME NEW k \in 0..(m + 1) PROVE g[k] = F(g, m + 1)[k]
    <3>1. CASE k = 0
      BY <2>2, <2>3, <2>5, <3>1
    <3>2. CASE k = m + 1
      <4>1. k \in 1..(m + 1) /\ k - 1 \in 0..(m + 1) /\ k - 1 = m /\ m # m + 1
        BY <3>2
      <4>2. g[k - 1] = f[m]
        BY <2>5, <4>1
      <4>3. QED
        BY <2>3, <2>5, <3>2, <4>1, <4>2 DEF u
    <3>3. CASE k \in 1..m
      <4>1. k \in 1..(m + 1) /\ k - 1 \in 0..(m + 1) /\ k - 1 # m + 1 /\ k # m + 1
        BY <3>3
      <4>2. g[k - 1] = f[k - 1] /\ g[k] = f[k]
        BY <2>5, <4>1
      <4>3. QED
        BY <2>2, <2>3, <3>3, <4>1, <4>2
    <3>4. QED
      BY <3>1, <3>2, <3>3
  <2>7. g = F(g, m + 1)
    BY <2>4, <2>5, <2>6
  <2>8. m + 1 \in Nat
    OBVIOUS
  <2>9. QED
    BY <2>7, <2>8
<1>4. last \in S
  <2> HIDE DEF S
  <2>1. QED
    BY <1>2, <1>3, Induct
<1> DEFINE after == CHOOSE f : f = F(f, last)
<1>5. after = F(after, last)
  <2>1. \E f : f = F(f, last)
    BY <1>4
  <2> HIDE DEF F
  <2>2. QED
    BY <2>1
<1>6. ValidateEach(validate, v, s, ids, last) = after[last]
  BY DEF ValidateEach, At
<1> HIDE DEF after
<1>7. F(after, last)[0] = v /\ \A k \in 1..last : F(after, last)[k] = Step(k, after[k - 1])
  BY <1>1
<1>8. after[0] = v /\ \A k \in 1..last : after[k] = Step(k, after[k - 1])
  <2> HIDE DEF F, Step
  <2>1. QED
    BY <1>5, <1>7
<1>9. QED
  BY <1>6, <1>8

\* The tasks of a sequence that is not being validated, from its next one on.
LEMMA EachSound ==
    ASSUME GpuTypes, NEW validate, NEW n \in Nat, LevelSound(validate, n),
           NEW e, SearchSound(e), NEW x \in Seqs, x \notin e.busy, e.next[x] \in Nat \ {0},
           NEW last \in 0..Len(graph[x].tasks)
    PROVE  LET r == ValidateEach(validate, e, x, e.next[x]..last, last)
           IN  GoneOn(e, r) /\ (e.fine => r.fine)
<1> DEFINE from == e.next[x]
           ids == from..last
<1>1. /\ from \in Nat \ {0} /\ last \in Nat /\ Len(graph[x].tasks) \in Nat
      /\ last <= Len(graph[x].tasks)
  BY ReleasesTyped
<1>2. last \in Nat
  BY <1>1
<1> HIDE DEF ids
<1>3. PICK f : /\ f[0] = e
               /\ \A k \in 1..last :
                      f[k] = IF k \in ids THEN At(validate, f[k - 1], x, k) ELSE f[k - 1]
               /\ ValidateEach(validate, e, x, ids, last) = f[last]
  BY <1>2, EachSolves
<1> DEFINE Passed(k) == /\ GoneOn(e, f[k]) /\ (e.fine => f[k].fine)
                        /\ f[k].next[x] = IF n = 0 \/ k < from THEN from ELSE k + 1
           S == {k \in Nat : k <= last => Passed(k)}
<1>4. 0 \in S
  <2>1. GoneOn(e, f[0]) /\ (e.fine => f[0].fine) /\ f[0].next[x] = from
    BY <1>3 DEF GoneOn
  <2>2. 0 < from
    BY <1>1
  <2> HIDE DEF from
  <2>3. QED
    BY <2>1, <2>2
<1>5. ASSUME NEW k \in Nat, k \in S PROVE k + 1 \in S
  <2>1. SUFFICES ASSUME k + 1 <= last PROVE Passed(k + 1)
    OBVIOUS
  <2>2. /\ k + 1 \in 1..last /\ (k + 1) - 1 = k /\ k + 1 \in 1..Len(graph[x].tasks)
        /\ k + 1 \in Nat /\ Passed(k)
    BY <1>1, <1>5, <2>1
  <2>3. f[k + 1] = IF k + 1 \in ids THEN At(validate, f[k], x, k + 1) ELSE f[k]
    BY <1>3, <2>2
  <2>4. CASE k + 1 \notin ids
    <3>1. k + 1 < from
      BY <1>1, <2>1, <2>4 DEF ids
    <3>2. k < from
      BY <1>1, <3>1
    <3> HIDE DEF from
    <3>3. QED
      BY <2>2, <2>3, <2>4, <3>1, <3>2
  <2>5. CASE k + 1 \in ids
    <3> DEFINE v == f[k]
               r == At(validate, v, x, k + 1)
    <3>1. /\ SearchSound(v) /\ v \in Searches /\ v.busy = e.busy /\ (e.fine => v.fine)
          /\ \A y \in e.busy : v.next[y] = e.next[y]
      BY <2>2 DEF GoneOn, SearchSound
    <3>2. from <= k + 1 /\ ~ (k + 1 < from)
      BY <1>1, <2>5 DEF ids
    <3>3. n # 0 => v.next[x] = k + 1
      <4>1. SUFFICES ASSUME n # 0 PROVE v.next[x] = k + 1
        OBVIOUS
      <4>2. v.next[x] = IF k < from THEN from ELSE k + 1
        BY <2>2, <4>1
      <4>3. k < from => from = k + 1
        BY <1>1, <3>2
      <4>4. QED
        BY <4>2, <4>3
    <3> HIDE DEF v, from
    <3>4. n # 0 => NextOf(v, x) = k + 1
      <4>1. SUFFICES ASSUME n # 0 PROVE NextOf(v, x) = k + 1
        OBVIOUS
      <4>2. v.next[x] = k + 1 /\ v.next[x] # 0
        BY <3>3, <4>1
      <4>3. GetSequenceValidateState(v, x) = v
        BY <3>1, <4>2, StateFound
      <4>4. QED
        BY <4>2, <4>3 DEF NextOf
    <3>5. /\ GoneOn(v, r) /\ (n = 0 => r = v) /\ (n > 0 => r.next[x] = (k + 1) + 1)
          /\ v.fine /\ NextOf(v, x) = k + 1 => r.fine
      <4>1. /\ v \in Searches /\ SearchSound(v) /\ x \notin v.busy
            /\ k + 1 \in Nat /\ k + 1 \in 1..Len(graph[x].tasks)
        BY <2>2, <3>1
      <4>2. QED
        BY <4>1 DEF LevelSound
    <3>6. v.fine => r.fine
      BY <3>4, <3>5
    <3>7. GoneOn(e, r)
      BY <3>1, <3>5 DEF GoneOn
    <3>8. f[k + 1] = r
      BY <2>3, <2>5 DEF v
    <3>9. v.next[x] = IF n = 0 \/ k < from THEN from ELSE k + 1
      BY <2>2 DEF v
    <3> HIDE DEF r
    <3>10. r.next[x] = IF n = 0 \/ k + 1 < from THEN from ELSE (k + 1) + 1
      BY <3>2, <3>5, <3>9
    <3>11. QED
      BY <3>1, <3>6, <3>7, <3>8, <3>10
  <2>6. QED
    BY <2>4, <2>5
<1>6. Passed(last)
  <2>1. last \in S
    <3> HIDE DEF S
    <3>1. QED
      BY <1>1, <1>4, <1>5, Induct
  <2>2. QED
    BY <1>1, <2>1
<1>7. QED
  BY <1>3, <1>6 DEF ids

\* A wait, whichever way it ends.
LEMMA WaitSound ==
    ASSUME GpuTypes, NEW validate, NEW n \in Nat, LevelSound(validate, n),
           NEW v, SearchSound(v), NEW w \in Fences
    PROVE  LET r == ValidateWait(validate, v, w)
           IN  GoneOn(v, r) /\ (v.fine => r.fine)
<1> DEFINE x == w.client
           e == IF graph[x].map THEN GetSequenceValidateState(v, x) ELSE v
           tasks == ReleaseTasks(x, w.count)
           r == ValidateWait(validate, v, w)
<1>1. x \in Seqs /\ w.count \in Nat
  BY Constants DEF Fences
<1>2. GoneOn(v, e) /\ e.fine = v.fine /\ (graph[x].map => e.next[x] \in Nat \ {0})
  <2>1. CASE graph[x].map
    BY <1>1, <2>1, StateFound
  <2>2. CASE ~ graph[x].map
    BY <2>2 DEF GoneOn
  <2>3. QED
    BY <2>1, <2>2
<1>3. r = IF e.pending[x] >= w.count THEN e
          ELSE IF tasks = {} \/ x \in e.busy
               THEN [e EXCEPT !.pending[x] = w.count, !.force[x] = Max({@, w.count})]
          ELSE ValidateEach(validate, e, x, e.next[x]..Min(tasks), Min(tasks))
  BY DEF ValidateWait
<1> HIDE DEF e, r
<1>4. CASE r = e
  BY <1>2, <1>4 DEF r
<1>5. CASE r = [e EXCEPT !.pending[x] = w.count, !.force[x] = Max({@, w.count})]
  <2> DEFINE m == Max({e.force[x], w.count})
             d == [e EXCEPT !.pending[x] = w.count, !.force[x] = m]
  <2>1. e \in Searches /\ e.force[x] \in Nat
    BY <1>1, <1>2 DEF GoneOn, SearchSound, Searches
  <2>2. m \in Nat
    BY <1>1, <2>1, MaxOfTwo
  <2>3. r = d
    BY <1>5
  <2> HIDE DEF m
  <2>4. d \in Searches /\ d.busy = e.busy /\ d.next = e.next /\ d.fine = e.fine
    BY <1>1, <2>1, <2>2 DEF Searches
  <2> HIDE DEF d
  <2>5. GoneOn(v, d)
    BY <1>2, <2>4 DEF GoneOn, SearchSound
  <2>6. QED
    BY <1>2, <2>3, <2>4, <2>5 DEF r
<1>6. CASE /\ tasks # {} /\ x \notin e.busy
           /\ r = ValidateEach(validate, e, x, e.next[x]..Min(tasks), Min(tasks))
  <2>1. graph[x].map
    BY <1>6 DEF ReleaseTasks
  <2>2. Len(graph[x].tasks) \in Nat
    BY <1>1, ReleasesTyped
  <2>3. tasks \subseteq 1..Len(graph[x].tasks)
    BY DEF ReleaseTasks
  <2>4. Min(tasks) \in 0..Len(graph[x].tasks)
    <3> HIDE DEF tasks
    <3>1. tasks \subseteq Nat
      BY <2>2, <2>3
    <3>2. Min(tasks) \in tasks
      BY <1>6, <3>1, MinLemma
    <3>3. \A y \in tasks : y \in 0..Len(graph[x].tasks)
      BY <2>2, <2>3
    <3>4. QED
      BY <3>2, <3>3
  <2>5. SearchSound(e)
    BY <1>2 DEF GoneOn
  <2> DEFINE last == Min(tasks)
  <2> HIDE DEF last
  <2>6. last \in 0..Len(graph[x].tasks)
    BY <2>4 DEF last
  <2>7. LET d == ValidateEach(validate, e, x, e.next[x]..last, last)
        IN  GoneOn(e, d) /\ (e.fine => d.fine)
    BY <1>1, <1>2, <1>6, <2>1, <2>5, <2>6, EachSound
  <2>8. GoneOn(e, r) /\ (e.fine => r.fine)
    BY <1>6, <2>7 DEF last
  <2>9. GoneOn(v, r)
    BY <1>2, <2>8 DEF GoneOn
  <2>10. QED
    BY <1>2, <2>8, <2>9 DEF r
<1>7. QED
  BY <1>3, <1>4, <1>5, <1>6

\* A task: no CHECK fails if it is the next of its sequence.
LEMMA TaskSound ==
    ASSUME GpuTypes, NEW validate, NEW n \in Nat, LevelSound(validate, n),
           NEW v, SearchSound(v), NEW s \in Seqs, s \notin v.busy,
           NEW i \in 1..Len(graph[s].tasks)
    PROVE  LET r == ValidateTask(validate, v, s, i)
           IN  /\ GoneOn(v, r) /\ r.next[s] = i + 1
               /\ v.fine /\ NextOf(v, s) = i => r.fine
<1> DEFINE task == graph[s].tasks[i]
           fences == {w \in graph[s].waits : w.order = task.order}
           e == GetSequenceValidateState(v, s)
           ok == e.fine /\ e.next[s] = i /\ s \notin e.busy
           begun == [e EXCEPT !.fine = ok, !.busy = @ \cup {s}]
           d == IF fences = {} THEN begun
                ELSE ValidateWait(validate, begun, CHOOSE w \in fences : TRUE)
           m == Max({d.pending[s], task.release})
           r == [d EXCEPT !.busy = @ \ {s}, !.next[s] = i + 1, !.pending[s] = m]
<1>1. ValidateTask(validate, v, s, i) = r
  BY DEF ValidateTask
<1>2. /\ GoneOn(v, e) /\ e.fine = v.fine /\ e.next[s] \in Nat \ {0}
  BY StateFound
<1>3. e \in Searches /\ e.busy = v.busy /\ v \in Searches
  BY <1>2 DEF GoneOn, SearchSound
<1> HIDE DEF e, task
<1>4. /\ begun \in Searches /\ begun.busy = e.busy \cup {s} /\ begun.next = e.next
      /\ begun.fine = ok
  <2> HIDE DEF ok
  <2>1. ok \in BOOLEAN
    BY <1>3 DEF ok, Searches
  <2>2. QED
    BY <1>3, <2>1 DEF Searches
<1> HIDE DEF begun
<1>5. SearchSound(begun)
  BY <1>2, <1>4 DEF GoneOn, SearchSound
<1>6. fences \subseteq Fences
  <2>1. graph[s] \in Sequences
    BY DEF GpuTypes
  <2>2. QED
    BY <2>1 DEF Sequences
<1> HIDE DEF fences
<1>7. GoneOn(begun, d) /\ (begun.fine => d.fine)
  <2>1. CASE fences = {}
    BY <1>5, <2>1 DEF GoneOn
  <2>2. CASE fences # {}
    <3> DEFINE w == CHOOSE w \in fences : TRUE
    <3>1. w \in Fences
      BY <1>6, <2>2
    <3>2. d = ValidateWait(validate, begun, w)
      BY <2>2
    <3> HIDE DEF w, d
    <3>3. QED
      BY <1>5, <3>1, <3>2, WaitSound
  <2>3. QED
    BY <2>1, <2>2
<1> HIDE DEF d, m
<1>8. d \in Searches /\ d.busy = v.busy \cup {s} /\ \A x \in d.busy : d.next[x] = e.next[x]
  BY <1>3, <1>4, <1>7 DEF GoneOn, SearchSound
<1>9. m \in Nat
  <2>1. d.pending[s] \in Nat
    BY <1>8 DEF Searches
  <2>2. task.release \in Nat
    BY ReleasesTyped, Constants DEF task
  <2>3. QED
    BY <2>1, <2>2, MaxOfTwo DEF m
<1>10. i + 1 \in Nat
  OBVIOUS
<1>11. v.busy \subseteq Seqs
  BY <1>3 DEF Searches
<1>12. /\ r \in Searches /\ r.busy = d.busy \ {s} /\ r.fine = d.fine /\ r.next[s] = i + 1
       /\ \A x \in Seqs : x # s => r.next[x] = d.next[x]
  BY <1>8, <1>9, <1>10 DEF Searches
<1> HIDE DEF r
<1>13. r.busy = v.busy
  BY <1>8, <1>12
<1>14. ASSUME NEW x \in v.busy PROVE r.next[x] = v.next[x] /\ v.next[x] # 0
  <2>1. x \in Seqs /\ x # s /\ x \in d.busy
    BY <1>8, <1>11
  <2>2. e.next[x] = v.next[x] /\ v.next[x] # 0
    BY <1>2 DEF GoneOn, SearchSound
  <2>3. QED
    BY <1>8, <1>12, <2>1, <2>2
<1>15. GoneOn(v, r)
  BY <1>12, <1>13, <1>14 DEF GoneOn, SearchSound
<1>16. ASSUME v.fine, NextOf(v, s) = i PROVE r.fine
  <2>1. e.next[s] = i
    BY <1>16 DEF NextOf, e
  <2>2. ok
    BY <1>2, <1>3, <1>16, <2>1
  <2>3. QED
    BY <1>4, <1>7, <1>12, <2>2
<1>17. QED
  BY <1>1, <1>12, <1>15, <1>16

\* The levels of the search, each with the one below it.
LEMMA LevelsSolve ==
    \E f : /\ ValidateTaskFenceDeps = f[MaxTasks]
           /\ \A v \in Searches, s \in Seqs, i \in Nat : At(f[0], v, s, i) = v
           /\ \A n \in 1..MaxTasks : \A v \in Searches, s \in Seqs, i \in Nat :
                  At(f[n], v, s, i) = ValidateTask(f[n - 1], v, s, i)
<1> DEFINE Level(n, below) ==
               [v \in Searches |-> [s \in Seqs |-> [i \in Nat |->
                   IF n = 0 THEN v ELSE ValidateTask(below, v, s, i)]]]
           F(f, m) == [n \in 0..m |-> Level(n, f[n - 1])]
           S == {m \in Nat : \E f : f = F(f, m)}
<1>1. ASSUME NEW n, NEW b, NEW v \in Searches, NEW s \in Seqs, NEW i \in Nat
      PROVE  At(Level(n, b), v, s, i) = IF n = 0 THEN v ELSE ValidateTask(b, v, s, i)
  BY DEF At
<1>2. \A a, b : Level(0, a) = Level(0, b)
  OBVIOUS
<1> HIDE DEF Level
<1>3. ASSUME NEW m \in Nat, NEW f
      PROVE  /\ \A n \in 0..m : F(f, m)[n] = Level(n, f[n - 1])
             /\ F(f, m) = [n \in 0..m |-> F(f, m)[n]]
  OBVIOUS
<1>4. 0 \in S
  <2> DEFINE f == [n \in 0..0 |-> Level(0, 0)]
  <2>1. \A n \in 0..0 : n = 0
    OBVIOUS
  <2>2. \A n \in 0..0 : f[n] = F(f, 0)[n]
    <3>1. 0 \in Nat
      OBVIOUS
    <3>2. \A n \in 0..0 : F(f, 0)[n] = Level(n, f[n - 1])
      BY <1>3, <3>1
    <3>3. \A n \in 0..0 : f[n] = Level(0, 0)
      OBVIOUS
    <3> HIDE DEF f, F
    <3>4. QED
      BY <1>2, <2>1, <3>2, <3>3
  <2>3. f = [n \in 0..0 |-> f[n]] /\ F(f, 0) = [n \in 0..0 |-> F(f, 0)[n]]
    BY <1>3
  <2> HIDE DEF f, F
  <2>4. f = F(f, 0)
    BY <2>2, <2>3
  <2>5. QED
    BY <2>4
<1>5. ASSUME NEW m \in Nat, m \in S PROVE m + 1 \in S
  <2>1. PICK f : f = F(f, m)
    BY <1>5
  <2>2. \A n \in 0..m : f[n] = Level(n, f[n - 1])
    <3>1. \A n \in 0..m : F(f, m)[n] = Level(n, f[n - 1])
      BY <1>3
    <3> HIDE DEF F
    <3>2. QED
      BY <2>1, <3>1
  <2> DEFINE u == Level(m + 1, f[m])
             g == [n \in 0..(m + 1) |-> IF n = m + 1 THEN u ELSE f[n]]
  <2>3. m + 1 \in Nat
    OBVIOUS
  <2>4. /\ \A n \in 0..(m + 1) : F(g, m + 1)[n] = Level(n, g[n - 1])
        /\ F(g, m + 1) = [n \in 0..(m + 1) |-> F(g, m + 1)[n]]
    <3> HIDE DEF F, g
    <3>1. QED
      BY <1>3, <2>3
  <2> HIDE DEF F, u
  <2>5. /\ g = [n \in 0..(m + 1) |-> g[n]]
        /\ \A n \in 0..(m + 1) : g[n] = IF n = m + 1 THEN u ELSE f[n]
    OBVIOUS
  <2> HIDE DEF g
  <2>6. ASSUME NEW n \in 0..(m + 1) PROVE g[n] = F(g, m + 1)[n]
    <3>1. CASE n = 0
      <4>1. 0 \in 0..m /\ 0 \in 0..(m + 1) /\ 0 # m + 1
        OBVIOUS
      <4>2. g[0] = f[0] /\ f[0] = Level(0, f[0 - 1])
        BY <2>2, <2>5, <4>1
      <4>3. F(g, m + 1)[0] = Level(0, g[0 - 1])
        BY <2>4, <4>1
      <4>4. Level(0, g[0 - 1]) = Level(0, f[0 - 1])
        BY <1>2
      <4>5. QED
        BY <3>1, <4>2, <4>3, <4>4
    <3>2. CASE n = m + 1
      <4>1. n - 1 \in 0..(m + 1) /\ n - 1 = m /\ m # m + 1
        BY <3>2
      <4>2. g[n - 1] = f[m]
        BY <2>5, <4>1
      <4>3. QED
        BY <2>4, <2>5, <3>2, <4>2 DEF u
    <3>3. CASE n \in 1..m
      <4>1. n \in 0..m /\ n - 1 \in 0..(m + 1) /\ n - 1 # m + 1 /\ n # m + 1
        BY <3>3
      <4>2. g[n - 1] = f[n - 1] /\ g[n] = f[n]
        BY <2>5, <4>1
      <4>3. QED
        BY <2>2, <2>4, <4>1, <4>2
    <3>4. QED
      BY <3>1, <3>2, <3>3
  <2>7. g = F(g, m + 1)
    BY <2>4, <2>5, <2>6
  <2>8. QED
    BY <2>3, <2>7
<1>6. MaxTasks \in Nat
  BY Constants
<1>7. MaxTasks \in S
  <2> HIDE DEF S
  <2>1. QED
    BY <1>4, <1>5, <1>6, Induct
<1> DEFINE f == CHOOSE f : f = F(f, MaxTasks)
<1>8. f = F(f, MaxTasks)
  <2>1. \E h : h = F(h, MaxTasks)
    BY <1>7
  <2> HIDE DEF F
  <2>2. QED
    BY <2>1
<1>9. ValidateTaskFenceDeps = f[MaxTasks]
  BY DEF ValidateTaskFenceDeps, Level
<1> HIDE DEF f
<1>10. \A n \in 0..MaxTasks : F(f, MaxTasks)[n] = Level(n, f[n - 1])
  BY <1>3, <1>6
<1>11. \A n \in 0..MaxTasks : f[n] = Level(n, f[n - 1])
  <2> HIDE DEF F
  <2>1. QED
    BY <1>8, <1>10
<1>12. \A v \in Searches, s \in Seqs, i \in Nat : At(f[0], v, s, i) = v
  <2>1. 0 \in 0..MaxTasks
    BY <1>6
  <2>2. f[0] = Level(0, f[0 - 1])
    BY <1>11, <2>1
  <2>3. QED
    BY <1>1, <2>2
<1>13. ASSUME NEW n \in 1..MaxTasks, NEW v \in Searches, NEW s \in Seqs, NEW i \in Nat
       PROVE  At(f[n], v, s, i) = ValidateTask(f[n - 1], v, s, i)
  <2>1. n \in 0..MaxTasks /\ n # 0
    BY <1>6
  <2>2. f[n] = Level(n, f[n - 1])
    BY <1>11, <2>1
  <2>3. QED
    BY <1>1, <2>1, <2>2
<1>14. QED
  BY <1>9, <1>12, <1>13

LEMMA SearchLevels ==
    ASSUME GpuTypes
    PROVE  LevelSound(ValidateTaskFenceDeps, MaxTasks)
<1>1. PICK f :
          /\ ValidateTaskFenceDeps = f[MaxTasks]
          /\ \A v \in Searches, s \in Seqs, i \in Nat : At(f[0], v, s, i) = v
          /\ \A n \in 1..MaxTasks : \A v \in Searches, s \in Seqs, i \in Nat :
                 At(f[n], v, s, i) = ValidateTask(f[n - 1], v, s, i)
  BY LevelsSolve
<1>2. MaxTasks \in Nat
  BY Constants
<1> DEFINE S == {n \in Nat : n <= MaxTasks => LevelSound(f[n], n)}
<1>3. 0 \in S
  <2>1. LevelSound(f[0], 0)
    <3> SUFFICES ASSUME NEW v \in Searches, NEW s \in Seqs, NEW i \in Nat, SearchSound(v)
                 PROVE  LET r == At(f[0], v, s, i)
                        IN  /\ GoneOn(v, r) /\ (0 = 0 => r = v)
                            /\ (0 > 0 => r.next[s] = i + 1)
                            /\ v.fine /\ NextOf(v, s) = i => r.fine
      BY DEF LevelSound
    <3>1. At(f[0], v, s, i) = v /\ GoneOn(v, v)
      BY <1>1 DEF GoneOn
    <3>2. QED
      BY <3>1
  <2>2. QED
    BY <2>1
<1>4. ASSUME NEW n \in Nat, n \in S PROVE n + 1 \in S
  <2>1. SUFFICES ASSUME n + 1 <= MaxTasks PROVE LevelSound(f[n + 1], n + 1)
    OBVIOUS
  <2>2. n + 1 \in 1..MaxTasks /\ (n + 1) - 1 = n /\ n + 1 > 0 /\ n + 1 # 0 /\ n <= MaxTasks
    BY <1>2, <2>1
  <2>3. LevelSound(f[n], n)
    BY <1>4, <2>2
  <2> DEFINE below == f[n]
             this == f[n + 1]
  <2>4. \A v \in Searches, s \in Seqs, i \in Nat :
            At(this, v, s, i) = ValidateTask(below, v, s, i)
    BY <1>1, <2>2
  <2> HIDE DEF this, below
  <2>5. ASSUME NEW v \in Searches, NEW s \in Seqs, NEW i \in Nat,
               SearchSound(v), s \notin v.busy, i \in 1..Len(graph[s].tasks)
        PROVE  LET r == At(this, v, s, i)
               IN  /\ GoneOn(v, r) /\ r.next[s] = i + 1
                   /\ v.fine /\ NextOf(v, s) = i => r.fine
    <3>1. LevelSound(below, n)
      BY <2>3 DEF below
    <3> DEFINE r == ValidateTask(below, v, s, i)
    <3>2. /\ GoneOn(v, r) /\ r.next[s] = i + 1
          /\ v.fine /\ NextOf(v, s) = i => r.fine
      BY <2>5, <3>1, TaskSound
    <3>3. At(this, v, s, i) = r
      BY <2>4
    <3> HIDE DEF r
    <3>4. QED
      BY <3>2, <3>3
  <2>6. LevelSound(this, n + 1)
    BY <2>2, <2>5 DEF LevelSound
  <2>7. QED
    BY <2>6 DEF this
<1>5. MaxTasks \in S
  <2> HIDE DEF S
  <2>1. QED
    BY <1>2, <1>3, <1>4, Induct
<1>6. QED
  BY <1>1, <1>2, <1>5

\* The search from the root, whatever the CHECKs say.
LEMMA SearchResult ==
    ASSUME GpuTypes, NEW root \in Seqs, NEW last \in 0..Len(graph[root].tasks)
    PROVE  /\ SearchSound(Search(root, last))
           /\ FitForSearch(root, last) => Search(root, last).fine
<1> DEFINE tasks == graph[root].tasks
           ids == {i \in 1..last : ~ tasks[i].validated}
<1>1. last \in Nat /\ Len(tasks) \in Nat /\ last <= Len(tasks)
  BY ReleasesTyped
<1>2. \A i \in Nat : i \in ids <=> i \in 1..last /\ ~ tasks[i].validated
  BY <1>1
<1>3. last \in Nat
  BY <1>1
<1> HIDE DEF ids
<1>4. PICK f : /\ f[0] = NewSearch
               /\ \A k \in 1..last :
                      f[k] = IF k \in ids THEN At(ValidateTaskFenceDeps, f[k - 1], root, k)
                             ELSE f[k - 1]
               /\ ValidateEach(ValidateTaskFenceDeps, NewSearch, root, ids, last) = f[last]
  BY <1>3, EachSolves, SMTT(40)
<1>5. Search(root, last) = f[last]
  BY <1>4 DEF Search, ids
<1>6. LevelSound(ValidateTaskFenceDeps, MaxTasks)
  BY SearchLevels
<1>7. SearchSound(NewSearch) /\ NewSearch.busy = {} /\ NewSearch.fine /\ NewSearch.next[root] = 0
  BY DEF SearchSound, NewSearch, Searches
<1> DEFINE Sound(k) == SearchSound(f[k]) /\ f[k].busy = {}
           None(k) == f[k] = NewSearch /\ \A i \in ids : i > k
           Some(k) == \E m \in ids : /\ m <= k /\ f[k].next[root] = m + 1
                                     /\ \A i \in ids : i <= k => i <= m
           Fine(k) == f[k].fine /\ (None(k) \/ Some(k))
           S == {k \in Nat : k <= last => Sound(k) /\ (FitForSearch(root, last) => Fine(k))}
<1>8. 0 \in S
  <2>1. \A i \in ids : i > 0
    BY <1>1 DEF ids
  <2>2. QED
    BY <1>4, <1>7, <2>1
<1>9. ASSUME NEW k \in Nat, k \in S PROVE k + 1 \in S
  <2>1. SUFFICES ASSUME k + 1 <= last
                 PROVE  Sound(k + 1) /\ (FitForSearch(root, last) => Fine(k + 1))
    OBVIOUS
  <2>2. /\ k + 1 \in 1..last /\ (k + 1) - 1 = k /\ k + 1 \in 1..Len(tasks)
        /\ k + 1 \in Nat /\ Sound(k) /\ (FitForSearch(root, last) => Fine(k))
    BY <1>1, <1>9, <2>1
  <2> HIDE DEF S
  <2>3. f[k + 1] = IF k + 1 \in ids THEN At(ValidateTaskFenceDeps, f[k], root, k + 1) ELSE f[k]
    BY <1>4, <2>2
  <2>4. \A i \in ids : i \in Nat /\ i <= last
    BY <1>1 DEF ids
  <2>5. CASE k + 1 \notin ids
    <3>1. f[k + 1] = f[k]
      BY <2>3, <2>5
    <3>2. \A i \in ids : (i > k => i > k + 1) /\ (i <= k + 1 => i <= k)
      BY <2>4, <2>5
    <3>3. None(k) => None(k + 1)
      BY <3>1, <3>2
    <3>4. Some(k) => Some(k + 1)
      <4>1. SUFFICES ASSUME NEW m \in ids, m <= k, f[k].next[root] = m + 1,
                            \A i \in ids : i <= k => i <= m
                     PROVE  Some(k + 1)
        OBVIOUS
      <4>2. m <= k + 1
        BY <2>4, <4>1
      <4>3. QED
        BY <3>1, <3>2, <4>1, <4>2
    <3> HIDE DEF None, Some
    <3>5. QED
      BY <2>2, <3>1, <3>3, <3>4
  <2>6. CASE k + 1 \in ids
    <3> DEFINE v == f[k]
               r == At(ValidateTaskFenceDeps, v, root, k + 1)
    <3>1. SearchSound(v) /\ v \in Searches /\ root \notin v.busy /\ v.busy = {}
      BY <2>2 DEF SearchSound
    <3>2. f[k + 1] = r
      BY <2>3, <2>6
    <3> HIDE DEF v, r
    <3>3. MaxTasks > 0
      <4>1. tasks[k + 1].order \in 1..MaxTasks
        BY <2>2, TaskType
      <4>2. QED
        BY <4>1, Constants
    <3>4. /\ GoneOn(v, r) /\ r.next[root] = (k + 1) + 1
          /\ v.fine /\ NextOf(v, root) = k + 1 => r.fine
      BY <1>6, <2>2, <3>1, <3>3 DEF LevelSound, r
    <3>5. Sound(k + 1)
      BY <3>1, <3>2, <3>4 DEF GoneOn
    <3>6. ASSUME FitForSearch(root, last) PROVE Fine(k + 1)
      <4>1. v.fine /\ (None(k) \/ Some(k))
        BY <2>2, <3>6 DEF v
      <4>2. ASSUME None(k) PROVE NextOf(v, root) = k + 1
        <5> DEFINE fresh == {i \in 1..Len(tasks) : ~ tasks[i].validated} \cup {Len(tasks) + 1}
        <5>1. v.next[root] = 0
          BY <1>7, <4>2 DEF v
        <5>2. NextOf(v, root) = Min(fresh)
          BY <3>1, <5>1, StateFound DEF NextOf
        <5>3. fresh \subseteq Nat /\ k + 1 \in fresh
          BY <1>1, <1>2, <2>2, <2>6
        <5>4. ASSUME NEW y \in fresh, y < k + 1 PROVE FALSE
          <6>1. y \in Nat /\ y \in 1..last /\ ~ tasks[y].validated
            BY <1>1, <2>1, <5>4
          <6>2. y \in ids
            BY <1>2, <6>1
          <6>3. y > k
            BY <4>2, <6>2
          <6>4. QED
            BY <5>4, <6>1, <6>3
        <5> HIDE DEF fresh
        <5>5. Min(fresh) \in fresh /\ Min(fresh) <= k + 1
          BY <5>3, MinLemma
        <5>6. Min(fresh) \in Nat /\ ~ (Min(fresh) < k + 1)
          BY <5>3, <5>4, <5>5
        <5>7. QED
          BY <2>2, <5>2, <5>5, <5>6
      <4>3. ASSUME Some(k) PROVE NextOf(v, root) = k + 1
        <5>1. PICK m \in ids : /\ m <= k /\ v.next[root] = m + 1
                               /\ \A i \in ids : i <= k => i <= m
          BY <4>3 DEF v
        <5>2. m \in 1..last /\ m \in Nat /\ ~ tasks[m].validated
          BY <1>2, <2>4, <5>1
        <5>3. ~ tasks[k + 1].validated
          BY <1>2, <2>2, <2>6
        <5>4. m = k
          <6>1. SUFFICES ASSUME m < k PROVE FALSE
            BY <5>1, <5>2
          <6>2. /\ m + 1 \in 1..last /\ m < m + 1 /\ m + 1 < k + 1
                /\ m + 1 \in Nat /\ m + 1 <= k
            BY <1>1, <2>1, <5>2, <6>1
          <6>3. ~ tasks[m + 1].validated
            BY <2>2, <3>6, <5>2, <5>3, <6>2 DEF FitForSearch
          <6>4. m + 1 \in ids
            BY <1>2, <6>2, <6>3
          <6>5. m + 1 <= m
            BY <5>1, <6>2, <6>4
          <6>6. QED
            BY <5>2, <6>5
        <5>5. v.next[root] = k + 1 /\ v.next[root] # 0
          BY <5>1, <5>4
        <5>6. GetSequenceValidateState(v, root) = v
          BY <3>1, <5>5, StateFound
        <5>7. QED
          BY <5>5, <5>6 DEF NextOf
      <4>4. r.fine
        BY <3>4, <4>1, <4>2, <4>3
      <4>5. Some(k + 1)
        BY <2>4, <2>6, <3>2, <3>4
      <4>6. QED
        BY <3>2, <4>4, <4>5
    <3>7. QED
      BY <3>5, <3>6
  <2>7. QED
    BY <2>5, <2>6
<1>10. last \in S
  <2> HIDE DEF S
  <2>1. QED
    BY <1>1, <1>8, <1>9, Induct
<1>11. QED
  BY <1>1, <1>5, <1>10

-----------------------------------------------------------------------------
(***************************************************************************)
(* Validated tasks come first                                              *)
(***************************************************************************)
LEMMA FirstStaysKeeps ==
    ASSUME NEW changed, FirstStays(changed), NEW s \in Seqs \ changed, ValidatedFirst(s)
    PROVE  ValidatedFirst(s)'
<1> DEFINE p == graph'[s].tasks
           q == graph[s].tasks
<1>1. SameValidation(p, q) /\ order'[s].current = order[s].current
      /\ order'[s].paused = order[s].paused
  BY DEF FirstStays
<1>2. \A i, j \in 1..Len(q) : i < j /\ q[j].validated /\ ~ q[i].validated =>
          i = 1 /\ order[s].paused /\ q[1].order = order[s].current
  BY DEF ValidatedFirst
<1> HIDE DEF p, q
<1>3. \A i, j \in 1..Len(p) : i < j /\ p[j].validated /\ ~ p[i].validated =>
          i = 1 /\ order'[s].paused /\ p[1].order = order'[s].current
  BY <1>1, <1>2 DEF SameValidation
<1>4. QED
  BY <1>3 DEF ValidatedFirst, p

LEMMA FirstUntouched ==
    ASSUME \A s \in Seqs : graph'[s].tasks = graph[s].tasks,
           \A s \in Seqs : /\ order'[s].current = order[s].current
                            /\ order'[s].paused = order[s].paused
    PROVE  FirstStays({})
BY DEF FirstStays, SameValidation

LEMMA TimerValidation ==
    ASSUME NEW q \in Sequences
    PROVE  SameValidation(UpdateValidationTimer(q).tasks, q.tasks)
<1> DEFINE ts == [i \in 1..Len(q.tasks) |-> [q.tasks[i] EXCEPT !.due = TRUE]]
           u == [q EXCEPT !.timer = TRUE, !.tasks = ts]
<1>1. q.tasks \in Seq(Tasks) /\ Len(q.tasks) \in Nat
  BY DEF Sequences
<1>2. \A i \in 1..Len(q.tasks) : q.tasks[i] \in Tasks
  BY <1>1
<1>3. \A i \in 1..Len(q.tasks) :
          /\ ts[i] \in Tasks /\ ts[i].order = q.tasks[i].order
          /\ ts[i].validated = q.tasks[i].validated
  BY <1>2 DEF Tasks
<1>4. Len(ts) = Len(q.tasks)
  <2>1. ts \in [1..Len(q.tasks) -> Tasks]
    BY <1>3
  <2>2. QED
    BY <1>1, <2>1, FunctionSeq
<1>5. SameValidation(ts, q.tasks) /\ SameValidation(q.tasks, q.tasks)
  BY <1>3, <1>4 DEF SameValidation
<1>6. UpdateValidationTimer(q) = q \/ UpdateValidationTimer(q) = u
  BY DEF UpdateValidationTimer
<1> HIDE DEF ts
<1>7. u.tasks = ts
  BY DEF Sequences
<1>8. QED
  BY <1>5, <1>6, <1>7

LEMMA AddedValidation ==
    ASSUME GpuTypes, NEW s \in Seqs, NEW g \in [Seqs -> Sequences], TaskAdded(s, g)
    PROVE  \A x \in Seqs : SameValidation(graph'[x].tasks, g[x].tasks)
<1> DEFINE q == IF Len(g[s].tasks) = 1 THEN UpdateValidationTimer(g[s]) ELSE g[s]
<1>1. graph' = [g EXCEPT ![s] = q]
  BY DEF TaskAdded
<1>2. \A x \in Seqs : SameValidation(g[x].tasks, g[x].tasks)
  BY DEF SameValidation
<1>3. SameValidation(q.tasks, g[s].tasks)
  BY <1>2, TimerValidation
<1> HIDE DEF q
<1>4. QED
  BY <1>1, <1>2, <1>3

LEMMA AddTaskFirst ==
    ASSUME GpuSound, AddTask, \A x \in Seqs : ValidatedFirst(x)
    PROVE  \A x \in Seqs : ValidatedFirst(x)'
<1>1. /\ GpuTypes /\ order \in [Seqs -> OrderDatas] /\ graph \in [Seqs -> Sequences]
  BY DEF GpuSound, GpuTypes
<1> DEFINE num == last_order + 1
           task(s, ws) == [order |-> num, release |-> Max(CountsOf(s)) + 1,
                           waits |-> ws, validated |-> FALSE, due |-> FALSE]
           g(s, ws) == [graph EXCEPT ![s].tasks = Append(@, task(s, ws))]
           valid(ws) == {k \in ws : Waits(num, k)}
           of(ws, x) == {k \in valid(ws) : k[1] = x}
           guarded(ws, x) == IF of(ws, x) = {} THEN order[x]
                             ELSE GuardWait(order[x], x, Max({k[2] : k \in of(ws, x)}), num,
                                            graph_validation)
           Queued(s, ws) ==
             /\ order' = [x \in Seqs |-> IF x = s THEN GenerateUnprocessedOrderNumber(order[s], num)
                                         ELSE guarded(ws, x)]
             /\ TaskAdded(s, g(s, ws)) \/ graph' = g(s, ws)
<1>2. PICK s \in Seqs : \E ws \in {{}} \cup {{k} : k \in Tokens(s)} : Queued(s, ws)
  BY DEF AddTask, CountsOf
<1>3. PICK ws \in {{}} \cup {{k} : k \in Tokens(s)} : Queued(s, ws)
  BY <1>2
<1> DEFINE new == task(s, ws)
           q == [graph[s] EXCEPT !.tasks = Append(@, new)]
           h == g(s, ws)
<1>4. /\ graph[s] \in Sequences /\ graph[s].tasks \in Seq(Tasks)
  BY <1>1 DEF Sequences
<1>5. new \in Tasks /\ ~ new.validated
  <2>1. ws \subseteq AllTokens
    BY DEF Tokens, AllTokens
  <2>2. num \in 1..MaxTasks /\ num \in Nat /\ MaxTasks \in Nat
    BY <1>1, Constants DEF AddTask, GpuTypes
  <2>3. Max(CountsOf(s)) + 1 \in 1..num
    BY CountsLemma
  <2>4. Max(CountsOf(s)) + 1 \in 0..MaxTasks
    BY <2>2, <2>3
  <2>5. QED
    BY <2>1, <2>2, <2>4 DEF Tasks
<1> HIDE DEF task
<1>6. q \in Sequences /\ q.tasks = Append(graph[s].tasks, new)
  <2>1. Append(graph[s].tasks, new) \in Seq(Tasks)
    BY <1>4, <1>5
  <2>2. QED
    BY <1>4, <2>1 DEF Sequences
<1>7. h = [graph EXCEPT ![s] = q]
  OBVIOUS
<1> HIDE DEF q, g
<1>8. h \in [Seqs -> Sequences] /\ \A x \in Seqs : h[x] = IF x = s THEN q ELSE graph[x]
  BY <1>1, <1>6, <1>7
<1>9. \A x \in Seqs : SameValidation(graph'[x].tasks, h[x].tasks)
  <2>1. \A x \in Seqs : SameValidation(h[x].tasks, h[x].tasks)
    BY DEF SameValidation
  <2>2. QED
    BY <1>1, <1>3, <1>8, <2>1, AddedValidation
<1>10. ASSUME NEW x \in Seqs
       PROVE  order'[x].current = order[x].current /\ order'[x].paused = order[x].paused
  BY <1>1, <1>3 DEF OrderDatas, GenerateUnprocessedOrderNumber, GuardWait
<1>11. FirstStays({s})
  BY <1>8, <1>9, <1>10 DEF FirstStays
<1>12. ValidatedFirst(s)'
  <2> DEFINE p == graph'[s].tasks
             b == graph[s].tasks
  <2>1. Len(b) \in Nat /\ SameValidation(p, Append(b, new))
    <3>1. h[s].tasks = Append(b, new)
      BY <1>6, <1>8
    <3>2. Len(b) \in Nat
      BY <1>4
    <3> HIDE DEF new, h
    <3>3. QED
      BY <1>9, <3>1, <3>2
  <2>2. /\ Len(Append(b, new)) = Len(b) + 1 /\ Append(b, new)[Len(b) + 1] = new
        /\ \A i \in 1..Len(b) : Append(b, new)[i] = b[i]
    BY <1>4, <1>5, SeqAppend
  <2>3. \A i, j \in 1..Len(b) : i < j /\ b[j].validated /\ ~ b[i].validated =>
            i = 1 /\ order[s].paused /\ b[1].order = order[s].current
    BY DEF ValidatedFirst
  <2> HIDE DEF p, b, new
  <2>4. /\ Len(p) = Len(b) + 1 /\ ~ p[Len(b) + 1].validated
        /\ \A i \in 1..Len(b) : p[i].validated = b[i].validated /\ p[i].order = b[i].order
    BY <1>5, <2>1, <2>2 DEF SameValidation
  <2>5. \A i, j \in 1..Len(p) : i < j /\ p[j].validated /\ ~ p[i].validated =>
            i \in 1..Len(b) /\ j \in 1..Len(b)
    BY <2>1, <2>4
  <2>6. \A i, j \in 1..Len(p) : i < j /\ p[j].validated /\ ~ p[i].validated =>
            i = 1 /\ order'[s].paused /\ p[1].order = order'[s].current
    BY <1>10, <2>3, <2>4, <2>5
  <2>7. QED
    BY <2>6 DEF ValidatedFirst, p
<1>13. QED
  BY <1>11, <1>12, FirstStaysKeeps

LEMMA StoreWaitFirst ==
    ASSUME GpuSound, StoreWait
    PROVE  FirstStays({})
<1>1. /\ GpuTypes /\ graph \in [Seqs -> Sequences] /\ adding \in Seq(Additions)
      /\ order \in [Seqs -> OrderDatas]
  BY DEF GpuSound, GpuTypes
<1>2. PICK i \in 1..Len(adding) :
          /\ TaskAdded(adding[i].seq,
                       [graph EXCEPT ![adding[i].seq].waits = @ \cup
                          {[client |-> adding[i].token[1], count |-> adding[i].token[2],
                            order |-> adding[i].order]}])
          /\ order' = order
  BY DEF StoreWait
<1> DEFINE a == adding[i]
           w == [client |-> a.token[1], count |-> a.token[2], order |-> a.order]
           g == [graph EXCEPT ![a.seq].waits = @ \cup {w}]
<1>3. a \in Additions
  BY <1>1
<1> HIDE DEF a
<1>4. a.seq \in Seqs /\ w \in Fences
  BY <1>3 DEF Additions, AllTokens, Fences
<1>5. TaskAdded(a.seq, g)
  BY <1>2 DEF a
<1> HIDE DEF w
<1>6. g \in [Seqs -> Sequences] /\ \A x \in Seqs : g[x].tasks = graph[x].tasks
  <2>1. [graph[a.seq] EXCEPT !.waits = @ \cup {w}] \in Sequences
    <3>1. graph[a.seq] \in Sequences
      BY <1>1, <1>4
    <3>2. graph[a.seq].waits \cup {w} \in SUBSET Fences
      BY <1>4, <3>1 DEF Sequences
    <3> HIDE DEF w
    <3>3. QED
      BY <3>1, <3>2 DEF Sequences
  <2>2. QED
    BY <1>1, <1>4, <2>1 DEF Sequences
<1> HIDE DEF g
<1>7. \A x \in Seqs : SameValidation(graph'[x].tasks, g[x].tasks)
  BY <1>1, <1>4, <1>5, <1>6, AddedValidation
<1>8. QED
  BY <1>2, <1>6, <1>7 DEF FirstStays

LEMMA FinishTaskFirst ==
    ASSUME GpuSound, NEW t \in Threads, FinishTask(t)
    PROVE  FirstStays({})
<1> DEFINE s == thread[t].seq
           base == [graph[s] EXCEPT !.running = FALSE, !.current = 0]
           q == UpdateValidationTimer(base)
<1>1. /\ GpuTypes /\ graph \in [Seqs -> Sequences]
      /\ order' = order
      /\ graph' = IF ~ graph[s].sched THEN graph ELSE [graph EXCEPT ![s] = q]
  BY DEF GpuSound, GpuTypes, FinishTask
<1>2. s \in Seqs
  BY NowLemma DEF FinishTask
<1>3. base \in Sequences /\ base.tasks = graph[s].tasks
  <2>1. graph[s] \in Sequences /\ 0 \in 0..MaxTasks
    BY <1>1, <1>2, Constants
  <2> HIDE DEF s
  <2>2. QED
    BY <2>1 DEF Sequences
<1>4. SameValidation(q.tasks, graph[s].tasks)
  <2> HIDE DEF base
  <2>1. QED
    BY <1>3, TimerValidation
<1>5. \A x \in Seqs : SameValidation(graph[x].tasks, graph[x].tasks)
  BY DEF SameValidation
<1> HIDE DEF q
<1>6. \A x \in Seqs : SameValidation(graph'[x].tasks, graph[x].tasks)
  BY <1>1, <1>2, <1>4, <1>5
<1>7. QED
  BY <1>1, <1>6 DEF FirstStays

LEMMA ExecuteFirst ==
    ASSUME GpuSound, NEW t \in Threads, ExecuteSequence(t), NEW x \in Seqs, ValidatedFirst(x)
    PROVE  ValidatedFirst(x)'
<1> DEFINE s == thread[t].seq
           fine == graph[s].sched /\ graph[s].enabled /\ graph[s].tasks # << >>
<1>1. /\ GpuTypes /\ graph \in [Seqs -> Sequences] /\ order \in [Seqs -> OrderDatas]
  BY DEF GpuSound, GpuTypes
<1>2. s \in Seqs
  BY NowLemma DEF ExecuteSequence
<1>3. CASE ~ fine
  <2>1. graph' = graph /\ order' = order
    BY <1>3 DEF ExecuteSequence
  <2>2. QED
    BY <2>1 DEF ValidatedFirst
<1>4. CASE fine
  <2>1. /\ graph' = [graph EXCEPT ![s].tasks = Tail(@), ![s].running = TRUE,
                                  ![s].current = Front(graph, s).release]
        /\ order' = [order EXCEPT ![s] = BeginProcessingOrderNumber(@, Front(graph, s).order)]
    BY <1>4 DEF ExecuteSequence
  <2>2. CASE x # s
    <3>1. graph'[x] = graph[x] /\ order'[x] = order[x]
      BY <1>1, <2>1, <2>2
    <3>2. QED
      BY <3>1 DEF ValidatedFirst
  <2>3. CASE x = s
    <3> DEFINE p == graph'[x].tasks
               q == graph[x].tasks
    <3>1. q \in Seq(Tasks) /\ q # << >>
      BY <1>1, <1>4, <2>3 DEF Sequences
    <3>2. p = Tail(q)
      BY <1>1, <1>2, <2>1, <2>3 DEF Sequences
    <3>3. \A i, j \in 1..Len(q) : i < j /\ q[j].validated /\ ~ q[i].validated => i = 1
      BY DEF ValidatedFirst
    <3> HIDE DEF p, q
    <3>4. /\ Len(p) \in Nat
          /\ \A i \in 1..Len(p) : i + 1 \in 1..Len(q) /\ p[i] = q[i + 1]
      BY <3>1, <3>2, SeqTail
    <3>5. ASSUME NEW i \in 1..Len(p), NEW j \in 1..Len(p), i < j, p[j].validated,
                 ~ p[i].validated
          PROVE  FALSE
      <4>1. /\ i + 1 \in 1..Len(q) /\ j + 1 \in 1..Len(q) /\ i + 1 < j + 1
            /\ q[j + 1].validated /\ ~ q[i + 1].validated
        BY <3>4, <3>5
      <4>2. i + 1 = 1
        BY <3>3, <4>1
      <4>3. QED
        BY <4>2
    <3>6. QED
      BY <3>5 DEF ValidatedFirst, p
  <2>4. QED
    BY <2>2, <2>3, SMTT(40)
<1>5. QED
  BY <1>3, <1>4

LEMMA ContinueFirst ==
    ASSUME GpuSound, NEW t \in Threads, TaskContinues(t), NEW x \in Seqs, ValidatedFirst(x)
    PROVE  ValidatedFirst(x)'
<1> DEFINE s == thread[t].seq
           task == [order |-> order[s].current, release |-> graph[s].current, waits |-> {},
                    validated |-> FALSE, due |-> FALSE]
<1>1. /\ GpuTypes /\ graph \in [Seqs -> Sequences] /\ order \in [Seqs -> OrderDatas]
  BY DEF GpuSound, GpuTypes
<1>2. s \in Seqs
  BY NowLemma DEF TaskContinues
<1>3. /\ graph' = [graph EXCEPT ![s].tasks = <<task>> \o @, ![s].current = 0]
      /\ order' = [order EXCEPT ![s] = PauseProcessingOrderNumber(@)]
      /\ ~ order[s].paused
  BY DEF TaskContinues, IsProcessingOrderNumber
<1> HIDE DEF s
<1>4. CASE x # s
  <2>1. graph'[x] = graph[x] /\ order'[x] = order[x]
    BY <1>1, <1>3, <1>4
  <2>2. QED
    BY <2>1 DEF ValidatedFirst
<1>5. CASE x = s
  <2> DEFINE p == graph'[x].tasks
             q == graph[x].tasks
  <2>1. q \in Seq(Tasks)
    BY <1>1 DEF Sequences
  <2>2. task.order = order[x].current
    BY <1>5
  <2>3. task \in Tasks
    <3>1. graph[s].current \in 0..MaxTasks /\ {} \subseteq AllTokens
      BY <1>1, <1>2 DEF Sequences
    <3>2. order[s].current \in 1..MaxTasks
      <4>1. IsProcessingOrderNumber(order[s]) /\ order[s] \in OrderDatas
        BY <1>1, <1>2 DEF TaskContinues, s
      <4>2. QED
        BY <4>1, Constants DEF IsProcessingOrderNumber, OrderDatas
    <3>3. QED
      BY <3>1, <3>2 DEF Tasks
  <2> HIDE DEF task
  <2>4. p = <<task>> \o q
    BY <1>1, <1>2, <1>3, <1>5 DEF Sequences
  <2>5. order'[x].paused /\ order'[x].current = order[x].current
    BY <1>1, <1>2, <1>3, <1>5 DEF PauseProcessingOrderNumber, OrderDatas
  <2>6. \A i, j \in 1..Len(q) : ~ (i < j /\ q[j].validated /\ ~ q[i].validated)
    BY <1>3, <1>5 DEF ValidatedFirst
  <2> HIDE DEF p, q
  <2>7. /\ Len(q) \in Nat /\ Len(p) = Len(q) + 1 /\ p[1] = task
        /\ \A i \in 2..(Len(q) + 1) : i - 1 \in 1..Len(q) /\ p[i] = q[i - 1]
    BY <2>1, <2>3, <2>4, SeqCons
  <2>8. ASSUME NEW i \in 1..Len(p), NEW j \in 1..Len(p), i < j, p[j].validated,
               ~ p[i].validated
        PROVE  i = 1
    <3>1. SUFFICES ASSUME i # 1 PROVE FALSE
      OBVIOUS
    <3>2. i \in 2..(Len(q) + 1) /\ j \in 2..(Len(q) + 1) /\ i - 1 < j - 1
      BY <2>7, <2>8, <3>1
    <3>3. /\ i - 1 \in 1..Len(q) /\ j - 1 \in 1..Len(q)
          /\ q[j - 1].validated /\ ~ q[i - 1].validated
      BY <2>7, <2>8, <3>2
    <3>4. QED
      BY <2>6, <3>2, <3>3
  <2>9. QED
    BY <2>2, <2>5, <2>7, <2>8 DEF ValidatedFirst, p
<1>6. QED
  BY <1>4, <1>5

\* What the timer validates is what the search has come to, from the front on.
LEMMA TimerFirst ==
    ASSUME GpuSound, NEW s \in Seqs, ValidationTimer(s), NEW x \in Seqs, ValidatedFirst(x)
    PROVE  ValidatedFirst(x)'
<1> DEFINE ts(v, y) == [i \in 1..Len(graph[y].tasks) |->
                           [graph[y].tasks[i] EXCEPT !.validated = @ \/ v.next[y] > i,
                                                     !.due = @ /\ y # s]]
           new(v, y) == [graph[y] EXCEPT !.timer = @ /\ y # s, !.tasks = ts(v, y)]
<1>1. GpuTypes /\ graph[x] \in Sequences
  BY DEF GpuSound, GpuTypes
<1>2. PICK v \in {Search(s, last) : last \in OldEnough(s)} : graph' = [y \in Seqs |-> new(v, y)]
  BY Zenon DEF ValidationTimer
<1>3. order' = order
  BY DEF ValidationTimer
<1> DEFINE q == graph[x].tasks
           p == ts(v, x)
<1>4. q \in Seq(Tasks) /\ Len(q) \in Nat
  BY <1>1 DEF Sequences
<1>5. v.next[x] \in Nat
  <2>1. PICK last \in OldEnough(s) : v = Search(s, last)
    OBVIOUS
  <2>2. last \in 0..Len(graph[s].tasks)
    BY DEF OldEnough
  <2>3. SearchSound(v)
    BY <1>1, <2>1, <2>2, SearchResult
  <2>4. QED
    BY <2>3 DEF SearchSound, Searches
<1> HIDE DEF q
<1>6. \A i \in 1..Len(q) : q[i] \in Tasks
  BY <1>4
<1>7. ASSUME NEW i \in 1..Len(q)
      PROVE  /\ p[i] \in Tasks /\ p[i].order = q[i].order
             /\ p[i].validated = (q[i].validated \/ v.next[x] > i)
  <2> DEFINE b == q[i].validated \/ v.next[x] > i
             d == q[i].due /\ x # s
  <2>1. b \in BOOLEAN /\ d \in BOOLEAN /\ q[i] \in Tasks
    BY <1>6 DEF Tasks
  <2>2. p[i] = [q[i] EXCEPT !.validated = b, !.due = d]
    BY DEF q
  <2> HIDE DEF b, d, ts
  <2>3. p[i] \in Tasks /\ p[i].order = q[i].order /\ p[i].validated = b
    BY <2>1, <2>2 DEF Tasks
  <2>4. QED
    BY <2>3 DEF b
<1>8. p = [i \in 1..Len(q) |-> p[i]]
  BY DEF q
<1> HIDE DEF ts
<1>9. Len(p) = Len(q)
  <2>1. p \in [1..Len(q) -> Tasks]
    BY <1>7, <1>8
  <2>2. QED
    BY <1>4, <2>1, FunctionSeq
<1>10. \A i, j \in 1..Len(q) : i < j /\ q[j].validated /\ ~ q[i].validated =>
           i = 1 /\ order[x].paused /\ q[1].order = order[x].current
  BY DEF ValidatedFirst, q
<1>11. ASSUME NEW i \in 1..Len(p), NEW j \in 1..Len(p), i < j, p[j].validated, ~ p[i].validated
       PROVE  i = 1 /\ order[x].paused /\ p[1].order = order[x].current
  <2>1. i \in 1..Len(q) /\ j \in 1..Len(q)
    BY <1>9
  <2>2. ~ q[i].validated /\ ~ (v.next[x] > i) /\ (q[j].validated \/ v.next[x] > j)
    BY <1>7, <1>11, <2>1
  <2>3. ~ (v.next[x] > j)
    BY <1>4, <1>5, <1>11, <2>1, <2>2
  <2>4. i = 1 /\ order[x].paused /\ q[1].order = order[x].current
    BY <1>10, <1>11, <2>1, <2>2, <2>3
  <2>5. QED
    BY <1>7, <2>1, <2>4
<1>12. graph'[x].tasks = p
  BY <1>1, <1>2 DEF Sequences
<1> HIDE DEF p
<1>13. QED
  BY <1>3, <1>11, <1>12 DEF ValidatedFirst

LEMMA CallbackFirst ==
    ASSUME GpuTypes, NEW r, NEW th, RunCallback(r, th), order' = order
    PROVE  FirstStays({})
<1>1. graph \in [Seqs -> Sequences]
  BY DEF GpuTypes
<1>2. \/ graph' = graph
      \/ graph' = [graph EXCEPT ![r.seq].waits =
                       @ \ {[client |-> r.client, count |-> r.count, order |-> r.id]}]
  BY DEF RunCallback
<1>3. \A s \in Seqs : graph'[s].tasks = graph[s].tasks
  BY <1>1, <1>2 DEF Sequences
<1>4. QED
  BY <1>3, FirstUntouched

LEMMA EnabledFirst ==
    ASSUME GpuTypes, NEW s, NEW enabled, SetEnabled(s, enabled)
    PROVE  FirstStays({})
<1>1. /\ graph \in [Seqs -> Sequences] /\ order' = order
      /\ graph' = [graph EXCEPT ![s].enabled = enabled]
  BY DEF GpuTypes, SetEnabled
<1>2. \A x \in Seqs : graph'[x].tasks = graph[x].tasks
  BY <1>1 DEF Sequences
<1>3. QED
  BY <1>1, <1>2, FirstUntouched

LEMMA ThreadFirst ==
    ASSUME GpuSound, NEW t \in Threads, RunThread(t) \/ TaskActs(t),
           \A x \in Seqs : ValidatedFirst(x)
    PROVE  \A x \in Seqs : ValidatedFirst(x)'
<1>1. GpuTypes /\ order \in [Seqs -> OrderDatas]
  BY DEF GpuSound, GpuTypes
<1>2. ASSUME FirstStays({}) PROVE \A x \in Seqs : ValidatedFirst(x)'
  BY <1>2, FirstStaysKeeps
<1>3. ASSUME UNCHANGED <<graph, order>> PROVE FirstStays({})
  BY <1>3, FirstUntouched
<1>4. CASE RunNextTask(t) \/ TaskReturns(t) \/ EnsureWaitReleased(t) \/ RunAgain(t)
           \/ ForceRelease(t) \/ TaskReleases(t)
  <2>1. UNCHANGED <<graph, order>>
    BY <1>4 DEF RunNextTask, TaskReturns, EnsureWaitReleased, RunAgain, ForceRelease, TaskReleases
  <2>2. QED
    BY <1>2, <1>3, <2>1, SMTT(40)
<1>5. CASE ExecuteSequence(t)
  BY <1>5, ExecuteFirst
<1>6. CASE FinishProcessing(t)
  <2> DEFINE o == FinishOrderNumber(order[thread[t].seq], thread[t].order)
             overdue == IF graph_validation THEN {} ELSE Overdue(o)
             q == [o EXCEPT !.fences = @ \ overdue]
  <2>1. graph' = graph /\ order' = [order EXCEPT ![thread[t].seq] = q]
    BY <1>6 DEF FinishProcessing
  <2>2. thread[t].seq \in Seqs
    BY <1>6, NowLemma DEF FinishProcessing
  <2>3. order[thread[t].seq] \in OrderDatas
    BY <1>1, <2>2
  <2> HIDE DEF overdue
  <2>4. /\ q.current = order[thread[t].seq].current
        /\ q.paused = order[thread[t].seq].paused
    BY <2>3 DEF FinishOrderNumber, OrderDatas
  <2> HIDE DEF q
  <2>5. \A x \in Seqs : order'[x].current = order[x].current /\ order'[x].paused = order[x].paused
    BY <1>1, <2>1, <2>4
  <2>6. FirstStays({})
    BY <2>1, <2>5, FirstUntouched
  <2>7. QED
    BY <1>2, <2>6
<1>7. CASE ThreadCallback(t)
  <2>1. FirstStays({})
    BY <1>1, <1>7, CallbackFirst DEF ThreadCallback
  <2>2. QED
    BY <1>2, <2>1
<1>8. CASE FinishTask(t)
  BY <1>2, <1>8, FinishTaskFirst
<1>9. CASE TaskContinues(t)
  BY <1>9, ContinueFirst
<1>10. CASE DisableSequence(t)
  <2>1. FirstStays({})
    BY <1>1, <1>10, EnabledFirst DEF DisableSequence
  <2>2. QED
    BY <1>2, <2>1
<1>11. QED
  BY <1>4, <1>5, <1>6, <1>7, <1>8, <1>9, <1>10 DEF RunThread, TaskActs

LEMMA FinishDestroyFirst ==
    ASSUME GpuSound, FinishDestroy, \A x \in Seqs : ValidatedFirst(x)
    PROVE  \A x \in Seqs : ValidatedFirst(x)'
<1>1. GpuTypes /\ order \in [Seqs -> OrderDatas] /\ graph \in [Seqs -> Sequences]
  BY DEF GpuSound, GpuTypes
<1>2. ASSUME FirstStays({}) PROVE \A x \in Seqs : ValidatedFirst(x)'
  BY <1>2, FirstStaysKeeps
<1>3. CASE RemoveSequence
  <2>1. order' = order /\ graph' = [graph EXCEPT ![Doomed].map = FALSE, ![Doomed].timer = FALSE]
    BY <1>3 DEF RemoveSequence
  <2>2. \A x \in Seqs : graph'[x].tasks = graph[x].tasks
    BY <1>1, <2>1 DEF Sequences
  <2>3. FirstStays({})
    BY <2>1, <2>2, FirstUntouched
  <2>4. QED
    BY <1>2, <2>3
<1>4. CASE DestroyClient \/ ClientDestroyed
  <2>1. graph' = graph /\ order' = order
    BY <1>4 DEF DestroyClient, ClientDestroyed
  <2>2. FirstStays({})
    BY <2>1, FirstUntouched
  <2>3. QED
    BY <1>2, <2>2
<1>5. CASE DestroyCallback
  <2>1. FirstStays({})
    BY <1>1, <1>5, CallbackFirst DEF DestroyCallback
  <2>2. QED
    BY <1>2, <2>1
<1>6. CASE DestroyOrder
  <2>1. graph' = graph /\ order' = [order EXCEPT ![Doomed] = DestroyOrderData(@)]
    BY <1>6 DEF DestroyOrder
  <2>2. \A x \in Seqs : order'[x].current = order[x].current /\ order'[x].paused = order[x].paused
    BY <1>1, <2>1 DEF DestroyOrderData, OrderDatas
  <2>3. FirstStays({})
    BY <2>1, <2>2, FirstUntouched
  <2>4. QED
    BY <1>2, <2>3
<1>7. CASE DeleteSequence
  <2>1. order' = order /\ graph' = [graph EXCEPT ![Doomed].tasks = << >>, ![Doomed].waits = {}]
    BY <1>7 DEF DeleteSequence
  <2>2. ASSUME NEW x \in Seqs PROVE ValidatedFirst(x)'
    <3>1. CASE graph'[x] = graph[x]
      BY <2>1, <3>1 DEF ValidatedFirst
    <3>2. CASE graph'[x].tasks = << >>
      <4>1. 1..Len(<< >>) = {}
        OBVIOUS
      <4>2. QED
        BY <3>2, <4>1 DEF ValidatedFirst
    <3>3. QED
      BY <1>1, <2>1, <3>1, <3>2 DEF Sequences
  <2>3. QED
    BY <2>2
<1>8. QED
  BY <1>3, <1>4, <1>5, <1>6, <1>7 DEF FinishDestroy

LEMMA FirstKept ==
    ASSUME GpuSound, [GpuNext]_gpuVars, \A x \in Seqs : ValidatedFirst(x)
    PROVE  \A x \in Seqs : ValidatedFirst(x)'
<1>1. GpuTypes /\ graph \in [Seqs -> Sequences]
  BY DEF GpuSound, GpuTypes
<1>2. ASSUME FirstStays({}) PROVE \A x \in Seqs : ValidatedFirst(x)'
  BY <1>2, FirstStaysKeeps
<1>3. ASSUME UNCHANGED <<graph, order>> PROVE FirstStays({})
  BY <1>3, FirstUntouched
<1>4. CASE UNCHANGED gpuVars
  BY <1>2, <1>3, <1>4 DEF gpuVars
<1>5. CASE AddTask
  BY <1>5, AddTaskFirst
<1>6. CASE StoreWait
  BY <1>2, <1>6, StoreWaitFirst
<1>7. CASE FinishDestroy
  BY <1>7, FinishDestroyFirst
<1>8. ASSUME NEW t \in Threads, RunThread(t) \/ TaskActs(t)
      PROVE  \A x \in Seqs : ValidatedFirst(x)'
  BY <1>8, ThreadFirst
<1>9. ASSUME NEW s \in Seqs, EnableSequence(s) PROVE FirstStays({})
  BY <1>1, <1>9, EnabledFirst DEF EnableSequence
<1>10. ASSUME NEW s \in Seqs, DestroySequence(s) PROVE FirstStays({})
  <2>1. order' = order /\ graph' = [graph EXCEPT ![s].sched = FALSE]
    BY <1>10 DEF DestroySequence
  <2>2. \A x \in Seqs : graph'[x].tasks = graph[x].tasks
    BY <1>1, <2>1 DEF Sequences
  <2>3. QED
    BY <2>1, <2>2, FirstUntouched
<1>11. ASSUME NEW s \in Seqs, DestroyClientOnly(s) PROVE FirstStays({})
  BY <1>3, <1>11 DEF DestroyClientOnly
<1>12. ASSUME NEW s \in Seqs, ValidationTimer(s)
       PROVE  \A x \in Seqs : ValidatedFirst(x)'
  BY <1>12, TimerFirst
<1>13. QED
  BY <1>2, <1>4, <1>5, <1>6, <1>7, <1>8, <1>9, <1>10, <1>11, <1>12 DEF GpuNext

\* A validation whose CHECKs fail meets a continued task first.
LEMMA ValidationFits ==
    ASSUME GpuTypes, NEW s \in Seqs, ValidatedFirst(s)
    PROVE  ValidationChecks(s) \/ ContinuedFirst(s)
<1> DEFINE tasks == graph[s].tasks
<1>1. SUFFICES ASSUME NEW last \in OldEnough(s), ~ Search(s, last).fine
               PROVE  ContinuedFirst(s)
  BY DEF ValidationChecks
<1>2. last \in 0..Len(tasks) /\ Len(tasks) \in Nat
  BY ReleasesTyped DEF OldEnough
<1>3. ~ FitForSearch(s, last)
  BY <1>1, <1>2, SearchResult
<1>4. PICK a, b, c \in 1..last :
          a < b /\ b < c /\ ~ tasks[a].validated /\ ~ tasks[c].validated /\ tasks[b].validated
  BY <1>3 DEF FitForSearch
<1>5. a \in 1..Len(tasks) /\ b \in 2..Len(tasks) /\ c \in 2..Len(tasks)
  BY <1>2, <1>4
<1>6. a = 1 /\ order[s].paused /\ tasks[1].order = order[s].current
  BY <1>4, <1>5 DEF ValidatedFirst
<1>7. tasks # << >>
  BY <1>5
<1>8. QED
  BY <1>4, <1>5, <1>6, <1>7 DEF ContinuedFirst

LEMMA InitFirst == GpuInit => \A s \in Seqs : ValidatedFirst(s)
<1>1. 1..Len(<< >>) = {}
  OBVIOUS
<1>2. QED
  BY <1>1 DEF GpuInit, NewSequence, ValidatedFirst

-----------------------------------------------------------------------------
(***************************************************************************)
(* Assertions                                                              *)
(***************************************************************************)
LEMMA RiseStaysKeeps ==
    ASSUME NEW x \in Seqs, ReleasesRise(x), RiseStays(x)
    PROVE  ReleasesRise(x)'
BY DEF ReleasesRise, RiseStays, SameTasks

LEMMA EmptySame ==
    ASSUME NEW p \in Seq(Tasks), NEW q \in Seq(Tasks), SameTasks(p, q)
    PROVE  p = << >> <=> q = << >>
<1>1. Len(p) = Len(q)
  BY DEF SameTasks
<1>2. QED
  BY <1>1

LEMMA TasksTyped ==
    ASSUME GpuTypes, NEW x \in Seqs
    PROVE  /\ graph[x].tasks \in Seq(Tasks) /\ Len(graph[x].tasks) \in Nat
           /\ graph[x].tasks = << >> <=> Len(graph[x].tasks) = 0
<1>1. graph[x].tasks \in Seq(Tasks)
  BY DEF GpuTypes, Sequences
<1>2. QED
  BY <1>1

LEMMA TasksTypedNext ==
    ASSUME GpuTypes', NEW x \in Seqs
    PROVE  /\ graph'[x].tasks \in Seq(Tasks) /\ Len(graph'[x].tasks) \in Nat
           /\ graph'[x].tasks = << >> <=> Len(graph'[x].tasks) = 0
<1>1. graph'[x].tasks \in Seq(Tasks)
  BY DEF GpuTypes, Sequences
<1>2. QED
  BY <1>1

\* The counters are numbers.
LEMMA CountersTyped ==
    ASSUME GpuTypes, NEW x \in Seqs
    PROVE  /\ client[x].told \in Nat /\ client[x].released \in Nat
           /\ graph[x].current \in Nat
           /\ order[x].current \in Nat /\ order[x].processed \in Nat
           /\ order[x].last \in Nat
<1>1. MaxTasks \in Nat /\ Forever \in Nat
  BY Constants
<1>2. client[x] \in ClientStates /\ graph[x] \in Sequences /\ order[x] \in OrderDatas
  BY DEF GpuTypes
<1>3. client[x].told \in 0..MaxTasks /\ client[x].released \in 0..Forever
  BY <1>2 DEF ClientStates
<1>4. graph[x].current \in 0..MaxTasks
  BY <1>2 DEF Sequences
<1>5. /\ order[x].current \in 0..MaxTasks /\ order[x].processed \in 0..MaxTasks
      /\ order[x].last \in 0..MaxTasks
  BY <1>2 DEF OrderDatas
<1>6. QED
  BY <1>1, <1>3, <1>4, <1>5

LEMMA ReleaseTyped ==
    ASSUME GpuTypes, NEW t \in Threads
    PROVE  thread[t].release \in Nat
<1>1. thread[t] \in ThreadStates /\ MaxTasks \in Nat
  BY Constants DEF GpuTypes
<1>2. thread[t].release \in 0..MaxTasks
  BY <1>1 DEF ThreadStates
<1>3. QED
  BY <1>1, <1>2

LEMMA TaskNumbers ==
    ASSUME NEW task \in Tasks
    PROVE  task.release \in Nat /\ task.order \in Nat
<1>1. task.release \in 0..MaxTasks /\ task.order \in 1..MaxTasks
  BY DEF Tasks
<1>2. QED
  BY <1>1, Constants

\* Where a thread is at work, on one of its own sequences.
LEMMA AtWork ==
    ASSUME GpuSound, NEW t \in Threads, thread[t].pc \in {"chosen"} \cup Executing
    PROVE  thread[t].seq \in Seqs /\ RunnerOf[thread[t].seq] = t
BY DEF GpuSound, Numbered, ThreadBound, Executing

LEMMA WorkStaysKeeps ==
    ASSUME GpuSound, GpuTypes', NEW t \in Threads, SequenceKept(t), WorkGoesOn(t),
           thread[t].pc \in {"chosen"} \cup Executing => WorkStays(thread[t].seq)
    PROVE  SequenceKept(t)'
<1>1. CASE thread'[t].pc \in {"idle", "force", "again"}
  BY <1>1 DEF SequenceKept, Executing
<1>2. CASE thread'[t].pc \notin {"idle", "force", "again"} /\ thread[t].pc \in {"chosen"} \cup Executing
  <2> DEFINE x == thread[t].seq
  <2>1. x \in Seqs /\ WorkStays(x)
    BY <1>2, AtWork
  <2>2. thread'[t].seq = x /\ thread'[t].release = thread[t].release
        /\ \/ thread'[t].pc = thread[t].pc
           \/ thread[t].pc \in Executing /\ thread'[t].pc \in Executing \ {"task"}
    BY <1>2 DEF WorkGoesOn
  <2>3. IsProcessingOrderNumber(order'[x]) <=> IsProcessingOrderNumber(order[x])
    BY <2>1 DEF WorkStays, IsProcessingOrderNumber
  <2>4. graph'[x].tasks = << >> <=> graph[x].tasks = << >>
    BY <2>1, TasksTyped, TasksTypedNext, EmptySame, SMTT(40) DEF GpuSound, WorkStays
  <2>5. /\ Len(graph'[x].tasks) = Len(graph[x].tasks)
        /\ \A i \in 1..Len(graph[x].tasks) :
               graph'[x].tasks[i].release = graph[x].tasks[i].release
    BY <2>1 DEF WorkStays, SameTasks
  <2>6. /\ thread[t].pc = "chosen" => graph[x].sched /\ graph[x].enabled
        /\ thread[t].pc \in Executing /\ graph[x].sched => graph[x].running
        /\ thread[t].pc = "task" =>
               /\ client[x].told <= thread[t].release
               /\ \A i \in 1..Len(graph[x].tasks) : thread[t].release <= graph[x].tasks[i].release
               /\ graph[x].sched => IF IsProcessingOrderNumber(order[x])
                                    THEN graph[x].current = thread[t].release
                                    ELSE graph[x].tasks # << >>
    BY DEF SequenceKept
  <2> HIDE DEF x
  <2>7. /\ thread'[t].pc = "chosen" => graph'[x].sched /\ graph'[x].enabled
        /\ thread'[t].pc \in Executing /\ graph'[x].sched => graph'[x].running
    BY <2>1, <2>2, <2>6 DEF WorkStays, Executing
  <2>8. thread'[t].pc = "task" =>
               /\ client'[x].told <= thread'[t].release
               /\ \A i \in 1..Len(graph'[x].tasks) : thread'[t].release <= graph'[x].tasks[i].release
               /\ graph'[x].sched => IF IsProcessingOrderNumber(order'[x])
                                     THEN graph'[x].current = thread'[t].release
                                     ELSE graph'[x].tasks # << >>
    BY <2>1, <2>2, <2>3, <2>4, <2>5, <2>6 DEF WorkStays
  <2>9. QED
    BY <2>2, <2>7, <2>8 DEF SequenceKept
<1>3. CASE thread'[t].pc \notin {"idle", "force", "again"} /\ thread[t].pc \notin {"chosen"} \cup Executing
  <2>1. thread'[t].pc = thread[t].pc /\ thread'[t].pc \notin {"chosen"} \cup Executing
    BY <1>3 DEF WorkGoesOn
  <2>2. QED
    BY <2>1 DEF SequenceKept, Executing
<1>4. QED
  BY <1>1, <1>2, <1>3

\* What steps of threads and of the destruction leave to the sequences.
LEMMA NothingStays ==
    ASSUME UNCHANGED <<graph, order, client>>
    PROVE  \A x \in Seqs : RiseStays(x) /\ WorkStays(x)
BY SameTasksRefl DEF RiseStays, WorkStays

LEMMA CalledStays ==
    ASSUME NEW r, NEW th, CalledBack(r, th), UNCHANGED <<order, client>>
    PROVE  \A x \in Seqs : RiseStays(x) /\ WorkStays(x)
<1> TAKE x \in Seqs
<1>1. /\ graph'[x].tasks = graph[x].tasks /\ graph'[x].sched = graph[x].sched
      /\ graph'[x].current = graph[x].current /\ graph'[x].enabled = graph[x].enabled
      /\ graph'[x].running = graph[x].running
  BY DEF CalledBack
<1>2. SameTasks(graph'[x].tasks, graph[x].tasks)
  BY <1>1, SameTasksRefl
<1>3. order' = order /\ client' = client
  OBVIOUS
<1>4. QED
  BY <1>1, <1>2, <1>3 DEF RiseStays, WorkStays

LEMMA EndedStays ==
    ASSUME NEW t, NEW new, NEW f, NEW ended, WaitEnded(t, new, f, ended)
    PROVE  \A x \in Seqs : RiseStays(x) /\ WorkStays(x)
<1> TAKE x \in Seqs
<1>1. /\ graph' = graph /\ order' = order /\ client'[x].told = client[x].told
      /\ client'[x].released = client[x].released
      /\ client'[x].callbacks \subseteq client[x].callbacks
  BY DEF WaitEnded, ThreadStep
<1>2. QED
  BY <1>1, SameTasksRefl DEF RiseStays, WorkStays

LEMMA ValidatedStays ==
    ASSUME NEW s, NEW new, Validated(s, new)
    PROVE  \A x \in Seqs : RiseStays(x) /\ WorkStays(x)
<1> TAKE x \in Seqs
<1>1. SameSequence(graph'[x], graph[x]) /\ order' = order /\ client' = client
  BY DEF Validated
<1>2. QED
  BY <1>1 DEF SameSequence, RiseStays, WorkStays

LEMMA FinishedStays ==
    ASSUME NEW t, TaskFinished(t)
    PROVE  \A x \in Seqs : RiseStays(x) /\ (x # thread[t].seq => WorkStays(x))
<1> TAKE x \in Seqs
<1>1. /\ SameTasks(graph'[x].tasks, graph[x].tasks) /\ graph'[x].sched = graph[x].sched
      /\ x # thread[t].seq => graph'[x] = graph[x]
      /\ order' = order /\ client' = client
  BY DEF TaskFinished
<1>2. QED
  BY <1>1 DEF RiseStays, WorkStays

LEMMA DoneStays ==
    ASSUME NEW t, NEW s, NEW overdue, NumberDone(t, s, overdue)
    PROVE  \A x \in Seqs : RiseStays(x) /\ (x # s => WorkStays(x))
<1> TAKE x \in Seqs
<1>1. /\ graph' = graph /\ client' = client
      /\ x # s => order'[x] = order[x]
      /\ order'[x].last = order[x].last /\ order'[x].current = order[x].current
      /\ order'[x].destroyed = order[x].destroyed
  BY DEF NumberDone
<1>2. QED
  BY <1>1, SameTasksRefl DEF RiseStays, WorkStays

LEMMA EnabledStays ==
    ASSUME NEW s, EnabledSet(s)
    PROVE  \A x \in Seqs : RiseStays(x) /\ (x # s => WorkStays(x))
<1> TAKE x \in Seqs
<1>1. /\ graph'[x].tasks = graph[x].tasks /\ graph'[x].sched = graph[x].sched
      /\ x # s => graph'[x] = graph[x]
      /\ order' = order /\ client' = client
  BY DEF EnabledSet
<1>2. SameTasks(graph'[x].tasks, graph[x].tasks)
  BY <1>1, SameTasksRefl
<1>3. QED
  BY <1>1, <1>2 DEF RiseStays, WorkStays

LEMMA MovedStays ==
    ASSUME NEW s, NEW q, NEW d, DestroyMoved(s, q, d)
    PROVE  \A x \in Seqs : RiseStays(x) /\ (x # s \/ graph'[s].sched = graph[s].sched => WorkStays(x))
<1> TAKE x \in Seqs
<1>1. /\ graph'[x].tasks = graph[x].tasks /\ (graph'[x].sched => graph[x].sched)
      /\ x # s => graph'[x].sched = graph[x].sched
      /\ graph'[x].current = graph[x].current /\ graph'[x].enabled = graph[x].enabled
      /\ graph'[x].running = graph[x].running
      /\ order' = order /\ client' = client
  BY DEF DestroyMoved, DestroyStep
<1>2. SameTasks(graph'[x].tasks, graph[x].tasks)
  BY <1>1, SameTasksRefl
<1>3. QED
  BY <1>1, <1>2 DEF RiseStays, WorkStays

(***************************************************************************)
(* What a sequence releases                                                *)
(***************************************************************************)
LEMMA QueuedRises ==
    ASSUME GpuSound, GpuTypes', ChecksSound, NEW s, NEW task, TaskQueued(s, task), NEW x \in Seqs
    PROVE  ReleasesRise(x)'
<1>1. /\ s \in Seqs /\ client' = client /\ task.order = last_order + 1 /\ last_order' = last_order + 1
      /\ last_order \in Nat /\ task \in Tasks /\ graph[s].sched
      /\ client[s].told < task.release
      /\ \A i \in 1..Len(graph[s].tasks) : graph[s].tasks[i].release < task.release
      /\ graph'[x].sched = graph[x].sched
      /\ x # s => Guarded(order'[x], order[x], x, last_order')
      /\ order'[s] = GenerateUnprocessedOrderNumber(order[s], last_order')
      /\ SameTasks(graph'[x].tasks, IF x = s THEN Append(graph[x].tasks, task)
                                    ELSE graph[x].tasks)
  BY DEF TaskQueued
<1>2. ReleasesRise(x) /\ Ascending(x) /\ Ahead(x) /\ GpuTypes
  BY DEF ChecksSound, GpuSound, Numbered
<1>3. CASE x # s
  <2>1. RiseStays(x)
    BY <1>1, <1>3 DEF RiseStays, Guarded
  <2>2. QED
    BY <1>2, <2>1, RiseStaysKeeps
<1>4. CASE x = s
  <2> DEFINE old == graph[s].tasks
             ts == Append(old, task)
             n == Len(old)
  <2>1. old \in Seq(Tasks) /\ n \in Nat
    BY <1>1, <1>2, TasksTyped
  <2>2. /\ Len(ts) = n + 1
        /\ \A i \in 1..(n + 1) : ts[i] = IF i = n + 1 THEN task ELSE old[i]
    BY <1>1, <2>1, SeqAppend
  <2>3. \A i \in 1..n : old[i].release \in Nat /\ old[i].order \in Nat
    BY <1>1, <1>2, TaskType, Constants
  <2>4. /\ order'[s].last = last_order + 1 /\ order'[s].current = order[s].current
        /\ order'[s].destroyed = order[s].destroyed
    BY <1>1, <1>2 DEF GenerateUnprocessedOrderNumber, GpuTypes, OrderDatas
  <2>5. /\ Len(graph'[s].tasks) = n + 1
        /\ \A i \in 1..(n + 1) : /\ graph'[s].tasks[i].order = ts[i].order
                                 /\ graph'[s].tasks[i].release = ts[i].release
    BY <1>1, <1>4, <2>2 DEF SameTasks
  <2>6. /\ client[s].told <= client[s].released
        /\ \A r \in client[s].callbacks : r.count > client[s].released
        /\ \A i \in 1..n : client[s].told <= old[i].release
        /\ \A i, j \in 1..n : i < j => old[i].release <= old[j].release
        /\ order[s].destroyed => ~ graph[s].sched
        /\ \A i \in 1..n : old[i].release < task.release
    BY <1>1, <1>2, <1>4 DEF ReleasesRise
  <2>7. /\ \A i \in 1..n : old[i].order <= last_order
        /\ order[s].current <= last_order /\ order[s].current \in Nat
        /\ client[s].told \in Nat /\ task.release \in Nat
    <3>1. /\ \A i \in 1..n : old[i].order <= last_order
          /\ order[s].current <= last_order
      BY <1>2, <1>4 DEF Ascending, Ahead
    <3>2. QED
      BY <1>1, <1>2, <3>1, CountersTyped, TaskNumbers
  <2> HIDE DEF old, ts, n
  <2>8. \A i \in 1..(n + 1) : client[s].told <= ts[i].release /\ ts[i].order <= last_order + 1
    <3> SUFFICES ASSUME NEW i \in 1..(n + 1)
                 PROVE  client[s].told <= ts[i].release /\ ts[i].order <= last_order + 1
      OBVIOUS
    <3>1. task.order = last_order + 1 /\ last_order \in Nat
      BY <1>1
    <3>2. client[s].told <= task.release
      BY <1>1, <2>7
    <3>3. CASE i = n + 1
      BY <2>2, <2>7, <3>1, <3>2, <3>3
    <3>4. CASE i # n + 1
      <4>1. i \in 1..n /\ ts[i] = old[i]
        BY <2>1, <2>2, <3>4
      <4>2. client[s].told <= old[i].release /\ old[i].order <= last_order /\ old[i].order \in Nat
        BY <2>3, <2>6, <2>7, <4>1
      <4>3. QED
        BY <3>1, <4>1, <4>2
    <3>5. QED
      BY <3>3, <3>4
  <2>9. \A i, j \in 1..(n + 1) : i < j => ts[i].release <= ts[j].release
    <3> SUFFICES ASSUME NEW i \in 1..(n + 1), NEW j \in 1..(n + 1), i < j
                 PROVE  ts[i].release <= ts[j].release
      OBVIOUS
    <3>1. i \in 1..n /\ (j \in 1..n \/ j = n + 1)
      BY <2>1
    <3>2. ts[i] = old[i] /\ ts[j] = IF j = n + 1 THEN task ELSE old[j]
      BY <2>1, <2>2, <3>1
    <3>3. QED
      BY <2>1, <2>3, <2>6, <2>7, <3>1, <3>2
  <2>10. order'[s].current <= last_order + 1
    BY <1>1, <2>4, <2>7
  <2>11. QED
    BY <1>1, <1>4, <2>4, <2>5, <2>6, <2>8, <2>9, <2>10 DEF ReleasesRise
<1>5. QED
  BY <1>3, <1>4

LEMMA StoredRises ==
    ASSUME GpuSound, GpuTypes', ChecksSound, NEW a, WaitStored(a), NEW x \in Seqs
    PROVE  ReleasesRise(x)'
<1> DEFINE y == a.token[1]
           r == [client |-> y, count |-> a.token[2], seq |-> a.seq, id |-> a.order]
<1>1. /\ SameTasks(graph'[x].tasks, graph[x].tasks) /\ graph'[x].sched = graph[x].sched
      /\ order' = order /\ client'[x].told = client[x].told
      /\ client'[x].released = client[x].released
      /\ client'[x].callbacks = IF x = y THEN client[x].callbacks \cup {r}
                                ELSE client[x].callbacks
      /\ Len(adding) = 1 /\ adding[1] = a
  BY DEF WaitStored
<1>2. r.count = a.token[2]
  OBVIOUS
<1> HIDE DEF r
<1>3. 1 \in 1..Len(adding)
  BY <1>1
<1>4. client[y].released < a.token[2]
  BY <1>1, <1>3 DEF ChecksSound, AddingKept
<1>5. ReleasesRise(x)
  BY DEF ChecksSound
<1>6. client[x].released \in Nat /\ (x = y => a.token[2] \in Nat)
  BY Constants DEF GpuSound, GpuTypes, ClientStates, WaitStored, Additions, AllTokens
<1> HIDE DEF y
<1>7. \A q \in client'[x].callbacks : q.count > client'[x].released
  <2>1. \A q \in client[x].callbacks : q.count > client[x].released
    BY <1>5 DEF ReleasesRise
  <2>2. x = y => r.count > client[x].released
    BY <1>2, <1>4, <1>6
  <2>3. QED
    BY <1>1, <2>1, <2>2
<1>8. QED
  BY <1>1, <1>5, <1>7 DEF ReleasesRise, SameTasks

LEMMA UntouchedStays ==
    ASSUME NEW x, graph'[x] = graph[x], order'[x] = order[x], client'[x] = client[x]
    PROVE  RiseStays(x) /\ WorkStays(x)
BY SameTasksRefl DEF RiseStays, WorkStays

LEMMA StartedRises ==
    ASSUME GpuSound, GpuTypes', ChecksSound, NEW t, NEW s, TaskStarted(t, s), NEW x \in Seqs
    PROVE  ReleasesRise(x)'
<1>1. /\ s \in Seqs /\ graph[s].tasks # << >> /\ graph'[s].tasks = Tail(graph[s].tasks)
      /\ \A y \in Seqs \ {s} : graph'[y] = graph[y] /\ order'[y] = order[y]
      /\ client' = client /\ order'[s].last = order[s].last
      /\ order'[s].current = Front(graph, s).order
      /\ order'[s].destroyed = order[s].destroyed /\ graph'[s].sched = graph[s].sched
  BY DEF TaskStarted
<1>2. ReleasesRise(x) /\ GpuTypes
  BY DEF ChecksSound, GpuSound
<1>3. CASE x # s
  <2>1. RiseStays(x)
    BY <1>1, <1>3, UntouchedStays
  <2>2. QED
    BY <1>2, <2>1, RiseStaysKeeps
<1>4. CASE x = s
  <2> DEFINE old == graph[s].tasks
             ts == Tail(old)
  <2>1. old \in Seq(Tasks)
    BY <1>1, <1>2, TasksTyped
  <2>2. /\ Len(old) \in Nat /\ Len(ts) \in Nat /\ 1 \in 1..Len(old)
        /\ \A i \in 1..Len(ts) : i + 1 \in 1..Len(old) /\ ts[i] = old[i + 1]
    BY <1>1, <2>1, SeqTail
  <2>3. Front(graph, s) = old[1]
    BY <1>1, <1>2, FrontLemma
  <2>4. /\ client[s].told <= client[s].released
        /\ \A r \in client[s].callbacks : r.count > client[s].released
        /\ \A i \in 1..Len(old) : client[s].told <= old[i].release
        /\ \A i, j \in 1..Len(old) : i < j => old[i].release <= old[j].release
        /\ \A i \in 1..Len(old) : old[i].order <= order[s].last
        /\ order[s].destroyed => ~ graph[s].sched
    BY <1>2, <1>4 DEF ReleasesRise
  <2>5. order'[s].current <= order'[s].last
    BY <1>1, <2>2, <2>3, <2>4
  <2>6. graph'[s].tasks = ts
    BY <1>1
  <2> HIDE DEF old, ts
  <2>7. \A i \in 1..Len(ts) : client[s].told <= ts[i].release /\ ts[i].order <= order[s].last
    BY <2>2, <2>4
  <2>8. \A i, j \in 1..Len(ts) : i < j => ts[i].release <= ts[j].release
    <3> SUFFICES ASSUME NEW i \in 1..Len(ts), NEW j \in 1..Len(ts), i < j
                 PROVE  ts[i].release <= ts[j].release
      OBVIOUS
    <3>1. /\ i + 1 \in 1..Len(old) /\ ts[i] = old[i + 1]
          /\ j + 1 \in 1..Len(old) /\ ts[j] = old[j + 1]
      BY <2>2
    <3>2. i + 1 < j + 1
      BY <2>2
    <3>3. QED
      BY <2>4, <3>1, <3>2
  <2>9. QED
    BY <1>1, <1>4, <2>4, <2>5, <2>6, <2>7, <2>8 DEF ReleasesRise
<1>5. QED
  BY <1>3, <1>4

LEMMA ContinuedRises ==
    ASSUME GpuSound, GpuTypes', ChecksSound, NEW t, NEW s, NEW task, TaskContinued(t, s, task),
           NEW x \in Seqs
    PROVE  ReleasesRise(x)'
<1>1. /\ t \in Threads /\ s \in Seqs /\ task \in Tasks /\ thread[t].pc = "task" /\ thread[t].seq = s
      /\ task.order = order[s].current /\ task.release = graph[s].current
      /\ graph[s].sched /\ IsProcessingOrderNumber(order[s])
      /\ graph'[s].tasks = <<task>> \o graph[s].tasks
      /\ \A y \in Seqs \ {s} : graph'[y] = graph[y] /\ order'[y] = order[y]
      /\ client' = client /\ order'[s].last = order[s].last
      /\ order'[s].current = order[s].current
      /\ order'[s].destroyed = order[s].destroyed /\ graph'[s].sched = graph[s].sched
  BY DEF TaskContinued
<1>2. ReleasesRise(x) /\ SequenceKept(t) /\ GpuTypes
  BY <1>1 DEF ChecksSound, GpuSound
<1>3. CASE x # s
  <2>1. RiseStays(x)
    BY <1>1, <1>3, UntouchedStays
  <2>2. QED
    BY <1>2, <2>1, RiseStaysKeeps
<1>4. CASE x = s
  <2> DEFINE old == graph[s].tasks
             ts == <<task>> \o old
             n == Len(old)
  <2>1. old \in Seq(Tasks) /\ graph'[s].tasks = ts
    BY <1>1, <1>2, TasksTyped
  <2>2. /\ n \in Nat /\ Len(ts) = n + 1 /\ ts[1] = task
        /\ \A i \in 2..(n + 1) : i - 1 \in 1..n /\ ts[i] = old[i - 1]
    BY <1>1, <2>1, SeqCons
  <2>3. /\ client[s].told <= client[s].released
        /\ \A r \in client[s].callbacks : r.count > client[s].released
        /\ \A i \in 1..n : client[s].told <= old[i].release
        /\ \A i, j \in 1..n : i < j => old[i].release <= old[j].release
        /\ \A i \in 1..n : old[i].order <= order[s].last
        /\ order[s].current <= order[s].last
        /\ order[s].destroyed => ~ graph[s].sched
    BY <1>2, <1>4 DEF ReleasesRise
  <2>4. /\ graph[s].current = thread[t].release /\ client[s].told <= thread[t].release
        /\ \A i \in 1..n : thread[t].release <= old[i].release
    BY <1>1, <1>2 DEF SequenceKept
  <2> HIDE DEF old, ts, n
  <2>5. \A i \in 1..(n + 1) : i = 1 \/ i \in 2..(n + 1)
    BY <2>2
  <2>6. client[s].told <= task.release /\ task.order <= order[s].last
        /\ \A i \in 1..n : task.release <= old[i].release
    BY <1>1, <2>3, <2>4
  <2>7. \A i \in 1..(n + 1) : client[s].told <= ts[i].release /\ ts[i].order <= order[s].last
    <3> SUFFICES ASSUME NEW i \in 1..(n + 1)
                 PROVE  client[s].told <= ts[i].release /\ ts[i].order <= order[s].last
      OBVIOUS
    <3>1. CASE i = 1
      BY <2>2, <2>6, <3>1
    <3>2. CASE i \in 2..(n + 1)
      BY <2>2, <2>3, <3>2
    <3>3. QED
      BY <2>5, <3>1, <3>2
  <2>8. \A i, j \in 1..(n + 1) : i < j => ts[i].release <= ts[j].release
    <3> SUFFICES ASSUME NEW i \in 1..(n + 1), NEW j \in 1..(n + 1), i < j
                 PROVE  ts[i].release <= ts[j].release
      OBVIOUS
    <3>1. j \in 2..(n + 1) /\ j - 1 \in 1..n /\ ts[j] = old[j - 1]
      BY <2>2
    <3>2. CASE i = 1
      BY <2>2, <2>6, <3>1, <3>2
    <3>3. CASE i \in 2..(n + 1)
      <4>1. i - 1 \in 1..n /\ ts[i] = old[i - 1] /\ i - 1 < j - 1
        BY <2>2, <3>3
      <4>2. QED
        BY <2>3, <3>1, <4>1
    <3>4. QED
      BY <2>5, <3>2, <3>3
  <2>9. QED
    BY <1>1, <1>4, <2>1, <2>2, <2>3, <2>7, <2>8 DEF ReleasesRise
<1>5. QED
  BY <1>3, <1>4

LEMMA ReleasedRises ==
    ASSUME GpuSound, GpuTypes', ChecksSound, NEW t \in Threads, NEW me, NEW s, NEW count,
           NEW cause, NEW taken, ReleaseStep(t, me, s, count, cause, taken), NEW x \in Seqs
    PROVE  ReleasesRise(x)'
<1>1. /\ s \in Seqs /\ count \in Nat /\ graph' = graph /\ order' = order
      /\ Released(t, me, s, count, cause, taken)
      /\ \/ cause = "force"
         \/ /\ cause # "force" /\ thread[t].pc = "task"
            /\ count = thread[t].release /\ s = thread[t].seq
  BY DEF ReleaseStep
<1>2. ReleasesRise(x) /\ SequenceKept(t) /\ GpuTypes
  BY DEF ChecksSound, GpuSound
<1>3. CASE x # s \/ ~ client[s].mapped
  <2>1. client'[x] = client[x]
    BY <1>1, <1>3 DEF Released
  <2>2. RiseStays(x)
    BY <1>1, <2>1, UntouchedStays
  <2>3. QED
    BY <1>2, <2>2, RiseStaysKeeps
<1>4. CASE x = s /\ client[s].mapped
  <2>1. /\ client'[s].callbacks = client[s].callbacks \ taken
        /\ client'[s].told = IF cause = "force" THEN client[s].told ELSE count
        /\ client'[s].released \in {client[s].released, count}
        /\ client'[s].released >= count /\ client'[s].released >= client[s].released
        /\ \A r \in client'[s].callbacks :
               client[s].released < client'[s].released => r.count > client'[s].released
    BY <1>1, <1>4 DEF Released
  <2>2. /\ client[s].told <= client[s].released
        /\ \A r \in client[s].callbacks : r.count > client[s].released
        /\ \A i \in 1..Len(graph[s].tasks) : client[s].told <= graph[s].tasks[i].release
    BY <1>2, <1>4 DEF ReleasesRise
  <2>3. client[s].told \in Nat /\ client[s].released \in Nat
    BY <1>1, <1>2, CountersTyped
  <2>4. client'[s].told <= client'[s].released
    BY <1>1, <2>1, <2>2, <2>3
  <2>5. \A r \in client'[s].callbacks : r.count > client'[s].released
    BY <1>1, <2>1, <2>2, <2>3
  <2>6. \A i \in 1..Len(graph[s].tasks) : client'[s].told <= graph[s].tasks[i].release
    <3>1. CASE cause = "force"
      BY <2>1, <2>2, <3>1
    <3>2. CASE cause # "force"
      <4>1. client'[s].told = thread[t].release
        BY <1>1, <2>1, <3>2
      <4>2. \A i \in 1..Len(graph[s].tasks) : thread[t].release <= graph[s].tasks[i].release
        BY <1>1, <1>2, <3>2 DEF SequenceKept
      <4>3. QED
        BY <4>1, <4>2
    <3>3. QED
      BY <3>1, <3>2
  <2>7. QED
    BY <1>1, <1>2, <1>4, <2>4, <2>5, <2>6 DEF ReleasesRise
<1>5. QED
  BY <1>3, <1>4

LEMMA GoneRises ==
    ASSUME GpuSound, GpuTypes', ChecksSound, NEW d, ClientGone(d), NEW x \in Seqs
    PROVE  ReleasesRise(x)'
<1>1. /\ graph' = graph /\ order' = order /\ d.seq \in Seqs
      /\ x # d.seq => client'[x] = client[x]
      /\ client'[d.seq].released = Forever /\ client'[d.seq].callbacks = {}
      /\ client'[d.seq].told = client[d.seq].told
  BY DEF ClientGone
<1>2. ReleasesRise(x) /\ GpuTypes
  BY DEF ChecksSound, GpuSound
<1>3. CASE x # d.seq
  BY <1>1, <1>2, <1>3, UntouchedStays, RiseStaysKeeps
<1>4. CASE x = d.seq
  <2>1. client[x].told <= Forever
    BY <1>2, Constants DEF GpuTypes, ClientStates
  <2>2. QED
    BY <1>1, <1>2, <1>4, <2>1 DEF ReleasesRise
<1>5. QED
  BY <1>3, <1>4

LEMMA OrderGoneRises ==
    ASSUME GpuSound, GpuTypes', ChecksSound, NEW d, OrderGone(d), NEW x \in Seqs
    PROVE  ReleasesRise(x)'
<1>1. /\ graph' = graph /\ client' = client /\ Len(destroying) = 1
      /\ destroying[1].pc = "order" /\ destroying[1].seq = d.seq
      /\ x # d.seq => order'[x] = order[x]
      /\ order'[d.seq].last = order[d.seq].last /\ order'[d.seq].current = order[d.seq].current
  BY DEF OrderGone
<1>2. ReleasesRise(x) /\ DestroyingBound
  BY DEF ChecksSound, GpuSound, Numbered
<1>3. CASE x # d.seq
  BY <1>1, <1>2, <1>3, UntouchedStays, RiseStaysKeeps
<1>4. CASE x = d.seq
  <2>1. 1 \in 1..Len(destroying)
    BY <1>1
  <2>2. ~ graph[x].sched
    BY <1>1, <1>2, <1>4, <2>1 DEF DestroyingBound
  <2>3. QED
    BY <1>1, <1>2, <1>4, <2>2 DEF ReleasesRise
<1>5. QED
  BY <1>3, <1>4

LEMMA DeletedRises ==
    ASSUME GpuSound, GpuTypes', ChecksSound, NEW s, Deleted(s), NEW x \in Seqs
    PROVE  ReleasesRise(x)'
<1>1. /\ order' = order /\ client' = client /\ graph'[s].tasks = << >>
      /\ x # s => graph'[x] = graph[x]
      /\ graph'[s].sched = graph[s].sched
  BY DEF Deleted
<1>2. ReleasesRise(x)
  BY DEF ChecksSound
<1>3. CASE x # s
  BY <1>1, <1>2, <1>3, UntouchedStays, RiseStaysKeeps
<1>4. CASE x = s
  <2>1. Len(graph'[s].tasks) = 0
    BY <1>1
  <2>2. 1..0 = {}
    OBVIOUS
  <2>3. QED
    BY <1>1, <1>2, <1>4, <2>1, <2>2 DEF ReleasesRise
<1>5. QED
  BY <1>3, <1>4

\* No step breaks the rise of what a sequence releases.
LEMMA RisesKept ==
    ASSUME GpuSound, GpuTypes', ChecksSound, StepShape, NEW x \in Seqs
    PROVE  ReleasesRise(x)'
<1>1. ReleasesRise(x)
  BY DEF ChecksSound
<1>2. CASE UNCHANGED gpuVars
  BY <1>1, <1>2, NothingStays, RiseStaysKeeps DEF gpuVars
<1>3. ASSUME NEW s, NEW task, TaskQueued(s, task) PROVE ReleasesRise(x)'
  BY <1>3, QueuedRises
<1>4. ASSUME NEW a, WaitStored(a) PROVE ReleasesRise(x)'
  BY <1>4, StoredRises
<1>5. ASSUME NEW t \in Threads, ThreadShape(t) PROVE ReleasesRise(x)'
  <2>1. ASSUME NEW new, NextChosen(t, new) PROVE ReleasesRise(x)'
    BY <1>1, <2>1, NothingStays, RiseStaysKeeps DEF NextChosen, ThreadStep
  <2>2. CASE TaskMissed(t)
    BY <1>1, <2>2, NothingStays, RiseStaysKeeps DEF TaskMissed, ThreadStep
  <2>3. CASE TaskStarted(t, thread[t].seq)
    BY <2>3, StartedRises
  <2>4. ASSUME NEW task, TaskContinued(t, thread[t].seq, task) PROVE ReleasesRise(x)'
    BY <2>4, ContinuedRises
  <2>5. ASSUME NEW me, NEW s, NEW count, NEW cause, NEW taken,
               ReleaseStep(t, me, s, count, cause, taken)
        PROVE  ReleasesRise(x)'
    BY <2>5, ReleasedRises
  <2>6. CASE TaskReturned(t)
    BY <1>1, <2>6, NothingStays, RiseStaysKeeps DEF TaskReturned, ThreadStep
  <2>7. ASSUME NEW overdue, NumberDone(t, thread[t].seq, overdue) PROVE ReleasesRise(x)'
    BY <1>1, <2>7, DoneStays, RiseStaysKeeps
  <2>8. ASSUME NEW new, NEW f, NEW ended, WaitEnded(t, new, f, ended) PROVE ReleasesRise(x)'
    BY <1>1, <2>8, EndedStays, RiseStaysKeeps
  <2>9. ASSUME NEW r, ThreadCalled(t, r) PROVE ReleasesRise(x)'
    BY <1>1, <2>9, CalledStays, RiseStaysKeeps DEF ThreadCalled
  <2>10. CASE TaskFinished(t)
    BY <1>1, <2>10, FinishedStays, RiseStaysKeeps
  <2>11. CASE RanAgain(t)
    BY <1>1, <2>11, NothingStays, RiseStaysKeeps DEF RanAgain, ThreadStep
  <2>12. QED
    BY <1>5, <2>1, <2>2, <2>3, <2>4, <2>5, <2>6, <2>7, <2>8, <2>9, <2>10, <2>11 DEF ThreadShape
<1>6. ASSUME NEW s, EnabledSet(s) PROVE ReleasesRise(x)'
  BY <1>1, <1>6, EnabledStays, RiseStaysKeeps
<1>7. CASE DestroyShape
  <2>1. ASSUME NEW s, NEW q, NEW d, DestroyMoved(s, q, d) PROVE ReleasesRise(x)'
    BY <1>1, <2>1, MovedStays, RiseStaysKeeps
  <2>2. ASSUME NEW d, ClientGone(d) PROVE ReleasesRise(x)'
    BY <2>2, GoneRises
  <2>3. ASSUME NEW d, NEW r, DestroyCalled(d, r) PROVE ReleasesRise(x)'
    BY <1>1, <2>3, CalledStays, RiseStaysKeeps DEF DestroyCalled
  <2>4. ASSUME NEW d, OrderGone(d) PROVE ReleasesRise(x)'
    BY <2>4, OrderGoneRises
  <2>5. ASSUME NEW s, Deleted(s) PROVE ReleasesRise(x)'
    BY <2>5, DeletedRises
  <2>6. CASE DestroyEnded
    BY <1>1, <2>6, NothingStays, RiseStaysKeeps DEF DestroyEnded
  <2>7. QED
    BY <1>7, <2>1, <2>2, <2>3, <2>4, <2>5, <2>6 DEF DestroyShape
<1>8. ASSUME NEW s, NEW new, Validated(s, new) PROVE ReleasesRise(x)'
  BY <1>1, <1>8, ValidatedStays, RiseStaysKeeps
<1>9. QED
  BY <1>2, <1>3, <1>4, <1>5, <1>6, <1>7, <1>8 DEF StepShape

(***************************************************************************)
(* The sequences of the threads                                            *)
(***************************************************************************)
LEMMA SameWork ==
    ASSUME NEW t \in Threads, thread'[t].pc = thread[t].pc, thread'[t].seq = thread[t].seq,
           thread'[t].release = thread[t].release
    PROVE  WorkGoesOn(t)
BY DEF WorkGoesOn

LEMMA WokenWork ==
    ASSUME NEW t \in Threads, Woken(thread'[t], thread[t])
    PROVE  WorkGoesOn(t)
BY SameWork DEF Woken, SameThread

\* A thread at work on another sequence than the one that has changed, of thread u.
LEMMA OthersWork ==
    ASSUME GpuSound, GpuTypes', ChecksSound, NEW t \in Threads, NEW s \in Seqs, WorkGoesOn(t),
           thread[t].seq # s, \A x \in Seqs \ {s} : WorkStays(x)
    PROVE  SequenceKept(t)'
<1>1. thread[t].pc \in {"chosen"} \cup Executing => WorkStays(thread[t].seq)
  BY AtWork
<1>2. SequenceKept(t)
  BY DEF ChecksSound
<1>3. QED
  BY <1>1, <1>2, WorkStaysKeeps

LEMMA AllWork ==
    ASSUME GpuSound, GpuTypes', ChecksSound, NEW t \in Threads, WorkGoesOn(t),
           \A x \in Seqs : WorkStays(x)
    PROVE  SequenceKept(t)'
<1>1. thread[t].pc \in {"chosen"} \cup Executing => WorkStays(thread[t].seq)
  BY AtWork
<1>2. SequenceKept(t)
  BY DEF ChecksSound
<1>3. QED
  BY <1>1, <1>2, WorkStaysKeeps

\* A thread at work on no sequence.
LEMMA NoWork ==
    ASSUME NEW t \in Threads, thread'[t].pc \notin {"chosen"} \cup Executing
    PROVE  SequenceKept(t)'
BY DEF SequenceKept, Executing

LEMMA QueuedWork ==
    ASSUME GpuSound, GpuTypes', ChecksSound, NEW s, NEW task, TaskQueued(s, task),
           NEW t \in Threads
    PROVE  SequenceKept(t)'
<1>1. /\ s \in Seqs /\ client' = client /\ task \in Tasks /\ graph[s].sched
      /\ client[s].told < task.release /\ graph[s].current < task.release
      /\ \A i \in 1..Len(graph[s].tasks) : graph[s].tasks[i].release < task.release
      /\ \A x \in Seqs \ {s} : Guarded(order'[x], order[x], x, last_order')
      /\ order'[s] = GenerateUnprocessedOrderNumber(order[s], last_order')
      /\ Woken(thread'[t], thread[t])
      /\ \A x \in Seqs :
             /\ SameTasks(graph'[x].tasks, IF x = s THEN Append(graph[x].tasks, task)
                                           ELSE graph[x].tasks)
             /\ graph'[x].sched = graph[x].sched /\ graph'[x].current = graph[x].current
             /\ graph'[x].enabled = graph[x].enabled /\ graph'[x].running = graph[x].running
  BY DEF TaskQueued
<1>2. SequenceKept(t) /\ GpuTypes /\ WorkGoesOn(t)
  BY <1>1, WokenWork DEF ChecksSound, GpuSound
<1>3. CASE thread[t].seq # s
  <2>1. \A x \in Seqs \ {s} : WorkStays(x)
    BY <1>1 DEF WorkStays, Guarded
  <2>2. QED
    BY <1>1, <1>2, <1>3, <2>1, OthersWork
<1>4. CASE thread[t].seq = s
  <2> DEFINE old == graph[s].tasks
             ts == Append(old, task)
             n == Len(old)
  <2>1. old \in Seq(Tasks) /\ n \in Nat
    BY <1>1, <1>2, TasksTyped
  <2>2. /\ Len(ts) = n + 1
        /\ \A i \in 1..(n + 1) : ts[i] = IF i = n + 1 THEN task ELSE old[i]
    BY <1>1, <2>1, SeqAppend
  <2>3. /\ Len(graph'[s].tasks) = n + 1
        /\ \A i \in 1..(n + 1) : graph'[s].tasks[i].release = ts[i].release
    BY <1>1, <2>2 DEF SameTasks
  <2>4. graph'[s].tasks # << >>
    BY <1>1, <2>1, <2>3, TasksTypedNext
  <2>5. IsProcessingOrderNumber(order'[s]) <=> IsProcessingOrderNumber(order[s])
    BY <1>1, <1>2 DEF GenerateUnprocessedOrderNumber, GpuTypes, OrderDatas,
                      IsProcessingOrderNumber
  <2>6. /\ thread'[t].pc = thread[t].pc /\ thread'[t].seq = s
        /\ thread'[t].release = thread[t].release
    BY <1>1, <1>4 DEF Woken, SameThread
  <2>7. \A i \in 1..n : old[i].release \in Nat
    BY <1>1, <1>2, TaskType, Constants
  <2>8. thread[t].release \in Nat /\ task.release \in Nat /\ graph[s].current \in Nat
    BY <1>1, <1>2, CountersTyped, TaskNumbers, ReleaseTyped
  <2>9. \A i \in 1..n : old[i].release < task.release
    BY <1>1
  <2> HIDE DEF ts, n
  <2>10. ASSUME thread[t].pc = "task"
         PROVE  /\ client[s].told <= thread[t].release
                /\ \A i \in 1..(n + 1) : thread[t].release <= ts[i].release
                /\ IsProcessingOrderNumber(order[s]) => graph[s].current = thread[t].release
    <3>1. /\ client[s].told <= thread[t].release
          /\ \A i \in 1..n : thread[t].release <= old[i].release
          /\ IF IsProcessingOrderNumber(order[s])
             THEN graph[s].current = thread[t].release ELSE old # << >>
      BY <1>1, <1>2, <1>4, <2>10 DEF SequenceKept, n
    <3>2. thread[t].release <= task.release
      <4>1. CASE IsProcessingOrderNumber(order[s])
        BY <1>1, <2>8, <3>1, <4>1
      <4>2. CASE ~ IsProcessingOrderNumber(order[s])
        <5>1. 1 \in 1..n
          BY <1>1, <1>2, <3>1, <4>2, FrontLemma DEF n
        <5>2. QED
          BY <2>7, <2>8, <2>9, <3>1, <5>1
      <4>3. QED
        BY <4>1, <4>2
    <3>3. \A i \in 1..(n + 1) : i = n + 1 \/ i \in 1..n
      BY <2>1 DEF n
    <3>4. QED
      BY <2>2, <3>1, <3>2, <3>3
  <2>11. /\ thread[t].pc = "chosen" => graph[s].sched /\ graph[s].enabled
         /\ thread[t].pc \in Executing /\ graph[s].sched => graph[s].running
    BY <1>2, <1>4 DEF SequenceKept
  <2> HIDE DEF old
  <2>12. /\ graph'[s].sched = graph[s].sched /\ graph'[s].current = graph[s].current
         /\ graph'[s].enabled = graph[s].enabled /\ graph'[s].running = graph[s].running
         /\ client' = client
    BY <1>1
  <2>13. QED
    BY <2>3, <2>4, <2>5, <2>6, <2>10, <2>11, <2>12 DEF SequenceKept
<1>5. QED
  BY <1>3, <1>4

LEMMA StoredWork ==
    ASSUME GpuSound, GpuTypes', ChecksSound, NEW a, WaitStored(a), NEW t \in Threads
    PROVE  SequenceKept(t)'
<1>1. \A x \in Seqs : WorkStays(x)
  BY DEF WaitStored, WorkStays
<1>2. Woken(thread'[t], thread[t])
  BY DEF WaitStored
<1>3. QED
  BY <1>1, <1>2, WokenWork, AllWork

LEMMA ChosenWork ==
    ASSUME GpuSound, GpuTypes', ChecksSound, NEW u \in Threads, NEW new, NextChosen(u, new),
           NEW t \in Threads
    PROVE  SequenceKept(t)'
<1>1. /\ graph' = graph /\ order' = order /\ client' = client /\ thread'[u] = new
      /\ \A v \in Threads \ {u} : thread'[v] = thread[v]
      /\ \/ new.pc = "idle"
         \/ new.pc = "chosen" /\ new.seq \in Candidates(u)
  BY DEF NextChosen, ThreadStep
<1>2. \A x \in Seqs : WorkStays(x)
  BY <1>1, NothingStays
<1>3. CASE t # u
  BY <1>1, <1>2, <1>3, SameWork, AllWork
<1>4. CASE t = u /\ new.pc = "idle"
  BY <1>1, <1>4, NoWork DEF Executing
<1>5. CASE t = u /\ new.pc = "chosen" /\ new.seq \in Candidates(u)
  <2>1. graph[new.seq].sched /\ graph[new.seq].enabled
    BY <1>5 DEF Candidates, IsRunnable
  <2>2. QED
    BY <1>1, <1>5, <2>1 DEF SequenceKept, Executing
<1>6. QED
  BY <1>1, <1>3, <1>4, <1>5

LEMMA StartedWork ==
    ASSUME GpuSound, GpuTypes', ChecksSound, NEW u, NEW s, TaskStarted(u, s), NEW t \in Threads
    PROVE  SequenceKept(t)'
<1>1. /\ u \in Threads /\ s \in Seqs /\ RunnerOf[s] = u
      /\ graph[s].tasks # << >> /\ graph'[s].tasks = Tail(graph[s].tasks)
      /\ graph'[s].current = Front(graph, s).release /\ graph'[s].running
      /\ order'[s].current = Front(graph, s).order /\ ~ order'[s].paused
      /\ order'[s].processed = order[s].processed /\ client' = client
      /\ \A x \in Seqs \ {s} : graph'[x] = graph[x] /\ order'[x] = order[x]
      /\ \A v \in Threads \ {u} : thread'[v] = thread[v]
      /\ thread'[u].pc = "task" /\ thread'[u].seq = s
      /\ thread'[u].release = Front(graph, s).release
  BY DEF TaskStarted
<1>2. GpuTypes /\ ReleasesRise(s) /\ Ahead(s)
  BY <1>1 DEF ChecksSound, GpuSound, Numbered
<1>3. CASE t # u
  <2>1. CASE thread[t].pc \in {"chosen"} \cup Executing
    <3>1. thread[t].seq # s
      BY <1>1, <1>3, <2>1, AtWork
    <3>2. \A x \in Seqs \ {s} : WorkStays(x)
      BY <1>1, UntouchedStays
    <3>3. WorkGoesOn(t)
      BY <1>1, <1>3, SameWork
    <3>4. QED
      BY <1>1, <3>1, <3>2, <3>3, OthersWork
  <2>2. CASE thread[t].pc \notin {"chosen"} \cup Executing
    BY <1>1, <1>3, <2>2, NoWork
  <2>3. QED
    BY <2>1, <2>2
<1>4. CASE t = u
  <2> DEFINE old == graph[s].tasks
             ts == Tail(old)
  <2>1. old \in Seq(Tasks)
    BY <1>1, <1>2, TasksTyped
  <2>2. /\ Len(old) \in Nat /\ Len(ts) \in Nat /\ 1 \in 1..Len(old)
        /\ \A i \in 1..Len(ts) : i + 1 \in 1..Len(old) /\ ts[i] = old[i + 1]
    BY <1>1, <2>1, SeqTail
  <2>3. Front(graph, s) = old[1] /\ graph'[s].tasks = ts
    BY <1>1, <1>2, FrontLemma
  <2>4. /\ \A i \in 1..Len(old) : client[s].told <= old[i].release
        /\ \A i, j \in 1..Len(old) : i < j => old[i].release <= old[j].release
    BY <1>2 DEF ReleasesRise
  <2>5. IsProcessingOrderNumber(order'[s])
    <3>1. order[s].processed < old[1].order
      BY <1>2, <2>2 DEF Ahead
    <3>2. order[s].processed \in Nat /\ old[1].order \in Nat
      <4>1. old[1] \in Tasks
        BY <1>1, <1>2, <2>2, TaskType
      <4>2. QED
        BY <1>1, <1>2, <4>1, CountersTyped, TaskNumbers
    <3>3. QED
      BY <1>1, <2>3, <3>1, <3>2 DEF IsProcessingOrderNumber
  <2> HIDE DEF old, ts
  <2>6. client[s].told <= old[1].release
    BY <2>2, <2>4
  <2>7. \A i \in 1..Len(ts) : old[1].release <= ts[i].release
    <3> SUFFICES ASSUME NEW i \in 1..Len(ts) PROVE old[1].release <= ts[i].release
      OBVIOUS
    <3>1. i + 1 \in 1..Len(old) /\ ts[i] = old[i + 1] /\ 1 < i + 1
      BY <2>2
    <3>2. QED
      BY <2>2, <2>4, <3>1
  <2>8. QED
    BY <1>1, <1>4, <2>3, <2>5, <2>6, <2>7 DEF SequenceKept
<1>5. QED
  BY <1>3, <1>4

LEMMA ContinuedWork ==
    ASSUME GpuSound, GpuTypes', ChecksSound, NEW u, NEW s, NEW task, TaskContinued(u, s, task),
           NEW t \in Threads
    PROVE  SequenceKept(t)'
<1>1. /\ u \in Threads /\ s \in Seqs /\ RunnerOf[s] = u /\ task \in Tasks
      /\ thread[u].pc = "task" /\ thread[u].seq = s /\ task.release = graph[s].current
      /\ graph[s].sched /\ IsProcessingOrderNumber(order[s])
      /\ graph'[s].tasks = <<task>> \o graph[s].tasks
      /\ graph'[s].running = graph[s].running /\ graph'[s].sched = graph[s].sched
      /\ order'[s].paused /\ client' = client /\ thread' = thread
      /\ \A x \in Seqs \ {s} : graph'[x] = graph[x] /\ order'[x] = order[x]
  BY DEF TaskContinued
<1>2. GpuTypes /\ SequenceKept(u)
  BY <1>1 DEF ChecksSound, GpuSound
<1>3. CASE t # u
  <2>1. CASE thread[t].pc \in {"chosen"} \cup Executing
    <3>1. thread[t].seq # s
      BY <1>1, <1>3, <2>1, AtWork
    <3>2. \A x \in Seqs \ {s} : WorkStays(x)
      BY <1>1, UntouchedStays
    <3>3. WorkGoesOn(t)
      BY <1>1, SameWork
    <3>4. QED
      BY <1>1, <3>1, <3>2, <3>3, OthersWork
  <2>2. CASE thread[t].pc \notin {"chosen"} \cup Executing
    BY <1>1, <2>2, NoWork
  <2>3. QED
    BY <2>1, <2>2
<1>4. CASE t = u
  <2> DEFINE old == graph[s].tasks
             ts == <<task>> \o old
             n == Len(old)
  <2>1. old \in Seq(Tasks) /\ graph'[s].tasks = ts
    BY <1>1, <1>2, TasksTyped
  <2>2. /\ n \in Nat /\ Len(ts) = n + 1 /\ ts[1] = task
        /\ \A i \in 2..(n + 1) : i - 1 \in 1..n /\ ts[i] = old[i - 1]
    BY <1>1, <2>1, SeqCons
  <2>3. /\ graph[s].current = thread[u].release /\ client[s].told <= thread[u].release
        /\ \A i \in 1..n : thread[u].release <= old[i].release
        /\ graph[s].running
    BY <1>1, <1>2 DEF SequenceKept, Executing
  <2>4. ts # << >>
    BY <1>1, <2>1, <2>2, TasksTypedNext
  <2>5. ~ IsProcessingOrderNumber(order'[s])
    BY <1>1 DEF IsProcessingOrderNumber
  <2>6. thread[u].release \in Nat
    BY <1>1, <1>2, Constants DEF GpuTypes, ThreadStates
  <2> HIDE DEF old, ts, n
  <2>7. \A i \in 1..(n + 1) : thread[u].release <= ts[i].release
    <3> SUFFICES ASSUME NEW i \in 1..(n + 1) PROVE thread[u].release <= ts[i].release
      OBVIOUS
    <3>1. CASE i = 1
      BY <1>1, <2>2, <2>3, <2>6, <3>1
    <3>2. CASE i \in 2..(n + 1)
      BY <2>2, <2>3, <3>2
    <3>3. QED
      BY <2>2, <3>1, <3>2
  <2>8. /\ thread'[t].pc = "task" /\ thread'[t].seq = s
        /\ thread'[t].release = thread[u].release /\ client'[s].told = client[s].told
        /\ Len(graph'[s].tasks) = n + 1 /\ graph'[s].tasks = ts /\ graph'[s].running
    BY <1>1, <1>4, <2>1, <2>2, <2>3
  <2>9. QED
    BY <2>3, <2>4, <2>5, <2>7, <2>8 DEF SequenceKept
<1>5. QED
  BY <1>3, <1>4

LEMMA ReleasedWork ==
    ASSUME GpuSound, GpuTypes', ChecksSound, NEW u \in Threads, NEW me, NEW s, NEW count,
           NEW cause, NEW taken, ReleaseStep(u, me, s, count, cause, taken), NEW t \in Threads
    PROVE  SequenceKept(t)'
<1> DEFINE new == [me EXCEPT !.callbacks = taken]
<1>1. /\ me \in ThreadStates /\ s \in Seqs /\ graph' = graph /\ order' = order
      /\ Released(u, me, s, count, cause, taken)
      /\ \/ cause = "force"
         \/ /\ cause # "force" /\ thread[u].pc = "task"
            /\ count = thread[u].release /\ s = thread[u].seq
      /\ me.seq = thread[u].seq /\ me.release = thread[u].release
      /\ \/ me.pc = thread[u].pc
         \/ me.pc = "idle" /\ thread[u].pc = "force"
         \/ me.pc = "processed" /\ thread[u].pc = "task"
  BY DEF ReleaseStep
<1>2. /\ thread' = [thread EXCEPT ![u] = new]
      /\ \A x \in Seqs : x # s => client'[x] = client[x]
      /\ ~ client[s].mapped => client' = client
      /\ client[s].mapped => client'[s].told = IF cause = "force" THEN client[s].told ELSE count
  BY <1>1 DEF Released
<1>3. GpuTypes /\ thread \in [Threads -> ThreadStates] /\ SequenceKept(t)
  BY DEF GpuSound, GpuTypes, ChecksSound
<1>4. new.pc = me.pc /\ new.seq = me.seq /\ new.release = me.release
  BY <1>1 DEF ThreadStates
<1> HIDE DEF new
<1>5. thread'[t] = IF t = u THEN new ELSE thread[t]
  BY <1>2, <1>3
<1>6. WorkGoesOn(t)
  BY <1>1, <1>4, <1>5 DEF WorkGoesOn, Executing
<1>7. \A x \in Seqs \ {s} : WorkStays(x)
  BY <1>1, <1>2, UntouchedStays
<1>8. CASE cause = "force" \/ ~ client[s].mapped
  <2>1. client'[s].told = client[s].told
    BY <1>2, <1>8
  <2>2. WorkStays(s)
    BY <1>1, <2>1, SameTasksRefl DEF WorkStays
  <2>3. QED
    BY <1>6, <1>7, <2>2, AllWork
<1>9. CASE ~ (cause = "force" \/ ~ client[s].mapped)
  <2>1. /\ client'[s].told = thread[u].release /\ thread[u].pc = "task" /\ s = thread[u].seq
        /\ RunnerOf[s] = u
    <3>1. thread[u].pc = "task" /\ s = thread[u].seq
      BY <1>1, <1>9
    <3>2. QED
      BY <1>1, <1>2, <1>9, <3>1, AtWork DEF Executing
  <2>2. CASE t # u
    <3>1. CASE thread[t].pc \in {"chosen"} \cup Executing
      <4>1. thread[t].seq # s
        BY <2>1, <2>2, <3>1, AtWork
      <4>2. QED
        BY <1>1, <1>6, <1>7, <4>1, OthersWork
    <3>2. CASE thread[t].pc \notin {"chosen"} \cup Executing
      BY <1>5, <2>2, <3>2, NoWork
    <3>3. QED
      BY <3>1, <3>2
  <2>3. CASE t = u
    <3>1. /\ thread'[t].seq = s /\ thread'[t].release = thread[t].release
          /\ thread'[t].pc \in {"task", "processed"}
      BY <1>1, <1>4, <1>5, <2>1, <2>3
    <3>2. client'[s].told <= thread[t].release
      BY <1>3, <2>1, <2>3, ReleaseTyped
    <3>3. /\ graph[s].sched => graph[s].running
          /\ \A i \in 1..Len(graph[s].tasks) : thread[t].release <= graph[s].tasks[i].release
          /\ graph[s].sched => IF IsProcessingOrderNumber(order[s])
                               THEN graph[s].current = thread[t].release
                               ELSE graph[s].tasks # << >>
      BY <1>3, <2>1, <2>3 DEF SequenceKept, Executing
    <3>4. QED
      BY <1>1, <3>1, <3>2, <3>3 DEF SequenceKept, Executing
  <2>4. QED
    BY <2>2, <2>3
<1>10. QED
  BY <1>8, <1>9

LEMMA EnabledWork ==
    ASSUME GpuSound, GpuTypes', ChecksSound, NEW s, EnabledSet(s), NEW t \in Threads
    PROVE  SequenceKept(t)'
<1>1. /\ s \in Seqs /\ Woken(thread'[t], thread[t]) /\ order' = order /\ client' = client
      /\ graph'[s].tasks = graph[s].tasks /\ graph'[s].sched = graph[s].sched
      /\ graph'[s].current = graph[s].current /\ graph'[s].running = graph[s].running
      /\ graph[s].sched
      /\ graph'[s].enabled \/ thread[RunnerOf[s]].pc = "task"
  BY DEF EnabledSet
<1>2. WorkGoesOn(t) /\ SequenceKept(t)
  BY <1>1, WokenWork DEF ChecksSound
<1>3. /\ thread'[t].pc = thread[t].pc /\ thread'[t].seq = thread[t].seq
      /\ thread'[t].release = thread[t].release
  BY <1>1 DEF Woken, SameThread
<1>4. CASE thread[t].seq # s
  <2>1. \A x \in Seqs \ {s} : WorkStays(x)
    BY EnabledStays
  <2>2. QED
    BY <1>1, <1>2, <1>4, <2>1, OthersWork
<1>5. CASE thread[t].seq = s
  <2>1. thread[t].pc = "chosen" => graph'[s].enabled
    BY <1>1, <1>5, AtWork
  <2>2. QED
    BY <1>1, <1>2, <1>3, <1>5, <2>1 DEF SequenceKept
<1>6. QED
  BY <1>4, <1>5

LEMMA MovedWork ==
    ASSUME GpuSound, GpuTypes', ChecksSound, ~ AnyThread, NEW s, NEW q, NEW d,
           DestroyMoved(s, q, d), NEW t \in Threads
    PROVE  SequenceKept(t)'
<1>1. /\ s \in Seqs /\ thread' = thread /\ order' = order /\ client' = client
      /\ graph'[s].tasks = graph[s].tasks /\ graph'[s] = q
      /\ destroying = << >> => thread[RunnerOf[s]].pc \in {"idle", "task"}
      /\ \/ destroying = << >> /\ ~ q.sched
         \/ q = graph[s]
         \/ /\ Len(destroying) = 1 /\ destroying[1].pc = "map" /\ destroying[1].seq = s
            /\ ~ q.sched
  BY DEF DestroyMoved, DestroyStep
<1>2. WorkGoesOn(t) /\ SequenceKept(t) /\ DestroyingBound
  BY <1>1, SameWork DEF ChecksSound, GpuSound, Numbered
<1>3. CASE graph'[s].sched = graph[s].sched
  <2>1. \A x \in Seqs : WorkStays(x)
    BY <1>3, MovedStays
  <2>2. QED
    BY <1>2, <2>1, AllWork
<1>4. CASE thread[t].seq # s
  <2>1. \A x \in Seqs \ {s} : WorkStays(x)
    BY MovedStays
  <2>2. QED
    BY <1>1, <1>2, <1>4, <2>1, OthersWork
<1>5. CASE graph'[s].sched # graph[s].sched /\ thread[t].seq = s
  <2>1. CASE destroying = << >> /\ ~ q.sched
    <3>1. thread[t].pc # "chosen"
      BY <1>1, <1>5, <2>1, AtWork
    <3>2. /\ thread[t].pc = "task" =>
                 /\ client[s].told <= thread[t].release
                 /\ \A i \in 1..Len(graph[s].tasks) : thread[t].release <= graph[s].tasks[i].release
      BY <1>2, <1>5 DEF SequenceKept
    <3>3. QED
      BY <1>1, <1>5, <2>1, <3>1, <3>2 DEF SequenceKept
  <2>2. CASE q = graph[s]
    BY <1>1, <1>5, <2>2
  <2>3. CASE Len(destroying) = 1 /\ destroying[1].pc = "map" /\ destroying[1].seq = s /\ ~ q.sched
    <3>1. 1 \in 1..Len(destroying)
      BY <2>3
    <3>2. ~ graph[s].sched
      BY <1>2, <2>3, <3>1 DEF DestroyingBound
    <3>3. graph[s].sched \in BOOLEAN /\ q.sched \in BOOLEAN
      <4>1. graph[s] \in Sequences /\ q \in Sequences
        BY <1>1 DEF GpuSound, GpuTypes, DestroyMoved, DestroyStep
      <4>2. QED
        BY <4>1 DEF Sequences
    <3>4. QED
      BY <1>1, <1>5, <2>3, <3>2, <3>3
  <2>4. QED
    BY <1>1, <2>1, <2>2, <2>3
<1>6. QED
  BY <1>3, <1>4, <1>5

LEMMA DeletedWork ==
    ASSUME GpuSound, GpuTypes', ChecksSound, NEW s, Deleted(s), NEW t \in Threads
    PROVE  SequenceKept(t)'
<1>1. /\ s \in Seqs /\ Woken(thread'[t], thread[t]) /\ order' = order /\ client' = client
      /\ graph'[s].tasks = << >> /\ graph'[s].sched = graph[s].sched /\ ~ graph[s].sched
      /\ \A x \in Seqs \ {s} : graph'[x] = graph[x]
  BY DEF Deleted
<1>2. WorkGoesOn(t) /\ SequenceKept(t)
  BY <1>1, WokenWork DEF ChecksSound
<1>3. /\ thread'[t].pc = thread[t].pc /\ thread'[t].seq = thread[t].seq
      /\ thread'[t].release = thread[t].release
  BY <1>1 DEF Woken, SameThread
<1>4. CASE thread[t].seq # s
  <2>1. \A x \in Seqs \ {s} : WorkStays(x)
    BY <1>1, UntouchedStays
  <2>2. QED
    BY <1>1, <1>2, <1>4, <2>1, OthersWork
<1>5. CASE thread[t].seq = s
  <2>1. thread[t].pc # "chosen" /\ (thread[t].pc = "task" => client[s].told <= thread[t].release)
    BY <1>1, <1>2, <1>5 DEF SequenceKept
  <2>2. Len(graph'[s].tasks) = 0 /\ 1..0 = {}
    BY <1>1
  <2>3. QED
    BY <1>1, <1>3, <1>5, <2>1, <2>2 DEF SequenceKept
<1>6. QED
  BY <1>4, <1>5

LEMMA ThreadWork ==
    ASSUME GpuSound, GpuTypes', ChecksSound, NEW u \in Threads, ThreadShape(u), NEW t \in Threads
    PROVE  SequenceKept(t)'
<1>1. thread \in [Threads -> ThreadStates] /\ thread[u] \in ThreadStates
  BY DEF GpuSound, GpuTypes
<1>2. SequenceKept(t)
  BY DEF ChecksSound
<1>3. CASE TaskMissed(u)
  <2> DEFINE new == [thread[u] EXCEPT !.pc = "again"]
  <2>1. new.pc = "again"
    BY <1>1 DEF ThreadStates
  <2>2. /\ thread' = [thread EXCEPT ![u] = new]
        /\ graph' = graph /\ order' = order /\ client' = client
    BY <1>3 DEF TaskMissed, ThreadStep
  <2> HIDE DEF new
  <2>3. thread'[t] = IF t = u THEN new ELSE thread[t]
    BY <1>1, <2>2
  <2>4. WorkGoesOn(t)
    BY <2>1, <2>3, SameWork DEF WorkGoesOn
  <2>5. QED
    BY <2>2, <2>4, NothingStays, AllWork
<1>4. CASE TaskReturned(u)
  <2> DEFINE new == [thread[u] EXCEPT !.pc = "finish"]
  <2>1. new.pc = "finish" /\ new.seq = thread[u].seq /\ new.release = thread[u].release
    BY <1>1 DEF ThreadStates
  <2>2. /\ thread' = [thread EXCEPT ![u] = new] /\ thread[u].pc = "task"
        /\ graph' = graph /\ order' = order /\ client' = client
    BY <1>4 DEF TaskReturned, ThreadStep
  <2> HIDE DEF new
  <2>3. thread'[t] = IF t = u THEN new ELSE thread[t]
    BY <1>1, <2>2
  <2>4. WorkGoesOn(t)
    BY <2>1, <2>2, <2>3 DEF WorkGoesOn, Executing
  <2>5. QED
    BY <2>2, <2>4, NothingStays, AllWork
<1>5. ASSUME NEW overdue, NumberDone(u, thread[u].seq, overdue)
      PROVE  SequenceKept(t)'
  <2> DEFINE s == thread[u].seq
  <2>1. /\ s \in Seqs /\ RunnerOf[s] = u /\ thread[u].pc = "processed" /\ graph' = graph
        /\ \A v \in Threads \ {u} : thread'[v] = thread[v]
        /\ thread'[u].pc \in {"finish", "overdue"} /\ thread'[u].seq = s
    BY <1>5 DEF NumberDone
  <2>2. \A x \in Seqs \ {s} : WorkStays(x)
    BY <1>5, DoneStays
  <2> HIDE DEF s
  <2>3. CASE t # u
    <3>1. CASE thread[t].pc \in {"chosen"} \cup Executing
      <4>1. thread[t].seq # s
        BY <2>1, <2>3, <3>1, AtWork
      <4>2. WorkGoesOn(t)
        BY <2>1, <2>3, SameWork
      <4>3. QED
        BY <2>1, <2>2, <4>1, <4>2, OthersWork
    <3>2. CASE thread[t].pc \notin {"chosen"} \cup Executing
      BY <2>1, <2>3, <3>2, NoWork
    <3>3. QED
      BY <3>1, <3>2
  <2>4. CASE t = u
    <3>1. graph[s].sched => graph[s].running
      BY <1>2, <2>1, <2>4 DEF SequenceKept, Executing, s
    <3>2. QED
      BY <2>1, <2>4, <3>1 DEF SequenceKept, Executing
  <2>5. QED
    BY <2>3, <2>4, SMTT(40)
<1>6. ASSUME NEW new, NEW f, NEW ended, WaitEnded(u, new, f, ended)
      PROVE  SequenceKept(t)'
  <2>1. /\ thread' = [thread EXCEPT ![u] = new] /\ thread[u].pc = "overdue"
        /\ new.pc \in {"overdue", "finish"} /\ new.seq = thread[u].seq
        /\ new.release = thread[u].release
    BY <1>6 DEF WaitEnded, ThreadStep
  <2>2. thread'[t] = IF t = u THEN new ELSE thread[t]
    BY <1>1, <2>1
  <2>3. WorkGoesOn(t)
    BY <2>1, <2>2 DEF WorkGoesOn, Executing
  <2>4. QED
    BY <1>6, <2>3, EndedStays, AllWork
<1>7. ASSUME NEW r, ThreadCalled(u, r)
      PROVE  SequenceKept(t)'
  <2> DEFINE th == [thread EXCEPT ![u].callbacks = @ \ {r}]
  <2>1. CalledBack(r, th) /\ order' = order /\ client' = client
    BY <1>7 DEF ThreadCalled
  <2>2. th[t].pc = thread[t].pc /\ th[t].seq = thread[t].seq /\ th[t].release = thread[t].release
    BY <1>1 DEF ThreadStates
  <2> HIDE DEF th
  <2>3. SameThread(thread'[t], th[t])
    BY <2>1 DEF CalledBack, Woken
  <2>4. WorkGoesOn(t)
    BY <2>2, <2>3, SameWork DEF SameThread
  <2>5. QED
    BY <2>1, <2>4, CalledStays, AllWork
<1>8. CASE TaskFinished(u)
  <2> DEFINE s == thread[u].seq
  <2>1. /\ s \in Seqs /\ RunnerOf[s] = u /\ thread'[u].pc = "again"
        /\ \A v \in Threads : v # u => thread'[v] = thread[v]
    BY <1>8 DEF TaskFinished
  <2>2. \A x \in Seqs \ {s} : WorkStays(x)
    BY <1>8, FinishedStays
  <2> HIDE DEF s
  <2>3. CASE t # u /\ thread[t].pc \in {"chosen"} \cup Executing
    <3>1. thread[t].seq # s /\ WorkGoesOn(t)
      BY <2>1, <2>3, AtWork, SameWork
    <3>2. QED
      BY <2>1, <2>2, <3>1, OthersWork
  <2>4. CASE t = u \/ thread[t].pc \notin {"chosen"} \cup Executing
    BY <2>1, <2>4, NoWork DEF Executing
  <2>5. QED
    BY <2>3, <2>4
<1>9. CASE RanAgain(u)
  <2> DEFINE more == HasAnyUnblockedTasksOnRunner(graph, u)
             new == [NewThread EXCEPT !.running = more, !.posted = more]
  <2>1. new.pc = "idle"
    BY DEF NewThread
  <2>2. /\ thread' = [thread EXCEPT ![u] = new]
        /\ graph' = graph /\ order' = order /\ client' = client
    BY <1>9 DEF RanAgain, ThreadStep
  <2> HIDE DEF new
  <2>3. thread'[t] = IF t = u THEN new ELSE thread[t]
    BY <1>1, <2>2
  <2>4. WorkGoesOn(t)
    BY <2>1, <2>3, SameWork DEF WorkGoesOn
  <2>5. QED
    BY <2>2, <2>4, NothingStays, AllWork
<1>10. QED
  BY <1>3, <1>4, <1>5, <1>6, <1>7, <1>8, <1>9, ChosenWork, StartedWork, ContinuedWork,
     ReleasedWork DEF ThreadShape

\* No step takes its sequence from a thread.
LEMMA WorkKept ==
    ASSUME GpuSound, GpuTypes', ChecksSound, ~ AnyThread, StepShape, NEW t \in Threads
    PROVE  SequenceKept(t)'
<1>1. ASSUME thread' = thread, UNCHANGED <<graph, order, client>> PROVE SequenceKept(t)'
  BY <1>1, SameWork, NothingStays, AllWork
<1>2. CASE UNCHANGED gpuVars
  BY <1>1, <1>2 DEF gpuVars
<1>3. ASSUME NEW u \in Threads, ThreadShape(u) PROVE SequenceKept(t)'
  BY <1>3, ThreadWork
<1>4. CASE DestroyShape
  <2>1. ASSUME NEW d, ClientGone(d) PROVE SequenceKept(t)'
    <3>1. /\ thread' = thread /\ graph' = graph /\ order' = order
          /\ \A x \in Seqs : client'[x].told = client[x].told
      BY <2>1 DEF ClientGone
    <3>2. \A x \in Seqs : WorkStays(x)
      BY <3>1, SameTasksRefl DEF WorkStays
    <3>3. QED
      BY <3>1, <3>2, SameWork, AllWork
  <2>2. ASSUME NEW d, NEW r, DestroyCalled(d, r) PROVE SequenceKept(t)'
    <3>1. CalledBack(r, thread) /\ order' = order /\ client' = client
      BY <2>2 DEF DestroyCalled
    <3>2. Woken(thread'[t], thread[t])
      BY <3>1 DEF CalledBack
    <3>3. QED
      BY <3>1, <3>2, WokenWork, CalledStays, AllWork
  <2>3. ASSUME NEW d, OrderGone(d) PROVE SequenceKept(t)'
    <3>1. /\ thread' = thread /\ graph' = graph /\ client' = client
          /\ \A x \in Seqs : /\ order'[x].current = order[x].current
                             /\ order'[x].processed = order[x].processed
                             /\ order'[x].paused = order[x].paused
      BY <2>3 DEF OrderGone
    <3>2. \A x \in Seqs : WorkStays(x)
      BY <3>1, SameTasksRefl DEF WorkStays
    <3>3. QED
      BY <3>1, <3>2, SameWork, AllWork
  <2>4. CASE DestroyEnded
    BY <1>1, <2>4 DEF DestroyEnded
  <2>5. QED
    BY <1>4, <2>1, <2>2, <2>3, <2>4, MovedWork, DeletedWork DEF DestroyShape
<1>5. ASSUME NEW s \in Seqs, NEW new, Validated(s, new) PROVE SequenceKept(t)'
  <2>1. /\ thread'[t] = IF t = RunnerOf[s] THEN new ELSE thread[t]
        /\ new.pc \in {"idle", "force"}
    BY <1>5 DEF Validated
  <2>2. WorkGoesOn(t)
    BY <2>1 DEF WorkGoesOn
  <2>3. QED
    BY <1>5, <2>2, ValidatedStays, AllWork
<1>6. QED
  BY <1>2, <1>3, <1>4, <1>5, QueuedWork, StoredWork, EnabledWork DEF StepShape

(***************************************************************************)
(* The destruction, and the wait that is being added                       *)
(***************************************************************************)
LEMMA DestroyingGoesOn ==
    ASSUME GpuTypes, DestroyingKept, PlacesKept, Len(destroying') = Len(destroying),
           \A i \in 1..Len(destroying) : /\ destroying'[i].seq = destroying[i].seq
                                         /\ destroying'[i].pc = destroying[i].pc
                                         /\ Undisturbed(destroying[i].seq)
    PROVE  DestroyingKept'
<1>1. \A i \in 1..Len(destroying) : destroying[i].seq \in Seqs
  BY DestroyingLemma
<1>2. ASSUME NEW s \in Seqs, graph'[s].map, ~ graph'[s].sched
      PROVE  Len(destroying') = 1 /\ destroying'[1].seq = s /\ destroying'[1].pc = "map"
  <2>1. graph[s].map /\ ~ graph[s].sched
    BY <1>2 DEF PlacesKept
  <2>2. Len(destroying) = 1 /\ destroying[1].seq = s /\ destroying[1].pc = "map"
    BY <2>1 DEF DestroyingKept
  <2>3. 1 \in 1..Len(destroying)
    BY <2>2
  <2>4. QED
    BY <2>2, <2>3
<1>3. ASSUME NEW i \in 1..Len(destroying')
      PROVE  /\ destroying'[i].pc = "map" /\ graph'[destroying'[i].seq].running =>
                    thread'[RunnerOf[destroying'[i].seq]].running
             /\ destroying'[i].pc \in {"map", "client", "order"} =>
                    ~ order'[destroying'[i].seq].destroyed
  <2>1. i \in 1..Len(destroying)
    BY <1>3
  <2> DEFINE x == destroying[i].seq
  <2>2. x \in Seqs /\ destroying'[i].seq = x /\ destroying'[i].pc = destroying[i].pc
        /\ Undisturbed(x) /\ order'[x].destroyed = order[x].destroyed
    BY <1>1, <2>1 DEF PlacesKept
  <2>3. /\ destroying[i].pc = "map" /\ graph[x].running => thread[RunnerOf[x]].running
        /\ destroying[i].pc \in {"map", "client", "order"} => ~ order[x].destroyed
    BY <2>1 DEF DestroyingKept
  <2> HIDE DEF x
  <2>4. QED
    BY <2>2, <2>3 DEF Undisturbed
<1>4. QED
  BY <1>2, <1>3 DEF DestroyingKept

LEMMA AddingGoesOn ==
    ASSUME GpuTypes, AddingKept, adding' = adding \/ adding' = << >>,
           \A x \in Seqs : graph'[x].sched = graph[x].sched,
           ManagerUnlocked \/ \A x \in Seqs : client'[x].released = client[x].released
    PROVE  AddingKept'
<1> SUFFICES ASSUME NEW i \in 1..Len(adding')
             PROVE  /\ graph'[adding'[i].seq].sched
                    /\ client'[adding'[i].token[1]].released < adding'[i].token[2]
  BY DEF AddingKept
<1>1. adding \in Seq(Additions)
  BY DEF GpuTypes
<1>2. adding' = adding
  <2>1. 1..0 = {}
    OBVIOUS
  <2>2. adding' = << >> => Len(adding') = 0
    OBVIOUS
  <2>3. QED
    BY <2>1, <2>2
<1>3. i \in 1..Len(adding) /\ adding[i] \in Additions
  BY <1>1, <1>2
<1>4. adding[i].seq \in Seqs /\ adding[i].token[1] \in Seqs
  BY <1>3 DEF Additions, AllTokens
<1>5. ~ ManagerUnlocked
  BY <1>3, <1>4 DEF ManagerUnlocked, FenceLocked
<1>6. graph[adding[i].seq].sched /\ client[adding[i].token[1]].released < adding[i].token[2]
  BY <1>3 DEF AddingKept
<1>7. QED
  BY <1>2, <1>4, <1>5, <1>6

\* What a step of thread u leaves alone.
LEMMA ThreadUndisturbed ==
    ASSUME GpuSound, NEW u \in Threads, ThreadShape(u)
    PROVE  /\ PlacesKept /\ destroying' = destroying /\ adding' = adding
           /\ \A x \in Seqs : RunnerOf[x] # u => Undisturbed(x)
           /\ ManagerUnlocked \/ \A x \in Seqs : client'[x].released = client[x].released
<1>1. thread \in [Threads -> ThreadStates] /\ \A x \in Seqs : RunnerOf[x] \in Threads
  BY Constants DEF GpuSound, GpuTypes
<1>2. ASSUME NEW new, thread' = [thread EXCEPT ![u] = new], UNCHANGED <<graph, order>>
      PROVE  PlacesKept /\ \A x \in Seqs : RunnerOf[x] # u => Undisturbed(x)
  BY <1>1, <1>2 DEF PlacesKept, Undisturbed
<1>3. ASSUME NEW new, NextChosen(u, new)
      PROVE  /\ thread' = [thread EXCEPT ![u] = new]
             /\ UNCHANGED <<graph, order, destroying, adding, client>>
  BY <1>3 DEF NextChosen, ThreadStep
<1>4. CASE TaskMissed(u) \/ TaskReturned(u) \/ RanAgain(u)
  <2>1. PICK new : ThreadStep(u, new) /\ client' = client
    BY <1>4 DEF TaskMissed, TaskReturned, RanAgain
  <2>2. /\ thread' = [thread EXCEPT ![u] = new]
        /\ UNCHANGED <<graph, order, destroying, adding, client>>
    BY <2>1 DEF ThreadStep
  <2>3. QED
    BY <1>2, <2>2
<1>5. CASE TaskStarted(u, thread[u].seq)
  <2> DEFINE s == thread[u].seq
  <2>1. /\ s \in Seqs /\ RunnerOf[s] = u
        /\ \A x \in Seqs \ {s} : graph'[x] = graph[x] /\ order'[x] = order[x]
        /\ graph'[s].map = graph[s].map /\ graph'[s].sched = graph[s].sched
        /\ order'[s].destroyed = order[s].destroyed
        /\ \A v \in Threads \ {u} : thread'[v] = thread[v]
        /\ UNCHANGED <<destroying, adding, client>>
    BY <1>5 DEF TaskStarted
  <2> HIDE DEF s
  <2>2. PlacesKept
    BY <2>1 DEF PlacesKept
  <2>3. \A x \in Seqs : RunnerOf[x] # u => Undisturbed(x)
    BY <1>1, <2>1 DEF Undisturbed
  <2>4. QED
    BY <2>1, <2>2, <2>3
<1>6. ASSUME NEW task, TaskContinued(u, thread[u].seq, task)
      PROVE  /\ PlacesKept /\ \A x \in Seqs : Undisturbed(x)
             /\ UNCHANGED <<destroying, adding, client>>
  <2> DEFINE s == thread[u].seq
  <2>1. /\ \A x \in Seqs \ {s} : graph'[x] = graph[x] /\ order'[x] = order[x]
        /\ graph'[s].map = graph[s].map /\ graph'[s].sched = graph[s].sched
        /\ graph'[s].running = graph[s].running
        /\ order'[s].destroyed = order[s].destroyed
        /\ UNCHANGED <<destroying, adding, client, thread>>
    BY <1>6 DEF TaskContinued
  <2> HIDE DEF s
  <2>2. QED
    BY <2>1, SMTT(40) DEF PlacesKept, Undisturbed
<1>7. ASSUME NEW me, NEW s, NEW count, NEW cause, NEW taken,
             ReleaseStep(u, me, s, count, cause, taken)
      PROVE  /\ \E new : thread' = [thread EXCEPT ![u] = new]
             /\ UNCHANGED <<graph, order, destroying, adding>> /\ ManagerUnlocked
  BY <1>7 DEF ReleaseStep, Released
<1>8. ASSUME NEW overdue, NumberDone(u, thread[u].seq, overdue)
      PROVE  /\ PlacesKept /\ \A x \in Seqs : RunnerOf[x] # u => Undisturbed(x)
             /\ UNCHANGED <<destroying, adding, client>>
  <2>1. /\ \A x \in Seqs : order'[x].destroyed = order[x].destroyed
        /\ \A v \in Threads \ {u} : thread'[v] = thread[v]
        /\ UNCHANGED <<graph, destroying, adding, client>>
    BY <1>8 DEF NumberDone
  <2>2. QED
    BY <1>1, <2>1 DEF PlacesKept, Undisturbed
<1>9. ASSUME NEW new, NEW f, NEW ended, WaitEnded(u, new, f, ended)
      PROVE  /\ thread' = [thread EXCEPT ![u] = new]
             /\ UNCHANGED <<graph, order, destroying, adding>>
             /\ \A x \in Seqs : client'[x].released = client[x].released
  BY <1>9 DEF WaitEnded, ThreadStep
<1>10. ASSUME NEW r, ThreadCalled(u, r)
       PROVE  /\ PlacesKept /\ \A x \in Seqs : RunnerOf[x] # u => Undisturbed(x)
              /\ UNCHANGED <<destroying, adding, client>>
  <2> DEFINE th == [thread EXCEPT ![u].callbacks = @ \ {r}]
  <2>1. CalledBack(r, th) /\ UNCHANGED <<order, destroying, adding, client>>
    BY <1>10 DEF ThreadCalled
  <2>2. \A v \in Threads \ {u} : th[v] = thread[v]
    BY <1>1
  <2> HIDE DEF th
  <2>3. /\ \A x \in Seqs : /\ graph'[x].map = graph[x].map /\ graph'[x].sched = graph[x].sched
                           /\ graph'[x].running = graph[x].running
        /\ \A v \in Threads : th[v].running => thread'[v].running
    BY <2>1 DEF CalledBack, Woken
  <2>4. QED
    BY <1>1, <2>1, <2>2, <2>3 DEF PlacesKept, Undisturbed
<1>11. CASE TaskFinished(u)
  <2>1. /\ \A x \in Seqs : /\ graph'[x].map = graph[x].map /\ graph'[x].sched = graph[x].sched
                           /\ x # thread[u].seq => graph'[x] = graph[x]
        /\ RunnerOf[thread[u].seq] = u
        /\ \A v \in Threads : v # u => thread'[v] = thread[v]
        /\ UNCHANGED <<order, destroying, adding, client>>
    BY <1>11 DEF TaskFinished
  <2>2. QED
    BY <1>1, <2>1 DEF PlacesKept, Undisturbed
<1>12. QED
  BY <1>2, <1>3, <1>4, <1>5, <1>6, <1>7, <1>8, <1>9, <1>10, <1>11 DEF ThreadShape

LEMMA DestroyPlans ==
    ASSUME GpuSound, GpuTypes', AwakeSound, ChecksSound, DestroyShape
    PROVE  DestroyingKept' /\ AddingKept'
<1>1. GpuTypes /\ DestroyingKept /\ AddingKept /\ DestroyingBound
  BY DEF GpuSound, ChecksSound, Numbered
<1>2. \A x \in Seqs : RunnerOf[x] \in Threads
  BY Constants
<1>3. \A i \in 1..1 : i = 1
  OBVIOUS
<1>4. ASSUME NEW s, NEW q, NEW d, DestroyMoved(s, q, d)
      PROVE  DestroyingKept' /\ AddingKept'
  <2>1. /\ s \in Seqs /\ d.seq = s /\ order' = order /\ thread' = thread
        /\ adding = << >> /\ adding' = adding /\ destroying' = <<d>>
        /\ \A x \in Seqs : graph'[x] = IF x = s THEN q ELSE graph[x]
        /\ q.running = graph[s].running
        /\ \/ destroying = << >> /\ d.pc = "map" /\ graph[s].sched
           \/ destroying = << >> /\ d.pc = "only" /\ q = graph[s]
           \/ /\ Len(destroying) = 1 /\ destroying[1].pc = "map" /\ d.pc = "client"
              /\ destroying[1].seq = s /\ ~ q.map
    BY <1>4 DEF DestroyMoved, DestroyStep
  <2>2. Len(destroying') = 1 /\ destroying'[1] = d
    BY <2>1
  <2>3. \A x \in Seqs : graph[x].map /\ ~ graph[x].sched =>
            Len(destroying) = 1 /\ destroying[1].seq = x
    BY <1>1 DEF DestroyingKept
  <2>4. Len(<< >>) = 0
    OBVIOUS
  <2>5. ASSUME NEW x \in Seqs, graph'[x].map, ~ graph'[x].sched
        PROVE  d.seq = x /\ d.pc = "map"
    <3>1. CASE x = s /\ d.pc = "map"
      BY <2>1, <3>1
    <3>2. CASE x # s \/ d.pc # "map"
      <4>1. graph'[x] = graph[x] \/ (x = s /\ ~ q.map)
        BY <2>1, <3>2
      <4>2. graph[x].map /\ ~ graph[x].sched
        BY <2>1, <2>5, <4>1
      <4>3. Len(destroying) = 1 /\ destroying[1].seq = x
        BY <2>3, <4>2
      <4>4. QED
        BY <2>1, <2>4, <2>5, <4>3
    <3>3. QED
      BY <3>1, <3>2
  <2>6. d.pc = "map" /\ graph'[s].running => thread'[RunnerOf[s]].running
    <3> SUFFICES ASSUME d.pc = "map", graph'[s].running
                 PROVE  thread'[RunnerOf[s]].running
      OBVIOUS
    <3>1. graph[s].sched /\ graph[s].running
      BY <2>1
    <3>2. thread[RunnerOf[s]].pc \in Executing
      BY <2>1, <3>1 DEF AwakeSound, RunningBound
    <3>3. thread[RunnerOf[s]].running
      BY <1>2, <2>1, <3>2 DEF AwakeSound, ThreadsRun, Executing
    <3>4. QED
      BY <2>1, <3>3
  <2>7. d.pc \in {"map", "client", "order"} => ~ order'[s].destroyed
    <3>1. CASE graph[s].sched
      BY <2>1, <3>1 DEF ChecksSound, ReleasesRise
    <3>2. CASE Len(destroying) = 1 /\ destroying[1].pc = "map" /\ destroying[1].seq = s
      <4>1. 1 \in 1..Len(destroying)
        BY <3>2
      <4>2. ~ order[s].destroyed
        BY <1>1, <3>2, <4>1 DEF DestroyingKept
      <4>3. QED
        BY <2>1, <4>2
    <3>3. QED
      BY <2>1, <3>1, <3>2
  <2>8. DestroyingKept'
    BY <1>3, <2>1, <2>2, <2>5, <2>6, <2>7 DEF DestroyingKept
  <2>9. AddingKept'
    <3>1. Len(adding') = 0 /\ 1..0 = {}
      BY <2>1
    <3>2. QED
      BY <3>1 DEF AddingKept
  <2>10. QED
    BY <2>8, <2>9
<1>5. ASSUME NEW d, Len(destroying) = 1, destroying[1].pc # "map", destroying' = <<d>>,
             d.pc \notin {"map", "client", "order"} \/
                 (d.pc = "order" /\ d.seq = destroying[1].seq /\ destroying[1].pc = "client"),
             d.pc # "map", PlacesKept \/ (graph' = graph /\ d.pc # "order")
      PROVE  DestroyingKept'
  <2>1. Len(destroying') = 1 /\ destroying'[1] = d /\ 1 \in 1..Len(destroying)
    BY <1>5
  <2>2. \A x \in Seqs : ~ (graph'[x].map /\ ~ graph'[x].sched)
    BY <1>1, <1>5 DEF DestroyingKept, PlacesKept
  <2>3. d.pc = "order" => ~ order'[d.seq].destroyed
    <3> SUFFICES ASSUME d.pc = "order" PROVE ~ order'[d.seq].destroyed
      OBVIOUS
    <3>1. PlacesKept /\ d.seq = destroying[1].seq /\ destroying[1].pc = "client"
      BY <1>5
    <3>2. ~ order[d.seq].destroyed
      BY <1>1, <2>1, <3>1 DEF DestroyingKept
    <3>3. d.seq \in Seqs
      BY <1>1, <2>1, <3>1, DestroyingLemma
    <3>4. QED
      BY <3>1, <3>2, <3>3 DEF PlacesKept
  <2>4. QED
    BY <1>3, <1>5, <2>1, <2>2, <2>3 DEF DestroyingKept
<1>6. ASSUME Len(destroying) = 1, destroying[1].pc # "map", destroying' = << >>,
             \A x \in Seqs : graph'[x].map = graph[x].map /\ graph'[x].sched = graph[x].sched
      PROVE  DestroyingKept'
  <2>1. Len(destroying') = 0 /\ 1..0 = {}
    BY <1>6
  <2>2. \A x \in Seqs : ~ (graph'[x].map /\ ~ graph'[x].sched)
    BY <1>1, <1>6 DEF DestroyingKept
  <2>3. QED
    BY <2>1, <2>2 DEF DestroyingKept
<1>7. ASSUME NEW d, ClientGone(d)
      PROVE  DestroyingKept' /\ AddingKept'
  <2>1. /\ Len(destroying) = 1 /\ destroying[1].pc \in {"client", "only"}
        /\ destroying' = <<d>> /\ d.seq = destroying[1].seq
        /\ destroying[1].pc = "only" => d.pc = "end"
        /\ destroying[1].pc = "client" => d.pc = "order"
        /\ ManagerUnlocked /\ UNCHANGED <<graph, order, adding>>
    BY <1>7 DEF ClientGone
  <2>2. PlacesKept
    BY <2>1 DEF PlacesKept
  <2>3. d.pc \notin {"map", "client", "order"} \/
             (d.pc = "order" /\ d.seq = destroying[1].seq /\ destroying[1].pc = "client")
    BY <2>1
  <2>4. destroying[1].pc # "map" /\ d.pc # "map"
    BY <2>1
  <2>5. DestroyingKept'
    BY <1>5, <2>1, <2>2, <2>3, <2>4
  <2>6. AddingKept'
    BY <1>1, <2>1, AddingGoesOn
  <2>7. QED
    BY <2>5, <2>6
<1>8. ASSUME NEW d, NEW r, DestroyCalled(d, r)
      PROVE  DestroyingKept' /\ AddingKept'
  <2>1. /\ Len(destroying) = 1 /\ destroying' = <<d>> /\ d.seq = destroying[1].seq
        /\ d.pc = destroying[1].pc /\ CalledBack(r, thread)
        /\ UNCHANGED <<order, client, adding>>
    BY <1>8 DEF DestroyCalled
  <2>2. /\ \A x \in Seqs : /\ graph'[x].map = graph[x].map /\ graph'[x].sched = graph[x].sched
                           /\ graph'[x].running = graph[x].running
        /\ \A v \in Threads : Woken(thread'[v], thread[v])
    BY <2>1 DEF CalledBack
  <2>3. PlacesKept /\ \A x \in Seqs : Undisturbed(x)
    BY <1>2, <2>1, <2>2 DEF PlacesKept, Undisturbed, Woken
  <2>4. Len(destroying') = 1 /\ destroying'[1] = d
    BY <2>1
  <2>5. \A i \in 1..Len(destroying) : i = 1 /\ destroying[i].seq \in Seqs
    BY <1>1, DestroyingLemma
  <2>6. DestroyingKept'
    BY <1>1, <2>1, <2>3, <2>4, <2>5, DestroyingGoesOn
  <2>7. AddingKept'
    BY <1>1, <2>1, <2>2, AddingGoesOn
  <2>8. QED
    BY <2>6, <2>7
<1>9. ASSUME NEW d, OrderGone(d)
      PROVE  DestroyingKept' /\ AddingKept'
  <2>1. /\ Len(destroying) = 1 /\ destroying[1].pc = "order" /\ destroying' = <<d>>
        /\ d.pc = "sequence" /\ UNCHANGED <<client, graph, adding>>
    BY <1>9 DEF OrderGone
  <2>2. destroying[1].pc # "map" /\ d.pc \notin {"map", "client", "order"}
    BY <2>1
  <2>3. DestroyingKept'
    BY <1>5, <2>1, <2>2
  <2>4. AddingKept'
    BY <1>1, <2>1, AddingGoesOn
  <2>5. QED
    BY <2>3, <2>4
<1>10. ASSUME NEW x, Deleted(x)
       PROVE  DestroyingKept' /\ AddingKept'
  <2>1. /\ Len(destroying) = 1 /\ destroying[1].pc = "sequence" /\ destroying' = << >>
        /\ \A s \in Seqs : s # x => graph'[s] = graph[s]
        /\ graph'[x].sched = graph[x].sched /\ graph'[x].map = graph[x].map
        /\ UNCHANGED <<client, adding>>
    BY <1>10 DEF Deleted
  <2>2. \A s \in Seqs : graph'[s].map = graph[s].map /\ graph'[s].sched = graph[s].sched
    BY <2>1
  <2>3. destroying[1].pc # "map"
    BY <2>1
  <2>4. DestroyingKept'
    BY <1>6, <2>1, <2>2, <2>3
  <2>5. AddingKept'
    BY <1>1, <2>1, <2>2, AddingGoesOn
  <2>6. QED
    BY <2>4, <2>5
<1>11. ASSUME DestroyEnded
       PROVE  DestroyingKept' /\ AddingKept'
  <2>1. /\ Len(destroying) = 1 /\ destroying[1].pc = "end" /\ destroying' = << >>
        /\ UNCHANGED <<graph, client, adding>>
    BY <1>11 DEF DestroyEnded
  <2>2. destroying[1].pc # "map"
    BY <2>1
  <2>3. DestroyingKept'
    BY <1>6, <2>1, <2>2
  <2>4. AddingKept'
    BY <1>1, <2>1, AddingGoesOn
  <2>5. QED
    BY <2>3, <2>4
<1>12. QED
  BY <1>4, <1>7, <1>8, <1>9, <1>10, <1>11 DEF DestroyShape

\* No step disturbs the destruction or the wait that is being added.
LEMMA PlansKept ==
    ASSUME GpuSound, GpuTypes', AwakeSound, ChecksSound, ~ AnyThread, StepShape
    PROVE  DestroyingKept' /\ AddingKept'
<1>1. GpuTypes /\ DestroyingKept /\ AddingKept
  BY DEF GpuSound, ChecksSound
<1>2. \A x \in Seqs : RunnerOf[x] \in Threads
  BY Constants
<1>3. \A i \in 1..Len(destroying) : destroying[i].seq \in Seqs
  BY <1>1, DestroyingLemma
<1>4. ASSUME UNCHANGED <<graph, order, thread, client, destroying, adding>>
      PROVE  DestroyingKept' /\ AddingKept'
  <2>1. PlacesKept /\ \A x \in Seqs : Undisturbed(x)
    BY <1>4 DEF PlacesKept, Undisturbed
  <2>2. DestroyingKept'
    BY <1>1, <1>3, <1>4, <2>1, DestroyingGoesOn
  <2>3. AddingKept'
    BY <1>1, <1>4, AddingGoesOn
  <2>4. QED
    BY <2>2, <2>3
<1>5. ASSUME NEW s, NEW task, TaskQueued(s, task)
      PROVE  DestroyingKept' /\ AddingKept'
  <2>1. /\ \A x \in Seqs : /\ graph'[x].map = graph[x].map /\ graph'[x].sched = graph[x].sched
                           /\ graph'[x].running = graph[x].running
        /\ \A v \in Threads : Woken(thread'[v], thread[v])
        /\ \A x \in Seqs \ {s} : Guarded(order'[x], order[x], x, last_order')
        /\ order'[s] = GenerateUnprocessedOrderNumber(order[s], last_order')
        /\ s \in Seqs /\ graph[s].sched /\ client' = client /\ destroying' = destroying
        /\ \/ adding' = << >>
           \/ \E k \in AllTokens :
                  /\ Waits(task.order, k)
                  /\ adding' = <<[seq |-> s, order |-> task.order, token |-> k]>>
    BY <1>5 DEF TaskQueued
  <2>2. order'[s].destroyed = order[s].destroyed
    BY <1>1, <2>1 DEF GenerateUnprocessedOrderNumber, GpuTypes, OrderDatas
  <2>3. PlacesKept
    BY <2>1, <2>2 DEF PlacesKept, Guarded
  <2>4. \A x \in Seqs : Undisturbed(x)
    BY <1>2, <2>1 DEF Undisturbed, Woken
  <2>5. DestroyingKept'
    BY <1>1, <1>3, <2>1, <2>3, <2>4, DestroyingGoesOn
  <2>6. CASE adding' = << >>
    BY <1>1, <2>1, <2>5, <2>6, AddingGoesOn
  <2>7. ASSUME NEW k \in AllTokens, Waits(task.order, k),
               adding' = <<[seq |-> s, order |-> task.order, token |-> k]>>
        PROVE  AddingKept'
    <3>1. /\ Len(adding') = 1 /\ adding'[1].seq = s /\ adding'[1].token = k
      BY <2>7
    <3>2. k[1] \in Seqs /\ k[2] \in Nat /\ k[2] > client[k[1]].released
      BY <2>7, Constants DEF AllTokens, Waits
    <3>3. client[k[1]].released < k[2]
      BY <1>1, <3>2, CountersTyped
    <3>4. \A i \in 1..1 : i = 1
      OBVIOUS
    <3>5. QED
      BY <2>1, <3>1, <3>3, <3>4 DEF AddingKept
  <2>8. QED
    BY <2>1, <2>5, <2>6, <2>7
<1>6. ASSUME NEW a, WaitStored(a)
      PROVE  DestroyingKept' /\ AddingKept'
  <2>1. /\ \A x \in Seqs : /\ graph'[x].map = graph[x].map /\ graph'[x].sched = graph[x].sched
                           /\ graph'[x].running = graph[x].running
                           /\ client'[x].released = client[x].released
        /\ \A v \in Threads : Woken(thread'[v], thread[v])
        /\ order' = order /\ destroying' = destroying /\ adding' = << >>
    BY <1>6 DEF WaitStored
  <2>2. PlacesKept /\ \A x \in Seqs : Undisturbed(x)
    BY <1>2, <2>1 DEF PlacesKept, Undisturbed, Woken
  <2>3. QED
    BY <1>1, <1>3, <2>1, <2>2, DestroyingGoesOn, AddingGoesOn
<1>7. ASSUME NEW u \in Threads, Free(u), ThreadShape(u)
      PROVE  DestroyingKept' /\ AddingKept'
  <2>1. /\ PlacesKept /\ destroying' = destroying /\ adding' = adding
        /\ \A x \in Seqs : RunnerOf[x] # u => Undisturbed(x)
        /\ ManagerUnlocked \/ \A x \in Seqs : client'[x].released = client[x].released
    BY <1>7, ThreadUndisturbed
  <2>2. \A i \in 1..Len(destroying) : RunnerOf[destroying[i].seq] # u
    BY <1>7 DEF Free
  <2>3. DestroyingKept'
    BY <1>1, <1>3, <2>1, <2>2, DestroyingGoesOn
  <2>4. AddingKept'
    BY <1>1, <2>1, AddingGoesOn DEF PlacesKept
  <2>5. QED
    BY <2>3, <2>4
<1>8. ASSUME NEW s, EnabledSet(s)
      PROVE  DestroyingKept' /\ AddingKept'
  <2>1. /\ \A x \in Seqs : /\ graph'[x].map = graph[x].map /\ graph'[x].sched = graph[x].sched
                           /\ graph'[x].running = graph[x].running
        /\ \A v \in Threads : Woken(thread'[v], thread[v])
        /\ UNCHANGED <<order, client, destroying, adding>>
    BY <1>8 DEF EnabledSet
  <2>2. PlacesKept /\ \A x \in Seqs : Undisturbed(x)
    BY <1>2, <2>1 DEF PlacesKept, Undisturbed, Woken
  <2>3. QED
    BY <1>1, <1>3, <2>1, <2>2, DestroyingGoesOn, AddingGoesOn
<1>9. ASSUME NEW s, NEW new, Validated(s, new)
      PROVE  DestroyingKept' /\ AddingKept'
  <2>1. /\ \A x \in Seqs : SameSequence(graph'[x], graph[x])
        /\ \A v \in Threads : thread'[v] = IF v = RunnerOf[s] THEN new ELSE thread[v]
        /\ new.running = thread[RunnerOf[s]].running
        /\ UNCHANGED <<order, client, destroying, adding>>
    BY <1>9 DEF Validated
  <2>2. PlacesKept /\ \A x \in Seqs : Undisturbed(x)
    BY <1>2, <2>1 DEF PlacesKept, Undisturbed, SameSequence
  <2>3. \A x \in Seqs : graph'[x].sched = graph[x].sched
    BY <2>2 DEF PlacesKept
  <2>4. QED
    BY <1>1, <1>3, <2>1, <2>2, <2>3, DestroyingGoesOn, AddingGoesOn
<1>10. CASE DestroyShape
  BY <1>1, <1>4, <1>10, DestroyPlans
<1>11. QED
  BY <1>4, <1>5, <1>6, <1>7, <1>8, <1>9, <1>10 DEF StepShape, gpuVars

(***************************************************************************)
(* The assertions                                                          *)
(***************************************************************************)
\* TryScheduleSequence finds the thread of a running sequence running.
LEMMA ScheduleAsserts ==
    ASSUME GpuSound, AwakeSound, ChecksSound, NEW s \in Seqs, graph[s].map \/ graph[s].sched,
           graph[s].running
    PROVE  thread[RunnerOf[s]].running
<1>1. RunnerOf[s] \in Threads
  BY Constants
<1>2. CASE graph[s].sched
  <2>1. thread[RunnerOf[s]].pc \in Executing
    BY <1>2 DEF AwakeSound, RunningBound
  <2>2. QED
    BY <1>1, <2>1 DEF AwakeSound, ThreadsRun, Executing
<1>3. CASE graph[s].map /\ ~ graph[s].sched
  <2>1. Len(destroying) = 1 /\ destroying[1].seq = s /\ destroying[1].pc = "map"
    BY <1>3 DEF ChecksSound, DestroyingKept
  <2>2. 1 \in 1..Len(destroying)
    BY <2>1
  <2>3. QED
    BY <2>1, <2>2 DEF ChecksSound, DestroyingKept
<1>4. QED
  BY <1>2, <1>3

LEMMA CalledAsserts ==
    ASSUME GpuSound, AwakeSound, ChecksSound, NEW r \in Callbacks,
           NEW th \in [Threads -> ThreadStates], CalledBack(r, th),
           \A u \in Threads : th[u].running = thread[u].running
    PROVE  checks'
<1>1. checks /\ r.seq \in Seqs /\ RunnerOf[r.seq] \in Threads
  BY Constants DEF ChecksSound, Callbacks
<1>2. CASE checks' = checks
  BY <1>1, <1>2
<1>3. CASE /\ FenceOf(r) \in graph[r.seq].waits /\ graph[r.seq].map
           /\ checks' = (/\ checks
                         /\ graph[r.seq].tasks # << >>
                         /\ TryScheduleChecks(graph', th, r.seq))
  <2>1. PICK i \in 1..Len(graph[r.seq].tasks) : TRUE
    BY <1>1, <1>3 DEF GpuSound, Numbered, WaitsHaveTasks
  <2>2. Len(graph[r.seq].tasks) # 0
    <3>1. 1..0 = {}
      OBVIOUS
    <3>2. QED
      BY <2>1, <3>1
  <2>3. graph[r.seq].tasks # << >>
    BY <1>1, <2>2, TasksTyped DEF GpuSound
  <2>4. graph'[r.seq].running = graph[r.seq].running
    BY <1>1 DEF CalledBack
  <2>5. TryScheduleChecks(graph', th, r.seq)
    BY <1>1, <1>3, <2>4, ScheduleAsserts DEF TryScheduleChecks
  <2>6. QED
    BY <1>1, <1>3, <2>3, <2>5
<1>4. QED
  BY <1>2, <1>3 DEF CalledBack

LEMMA AddedAsserts ==
    ASSUME GpuSound, AwakeSound, ChecksSound, NEW s \in Seqs, graph[s].sched,
           graph'[s].running = graph[s].running,
           checks' = (checks /\ TryScheduleChecks(graph', thread, s) /\ ~ order[s].destroyed)
    PROVE  checks'
<1>1. checks /\ ~ order[s].destroyed
  BY DEF ChecksSound, ReleasesRise
<1>2. TryScheduleChecks(graph', thread, s)
  BY ScheduleAsserts DEF TryScheduleChecks
<1>3. QED
  BY <1>1, <1>2

\* The chosen sequence of a thread still has a task it can run.
LEMMA ChosenAsserts ==
    ASSUME GpuSound, ChecksSound, NEW t \in Threads, thread[t].pc = "chosen"
    PROVE  /\ graph[thread[t].seq].sched /\ graph[thread[t].seq].enabled
           /\ graph[thread[t].seq].tasks # << >>
<1>1. graph[thread[t].seq].sched /\ graph[thread[t].seq].enabled
  BY DEF ChecksSound, SequenceKept
<1>2. IsFrontTaskUnblocked(graph, thread[t].seq)
  BY <1>1 DEF GpuSound, Numbered, ThreadBound
<1>3. QED
  BY <1>1, <1>2 DEF IsFrontTaskUnblocked

LEMMA StartedAsserts ==
    ASSUME GpuSound, AwakeSound, ChecksSound, NEW t, NEW s, TaskStarted(t, s)
    PROVE  checks'
<1> DEFINE num == Front(graph, s).order
<1>1. /\ t \in Threads /\ s \in Seqs /\ RunnerOf[s] = t /\ thread[t].pc = "chosen"
      /\ graph[s].sched /\ graph[s].tasks # << >>
      /\ checks' = (checks /\ ~ graph[s].running /\ BeginChecks(order[s], num))
  BY DEF TaskStarted
<1>2. checks /\ ReleasesRise(s) /\ Ahead(s) /\ GpuTypes
  BY <1>1 DEF ChecksSound, GpuSound, Numbered
<1>3. ~ graph[s].running
  BY <1>1 DEF AwakeSound, RunningBound, Executing
<1>4. 1 \in 1..Len(graph[s].tasks) /\ Front(graph, s) = graph[s].tasks[1]
      /\ Front(graph, s) \in Tasks
  BY <1>1, <1>2, FrontLemma
<1>5. /\ order[s].processed < num /\ order[s].current <= num /\ num <= order[s].last
  BY <1>2, <1>4 DEF Ahead, ReleasesRise
<1>6. num \in Nat /\ order[s].current \in Nat /\ order[s].processed \in Nat
  BY <1>1, <1>2, <1>4, CountersTyped, TaskNumbers
<1> HIDE DEF num
<1>7. BeginChecks(order[s], num)
  BY <1>5, <1>6 DEF BeginChecks
<1>8. QED
  BY <1>1, <1>2, <1>3, <1>7

LEMMA ReleasedAsserts ==
    ASSUME GpuSound, ChecksSound, NEW t \in Threads, NEW me, NEW s, NEW count, NEW cause,
           NEW taken, ReleaseStep(t, me, s, count, cause, taken)
    PROVE  checks'
<1>1. /\ s \in Seqs /\ count \in Nat
      /\ \/ cause = "force"
         \/ /\ cause \in {"explicit", "completion"} /\ thread[t].pc = "task"
            /\ count = thread[t].release /\ s = thread[t].seq
      /\ cause = "explicit" => client[s].told < count
      /\ Released(t, me, s, count, cause, taken)
  BY DEF ReleaseStep
<1>2. checks' = (checks /\ (client[s].mapped => ReleaseChecks(client[s], count, cause)))
  BY <1>1 DEF Released
<1>3. checks /\ ReleasesRise(s) /\ SequenceKept(t) /\ GpuTypes
  BY <1>1 DEF ChecksSound, GpuSound
<1>4. client[s].told \in Nat /\ client[s].released \in Nat
  BY <1>1, <1>3, CountersTyped
<1>5. cause = "explicit" => count > client[s].told
  BY <1>1, <1>4
<1>6. cause = "completion" => count >= client[s].told
  BY <1>1, <1>3, <1>4 DEF SequenceKept
<1>7. ASSUME count <= client[s].released, NEW r \in client[s].callbacks
      PROVE  r.count > count
  <2>1. r.count > client[s].released
    BY <1>3 DEF ReleasesRise
  <2>2. r.count \in Nat
    <3>1. client[s].callbacks \subseteq Callbacks
      BY <1>1, <1>3 DEF GpuTypes, ClientStates
    <3>2. r.count \in 1..MaxCount
      BY <3>1 DEF Callbacks
    <3>3. QED
      BY <3>2, Constants
  <2>3. QED
    BY <1>1, <1>4, <1>7, <2>1, <2>2
<1>8. ReleaseChecks(client[s], count, cause)
  BY <1>5, <1>6, <1>7 DEF ReleaseChecks
<1>9. QED
  BY <1>2, <1>3, <1>8

LEMMA ThreadAsserts ==
    ASSUME GpuSound, AwakeSound, ChecksSound, NEW t \in Threads, ThreadShape(t)
    PROVE  checks'
<1>1. checks /\ thread \in [Threads -> ThreadStates] /\ SequenceKept(t) /\ GpuTypes
  BY DEF ChecksSound, GpuSound, GpuTypes
<1>2. ASSUME NEW new, NextChosen(t, new) PROVE checks'
  BY <1>1, <1>2 DEF NextChosen
<1>3. CASE TaskMissed(t)
  BY <1>3, ChosenAsserts DEF TaskMissed
<1>4. ASSUME NEW task, TaskContinued(t, thread[t].seq, task) PROVE checks'
  <2>1. /\ thread[t].pc = "task" /\ graph[thread[t].seq].sched
        /\ checks' = (checks /\ graph[thread[t].seq].running)
    BY <1>4 DEF TaskContinued
  <2>2. QED
    BY <1>1, <2>1 DEF SequenceKept, Executing
<1>5. CASE TaskReturned(t) \/ RanAgain(t)
  BY <1>1, <1>5 DEF TaskReturned, RanAgain
<1>6. ASSUME NEW overdue, NumberDone(t, thread[t].seq, overdue) PROVE checks'
  <2> DEFINE s == thread[t].seq
  <2>1. /\ s \in Seqs /\ thread[t].order = order[s].current /\ IsProcessingOrderNumber(order[s])
        /\ order[s].nums # << >> /\ order[s].nums[1] = order[s].current
        /\ checks' = (checks /\ FinishChecks(order[s], thread[t].order))
    BY <1>6 DEF NumberDone
  <2> HIDE DEF s
  <2>2. order[s].nums \in Seq(1..MaxTasks)
    BY <1>1, <2>1 DEF GpuTypes, OrderDatas
  <2>3. Head(order[s].nums) = order[s].current
    BY <2>1, <2>2
  <2>4. FinishChecks(order[s], thread[t].order)
    BY <2>1, <2>3 DEF FinishChecks, IsProcessingOrderNumber
  <2>5. QED
    BY <1>1, <2>1, <2>4
<1>7. ASSUME NEW new, NEW f, NEW ended, WaitEnded(t, new, f, ended) PROVE checks'
  BY <1>1, <1>7 DEF WaitEnded
<1>8. ASSUME NEW r, ThreadCalled(t, r) PROVE checks'
  <2> DEFINE th == [thread EXCEPT ![t].callbacks = @ \ {r}]
  <2>1. r \in Callbacks /\ CalledBack(r, th)
    BY <1>8 DEF ThreadCalled
  <2>2. \A u \in Threads : th[u].running = thread[u].running
    BY <1>1 DEF ThreadStates
  <2>3. th \in [Threads -> ThreadStates]
    BY <1>1 DEF ThreadStates
  <2> HIDE DEF th
  <2>4. QED
    BY <2>1, <2>2, <2>3, CalledAsserts
<1>9. CASE TaskFinished(t)
  <2>1. /\ thread[t].pc = "finish"
        /\ checks' = (checks /\ (graph[thread[t].seq].sched => graph[thread[t].seq].running))
    BY <1>9 DEF TaskFinished
  <2>2. QED
    BY <1>1, <2>1 DEF SequenceKept, Executing
<1>10. QED
  BY <1>2, <1>3, <1>4, <1>5, <1>6, <1>7, <1>8, <1>9, StartedAsserts, ReleasedAsserts
     DEF ThreadShape

\* No assertion fails in any step.
LEMMA AssertsKept ==
    ASSUME GpuSound, AwakeSound, ChecksSound, StepShape
    PROVE  checks'
<1>1. checks /\ thread \in [Threads -> ThreadStates] /\ GpuTypes
  BY DEF ChecksSound, GpuSound, GpuTypes
<1>2. ASSUME checks' = checks PROVE checks'
  BY <1>1, <1>2
<1>3. ASSUME NEW s, NEW task, TaskQueued(s, task) PROVE checks'
  <2>1. /\ s \in Seqs /\ graph[s].sched /\ graph'[s].running = graph[s].running
        /\ \/ checks' = (/\ checks /\ TryScheduleChecks(graph', thread, s)
                         /\ ~ order[s].destroyed)
           \/ checks' = checks
    BY <1>3 DEF TaskQueued
  <2>2. QED
    BY <1>2, <2>1, AddedAsserts
<1>4. ASSUME NEW a, WaitStored(a) PROVE checks'
  <2>1. /\ a.seq \in Seqs /\ Len(adding) = 1 /\ adding[1] = a
        /\ graph'[a.seq].running = graph[a.seq].running
        /\ checks' = (/\ checks /\ TryScheduleChecks(graph', thread, a.seq)
                      /\ ~ order[a.seq].destroyed)
    BY <1>4 DEF WaitStored
  <2>2. 1 \in 1..Len(adding)
    BY <2>1
  <2>3. graph[a.seq].sched
    BY <2>1, <2>2 DEF ChecksSound, AddingKept
  <2>4. QED
    BY <2>1, <2>3, AddedAsserts
<1>5. ASSUME NEW t \in Threads, ThreadShape(t) PROVE checks'
  BY <1>5, ThreadAsserts
<1>6. ASSUME NEW s, EnabledSet(s) PROVE checks'
  <2>1. /\ s \in Seqs /\ graph[s].sched /\ graph'[s].running = graph[s].running
        /\ checks' = (checks /\ TryScheduleChecks(graph', thread, s))
    BY <1>6 DEF EnabledSet
  <2>2. TryScheduleChecks(graph', thread, s)
    BY <2>1, ScheduleAsserts DEF TryScheduleChecks
  <2>3. QED
    BY <1>1, <2>1, <2>2
<1>7. CASE DestroyShape
  <2>1. ASSUME NEW d, NEW r, DestroyCalled(d, r) PROVE checks'
    <3>1. r \in Callbacks /\ CalledBack(r, thread)
      BY <2>1 DEF DestroyCalled
    <3>2. QED
      BY <1>1, <3>1, CalledAsserts
  <2>2. ASSUME NEW d, OrderGone(d) PROVE checks'
    <3>1. /\ Len(destroying) = 1 /\ destroying[1].pc = "order" /\ d.seq = destroying[1].seq
          /\ checks' = (checks /\ ~ order[d.seq].destroyed)
      BY <2>2 DEF OrderGone
    <3>2. 1 \in 1..Len(destroying)
      BY <3>1
    <3>3. ~ order[d.seq].destroyed
      BY <3>1, <3>2 DEF ChecksSound, DestroyingKept
    <3>4. QED
      BY <1>1, <3>1, <3>3
  <2>3. ASSUME NEW s, NEW q, NEW d, DestroyMoved(s, q, d) PROVE checks'
    BY <1>2, <2>3 DEF DestroyMoved, DestroyStep
  <2>4. ASSUME NEW d, ClientGone(d) PROVE checks'
    BY <1>2, <2>4 DEF ClientGone
  <2>5. ASSUME NEW x, Deleted(x) PROVE checks'
    <3>1. \A s \in Seqs : graph[s].sched => TryScheduleChecks(graph, thread, s)
      BY ScheduleAsserts DEF TryScheduleChecks
    <3>2. QED
      BY <1>1, <2>5, <3>1 DEF Deleted
  <2>6. CASE DestroyEnded
    BY <1>2, <2>6 DEF DestroyEnded
  <2>7. QED
    BY <1>7, <2>1, <2>2, <2>3, <2>4, <2>5, <2>6 DEF DestroyShape
<1>8. ASSUME NEW s, NEW new, Validated(s, new) PROVE checks'
  BY <1>2, <1>8 DEF Validated
<1>9. CASE UNCHANGED gpuVars
  BY <1>2, <1>9 DEF gpuVars
<1>10. QED
  BY <1>3, <1>4, <1>5, <1>6, <1>7, <1>8, <1>9 DEF StepShape

LEMMA ChecksKept ==
    ASSUME GpuSound, AwakeSound, ChecksSound, ~ AnyThread, [GpuNext]_gpuVars
    PROVE  ChecksSound'
<1>1. GpuTypes' /\ StepShape
  BY StepLemma
<1>2. checks'
  BY <1>1, AssertsKept
<1>3. \A s \in Seqs : ReleasesRise(s)'
  BY <1>1, RisesKept
<1>4. \A t \in Threads : SequenceKept(t)'
  BY <1>1, WorkKept
<1>5. DestroyingKept' /\ AddingKept'
  BY <1>1, PlansKept
<1>6. QED
  BY <1>2, <1>3, <1>4, <1>5 DEF ChecksSound

LEMMA InitChecks == GpuInit => ChecksSound
<1> SUFFICES ASSUME GpuInit PROVE ChecksSound
  OBVIOUS
<1>1. /\ order = [s \in Seqs |-> NewOrderData] /\ client = [s \in Seqs |-> NewClientState]
      /\ graph = [s \in Seqs |-> NewSequence] /\ thread = [t \in Threads |-> NewThread]
      /\ adding = << >> /\ destroying = << >> /\ checks = TRUE
  BY DEF GpuInit
<1>2. /\ Len(<< >>) = 0 /\ 1..0 = {}
  OBVIOUS
<1>3. ASSUME NEW s \in Seqs PROVE ReleasesRise(s)
  <2>1. /\ order[s].current = 0 /\ order[s].last = 0 /\ ~ order[s].destroyed
        /\ client[s].told = 0 /\ client[s].released = 0 /\ client[s].callbacks = {}
        /\ graph[s].tasks = << >>
    BY <1>1 DEF NewOrderData, NewClientState, NewSequence
  <2>2. Len(graph[s].tasks) = 0
    BY <1>2, <2>1
  <2>3. QED
    BY <1>2, <2>1, <2>2 DEF ReleasesRise
<1>4. ASSUME NEW t \in Threads PROVE SequenceKept(t)
  <2>1. thread[t].pc = "idle"
    BY <1>1 DEF NewThread
  <2>2. QED
    BY <2>1 DEF SequenceKept, Executing
<1>5. DestroyingKept
  <2>1. \A s \in Seqs : graph[s].sched
    BY <1>1 DEF NewSequence
  <2>2. QED
    BY <1>1, <1>2, <2>1 DEF DestroyingKept
<1>6. AddingKept
  BY <1>1, <1>2 DEF AddingKept
<1>7. QED
  BY <1>1, <1>3, <1>4, <1>5, <1>6 DEF ChecksSound

LEMMA TypesOK == GpuSound /\ CallbacksSound /\ ChecksSound => GpuTypeOK
<1> SUFFICES ASSUME GpuSound, CallbacksSound, ChecksSound PROVE GpuTypeOK
  OBVIOUS
<1>1. GpuTypes
  BY DEF GpuSound
<1>2. ASSUME NEW s \in Seqs
      PROVE  /\ order[s].processed \in 0..MaxTasks /\ order[s].current \in 0..MaxTasks
             /\ client[s].released \in 0..Forever /\ client[s].told <= client[s].released
             /\ \A r \in client[s].callbacks : r.client = s /\ r.seq \in Seqs
             /\ \A i \in 1..Len(graph[s].tasks) : graph[s].tasks[i].order \in 1..MaxTasks
  <2>1. order[s].processed \in 0..MaxTasks /\ order[s].current \in 0..MaxTasks
    BY <1>1 DEF GpuTypes, OrderDatas
  <2>2. client[s].released \in 0..Forever /\ client[s].callbacks \subseteq Callbacks
    BY <1>1 DEF GpuTypes, ClientStates
  <2>3. client[s].told <= client[s].released
    BY DEF ChecksSound, ReleasesRise
  <2>4. \A r \in client[s].callbacks : r.client = s /\ r.seq \in Seqs
    BY <2>2 DEF CallbacksSound, CallbacksApart, Callbacks
  <2>5. \A i \in 1..Len(graph[s].tasks) : graph[s].tasks[i].order \in 1..MaxTasks
    BY <1>1, TaskType
  <2>6. QED
    BY <2>1, <2>2, <2>3, <2>4, <2>5
<1>3. ASSUME NEW t \in Threads
      PROVE  thread[t].pc \in {"idle", "chosen", "task", "processed",
                               "overdue", "finish", "again", "force"}
  BY <1>1 DEF GpuTypes, ThreadStates, Pcs, Executing
<1>4. graph_validation \in BOOLEAN /\ Len(adding) <= 1 /\ Len(destroying) <= 1
  BY <1>1 DEF GpuTypes
<1>5. QED
  BY <1>2, <1>3, <1>4 DEF GpuTypeOK

\* When sequences are destroyed on their own threads, no DCHECK of the scheduler,
\* the task graph or the sync points fails (BeginProcessingOrderNumber,
\* FinishProcessingOrderNumber, EnsureFenceSyncReleased, TryScheduleSequence,
\* RemoveWaitFence, ExecuteSequence and others): order numbers are processed in order,
\* releases count up, and a sequence stays where its thread or its destruction expects
\* it. And the CHECKs of the validation (ValidateTaskFenceDeps) fail at most for a
\* sequence whose front task was continued when tasks behind it were validated and
\* others were not: nowhere else does a search come to a task that is not the next of
\* its sequence, or to a sequence that it is in.
THEOREM AssertionsHold == ~ AnyThread => (GpuSpec => []GpuChecksHold)
<1> SUFFICES ASSUME ~ AnyThread PROVE GpuSpec => []GpuChecksHold
  OBVIOUS
<1> DEFINE First == \A s \in Seqs : ValidatedFirst(s)
           Inv == GpuSound /\ CallbacksSound /\ AwakeSound /\ ChecksSound /\ First
<1>1. GpuInit => Inv
  BY InitSound, InitCallbacks, InitAwake, InitChecks, InitFirst
<1>2. ASSUME Inv, [GpuNext]_gpuVars PROVE Inv'
  <2>1. GpuSound' /\ CallbacksSound' /\ AwakeSound'
    BY <1>2, StepLemma, CallbacksKept, AwakeKept DEF GpuSound
  <2>2. ChecksSound'
    BY <1>2, ChecksKept
  <2>3. First'
    BY <1>2, FirstKept
  <2>4. QED
    BY <2>1, <2>2, <2>3
<1>3. Inv => GpuChecksHold
  <2> SUFFICES ASSUME Inv PROVE GpuChecksHold
    OBVIOUS
  <2>1. GpuTypeOK /\ checks
    BY TypesOK DEF ChecksSound
  <2>2. \A s \in Seqs : ValidationChecks(s) \/ ContinuedFirst(s)
    BY ValidationFits DEF GpuSound
  <2>3. QED
    BY <2>1, <2>2 DEF GpuChecksHold
<1> HIDE DEF Inv
<1>4. QED
  BY <1>1, <1>2, <1>3, PTL DEF GpuSpec

================================================================================
