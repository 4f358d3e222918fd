---------------------------- MODULE GCMStore_proofs ----------------------------
(***************************************************************************)
(* Proofs about GCMStore, for any number of messages and applications, any *)
(* limit and any failures of LevelDB.                                      *)
(*                                                                         *)
(* The counts are corrected after the fact, so the argument is about what  *)
(* they stand for meanwhile. Charged is the set of messages that must be   *)
(* counted: those in the database, those on their way to it, and those     *)
(* whose removal or failure is still to be counted. Each message is        *)
(* charged once, and the counts are never below the number of them.        *)
(***************************************************************************)
EXTENDS GCMStore, Recursions, FiniteSetTheorems, TLAPS

Disks == [open : BOOLEAN, ids : SUBSET Ids]

TaskOps == {"load", "close", "destroy", "add", "overwrite", "remove"}

Tasks == [op : TaskOps, ids : Seq(Ids), epoch : Nat]

Replies == [op : {"load", "add", "remove"}, ok : BOOLEAN, ids : SUBSET Ids, epoch : Nat]

Uses == [closes : Nat, failures : Nat, overwrites : Nat, destroyed : BOOLEAN,
         revived : BOOLEAN]

\* The types, and ids not used so far are nowhere.
Typed ==
    /\ counts \in [Apps -> Int]
    /\ disk \in Disks
    /\ tasks \in Seq(Tasks)
    /\ replies \in Seq(Replies)
    /\ epoch \in Nat
    /\ status \in {"closed", "loading", "loaded", "failed"}
    /\ fresh \subseteq Ids
    /\ held \subseteq Ids \ fresh
    /\ checks \in BOOLEAN
    /\ used \in Uses
    /\ disk.ids \cap fresh = {}
    /\ \A i \in 1..Len(tasks) : Elements(tasks[i].ids) \cap fresh = {}
    /\ \A i \in 1..Len(replies) : replies[i].ids \cap fresh = {}

\* The messages that a task of AddOutgoingMessage is to write.
Adds(t) == IF t.op = "add" THEN Elements(t.ids) ELSE {}

AddsOf(ts) == UNION {Adds(ts[i]) : i \in 1..Len(ts)}

\* A message is on its way to the database once, and only while it is not there.
AddsDistinct(ids, ts) ==
    /\ AddsOf(ts) \cap ids = {}
    /\ \A i, j \in 1..Len(ts) : i # j => Adds(ts[i]) \cap Adds(ts[j]) = {}

\* What the database may come to hold.
Coming(ids, ts) == ids \cup AddsOf(ts)

CountOf(ids, a) == Cardinality(OfApp(ids, a))

WithinLimit == \A a \in Apps : CountOf(Coming(disk.ids, tasks), a) <= Limit

\* The answer to Load, with the database as it still is.
LoadAnswer(r) == r.op = "load" /\ r.epoch = epoch /\ r.ids = IF r.ok THEN disk.ids ELSE {}

\* While the store is closed nothing on either sequence is for it, and while it
\* is loading only the last thing is: the load, or its answer.
Quiet ==
    /\ status # "loaded" => counts = NoCounts
    /\ \A i \in 1..Len(tasks) :
           IF status = "loaded" \/ (status = "loading" /\ i = Len(tasks))
           THEN tasks[i].epoch = epoch ELSE tasks[i].epoch < epoch
    /\ \A i \in 1..Len(replies) :
           IF status = "loaded" \/ (status = "loading" /\ tasks = << >> /\ i = Len(replies))
           THEN replies[i].epoch = epoch ELSE replies[i].epoch < epoch
    /\ status = "loading" =>
           IF tasks = << >> THEN replies # << >> /\ LoadAnswer(replies[Len(replies)])
                            ELSE tasks[Len(tasks)].op = "load"
    /\ status = "loaded" =>
           /\ \A i \in 1..Len(tasks) : tasks[i].op # "load"
           /\ \A i \in 1..Len(replies) : replies[i].op # "load"

Answered(rs) == UNION {rs[i].ids : i \in 1..Len(rs)}

Charged == Coming(disk.ids, tasks) \cup Answered(replies)

\* While the store is loaded the counts cover what is charged, and nothing is
\* charged twice.
Covered ==
    status = "loaded" =>
        /\ Coming(disk.ids, tasks) \cap Answered(replies) = {}
        /\ \A i, j \in 1..Len(replies) : i # j => replies[i].ids \cap replies[j].ids = {}
        /\ \A a \in Apps : CountOf(Charged, a) <= counts[a] /\ counts[a] <= Limit

\* The inductive invariant; nothing is known of the counts once an overwrite has
\* revived a message.
Counted ==
    /\ checks
    /\ AddsDistinct(disk.ids, tasks)
    /\ WithinLimit
    /\ Quiet
    /\ Covered

IInv == Typed /\ (~ used.revived => Counted)

-----------------------------------------------------------------------------

\* Counting is finite.
LEMMA CountFinite ==
    ASSUME NEW S \in SUBSET Ids, NEW a
    PROVE  IsFiniteSet(OfApp(S, a)) /\ CountOf(S, a) \in Nat
<1>1. OfApp(S, a) \subseteq Ids
  BY DEF OfApp
<1>2. IsFiniteSet(OfApp(S, a))
  BY <1>1, StoreAssumption, FS_Subset
<1>3. QED
  BY <1>2, FS_CardinalityType DEF CountOf

\* Fewer messages, smaller counts.
LEMMA CountMonotonic ==
    ASSUME NEW S \in SUBSET Ids, NEW T \in SUBSET S, NEW a
    PROVE  CountOf(T, a) <= CountOf(S, a)
<1>1. OfApp(T, a) \subseteq OfApp(S, a)
  BY DEF OfApp
<1>2. QED
  BY <1>1, CountFinite, FS_Subset DEF CountOf

\* One more message adds one to the count of its application.
LEMMA CountAdd ==
    ASSUME NEW S \in SUBSET Ids, NEW id \in Ids, NEW a
    PROVE  CountOf(S \cup {id}, a) <= CountOf(S, a) + CountOf({id}, a)
<1>1. OfApp(S \cup {id}, a) = IF AppOf[id] = a THEN OfApp(S, a) \cup {id} ELSE OfApp(S, a)
  BY DEF OfApp
<1>2. OfApp({id}, a) = IF AppOf[id] = a THEN {id} ELSE {}
  BY DEF OfApp
<1>3. IsFiniteSet(OfApp(S, a)) /\ CountOf(S, a) \in Nat
  BY CountFinite
<1>4. CASE AppOf[id] = a
  <2>1. CountOf({id}, a) = 1
    BY <1>2, <1>4, FS_Singleton DEF CountOf
  <2>2. Cardinality(OfApp(S, a) \cup {id}) =
            IF id \in OfApp(S, a) THEN Cardinality(OfApp(S, a))
            ELSE Cardinality(OfApp(S, a)) + 1
    BY <1>3, FS_AddElement
  <2>3. CountOf(S \cup {id}, a) = IF id \in OfApp(S, a) THEN CountOf(S, a)
                                 ELSE CountOf(S, a) + 1
    BY <1>1, <1>4, <2>2 DEF CountOf
  <2>4. QED
    BY <1>3, <2>1, <2>3
<1>5. CASE AppOf[id] # a
  <2>1. CountOf({id}, a) = 0
    BY <1>2, <1>5, FS_EmptySet DEF CountOf
  <2>2. CountOf(S \cup {id}, a) = CountOf(S, a)
    BY <1>1, <1>5 DEF CountOf
  <2>3. QED
    BY <1>3, <2>1, <2>2
<1>6. QED
  BY <1>4, <1>5

\* The counts of two disjoint sets add up.
LEMMA CountDisjoint ==
    ASSUME NEW S \in SUBSET Ids, NEW T \in SUBSET Ids, S \cap T = {}, NEW a
    PROVE  CountOf(S \cup T, a) = CountOf(S, a) + CountOf(T, a)
<1>1. OfApp(S \cup T, a) = OfApp(S, a) \cup OfApp(T, a) /\ OfApp(S, a) \cap OfApp(T, a) = {}
  BY DEF OfApp
<1>2. /\ IsFiniteSet(OfApp(S, a)) /\ IsFiniteSet(OfApp(T, a))
      /\ CountOf(S, a) \in Nat /\ CountOf(T, a) \in Nat
  BY CountFinite
<1>3. Cardinality(OfApp(S, a) \cup OfApp(T, a))
        = Cardinality(OfApp(S, a)) + Cardinality(OfApp(T, a))
            - Cardinality(OfApp(S, a) \cap OfApp(T, a))
  BY <1>2, FS_Union
<1>4. Cardinality(OfApp(S, a) \cap OfApp(T, a)) = 0
  BY <1>1, FS_EmptySet
<1>5. CountOf(S \cup T, a) = CountOf(S, a) + CountOf(T, a) - 0
  BY <1>1, <1>3, <1>4 DEF CountOf
<1>6. QED
  BY <1>2, <1>5

LEMMA CountNothing ==
    ASSUME NEW a
    PROVE  CountOf({}, a) = 0
<1>1. OfApp({}, a) = {}
  BY DEF OfApp
<1>2. QED
  BY <1>1, FS_EmptySet DEF CountOf

-----------------------------------------------------------------------------

\* The messages of a task.
LEMMA TaskIds ==
    ASSUME NEW t \in Tasks
    PROVE  Elements(t.ids) \subseteq Ids /\ Adds(t) \subseteq Elements(t.ids)
<1>1. t.ids \in Seq(Ids)
  BY DEF Tasks
<1>2. Elements(t.ids) \subseteq Ids
  BY <1>1 DEF Elements
<1>3. QED
  BY <1>2 DEF Adds

\* A task posted last.
LEMMA PostedTask ==
    ASSUME NEW ts \in Seq(Tasks), NEW t \in Tasks
    PROVE  LET us == Append(ts, t)
           IN  /\ us \in Seq(Tasks) /\ Len(us) = Len(ts) + 1 /\ us # << >>
               /\ us[Len(us)] = t
               /\ \A i \in 1..Len(ts) : us[i] = ts[i]
               /\ AddsOf(us) = AddsOf(ts) \cup Adds(t)
<1> DEFINE us == Append(ts, t)
<1>1. /\ us \in Seq(Tasks) /\ Len(us) = Len(ts) + 1 /\ us # << >>
      /\ us[Len(us)] = t /\ Len(ts) \in Nat
      /\ \A i \in 1..Len(ts) : us[i] = ts[i]
  OBVIOUS
<1> HIDE DEF us
<1>2. \A i \in 1..Len(us) : i \in 1..Len(ts) \/ i = Len(us)
  BY <1>1
<1>3. Len(us) \in 1..Len(us) /\ \A i \in 1..Len(ts) : i \in 1..Len(us)
  BY <1>1
<1>4. AddsOf(us) \subseteq AddsOf(ts) \cup Adds(t)
  BY <1>1, <1>2 DEF AddsOf
<1>5. AddsOf(ts) \cup Adds(t) \subseteq AddsOf(us)
  BY <1>1, <1>3 DEF AddsOf
<1>6. QED
  BY <1>1, <1>4, <1>5 DEF us

\* The oldest task is taken off.
LEMMA TakenTask ==
    ASSUME NEW ts \in Seq(Tasks), ts # << >>
    PROVE  LET us == Tail(ts)
           IN  /\ us \in Seq(Tasks) /\ Len(us) = Len(ts) - 1
               /\ Head(ts) \in Tasks /\ Head(ts) = ts[1] /\ Len(ts) \in Nat /\ Len(ts) > 0
               /\ \A i \in 1..Len(us) : us[i] = ts[i + 1]
               /\ AddsOf(ts) = Adds(Head(ts)) \cup AddsOf(us)
<1> DEFINE us == Tail(ts)
<1>1. /\ us \in Seq(Tasks) /\ Len(us) = Len(ts) - 1
      /\ Head(ts) \in Tasks /\ Head(ts) = ts[1] /\ Len(ts) \in Nat /\ Len(ts) > 0
      /\ \A i \in 1..Len(us) : us[i] = ts[i + 1]
  OBVIOUS
<1> HIDE DEF us
<1>2. \A i \in 1..Len(ts) : i = 1 \/ (i - 1 \in 1..Len(us) /\ ts[i] = us[i - 1])
  BY <1>1
<1>3. 1 \in 1..Len(ts) /\ \A i \in 1..Len(us) : i + 1 \in 1..Len(ts)
  BY <1>1
<1>4. AddsOf(ts) \subseteq Adds(Head(ts)) \cup AddsOf(us)
  BY <1>1, <1>2 DEF AddsOf
<1>5. Adds(Head(ts)) \cup AddsOf(us) \subseteq AddsOf(ts)
  BY <1>1, <1>3 DEF AddsOf
<1>6. QED
  BY <1>1, <1>4, <1>5 DEF us

\* An answer posted last.
LEMMA PostedReply ==
    ASSUME NEW rs \in Seq(Replies), NEW r \in Replies
    PROVE  LET us == rs \o <<r>>
           IN  /\ us \in Seq(Replies) /\ Len(us) = Len(rs) + 1 /\ us # << >>
               /\ us[Len(us)] = r
               /\ \A i \in 1..Len(rs) : us[i] = rs[i]
               /\ Answered(us) = Answered(rs) \cup r.ids
<1> DEFINE us == rs \o <<r>>
<1>1. /\ us \in Seq(Replies) /\ Len(us) = Len(rs) + 1 /\ us # << >>
      /\ us[Len(us)] = r /\ Len(rs) \in Nat
      /\ \A i \in 1..Len(rs) : us[i] = rs[i]
  OBVIOUS
<1> HIDE DEF us
<1>2. \A i \in 1..Len(us) : i \in 1..Len(rs) \/ i = Len(us)
  BY <1>1
<1>3. Len(us) \in 1..Len(us) /\ \A i \in 1..Len(rs) : i \in 1..Len(us)
  BY <1>1
<1>4. Answered(us) \subseteq Answered(rs) \cup r.ids
  BY <1>1, <1>2 DEF Answered
<1>5. Answered(rs) \cup r.ids \subseteq Answered(us)
  BY <1>1, <1>3 DEF Answered
<1>6. QED
  BY <1>1, <1>4, <1>5 DEF us

\* The oldest answer is taken off.
LEMMA TakenReply ==
    ASSUME NEW rs \in Seq(Replies), rs # << >>
    PROVE  LET us == Tail(rs)
           IN  /\ us \in Seq(Replies) /\ Len(us) = Len(rs) - 1
               /\ Head(rs) \in Replies /\ Head(rs) = rs[1] /\ Len(rs) \in Nat /\ Len(rs) > 0
               /\ \A i \in 1..Len(us) : us[i] = rs[i + 1]
               /\ Answered(rs) = Head(rs).ids \cup Answered(us)
<1> DEFINE us == Tail(rs)
<1>1. /\ us \in Seq(Replies) /\ Len(us) = Len(rs) - 1
      /\ Head(rs) \in Replies /\ Head(rs) = rs[1] /\ Len(rs) \in Nat /\ Len(rs) > 0
      /\ \A i \in 1..Len(us) : us[i] = rs[i + 1]
  OBVIOUS
<1> HIDE DEF us
<1>2. \A i \in 1..Len(rs) : i = 1 \/ (i - 1 \in 1..Len(us) /\ rs[i] = us[i - 1])
  BY <1>1
<1>3. 1 \in 1..Len(rs) /\ \A i \in 1..Len(us) : i + 1 \in 1..Len(rs)
  BY <1>1
<1>4. Answered(rs) \subseteq Head(rs).ids \cup Answered(us)
  BY <1>1, <1>2 DEF Answered
<1>5. Head(rs).ids \cup Answered(us) \subseteq Answered(rs)
  BY <1>1, <1>3 DEF Answered
<1>6. QED
  BY <1>1, <1>4, <1>5 DEF us

\* What a list of answers covers is made of messages.
LEMMA AnsweredType ==
    ASSUME NEW rs \in Seq(Replies)
    PROVE  Answered(rs) \subseteq Ids
<1>1. \A i \in 1..Len(rs) : rs[i] \in Replies
  OBVIOUS
<1>2. \A r \in Replies : r.ids \subseteq Ids
  BY DEF Replies
<1>3. QED
  BY <1>1, <1>2 DEF Answered

\* What a list of tasks is to write is made of messages.
LEMMA AddsType ==
    ASSUME NEW ts \in Seq(Tasks)
    PROVE  AddsOf(ts) \subseteq Ids
<1>1. \A i \in 1..Len(ts) : ts[i] \in Tasks
  OBVIOUS
<1>2. \A t \in Tasks : Adds(t) \subseteq Ids
  BY TaskIds
<1>3. QED
  BY <1>1, <1>2 DEF AddsOf

\* The messages that RemoveOutgoingMessages deletes.
LEMMA RemovedLemma ==
    ASSUME NEW d \in Disks, NEW ids \in Seq(Ids), NEW good \in {0, 1, 2}
    PROVE  RemovedIds(d, ids, good) \subseteq d.ids \cap Elements(ids)
<1>1. SUFFICES ASSUME NEW n \in 1..Len(ids), \A i \in 1..n : ids[i] \in d.ids
               PROVE  ids[n] \in d.ids /\ ids[n] \in Elements(ids)
  BY DEF RemovedIds
<1>2. n \in 1..n
  BY <1>1
<1>3. QED
  BY <1>1, <1>2 DEF Elements

\* What a task does to the database.
LEMMA ExecutedLemma ==
    ASSUME NEW d \in Disks, NEW t \in Tasks, NEW good \in {0, 1, 2}
    PROVE  LET e == Executed(d, t, good)
           IN  /\ e \in Disks
               /\ e.ids \subseteq d.ids \cup Elements(t.ids)
               /\ t.op \notin {"add", "overwrite"} => e.ids \subseteq d.ids
               /\ t.op = "add" => e.ids \in {d.ids, d.ids \cup Elements(t.ids)}
               /\ t.op = "load" => e.ids = d.ids
               /\ t.op = "remove" => e.ids = d.ids \ RemovedIds(d, t.ids, good)
<1>1. /\ t.op \in TaskOps /\ t.ids \in Seq(Ids) /\ Elements(t.ids) \subseteq Ids
      /\ d.ids \subseteq Ids /\ d.open \in BOOLEAN
  BY TaskIds DEF Tasks, Disks
<1>2. CASE t.op = "load"
  <2>1. Executed(d, t, good) = [d EXCEPT !.open = d.open \/ good > 0]
    BY <1>2 DEF Executed
  <2>2. QED
    BY <1>1, <1>2, <2>1 DEF Disks
<1>3. CASE t.op \in {"add", "overwrite"}
  <2>1. Executed(d, t, good) =
            [d EXCEPT !.ids = IF d.open /\ good > 0 THEN d.ids \cup Elements(t.ids) ELSE d.ids]
    BY <1>3 DEF Executed
  <2>2. QED
    BY <1>1, <1>3, <2>1 DEF Disks
<1>4. CASE t.op = "remove"
  <2>1. Executed(d, t, good) = [d EXCEPT !.ids = d.ids \ RemovedIds(d, t.ids, good)]
    BY <1>4 DEF Executed
  <2>2. QED
    BY <1>1, <1>4, <2>1 DEF Disks
<1>5. CASE t.op = "close"
  <2>1. Executed(d, t, good) = [d EXCEPT !.open = FALSE]
    BY <1>5 DEF Executed
  <2>2. QED
    BY <1>1, <1>5, <2>1 DEF Disks
<1>6. CASE t.op = "destroy"
  <2>1. Executed(d, t, good) = [open |-> FALSE, ids |-> IF good > 0 THEN {} ELSE d.ids]
    BY <1>6 DEF Executed
  <2>2. QED
    BY <1>1, <1>6, <2>1 DEF Disks
<1>7. QED
  BY <1>1, <1>2, <1>3, <1>4, <1>5, <1>6 DEF TaskOps

\* What the Backend answers: what is loaded is what is there, what was not
\* written is not there, and what was removed is no longer there.
LEMMA AnswerLemma ==
    ASSUME NEW d \in Disks, NEW t \in Tasks, NEW good \in {0, 1, 2}
    PROVE  LET e == Executed(d, t, good)
           IN  \/ t.op \notin {"load", "add", "remove"} /\ Answer(d, t, good) = << >>
               \/ /\ t.op \in {"load", "add", "remove"}
                  /\ \E r \in Replies :
                         /\ Answer(d, t, good) = <<r>>
                         /\ r.op = t.op /\ r.epoch = t.epoch
                         /\ t.op = "load" => r.ids = IF r.ok THEN d.ids ELSE {}
                         /\ t.op = "add" => \/ r.ids = {}
                                            \/ r.ids = Elements(t.ids) /\ e.ids = d.ids
                         /\ t.op = "remove" => /\ r.ids \subseteq d.ids
                                               /\ r.ids \subseteq Elements(t.ids)
                                               /\ r.ids \cap e.ids = {}
<1> DEFINE removed == RemovedIds(d, t.ids, good)
           e == Executed(d, t, good)
<1>1. /\ t.op \in TaskOps /\ t.ids \in Seq(Ids) /\ Elements(t.ids) \subseteq Ids
      /\ d.ids \subseteq Ids /\ d.open \in BOOLEAN /\ t.epoch \in Nat
  BY TaskIds DEF Tasks, Disks
<1>2. removed \subseteq d.ids \cap Elements(t.ids)
  BY <1>1, RemovedLemma
<1>3. t.op = "remove" => e.ids = d.ids \ removed
  BY ExecutedLemma, SMTT(30)
<1>4. CASE t.op = "load"
  <2> DEFINE ok == ~ d.open /\ good > 1
             r == [op |-> "load", ok |-> ok, ids |-> IF ok THEN d.ids ELSE {},
                   epoch |-> t.epoch]
  <2>1. Answer(d, t, good) = <<r>>
    BY <1>4 DEF Answer
  <2>2. r \in Replies
    BY <1>1 DEF Replies
  <2>3. r.op = "load" /\ r.epoch = t.epoch /\ r.ids = IF r.ok THEN d.ids ELSE {}
    OBVIOUS
  <2> HIDE DEF r
  <2>4. QED
    BY <1>4, <2>1, <2>2, <2>3
<1>5. CASE t.op = "add"
  <2> DEFINE ok == d.open /\ good > 0
             r == [op |-> "add", ok |-> ok, ids |-> IF ok THEN {} ELSE Elements(t.ids),
                   epoch |-> t.epoch]
  <2>1. Answer(d, t, good) = <<r>>
    BY <1>5 DEF Answer
  <2>2. r \in Replies
    BY <1>1 DEF Replies
  <2>3. e = [d EXCEPT !.ids = IF d.open /\ good > 0 THEN d.ids \cup Elements(t.ids) ELSE d.ids]
    BY <1>5 DEF Executed
  <2>4. ~ ok => e.ids = d.ids
    BY <1>1, <2>3 DEF Disks
  <2>5. r.op = "add" /\ r.epoch = t.epoch /\ r.ids = IF ok THEN {} ELSE Elements(t.ids)
    OBVIOUS
  <2> HIDE DEF r, e, ok
  <2>6. QED
    BY <1>5, <2>1, <2>2, <2>4, <2>5 DEF e
<1>6. CASE t.op = "remove"
  <2> DEFINE ok == d.open /\ removed = Elements(t.ids)
             ids == IF d.open THEN CountedRemovals(Elements(t.ids), removed) ELSE {}
             r == [op |-> "remove", ok |-> ok, ids |-> ids, epoch |-> t.epoch]
  <2>1. Answer(d, t, good) = <<r>>
    BY <1>6 DEF Answer
  <2>2. ids \subseteq removed
    BY DEF CountedRemovals
  <2>3. r \in Replies
    <3>1. ids \in SUBSET Ids /\ ok \in BOOLEAN
      BY <1>1, <1>2, <2>2
    <3> HIDE DEF ids, ok
    <3>2. QED
      BY <1>1, <3>1 DEF Replies
  <2>4. r.op = "remove" /\ r.epoch = t.epoch /\ r.ids = ids
    OBVIOUS
  <2> HIDE DEF r, e, ids, ok, removed
  <2>5. r.ids \subseteq d.ids /\ r.ids \subseteq Elements(t.ids) /\ r.ids \cap e.ids = {}
    BY <1>2, <1>3, <1>6, <2>2, <2>4
  <2>6. QED
    BY <1>6, <2>1, <2>3, <2>4, <2>5 DEF e
<1>7. CASE t.op \notin {"load", "add", "remove"}
  BY <1>7 DEF Answer
<1>8. QED
  BY <1>4, <1>5, <1>6, <1>7

-----------------------------------------------------------------------------

\* A task other than an add is posted.
LEMMA PostLemma ==
    ASSUME Typed, NEW op \in TaskOps \ {"add"}, NEW ids \in Seq(Ids), Post(op, ids),
           Elements(ids) \cap fresh = {}
    PROVE  /\ tasks' \in Seq(Tasks) /\ Len(tasks') = Len(tasks) + 1 /\ tasks' # << >>
           /\ Len(tasks) \in Nat
           /\ tasks'[Len(tasks')] = [op |-> op, ids |-> ids, epoch |-> epoch]
           /\ \A i \in 1..Len(tasks) : tasks'[i] = tasks[i]
           /\ \A i \in 1..Len(tasks') : i \in 1..Len(tasks) \/ i = Len(tasks')
           /\ \A i \in 1..Len(tasks') : Elements(tasks'[i].ids) \cap fresh = {}
           /\ AddsOf(tasks') = AddsOf(tasks)
           /\ AddsDistinct(disk.ids, tasks) => AddsDistinct(disk.ids, tasks')
<1> DEFINE t == [op |-> op, ids |-> ids, epoch |-> epoch]
<1>1. t \in Tasks /\ Adds(t) = {}
  BY DEF Tasks, Typed, Adds
<1>2. tasks' = Append(tasks, t) /\ tasks \in Seq(Tasks)
  BY DEF Post, Typed
<1>3. t.ids = ids
  OBVIOUS
<1> HIDE DEF t
<1>4. /\ tasks' \in Seq(Tasks) /\ Len(tasks') = Len(tasks) + 1 /\ tasks' # << >>
      /\ tasks'[Len(tasks')] = t
      /\ \A i \in 1..Len(tasks) : tasks'[i] = tasks[i]
      /\ AddsOf(tasks') = AddsOf(tasks)
  BY <1>1, <1>2, PostedTask, ZenonT(30)
<1>5. Len(tasks) \in Nat /\ \A i \in 1..Len(tasks') : i \in 1..Len(tasks) \/ i = Len(tasks')
  BY <1>2, <1>4
<1>6. \A i \in 1..Len(tasks') : Elements(tasks'[i].ids) \cap fresh = {}
  BY <1>3, <1>4, <1>5 DEF Typed
<1>7. AddsDistinct(disk.ids, tasks) => AddsDistinct(disk.ids, tasks')
  BY <1>1, <1>4, <1>5 DEF AddsDistinct
<1>8. QED
  BY <1>4, <1>5, <1>6, <1>7 DEF t

LEMMA LoadInv ==
    ASSUME IInv, Load
    PROVE  IInv'
<1>1. Typed /\ << >> \in Seq(Ids) /\ Elements(<< >>) \cap fresh = {} /\ "load" \in TaskOps \ {"add"}
  BY DEF IInv, Elements, TaskOps
<1>2. /\ status = "closed" /\ status' = "loading" /\ Post("load", << >>)
      /\ UNCHANGED <<counts, disk, replies, epoch, held, fresh, checks, used>>
  BY DEF Load
<1>3. /\ tasks' \in Seq(Tasks) /\ Len(tasks') = Len(tasks) + 1 /\ tasks' # << >>
      /\ Len(tasks) \in Nat
      /\ tasks'[Len(tasks')] = [op |-> "load", ids |-> << >>, epoch |-> epoch]
      /\ \A i \in 1..Len(tasks) : tasks'[i] = tasks[i]
      /\ \A i \in 1..Len(tasks') : i \in 1..Len(tasks) \/ i = Len(tasks')
      /\ \A i \in 1..Len(tasks') : Elements(tasks'[i].ids) \cap fresh = {}
      /\ AddsOf(tasks') = AddsOf(tasks)
      /\ AddsDistinct(disk.ids, tasks) => AddsDistinct(disk.ids, tasks')
  BY <1>1, <1>2, PostLemma
<1>4. Typed'
  BY <1>1, <1>2, <1>3 DEF Typed
<1>5. ASSUME ~ used.revived
      PROVE  Counted'
  <2>1. Counted
    BY <1>5 DEF IInv
  <2>2. AddsDistinct(disk.ids, tasks)' /\ WithinLimit' /\ Covered' /\ checks'
    BY <1>2, <1>3, <2>1 DEF Counted, WithinLimit, Coming, Covered, AddsDistinct
  <2>3. \A i \in 1..Len(tasks') :
            IF i = Len(tasks') THEN tasks'[i].epoch = epoch ELSE tasks'[i].epoch < epoch
    BY <1>2, <1>3, <2>1 DEF Counted, Quiet
  <2>4. \A i \in 1..Len(replies) : replies[i].epoch < epoch
    BY <1>2, <2>1 DEF Counted, Quiet
  <2>5. counts = NoCounts
    BY <1>2, <2>1 DEF Counted, Quiet
  <2>6. Quiet'
    BY <1>2, <1>3, <2>3, <2>4, <2>5 DEF Quiet, NoCounts
  <2>7. QED
    BY <2>2, <2>6 DEF Counted
<1>6. QED
  BY <1>2, <1>4, <1>5 DEF IInv

\* No task and no answer is for a later instance of the store.
LEMMA NoneLater ==
    ASSUME Typed, Quiet
    PROVE  /\ \A i \in 1..Len(tasks) : tasks[i].epoch < epoch + 1
           /\ \A i \in 1..Len(replies) : replies[i].epoch < epoch + 1
<1>1. epoch \in Nat
  BY DEF Typed
<1>2. \A i \in 1..Len(tasks) : tasks[i].epoch \in Nat
  <2>1. \A i \in 1..Len(tasks) : tasks[i] \in Tasks
    BY DEF Typed
  <2>2. QED
    BY <2>1 DEF Tasks
<1>3. \A i \in 1..Len(replies) : replies[i].epoch \in Nat
  <2>1. \A i \in 1..Len(replies) : replies[i] \in Replies
    BY DEF Typed
  <2>2. QED
    BY <2>1 DEF Replies
<1>4. /\ \A i \in 1..Len(tasks) : tasks[i].epoch = epoch \/ tasks[i].epoch < epoch
      /\ \A i \in 1..Len(replies) : replies[i].epoch = epoch \/ replies[i].epoch < epoch
  BY DEF Quiet
<1>5. QED
  BY SMTT(30), <1>1, <1>2, <1>3, <1>4

LEMMA CloseInv ==
    ASSUME IInv, Close
    PROVE  IInv'
<1>1. Typed /\ << >> \in Seq(Ids) /\ Elements(<< >>) \cap fresh = {} /\ "close" \in TaskOps \ {"add"}
  BY DEF IInv, Elements, TaskOps
<1>2. /\ status' = "closed" /\ Post("close", << >>) /\ held' = {} /\ epoch' = epoch + 1
      /\ counts' = NoCounts /\ used' = [used EXCEPT !.closes = @ + 1, !.destroyed = FALSE]
      /\ UNCHANGED <<disk, replies, fresh, checks>>
  BY DEF Close
<1>3. /\ tasks' \in Seq(Tasks) /\ Len(tasks') = Len(tasks) + 1 /\ tasks' # << >>
      /\ Len(tasks) \in Nat
      /\ tasks'[Len(tasks')] = [op |-> "close", ids |-> << >>, epoch |-> epoch]
      /\ \A i \in 1..Len(tasks) : tasks'[i] = tasks[i]
      /\ \A i \in 1..Len(tasks') : i \in 1..Len(tasks) \/ i = Len(tasks')
      /\ \A i \in 1..Len(tasks') : Elements(tasks'[i].ids) \cap fresh = {}
      /\ AddsOf(tasks') = AddsOf(tasks)
      /\ AddsDistinct(disk.ids, tasks) => AddsDistinct(disk.ids, tasks')
  BY <1>1, <1>2, PostLemma
<1>4. used' \in Uses /\ used'.revived = used.revived
  <2>1. used \in Uses /\ used.closes + 1 \in Nat
    BY <1>1 DEF Typed, Uses
  <2>2. QED
    BY <1>2, <2>1 DEF Uses
<1>5. NoCounts \in [Apps -> Int] /\ epoch \in Nat /\ epoch + 1 \in Nat
  BY <1>1 DEF NoCounts, Typed
<1>6. Typed'
  BY <1>1, <1>2, <1>3, <1>4, <1>5 DEF Typed
<1>7. ASSUME ~ used.revived
      PROVE  Counted'
  <2>1. Counted
    BY <1>7 DEF IInv
  <2>2. AddsDistinct(disk.ids, tasks)' /\ WithinLimit' /\ Covered' /\ checks'
    BY <1>2, <1>3, <2>1 DEF Counted, WithinLimit, Coming, Covered, AddsDistinct
  <2>3. /\ \A i \in 1..Len(tasks) : tasks[i].epoch < epoch + 1
        /\ \A i \in 1..Len(replies) : replies[i].epoch < epoch + 1
    BY <1>1, <2>1, NoneLater DEF Counted
  <2>4. \A i \in 1..Len(tasks') : tasks'[i].epoch < epoch + 1
    BY <1>3, <1>5, <2>3
  <2>5. Quiet'
    BY <1>2, <2>3, <2>4 DEF Quiet, NoCounts
  <2>6. QED
    BY <2>2, <2>5 DEF Counted
<1>8. QED
  BY <1>4, <1>6, <1>7 DEF IInv

\* Anything but an add is posted while the store is loaded.
LEMMA PostedWhileLoaded ==
    ASSUME Typed, Counted, status = "loaded", NEW op \in TaskOps \ {"add", "load"},
           NEW ids \in Seq(Ids), Elements(ids) \cap fresh = {}, Post(op, ids),
           UNCHANGED <<counts, disk, replies, epoch, status, checks>>
    PROVE  Counted'
<1>1. /\ tasks' \in Seq(Tasks)
      /\ tasks'[Len(tasks')] = [op |-> op, ids |-> ids, epoch |-> epoch]
      /\ \A i \in 1..Len(tasks) : tasks'[i] = tasks[i]
      /\ \A i \in 1..Len(tasks') : i \in 1..Len(tasks) \/ i = Len(tasks')
      /\ AddsOf(tasks') = AddsOf(tasks)
      /\ AddsDistinct(disk.ids, tasks) => AddsDistinct(disk.ids, tasks')
  BY PostLemma
<1>2. AddsDistinct(disk.ids, tasks)' /\ WithinLimit' /\ checks'
  BY <1>1 DEF Counted, WithinLimit, Coming, AddsDistinct
<1>3. Coming(disk.ids, tasks)' = Coming(disk.ids, tasks) /\ Charged' = Charged
  BY <1>1 DEF Coming, Charged
<1>4. Covered'
  BY <1>3 DEF Counted, Covered
<1>5. \A i \in 1..Len(tasks') : tasks'[i].epoch = epoch /\ tasks'[i].op # "load"
  BY <1>1 DEF Counted, Quiet
<1>6. Quiet'
  BY <1>5 DEF Counted, Quiet
<1>7. QED
  BY <1>2, <1>4, <1>6 DEF Counted

LEMMA DestroyInv ==
    ASSUME IInv, Destroy
    PROVE  IInv'
<1>1. Typed /\ << >> \in Seq(Ids) /\ Elements(<< >>) \cap fresh = {}
      /\ "destroy" \in TaskOps \ {"add", "load"} /\ "destroy" \in TaskOps \ {"add"}
  BY DEF IInv, Elements, TaskOps
<1>2. /\ status = "loaded" /\ Post("destroy", << >>)
      /\ used' = [used EXCEPT !.closes = @ + 1, !.destroyed = TRUE]
      /\ UNCHANGED <<counts, disk, replies, epoch, status, held, fresh, checks>>
  BY DEF Destroy
<1>3. used' \in Uses /\ used'.revived = used.revived
  <2>1. used \in Uses /\ used.closes + 1 \in Nat
    BY <1>1 DEF Typed, Uses
  <2>2. QED
    BY <1>2, <2>1 DEF Uses
<1>4. /\ tasks' \in Seq(Tasks)
      /\ \A i \in 1..Len(tasks') : Elements(tasks'[i].ids) \cap fresh = {}
  BY <1>1, <1>2, PostLemma
<1>5. Typed'
  BY <1>1, <1>2, <1>3, <1>4 DEF Typed
<1>6. ~ used.revived => Counted'
  BY <1>1, <1>2, PostedWhileLoaded DEF IInv
<1>7. QED
  BY <1>3, <1>5, <1>6 DEF IInv

LEMMA OverwriteInv ==
    ASSUME IInv, OverwriteOutgoingMessage
    PROVE  IInv'
<1>1. Typed /\ "overwrite" \in TaskOps \ {"add", "load"} /\ "overwrite" \in TaskOps \ {"add"}
  BY DEF IInv, TaskOps
<1>2. PICK id \in held : Post("overwrite", <<id>>)
  BY DEF OverwriteOutgoingMessage
<1>3. /\ status = "loaded" /\ used' = [used EXCEPT !.overwrites = @ + 1]
      /\ UNCHANGED <<counts, disk, replies, epoch, status, held, fresh, checks>>
  BY DEF OverwriteOutgoingMessage
<1>4. used' \in Uses /\ used'.revived = used.revived
  <2>1. used \in Uses /\ used.overwrites + 1 \in Nat
    BY <1>1 DEF Typed, Uses
  <2>2. QED
    BY <1>3, <2>1 DEF Uses
<1>5. <<id>> \in Seq(Ids) /\ Elements(<<id>>) \cap fresh = {}
  BY <1>1, <1>2 DEF Typed, Elements
<1>6. /\ tasks' \in Seq(Tasks)
      /\ \A i \in 1..Len(tasks') : Elements(tasks'[i].ids) \cap fresh = {}
  BY <1>1, <1>2, <1>5, PostLemma
<1>7. Typed'
  BY <1>1, <1>3, <1>4, <1>6 DEF Typed
<1>8. ~ used.revived => Counted'
  BY <1>1, <1>2, <1>3, <1>5, PostedWhileLoaded DEF IInv
<1>9. QED
  BY <1>4, <1>7, <1>8 DEF IInv

LEMMA RemoveInv ==
    ASSUME IInv, RemoveOutgoingMessages
    PROVE  IInv'
<1>1. Typed /\ "remove" \in TaskOps \ {"add", "load"} /\ "remove" \in TaskOps \ {"add"}
  BY DEF IInv, TaskOps
<1>2. PICK i, j \in held : /\ held' = held \ {i, j}
                           /\ Post("remove", IF i = j THEN <<i>> ELSE <<i, j>>)
  BY DEF RemoveOutgoingMessages
<1>3. /\ status = "loaded"
      /\ UNCHANGED <<counts, disk, replies, epoch, status, fresh, checks, used>>
  BY DEF RemoveOutgoingMessages
<1> DEFINE ids == IF i = j THEN <<i>> ELSE <<i, j>>
<1>4. i \in Ids \ fresh /\ j \in Ids \ fresh
  BY <1>1, <1>2 DEF Typed
<1>5. ids \in Seq(Ids) /\ Elements(ids) \cap fresh = {}
  <2>1. <<i>> \in Seq(Ids) /\ <<i, j>> \in Seq(Ids)
    BY <1>4
  <2>2. Elements(<<i>>) = {i} /\ Elements(<<i, j>>) = {i, j}
    BY DEF Elements
  <2>3. QED
    BY <1>4, <2>1, <2>2
<1> HIDE DEF ids
<1>6. Post("remove", ids)
  BY <1>2 DEF ids
<1>7. /\ tasks' \in Seq(Tasks)
      /\ \A k \in 1..Len(tasks') : Elements(tasks'[k].ids) \cap fresh = {}
  BY <1>1, <1>5, <1>6, PostLemma
<1>8. Typed'
  BY <1>1, <1>2, <1>3, <1>7 DEF Typed
<1>9. ~ used.revived => Counted'
  BY <1>1, <1>3, <1>5, <1>6, PostedWhileLoaded DEF IInv
<1>10. QED
  BY <1>3, <1>8, <1>9 DEF IInv

\* A message below the limit is counted and on its way to the database.
LEMMA AddInv ==
    ASSUME IInv, AddOutgoingMessage
    PROVE  IInv'
<1>1. PICK id \in fresh : Add(id) /\ fresh' = fresh \ {id}
  BY DEF AddOutgoingMessage
<1>2. Typed /\ id \in Ids /\ fresh \subseteq Ids
  BY <1>1 DEF IInv, Typed
<1>3. status = "loaded" /\ UNCHANGED <<disk, replies, epoch, status, checks, used>>
  BY <1>1 DEF Add
<1>4. CASE ~ BelowLimit(id) /\ UNCHANGED <<counts, held, tasks>>
  <2>1. Typed'
    BY <1>1, <1>2, <1>3, <1>4 DEF Typed
  <2>2. Counted => Counted'
    BY <1>3, <1>4 DEF Counted, WithinLimit, Quiet, LoadAnswer, Covered, Charged
  <2>3. QED
    BY <1>3, <2>1, <2>2 DEF IInv
<1>5. CASE /\ BelowLimit(id) /\ counts' = Plus(counts, {id})
           /\ held' = held \cup {id} /\ Post("add", <<id>>)
  <2> DEFINE t == [op |-> "add", ids |-> <<id>>, epoch |-> epoch]
  <2>1. tasks' = Append(tasks, t) /\ tasks \in Seq(Tasks)
    BY <1>2, <1>5 DEF Post, Typed
  <2>2. t \in Tasks /\ t.op = "add" /\ t.epoch = epoch /\ Elements(t.ids) = {id}
    BY <1>2 DEF Tasks, TaskOps, Typed, Elements
  <2>3. Adds(t) = {id}
    BY <2>2 DEF Adds
  <2> HIDE DEF t
  <2>4. /\ tasks' \in Seq(Tasks) /\ Len(tasks') = Len(tasks) + 1 /\ tasks' # << >>
        /\ tasks'[Len(tasks')] = t
        /\ \A i \in 1..Len(tasks) : tasks'[i] = tasks[i]
        /\ AddsOf(tasks') = AddsOf(tasks) \cup {id}
    BY <2>1, <2>2, <2>3, PostedTask
  <2>5. \A i \in 1..Len(tasks') : i \in 1..Len(tasks) \/ i = Len(tasks')
    BY <2>1, <2>4
  <2>6. counts' = [a \in Apps |-> counts[a] + CountOf({id}, a)] /\ counts \in [Apps -> Int]
    BY <1>2, <1>5 DEF Plus, CountOf, Typed
  <2>7. \A a : CountOf({id}, a) \in Nat
    BY <1>2, CountFinite
  <2>8. Typed'
    <3>1. counts' \in [Apps -> Int]
      BY <2>6, <2>7
    <3>2. \A i \in 1..Len(tasks') : Elements(tasks'[i].ids) \cap fresh' = {}
      BY <1>1, <1>2, <2>2, <2>4, <2>5 DEF Typed
    <3>3. /\ disk.ids \cap fresh' = {} /\ held' \subseteq Ids \ fresh' /\ fresh' \subseteq Ids
          /\ \A i \in 1..Len(replies) : replies[i].ids \cap fresh' = {}
      BY <1>1, <1>2, <1>5 DEF Typed
    <3>4. QED
      BY <1>2, <1>3, <2>4, <3>1, <3>2, <3>3 DEF Typed
  <2>9. ASSUME ~ used.revived
        PROVE  Counted'
    <3>1. Counted
      BY <2>9 DEF IInv
    <3>2. /\ Coming(disk.ids, tasks) \subseteq Ids /\ Answered(replies) \subseteq Ids
          /\ Charged \subseteq Ids
      BY <1>2, AddsType, AnsweredType DEF Coming, Charged, Typed, Disks
    <3>3. id \notin Coming(disk.ids, tasks) /\ id \notin Answered(replies)
      <4>1. id \notin disk.ids
        BY <1>1, <1>2 DEF Typed
      <4>2. \A i \in 1..Len(tasks) : id \notin Adds(tasks[i])
        BY <1>1, <1>2 DEF Typed, Adds
      <4>3. \A i \in 1..Len(replies) : id \notin replies[i].ids
        BY <1>1, <1>2 DEF Typed
      <4>4. QED
        BY <4>1, <4>2, <4>3 DEF Coming, AddsOf, Answered
    <3>4. /\ Coming(disk.ids, tasks)' = Coming(disk.ids, tasks) \cup {id}
          /\ Charged' = Charged \cup {id}
      BY <1>3, <2>4 DEF Coming, Charged
    <3>5. AddsDistinct(disk.ids, tasks)'
      <4>1. AddsDistinct(disk.ids, tasks)
        BY <3>1 DEF Counted
      <4>2. AddsOf(tasks') \cap disk.ids = {}
        BY <2>4, <3>3, <4>1 DEF AddsDistinct, Coming
      <4>3. \A i \in 1..Len(tasks) : Adds(tasks[i]) \cap Adds(t) = {}
        BY <2>3, <3>3 DEF Coming, AddsOf
      <4>4. \A i, j \in 1..Len(tasks') : i # j => Adds(tasks'[i]) \cap Adds(tasks'[j]) = {}
        BY <2>4, <2>5, <4>1, <4>3 DEF AddsDistinct
      <4>5. QED
        BY <1>3, <4>2, <4>4 DEF AddsDistinct
    <3>6. \A a \in Apps : CountOf(Charged', a) <= counts'[a] /\ counts'[a] <= Limit
      <4>1. SUFFICES ASSUME NEW a \in Apps
                     PROVE  CountOf(Charged', a) <= counts'[a] /\ counts'[a] <= Limit
        OBVIOUS
      <4>2. CountOf(Charged, a) <= counts[a] /\ counts[a] <= Limit
        BY <1>3, <3>1 DEF Counted, Covered
      <4>3. CountOf(Charged', a) <= CountOf(Charged, a) + CountOf({id}, a)
        BY <1>2, <3>2, <3>4, CountAdd
      <4>4. /\ CountOf(Charged, a) \in Nat /\ CountOf({id}, a) \in Nat
            /\ CountOf(Charged', a) \in Nat /\ counts[a] \in Int /\ Limit \in Nat
        BY <1>2, <2>6, <3>2, <3>4, CountFinite, StoreAssumption
      <4>5. counts'[a] = counts[a] + CountOf({id}, a)
        BY <2>6
      <4>6. CASE AppOf[id] = a
        <5>1. OfApp({id}, a) = {id}
          BY <4>6 DEF OfApp
        <5>2. CountOf({id}, a) = 1
          BY <5>1, FS_Singleton DEF CountOf
        <5>3. counts[a] < Limit
          BY <1>5, <4>6 DEF BelowLimit
        <5>4. QED
          BY <4>2, <4>3, <4>4, <4>5, <5>2, <5>3
      <4>7. CASE AppOf[id] # a
        <5>1. OfApp({id}, a) = {}
          BY <4>7 DEF OfApp
        <5>2. CountOf({id}, a) = 0
          BY <5>1, FS_EmptySet DEF CountOf
        <5>3. QED
          BY <4>2, <4>3, <4>4, <4>5, <5>2
      <4>8. QED
        BY <4>6, <4>7
    <3>7. WithinLimit'
      <4>1. SUFFICES ASSUME NEW a \in Apps
                     PROVE  CountOf(Coming(disk.ids, tasks)', a) <= Limit
        BY DEF WithinLimit
      <4>2. Coming(disk.ids, tasks)' \subseteq Charged' /\ Charged' \in SUBSET Ids
        BY <1>2, <3>2, <3>4 DEF Charged
      <4>3. CountOf(Coming(disk.ids, tasks)', a) <= CountOf(Charged', a)
        BY <4>2, CountMonotonic
      <4>4. /\ CountOf(Coming(disk.ids, tasks)', a) \in Nat /\ CountOf(Charged', a) \in Nat
            /\ counts'[a] \in Int /\ Limit \in Nat
        BY <2>8, <4>2, CountFinite, StoreAssumption DEF Typed
      <4>5. QED
        BY <3>6, <4>3, <4>4
    <3>8. Covered'
      BY <1>3, <3>1, <3>3, <3>4, <3>6 DEF Counted, Covered
    <3>9. Quiet'
      <4>1. \A i \in 1..Len(tasks') : tasks'[i].epoch = epoch /\ tasks'[i].op # "load"
        BY <1>3, <2>2, <2>4, <2>5, <3>1 DEF Counted, Quiet
      <4>2. QED
        BY <1>3, <3>1, <4>1 DEF Counted, Quiet
    <3>10. QED
      BY <1>3, <3>1, <3>5, <3>7, <3>8, <3>9 DEF Counted
  <2>10. QED
    BY <1>3, <2>8, <2>9 DEF IInv
<1>6. QED
  BY <1>1, <1>4, <1>5 DEF Add

\* The Backend executes the oldest task and answers it.
LEMMA BackendInv ==
    ASSUME IInv, BackendStep
    PROVE  IInv'
<1> DEFINE t == Head(tasks)
<1>1. PICK good \in {0, 1, 2} :
          /\ disk' = Executed(disk, t, good)
          /\ used' = [used EXCEPT
                 !.failures = IF good < 2 THEN @ + 1 ELSE @,
                 !.revived = @ \/ (t.op = "overwrite" /\ disk'.ids # disk.ids)]
          /\ replies' = replies \o Answer(disk, t, good)
  BY DEF BackendStep
<1>2. /\ tasks # << >> /\ tasks' = Tail(tasks)
      /\ UNCHANGED <<counts, epoch, status, held, fresh, checks>>
  BY DEF BackendStep
<1>3. /\ Typed /\ disk \in Disks /\ tasks \in Seq(Tasks) /\ replies \in Seq(Replies)
      /\ epoch \in Nat
  BY DEF IInv, Typed
<1>4. /\ tasks' \in Seq(Tasks) /\ Len(tasks') = Len(tasks) - 1 /\ t \in Tasks /\ t = tasks[1]
      /\ Len(tasks) \in Nat /\ Len(tasks) > 0
      /\ \A i \in 1..Len(tasks') : tasks'[i] = tasks[i + 1]
      /\ AddsOf(tasks) = Adds(t) \cup AddsOf(tasks')
  BY <1>2, <1>3, TakenTask
<1>5. 1 \in 1..Len(tasks) /\ \A i \in 1..Len(tasks') : i + 1 \in 1..Len(tasks) /\ i + 1 # 1
  BY <1>4
<1> HIDE DEF t
<1> DEFINE e == Executed(disk, t, good)
<1>6. /\ disk' \in Disks
      /\ disk'.ids \subseteq disk.ids \cup Elements(t.ids)
      /\ t.op \notin {"add", "overwrite"} => disk'.ids \subseteq disk.ids
      /\ t.op = "add" => disk'.ids \in {disk.ids, disk.ids \cup Elements(t.ids)}
      /\ t.op = "load" => disk'.ids = disk.ids
  <2>1. /\ e \in Disks
        /\ e.ids \subseteq disk.ids \cup Elements(t.ids)
        /\ t.op \notin {"add", "overwrite"} => e.ids \subseteq disk.ids
        /\ t.op = "add" => e.ids \in {disk.ids, disk.ids \cup Elements(t.ids)}
        /\ t.op = "load" => e.ids = disk.ids
    <3>1. disk \in Disks /\ t \in Tasks
      BY <1>3, <1>4
    <3>2. e \in Disks
      BY <3>1, ExecutedLemma
    <3>3. e.ids \subseteq disk.ids \cup Elements(t.ids)
      BY <3>1, ExecutedLemma
    <3>4. t.op \notin {"add", "overwrite"} => e.ids \subseteq disk.ids
      BY <3>1, ExecutedLemma
    <3>5. t.op = "add" => e.ids \in {disk.ids, disk.ids \cup Elements(t.ids)}
      BY <3>1, ExecutedLemma
    <3>6. t.op = "load" => e.ids = disk.ids
      BY <3>1 DEF Executed, Disks
    <3>7. QED
      BY <3>2, <3>3, <3>4, <3>5, <3>6
  <2>2. disk' = e
    BY <1>1
  <2> HIDE DEF e
  <2>3. QED
    BY <2>1, <2>2
<1>7. \/ t.op \notin {"load", "add", "remove"} /\ Answer(disk, t, good) = << >>
      \/ /\ t.op \in {"load", "add", "remove"}
         /\ \E r \in Replies :
                /\ Answer(disk, t, good) = <<r>>
                /\ r.op = t.op /\ r.epoch = t.epoch
                /\ t.op = "load" => r.ids = IF r.ok THEN disk.ids ELSE {}
                /\ t.op = "add" => \/ r.ids = {}
                                   \/ r.ids = Elements(t.ids) /\ disk'.ids = disk.ids
                /\ t.op = "remove" => /\ r.ids \subseteq disk.ids
                                      /\ r.ids \subseteq Elements(t.ids)
                                      /\ r.ids \cap disk'.ids = {}
  <2>1. \/ t.op \notin {"load", "add", "remove"} /\ Answer(disk, t, good) = << >>
        \/ /\ t.op \in {"load", "add", "remove"}
           /\ \E r \in Replies :
                  /\ Answer(disk, t, good) = <<r>>
                  /\ r.op = t.op /\ r.epoch = t.epoch
                  /\ t.op = "load" => r.ids = IF r.ok THEN disk.ids ELSE {}
                  /\ t.op = "add" => \/ r.ids = {}
                                     \/ r.ids = Elements(t.ids) /\ e.ids = disk.ids
                  /\ t.op = "remove" => /\ r.ids \subseteq disk.ids
                                        /\ r.ids \subseteq Elements(t.ids)
                                        /\ r.ids \cap e.ids = {}
    BY <1>3, <1>4, AnswerLemma
  <2>2. disk' = e
    BY <1>1
  <2> HIDE DEF e
  <2>3. QED
    BY <2>1, <2>2
<1>8. /\ used' \in Uses
      /\ ~ used'.revived => ~ used.revived /\ (t.op = "overwrite" => disk'.ids = disk.ids)
  <2>1. used \in Uses /\ used.failures \in Nat
    BY <1>3 DEF Typed, Uses
  <2> DEFINE f == IF good < 2 THEN used.failures + 1 ELSE used.failures
             v == used.revived \/ (t.op = "overwrite" /\ disk'.ids # disk.ids)
  <2>2. f \in Nat /\ v \in BOOLEAN
    BY <2>1 DEF Uses
  <2>3. used' = [used EXCEPT !.failures = f, !.revived = v]
    BY <1>1
  <2>4. ~ v => ~ used.revived /\ (t.op = "overwrite" => disk'.ids = disk.ids)
    OBVIOUS
  <2> HIDE DEF f, v
  <2>5. QED
    BY <2>1, <2>2, <2>3, <2>4 DEF Uses
<1>9. Elements(t.ids) \cap fresh = {} /\ disk.ids \cap fresh = {}
  BY <1>3, <1>4, <1>5 DEF Typed
<1>10. /\ replies' \in Seq(Replies)
       /\ \A i \in 1..Len(replies') : replies'[i].ids \cap fresh = {}
  <2>1. CASE Answer(disk, t, good) = << >>
    <3>1. replies' = replies
      BY <1>1, <1>3, <2>1
    <3>2. QED
      BY <1>3, <3>1 DEF Typed
  <2>2. CASE \E r \in Replies : /\ Answer(disk, t, good) = <<r>>
                                /\ r.ids \cap fresh = {}
    <3>1. PICK r \in Replies : replies' = replies \o <<r>> /\ r.ids \cap fresh = {}
      BY <1>1, <2>2
    <3>2. /\ replies' \in Seq(Replies) /\ Len(replies') = Len(replies) + 1
          /\ replies'[Len(replies')] = r
          /\ \A i \in 1..Len(replies) : replies'[i] = replies[i]
      BY <1>3, <3>1, PostedReply
    <3>3. \A i \in 1..Len(replies') : i \in 1..Len(replies) \/ i = Len(replies')
      BY <1>3, <3>2
    <3>4. QED
      BY <1>3, <3>1, <3>2, <3>3 DEF Typed
  <2>3. QED
    <3>1. ASSUME NEW r \in Replies, Answer(disk, t, good) = <<r>>,
                 t.op \in {"load", "add", "remove"},
                 t.op = "load" => r.ids = IF r.ok THEN disk.ids ELSE {},
                 t.op = "add" => r.ids = {} \/ r.ids = Elements(t.ids),
                 t.op = "remove" => r.ids \subseteq disk.ids
          PROVE  r.ids \cap fresh = {}
      BY <1>9, <3>1
    <3>2. QED
      BY <1>7, <2>1, <2>2, <3>1
<1>11. Typed'
  <2>1. \A i \in 1..Len(tasks') : Elements(tasks'[i].ids) \cap fresh = {}
    BY <1>3, <1>4, <1>5 DEF Typed
  <2>2. disk'.ids \cap fresh = {}
    BY <1>6, <1>9
  <2>3. QED
    BY <1>2, <1>3, <1>4, <1>6, <1>8, <1>10, <2>1, <2>2 DEF Typed
<1>12. ASSUME ~ used'.revived
       PROVE  Counted'
  <2> DEFINE old == Coming(disk.ids, tasks)
             new == Coming(disk'.ids, tasks')
  <2>1. Counted /\ (t.op = "overwrite" => disk'.ids = disk.ids)
    BY <1>8, <1>12 DEF IInv
  <2>2. AddsDistinct(disk.ids, tasks)
    BY <2>1 DEF Counted
  <2>3. Adds(t) \cap AddsOf(tasks') = {}
    <3>1. \A i \in 1..Len(tasks') : Adds(tasks[1]) \cap Adds(tasks'[i]) = {}
      BY <1>4, <1>5, <2>2 DEF AddsDistinct
    <3>2. QED
      BY <1>4, <3>1 DEF AddsOf
  <2>4. /\ new \subseteq old
        /\ disk'.ids \cap AddsOf(tasks') = {}
    <3>1. disk'.ids \subseteq disk.ids \cup Adds(t)
      BY <1>4, <1>6, <2>1 DEF Adds, Tasks, TaskOps
    <3>2. QED
      BY <1>4, <2>2, <2>3, <3>1 DEF Coming, AddsDistinct
  <2>5. AddsDistinct(disk.ids, tasks)'
    <3>1. \A i, j \in 1..Len(tasks') : i # j => i + 1 # j + 1
      BY <1>4
    <3>2. QED
      BY <1>4, <1>5, <2>2, <2>4, <3>1, ZenonT(30) DEF AddsDistinct
  <2>6. old \subseteq Ids /\ new \subseteq Ids /\ Answered(replies) \subseteq Ids
    BY <1>3, <2>4, AddsType, AnsweredType DEF Coming, Disks
  <2>7. WithinLimit'
    <3>1. SUFFICES ASSUME NEW a \in Apps PROVE CountOf(new, a) <= Limit
      BY DEF WithinLimit
    <3>2. CountOf(old, a) <= Limit /\ CountOf(new, a) <= CountOf(old, a)
      BY <2>1, <2>4, <2>6, CountMonotonic DEF Counted, WithinLimit
    <3>3. CountOf(old, a) \in Nat /\ CountOf(new, a) \in Nat /\ Limit \in Nat
      BY <2>6, CountFinite, StoreAssumption
    <3>4. QED
      BY <3>2, <3>3
  <2>8. Covered'
    <3>1. SUFFICES ASSUME status = "loaded"
                   PROVE  /\ new \cap Answered(replies') = {}
                          /\ \A i, j \in 1..Len(replies') :
                                 i # j => replies'[i].ids \cap replies'[j].ids = {}
                          /\ \A a \in Apps : CountOf(Charged', a) <= counts[a] /\ counts[a] <= Limit
      BY <1>2 DEF Covered
    <3>2. /\ old \cap Answered(replies) = {}
          /\ \A i, j \in 1..Len(replies) : i # j => replies[i].ids \cap replies[j].ids = {}
          /\ \A a \in Apps : CountOf(Charged, a) <= counts[a] /\ counts[a] <= Limit
      BY <2>1, <3>1 DEF Counted, Covered
    <3>3. t.op # "load"
      BY <1>4, <1>5, <2>1, <3>1 DEF Counted, Quiet
    <3>4. /\ new \cap Answered(replies') = {}
          /\ Charged' \subseteq Charged
          /\ \A i, j \in 1..Len(replies') : i # j => replies'[i].ids \cap replies'[j].ids = {}
      <4>1. CASE Answer(disk, t, good) = << >>
        <5>1. replies' = replies
          BY <1>1, <1>3, <4>1
        <5>2. QED
          BY <2>4, <3>2, <5>1 DEF Charged
      <4>2. CASE t.op \in {"add", "remove"}
        <5>1. PICK r \in Replies :
                 /\ Answer(disk, t, good) = <<r>>
                 /\ t.op = "add" => \/ r.ids = {}
                                    \/ r.ids = Elements(t.ids) /\ disk'.ids = disk.ids
                 /\ t.op = "remove" => r.ids \subseteq disk.ids /\ r.ids \cap disk'.ids = {}
          BY <1>7, <4>2
        <5>2. r.ids \subseteq old /\ r.ids \cap new = {}
          <6>1. CASE t.op = "add" /\ r.ids # {}
            <7>1. r.ids = Adds(t) /\ disk'.ids = disk.ids
              BY <5>1, <6>1 DEF Adds
            <7>2. QED
              BY <1>4, <2>2, <2>3, <7>1 DEF Coming, AddsDistinct
          <6>2. CASE t.op = "remove"
            BY <1>4, <2>2, <5>1, <6>2 DEF Coming, AddsDistinct
          <6>3. QED
            BY <4>2, <6>1, <6>2
        <5>3. /\ replies' \in Seq(Replies) /\ Len(replies') = Len(replies) + 1
              /\ replies'[Len(replies')] = r
              /\ \A i \in 1..Len(replies) : replies'[i] = replies[i]
              /\ Answered(replies') = Answered(replies) \cup r.ids
          BY <1>1, <1>3, <5>1, PostedReply
        <5>4. \A i \in 1..Len(replies') : i \in 1..Len(replies) \/ i = Len(replies')
          BY <1>3, <5>3
        <5>5. \A i \in 1..Len(replies) : replies[i].ids \cap r.ids = {}
          BY <3>2, <5>2 DEF Answered
        <5>6. QED
          BY <2>4, <3>2, <5>2, <5>3, <5>4, <5>5 DEF Charged
      <4>3. QED
        BY <1>7, <3>3, <4>1, <4>2
    <3>5. Charged \in SUBSET Ids /\ Charged' \in SUBSET Charged
      BY <2>6, <3>4 DEF Charged
    <3>6. ASSUME NEW a \in Apps
          PROVE  CountOf(Charged', a) <= counts[a] /\ counts[a] <= Limit
      <4>1. CountOf(Charged', a) <= CountOf(Charged, a)
        BY <3>5, CountMonotonic
      <4>2. CountOf(Charged', a) \in Nat /\ CountOf(Charged, a) \in Nat /\ counts[a] \in Int
        BY <1>3, <3>5, CountFinite DEF Typed
      <4>3. QED
        BY <3>2, <3>6, <4>1, <4>2
    <3>7. QED
      BY <3>4, <3>6
  <2>9. Quiet'
    <3>1. Quiet
      BY <2>1 DEF Counted
    <3>2. \A i \in 1..Len(tasks') : i + 1 = Len(tasks) <=> i = Len(tasks')
      BY <1>4
    <3>3. \A i \in 1..Len(tasks') :
              IF status = "loaded" \/ (status = "loading" /\ i = Len(tasks'))
              THEN tasks'[i].epoch = epoch ELSE tasks'[i].epoch < epoch
      BY <1>4, <1>5, <3>1, <3>2 DEF Quiet
    <3>4. /\ tasks' = << >> <=> Len(tasks) = 1
          /\ tasks' # << >> => Len(tasks') \in 1..Len(tasks') /\ Len(tasks') + 1 = Len(tasks)
      BY <1>4
    <3>5. CASE Answer(disk, t, good) = << >>
      <4>1. replies' = replies
        BY <1>1, <1>3, <3>5
      <4>2. t.op # "load"
        BY <1>7, <3>5
      <4>3. status = "loading" => tasks' # << >>
        BY <1>2, <1>4, <3>1, <3>4, <4>2 DEF Quiet
      <4>4. QED
        BY <1>2, <1>4, <1>5, <3>1, <3>3, <3>4, <4>1, <4>3 DEF Quiet
    <3>6. CASE t.op \in {"load", "add", "remove"}
      <4>1. PICK r \in Replies :
                /\ Answer(disk, t, good) = <<r>> /\ r.op = t.op /\ r.epoch = t.epoch
                /\ t.op = "load" => r.ids = IF r.ok THEN disk.ids ELSE {}
        BY <1>7, <3>6
      <4>2. /\ replies' \in Seq(Replies) /\ Len(replies') = Len(replies) + 1
            /\ replies' # << >> /\ replies'[Len(replies')] = r
            /\ \A i \in 1..Len(replies) : replies'[i] = replies[i]
        BY <1>1, <1>3, <4>1, PostedReply
      <4>3. \A i \in 1..Len(replies') :
                \/ i \in 1..Len(replies) /\ i # Len(replies')
                \/ i = Len(replies')
        BY <1>3, <4>2
      <4>4. \A i \in 1..Len(replies) :
                IF status = "loaded" THEN replies[i].epoch = epoch ELSE replies[i].epoch < epoch
        BY <1>2, <3>1 DEF Quiet
      <4>5. IF status = "loaded" \/ (status = "loading" /\ tasks' = << >>)
            THEN r.epoch = epoch ELSE r.epoch < epoch
        BY <1>4, <1>5, <3>1, <3>4, <4>1 DEF Quiet
      <4>6. \A i \in 1..Len(replies') :
                IF status = "loaded" \/ (status = "loading" /\ tasks' = << >> /\ i = Len(replies'))
                THEN replies'[i].epoch = epoch ELSE replies'[i].epoch < epoch
        BY <4>2, <4>3, <4>4, <4>5
      <4>7. status = "loading" /\ tasks' = << >> => t.op = "load"
        BY <1>2, <1>4, <3>1, <3>4 DEF Quiet
      <4>8. status = "loading" =>
                IF tasks' = << >> THEN LoadAnswer(replies[Len(replies)])'
                ELSE tasks'[Len(tasks')].op = "load"
        BY <1>2, <1>4, <1>6, <3>1, <3>4, <4>1, <4>2, <4>5, <4>7, ZenonT(30) DEF Quiet, LoadAnswer
      <4>9. status = "loaded" =>
                /\ \A i \in 1..Len(tasks') : tasks'[i].op # "load"
                /\ \A i \in 1..Len(replies') : replies'[i].op # "load"
        <5>1. SUFFICES ASSUME status = "loaded"
                       PROVE  /\ \A i \in 1..Len(tasks') : tasks'[i].op # "load"
                              /\ \A i \in 1..Len(replies') : replies'[i].op # "load"
          OBVIOUS
        <5>2. /\ \A i \in 1..Len(tasks) : tasks[i].op # "load"
              /\ \A i \in 1..Len(replies) : replies[i].op # "load"
          BY <3>1, <5>1 DEF Quiet
        <5>3. \A i \in 1..Len(tasks') : tasks'[i].op # "load"
          BY <1>4, <1>5, <5>2
        <5>4. r.op # "load"
          BY <1>4, <1>5, <4>1, <5>2
        <5>5. \A i \in 1..Len(replies') : replies'[i].op # "load"
          BY <4>2, <4>3, <5>2, <5>4
        <5>6. QED
          BY <5>3, <5>5
      <4>10. status # "loaded" => counts = NoCounts
        BY <3>1 DEF Quiet
      <4>11. QED
        BY <1>2, <3>3, <4>2, <4>6, <4>8, <4>9, <4>10 DEF Quiet, NoCounts
    <3>7. QED
      BY <1>7, <3>5, <3>6
  <2>10. QED
    BY <1>2, <2>1, <2>5, <2>7, <2>8, <2>9 DEF Counted
<1>13. QED
  BY <1>11, <1>12 DEF IInv

\* What a continuation makes of the counts.
LEMMA CorrectedLemma ==
    ASSUME NEW c \in [Apps -> Int], NEW r \in Replies
    PROVE  /\ Corrected(c, r) \in [Apps -> Int]
           /\ \A a \in Apps : Corrected(c, r)[a] = IF r.op = "load" THEN c[a] + CountOf(r.ids, a)
                                                  ELSE c[a] - CountOf(r.ids, a)
<1>1. \A a \in Apps : CountOf(r.ids, a) \in Int /\ c[a] \in Int
  BY CountFinite DEF Replies
<1>2. /\ Plus(c, r.ids) = [a \in Apps |-> c[a] + CountOf(r.ids, a)]
      /\ Minus(c, r.ids) = [a \in Apps |-> c[a] - CountOf(r.ids, a)]
  BY DEF Plus, Minus, CountOf
<1>3. CASE r.op = "load"
  BY <1>1, <1>2, <1>3 DEF Corrected
<1>4. CASE r.op # "load"
  BY <1>1, <1>2, <1>4 DEF Corrected
<1>5. QED
  BY <1>3, <1>4

\* A continuation that finds its weak pointer invalidated: the store is not
\* loaded, and nothing it waits for is taken away.
LEMMA DeadContinuation ==
    ASSUME IInv, Counted, replies # << >>, Head(replies).epoch # epoch,
           replies' = Tail(replies), checks' = (checks /\ \A a \in Apps : counts[a] >= 0),
           UNCHANGED <<counts, status, disk, tasks, epoch>>
    PROVE  Counted'
<1>1. Typed /\ Quiet /\ replies \in Seq(Replies)
  BY DEF IInv, Typed, Counted
<1>2. /\ Len(replies') = Len(replies) - 1 /\ Head(replies) = replies[1]
      /\ Len(replies) \in Nat /\ Len(replies) > 0 /\ replies' \in Seq(Replies)
      /\ \A i \in 1..Len(replies') : replies'[i] = replies[i + 1]
  BY <1>1, TakenReply
<1>3. /\ 1 \in 1..Len(replies)
      /\ \A i \in 1..Len(replies') : i + 1 \in 1..Len(replies) /\ (i + 1 = Len(replies) <=> i = Len(replies'))
  BY <1>2
<1>4. status # "loaded" /\ counts = NoCounts
  BY <1>1, <1>2, <1>3 DEF Quiet
<1>5. checks'
  <2>1. checks
    BY DEF Counted
  <2>2. \A a \in Apps : counts[a] >= 0
    BY <1>4 DEF NoCounts
  <2>3. QED
    BY <2>1, <2>2, Zenon
<1>6. status = "loading" /\ tasks = << >> =>
          /\ Len(replies) # 1 /\ replies' # << >>
          /\ replies'[Len(replies')] = replies[Len(replies)]
          /\ LoadAnswer(replies[Len(replies)])
  <2>1. SUFFICES ASSUME status = "loading", tasks = << >>
                 PROVE  /\ Len(replies) # 1 /\ replies' # << >>
                        /\ replies'[Len(replies')] = replies[Len(replies)]
                        /\ LoadAnswer(replies[Len(replies)])
    OBVIOUS
  <2>2. LoadAnswer(replies[Len(replies)])
    BY <1>1, <2>1 DEF Quiet
  <2>3. Len(replies) # 1
    BY <1>2, <2>2 DEF LoadAnswer
  <2>4. Len(replies') \in 1..Len(replies') /\ Len(replies') + 1 = Len(replies)
    BY <1>2, <2>3
  <2>5. replies' # << >>
    <3>1. Len(<< >>) = 0 /\ Len(replies') # 0
      BY <1>2, <2>4
    <3>2. QED
      BY <3>1
  <2>6. replies'[Len(replies')] = replies[Len(replies)]
    BY <1>2, <2>4
  <2>7. QED
    BY <2>2, <2>3, <2>5, <2>6
<1>7. Quiet'
  <2>1. \A i \in 1..Len(replies') :
            IF status = "loaded" \/ (status = "loading" /\ tasks = << >> /\ i = Len(replies'))
            THEN replies'[i].epoch = epoch ELSE replies'[i].epoch < epoch
    BY <1>1, <1>2, <1>3 DEF Quiet
  <2>2. status = "loading" /\ tasks = << >> => replies' # << >> /\ LoadAnswer(replies[Len(replies)])'
    BY <1>6 DEF LoadAnswer
  <2>3. /\ \A i \in 1..Len(tasks) :
               IF status = "loading" /\ i = Len(tasks)
               THEN tasks[i].epoch = epoch ELSE tasks[i].epoch < epoch
        /\ status = "loading" /\ tasks # << >> => tasks[Len(tasks)].op = "load"
    BY <1>1, <1>4 DEF Quiet
  <2>4. QED
    BY <1>4, <2>1, <2>2, <2>3 DEF Quiet, NoCounts
<1>8. QED
  BY <1>4, <1>5, <1>7 DEF Counted, AddsDistinct, WithinLimit, Covered, Coming

\* A continuation while the store is loaded takes off the counts what is charged
\* once and no longer charged.
LEMMA LoadedContinuation ==
    ASSUME IInv, Counted, replies # << >>, status = "loaded",
           replies' = Tail(replies), counts' = Corrected(counts, Head(replies)),
           checks' = (checks /\ \A a \in Apps : counts'[a] >= 0),
           UNCHANGED <<status, disk, tasks, epoch>>
    PROVE  Counted'
<1> DEFINE r == Head(replies)
           rest == Coming(disk.ids, tasks) \cup Answered(replies')
<1>1. /\ Typed /\ Quiet /\ replies \in Seq(Replies) /\ tasks \in Seq(Tasks) /\ disk.ids \subseteq Ids
      /\ counts \in [Apps -> Int]
  BY DEF IInv, Typed, Counted, Disks
<1>2. /\ Len(replies') = Len(replies) - 1 /\ r = replies[1] /\ r \in Replies
      /\ Len(replies) \in Nat /\ Len(replies) > 0 /\ replies' \in Seq(Replies)
      /\ \A i \in 1..Len(replies') : replies'[i] = replies[i + 1]
      /\ Answered(replies) = r.ids \cup Answered(replies')
  BY <1>1, TakenReply
<1>3. /\ 1 \in 1..Len(replies)
      /\ \A i \in 1..Len(replies') : i + 1 \in 1..Len(replies) /\ i + 1 # 1
      /\ \A i, j \in 1..Len(replies') : i # j => i + 1 # j + 1
  BY <1>2
<1>4. /\ Coming(disk.ids, tasks) \cap Answered(replies) = {}
      /\ \A i, j \in 1..Len(replies) : i # j => replies[i].ids \cap replies[j].ids = {}
      /\ \A a \in Apps : CountOf(Charged, a) <= counts[a] /\ counts[a] <= Limit
  BY DEF Counted, Covered
<1> HIDE DEF r
<1>5. r.ids \cap Answered(replies') = {}
  <2>1. \A i \in 1..Len(replies') : r.ids \cap replies'[i].ids = {}
    BY <1>2, <1>3, <1>4
  <2>2. QED
    BY <2>1 DEF Answered
<1>6. /\ Charged = rest \cup r.ids /\ rest \cap r.ids = {}
      /\ rest \in SUBSET Ids /\ r.ids \in SUBSET Ids /\ Charged' = rest
  <2>1. /\ AddsOf(tasks) \subseteq Ids /\ Answered(replies') \subseteq Ids /\ r.ids \subseteq Ids
    BY <1>1, <1>2, AddsType, AnsweredType DEF Replies
  <2>2. QED
    BY <1>1, <1>2, <1>4, <1>5, <2>1 DEF Charged, Coming
<1>7. r.op # "load"
  BY <1>1, <1>2, <1>3 DEF Quiet
<1> HIDE DEF rest
<1>8. ASSUME NEW a \in Apps
      PROVE  CountOf(Charged', a) <= counts'[a] /\ counts'[a] <= Limit /\ counts'[a] >= 0
  <2>1. counts'[a] = counts[a] - CountOf(r.ids, a)
    BY <1>1, <1>2, <1>7, CorrectedLemma DEF r
  <2>2. CountOf(Charged, a) = CountOf(rest, a) + CountOf(r.ids, a)
    BY <1>6, CountDisjoint
  <2>3. CountOf(rest, a) \in Nat /\ CountOf(r.ids, a) \in Nat
    BY <1>6, CountFinite
  <2>4. counts[a] \in Int /\ Limit \in Nat
    BY <1>1, StoreAssumption
  <2>5. CountOf(Charged', a) = CountOf(rest, a)
    BY <1>6
  <2>6. CountOf(Charged, a) <= counts[a] /\ counts[a] <= Limit
    BY <1>4
  <2>7. QED
    BY <2>1, <2>2, <2>3, <2>4, <2>5, <2>6
<1>9. Covered'
  <2>1. \A i, j \in 1..Len(replies') : i # j => replies'[i].ids \cap replies'[j].ids = {}
    BY <1>2, <1>3, <1>4
  <2>2. Coming(disk.ids, tasks)' = Coming(disk.ids, tasks)
    BY DEF Coming, AddsOf
  <2>3. Coming(disk.ids, tasks)' \cap Answered(replies') = {}
    BY <1>2, <1>4, <2>2
  <2>4. QED
    BY <1>8, <2>1, <2>3 DEF Covered
<1>10. Quiet'
  BY <1>1, <1>2, <1>3 DEF Quiet
<1>11. checks'
  BY <1>8 DEF Counted
<1>12. QED
  BY <1>9, <1>10, <1>11 DEF Counted, AddsDistinct, WithinLimit, Coming

LEMMA NoneLeft ==
    ASSUME NEW S, NEW s \in Seq(S), Len(s) = 0
    PROVE  s = << >>
OBVIOUS

\* The answer to Load is the last on either sequence.
LEMMA LiveLoad ==
    ASSUME Typed, Quiet, replies # << >>, status # "loaded", Head(replies).epoch = epoch
    PROVE  /\ status = "loading" /\ tasks = << >> /\ Len(replies) = 1 /\ Tail(replies) = << >>
           /\ LoadAnswer(Head(replies)) /\ counts = NoCounts
<1>1. replies \in Seq(Replies) /\ epoch \in Nat
  BY DEF Typed
<1>2. /\ Len(Tail(replies)) = Len(replies) - 1 /\ Head(replies) = replies[1]
      /\ Len(replies) \in Nat /\ Len(replies) > 0 /\ Tail(replies) \in Seq(Replies)
  BY <1>1, TakenReply
<1>3. 1 \in 1..Len(replies) /\ replies[1].epoch = epoch
  BY <1>2
<1>4. status = "loading" /\ tasks = << >> /\ 1 = Len(replies)
  <2>1. \A i \in 1..Len(replies) :
            IF status = "loading" /\ tasks = << >> /\ i = Len(replies)
            THEN replies[i].epoch = epoch ELSE replies[i].epoch < epoch
    BY DEF Quiet
  <2>2. ~ (replies[1].epoch < epoch)
    BY <1>1, <1>3
  <2>3. QED
    BY <1>3, <2>1, <2>2
<1>5. LoadAnswer(Head(replies)) /\ counts = NoCounts
  BY <1>2, <1>4 DEF Quiet
<1>6. Tail(replies) = << >>
  <2> DEFINE us == Tail(replies)
  <2>1. us \in Seq(Replies) /\ Len(us) = Len(replies) - 1
    BY <1>2, Zenon
  <2> HIDE DEF us
  <2>2. Len(us) = 0
    BY <1>4, <2>1
  <2>3. us = << >>
    BY <2>1, <2>2, NoneLeft
  <2>4. QED
    BY <2>3 DEF us
<1>7. QED
  BY <1>4, <1>5, <1>6

\* The continuation of Load: the counts become what the database holds.
LEMMA LoadContinuation ==
    ASSUME IInv, Counted, replies # << >>, status # "loaded", Head(replies).epoch = epoch,
           replies' = Tail(replies), counts' = Corrected(counts, Head(replies)),
           checks' = (checks /\ \A a \in Apps : counts'[a] >= 0),
           Head(replies).op = "load" =>
               status' = IF Head(replies).ok THEN "loaded" ELSE "failed",
           UNCHANGED <<disk, tasks, epoch>>
    PROVE  Counted'
<1> DEFINE r == Head(replies)
<1>1. /\ Typed /\ Quiet /\ replies \in Seq(Replies) /\ disk.ids \in SUBSET Ids
      /\ counts \in [Apps -> Int] /\ epoch \in Nat
  BY DEF IInv, Typed, Counted, Disks
<1>2. /\ Len(replies') = Len(replies) - 1 /\ r = replies[1] /\ r \in Replies
      /\ Len(replies) \in Nat /\ Len(replies) > 0 /\ replies' \in Seq(Replies)
  BY <1>1, TakenReply
<1> HIDE DEF r
<1>3. /\ tasks = << >> /\ LoadAnswer(r) /\ replies' = << >> /\ counts = NoCounts
  BY <1>1, LiveLoad DEF r
<1>4. r.op = "load" /\ r.ids = (IF r.ok THEN disk.ids ELSE {})
  BY <1>3 DEF LoadAnswer
<1>5. /\ counts' \in [Apps -> Int]
      /\ \A a \in Apps : counts'[a] = CountOf(r.ids, a) /\ counts'[a] \in Nat
  <2>1. /\ counts' \in [Apps -> Int]
        /\ \A a \in Apps : counts'[a] = counts[a] + CountOf(r.ids, a)
    BY <1>1, <1>2, <1>4, CorrectedLemma DEF r
  <2>2. \A a \in Apps : CountOf(r.ids, a) \in Nat /\ counts[a] = 0
    BY <1>2, <1>3, CountFinite DEF NoCounts, Replies
  <2>3. QED
    BY <2>1, <2>2
<1>6. checks'
  <2>1. checks
    BY DEF Counted
  <2>2. \A a \in Apps : counts'[a] >= 0
    BY <1>5
  <2>3. QED
    BY <2>1, <2>2, Zenon
<1>7. Coming(disk.ids, tasks)' = disk.ids /\ Answered(replies') = {} /\ Charged' = disk.ids
  <2>1. AddsOf(<< >>) = {} /\ Answered(<< >>) = {}
    BY DEF AddsOf, Answered
  <2>2. QED
    BY <1>3, <2>1 DEF Coming, Charged
<1>8. Coming(disk.ids, tasks) = disk.ids
  BY <1>3 DEF Coming, AddsOf
<1>9. AddsDistinct(disk.ids, tasks)' /\ WithinLimit'
  BY <1>7, <1>8 DEF Counted, AddsDistinct, WithinLimit
<1>10. /\ tasks' = << >> /\ replies' = << >>
       /\ \A i : ~ (i \in 1..Len(tasks')) /\ ~ (i \in 1..Len(replies'))
  BY <1>3
<1>11. CASE r.ok
  <2>1. status' = "loaded"
    BY <1>4, <1>11 DEF r
  <2>2. \A a \in Apps : CountOf(Charged', a) <= counts'[a] /\ counts'[a] <= Limit
    <3>1. \A a \in Apps : CountOf(disk.ids, a) <= Limit /\ CountOf(disk.ids, a) \in Nat
      BY <1>1, <1>8, CountFinite DEF Counted, WithinLimit
    <3>2. QED
      BY <1>4, <1>5, <1>7, <1>11, <3>1
  <2>3. Covered'
    BY <1>3, <1>7, <1>10, <2>2 DEF Covered
  <2>4. Quiet'
    BY <1>10, <2>1 DEF Quiet
  <2>5. QED
    BY <1>6, <1>9, <2>3, <2>4 DEF Counted
<1>12. CASE ~ r.ok
  <2>1. status' = "failed"
    BY <1>4, <1>12 DEF r
  <2>2. counts' = NoCounts'
    <3>1. \A a \in Apps : counts'[a] = 0
      BY <1>4, <1>5, <1>12, CountNothing
    <3>2. QED
      BY <1>5, <3>1 DEF NoCounts
  <2>3. Quiet'
    BY <1>10, <2>1, <2>2 DEF Quiet
  <2>4. Covered'
    BY <2>1 DEF Covered
  <2>5. QED
    BY <1>6, <1>9, <2>3, <2>4 DEF Counted
<1>13. QED
  BY <1>11, <1>12

LEMMA ContinuationInv ==
    ASSUME IInv, Continuation
    PROVE  IInv'
<1> DEFINE r == Head(replies)
<1>1. /\ replies # << >> /\ replies' = Tail(replies)
      /\ counts' = IF r.epoch = epoch THEN Corrected(counts, r) ELSE counts
      /\ checks' = (checks /\ \A a \in Apps : counts'[a] >= 0)
      /\ UNCHANGED <<disk, tasks, epoch, fresh, used>>
  BY DEF Continuation, Continue
<1>2. \/ /\ r.epoch = epoch /\ r.op = "load"
         /\ \/ r.ok /\ status' = "loaded" /\ held' = r.ids
            \/ ~ r.ok /\ status' = "failed" /\ held' = held
      \/ (r.epoch # epoch \/ r.op # "load") /\ UNCHANGED <<status, held>>
  BY DEF Continuation, Continue
<1>3. Typed /\ replies \in Seq(Replies) /\ counts \in [Apps -> Int]
  BY DEF IInv, Typed
<1>4. /\ replies' \in Seq(Replies) /\ r \in Replies /\ r = replies[1]
      /\ Len(replies') = Len(replies) - 1 /\ Len(replies) \in Nat /\ Len(replies) > 0
      /\ \A i \in 1..Len(replies') : replies'[i] = replies[i + 1]
  BY <1>1, <1>3, TakenReply
<1>5. 1 \in 1..Len(replies) /\ \A i \in 1..Len(replies') : i + 1 \in 1..Len(replies)
  BY <1>4
<1> HIDE DEF r
<1>6. counts' \in [Apps -> Int]
  BY <1>1, <1>3, <1>4, CorrectedLemma
<1>7. held' \subseteq Ids \ fresh /\ status' \in {"closed", "loading", "loaded", "failed"}
  <2>1. r.ids \subseteq Ids \ fresh
    BY <1>3, <1>4, <1>5 DEF Typed, Replies
  <2>2. QED
    BY <1>2, <1>3, <2>1 DEF Typed
<1>8. Typed'
  <2>1. \A i \in 1..Len(replies') : replies'[i].ids \cap fresh = {}
    BY <1>3, <1>4, <1>5 DEF Typed
  <2>2. checks' \in BOOLEAN
    BY <1>1
  <2>3. QED
    BY <1>1, <1>3, <1>4, <1>6, <1>7, <2>1, <2>2 DEF Typed
<1>9. ASSUME ~ used'.revived
      PROVE  Counted'
  <2>1. Counted
    BY <1>1, <1>9 DEF IInv
  <2>2. CASE r.epoch # epoch
    <3>1. UNCHANGED <<counts, status>> /\ checks' = (checks /\ \A a \in Apps : counts[a] >= 0)
      BY <1>1, <1>2, <2>2
    <3>2. QED
      BY <1>1, <2>1, <2>2, <3>1, DeadContinuation DEF r
  <2>3. CASE r.epoch = epoch /\ status = "loaded"
    <3>1. r.op # "load"
      BY <1>4, <1>5, <2>1, <2>3 DEF Counted, Quiet
    <3>2. UNCHANGED status /\ counts' = Corrected(counts, r)
      BY <1>1, <1>2, <2>3, <3>1
    <3>3. QED
      BY <1>1, <2>1, <2>3, <3>2, LoadedContinuation DEF r
  <2>4. CASE r.epoch = epoch /\ status # "loaded"
    <3>1. /\ r.op = "load" => status' = IF r.ok THEN "loaded" ELSE "failed"
          /\ counts' = Corrected(counts, r)
      BY <1>1, <1>2, <2>4
    <3>2. QED
      BY <1>1, <2>1, <2>4, <3>1, LoadContinuation DEF r
  <2>5. QED
    BY <2>2, <2>3, <2>4
<1>10. QED
  BY <1>8, <1>9 DEF IInv

LEMMA RestartInv ==
    ASSUME IInv, Restart
    PROVE  IInv'
<1>1. /\ used' = [used EXCEPT !.closes = @ + 1, !.destroyed = FALSE]
      /\ counts' = NoCounts /\ disk' = [disk EXCEPT !.open = FALSE]
      /\ tasks' = << >> /\ replies' = << >> /\ epoch' = 0
      /\ status' = "closed" /\ held' = {} /\ UNCHANGED <<fresh, checks>>
  BY DEF Restart
<1>2. Typed /\ disk \in Disks /\ used \in Uses
  BY DEF IInv, Typed
<1>3. used' \in Uses /\ used'.revived = used.revived
  <2>1. used.closes + 1 \in Nat
    BY <1>2 DEF Uses
  <2>2. QED
    BY <1>1, <1>2, <2>1 DEF Uses
<1>4. disk' \in Disks /\ disk'.ids = disk.ids
  BY <1>1, <1>2 DEF Disks
<1>5. NoCounts \in [Apps -> Int] /\ << >> \in Seq(Tasks) /\ << >> \in Seq(Replies)
  BY DEF NoCounts
<1>6. Typed'
  BY <1>1, <1>2, <1>3, <1>4, <1>5 DEF Typed
<1>7. ASSUME ~ used.revived
      PROVE  Counted'
  <2>1. Counted
    BY <1>7 DEF IInv
  <2>2. AddsOf(tasks') = {} /\ Coming(disk.ids, tasks)' = disk.ids
    BY <1>1, <1>4 DEF AddsOf, Coming
  <2>3. AddsDistinct(disk.ids, tasks)'
    BY <1>1, <2>2 DEF AddsDistinct
  <2>4. disk.ids \in SUBSET Coming(disk.ids, tasks) /\ Coming(disk.ids, tasks) \in SUBSET Ids
    BY <1>2, AddsType DEF Coming, Disks, Typed
  <2>5. WithinLimit'
    <3>1. SUFFICES ASSUME NEW a \in Apps PROVE CountOf(disk.ids, a) <= Limit
      BY <2>2 DEF WithinLimit
    <3>2. CountOf(disk.ids, a) <= CountOf(Coming(disk.ids, tasks), a)
      BY <2>4, CountMonotonic
    <3>3. CountOf(Coming(disk.ids, tasks), a) <= Limit
      BY <2>1 DEF Counted, WithinLimit
    <3>4. /\ CountOf(disk.ids, a) \in Nat /\ CountOf(Coming(disk.ids, tasks), a) \in Nat
          /\ Limit \in Nat
      BY <2>4, CountFinite, StoreAssumption
    <3>5. QED
      BY <3>2, <3>3, <3>4
  <2>6. Quiet' /\ Covered'
    BY <1>1 DEF Quiet, Covered, NoCounts
  <2>7. QED
    BY <1>1, <2>1, <2>3, <2>5, <2>6 DEF Counted
<1>8. QED
  BY <1>3, <1>6, <1>7 DEF IInv

LEMMA InitInv ==
    ASSUME Init
    PROVE  IInv
<1>1. /\ counts = NoCounts /\ disk = [open |-> FALSE, ids |-> {}] /\ tasks = << >>
      /\ replies = << >> /\ epoch = 0 /\ status = "closed" /\ held = {} /\ fresh = Ids
      /\ checks = TRUE
      /\ used = [closes |-> 0, failures |-> 0, overwrites |-> 0, destroyed |-> FALSE,
                 revived |-> FALSE]
  BY DEF Init
<1>2. Typed
  <2>1. NoCounts \in [Apps -> Int] /\ << >> \in Seq(Tasks) /\ << >> \in Seq(Replies)
    BY DEF NoCounts
  <2>2. disk \in Disks /\ used \in Uses /\ disk.ids = {}
    BY <1>1 DEF Disks, Uses
  <2>3. QED
    BY <1>1, <2>1, <2>2 DEF Typed
<1>3. AddsOf(tasks) = {} /\ Coming(disk.ids, tasks) = {}
  BY <1>1 DEF AddsOf, Coming
<1>4. AddsDistinct(disk.ids, tasks)
  BY <1>1, <1>3 DEF AddsDistinct
<1>5. WithinLimit
  BY <1>3, CountNothing, StoreAssumption DEF WithinLimit
<1>6. Quiet /\ Covered
  BY <1>1 DEF Quiet, Covered
<1>7. QED
  BY <1>1, <1>2, <1>4, <1>5, <1>6 DEF IInv, Counted

LEMMA StepInv ==
    ASSUME IInv, [Next]_vars
    PROVE  IInv'
<1>1. CASE Load
  BY <1>1, LoadInv
<1>2. CASE Close
  BY <1>2, CloseInv
<1>3. CASE Destroy
  BY <1>3, DestroyInv
<1>4. CASE AddOutgoingMessage
  BY <1>4, AddInv
<1>5. CASE OverwriteOutgoingMessage
  BY <1>5, OverwriteInv
<1>6. CASE RemoveOutgoingMessages
  BY <1>6, RemoveInv
<1>7. CASE BackendStep
  BY <1>7, BackendInv
<1>8. CASE Continuation
  BY <1>8, ContinuationInv
<1>9. CASE Restart
  BY <1>9, RestartInv
<1>10. CASE UNCHANGED vars
  BY <1>10 DEF vars, IInv, Typed, Counted, WithinLimit, Quiet, LoadAnswer, Covered, Charged
<1>11. QED
  BY <1>1, <1>2, <1>3, <1>4, <1>5, <1>6, <1>7, <1>8, <1>9, <1>10 DEF Next

\* The inductive invariant holds in every state.
THEOREM Invariance == Spec => []IInv
<1>1. Init => IInv
  BY InitInv
<1>2. IInv /\ [Next]_vars => IInv'
  BY StepInv
<1>3. QED
  BY <1>1, <1>2, PTL DEF Spec

\* No continuation of AddOutgoingMessage or RemoveOutgoingMessages takes
\* app_message_counts_ below zero, however many failures and closes there are,
\* unless an overwrite has revived a message.
THEOREM CountsStayNatural == Spec => []ChecksHold
<1>1. IInv => ChecksHold
  <2>1. SUFFICES ASSUME IInv PROVE ChecksHold
    OBVIOUS
  <2>2. Typed /\ (used.revived \/ checks)
    BY <2>1 DEF IInv, Counted
  <2>3. \A i \in 1..Len(tasks) : Elements(tasks[i].ids) \subseteq Ids
    <3>1. \A i \in 1..Len(tasks) : tasks[i] \in Tasks
      BY <2>2 DEF Typed
    <3>2. QED
      BY <3>1, TaskIds
  <2>4. \A i \in 1..Len(replies) : replies[i].ids \subseteq Ids
    <3>1. \A i \in 1..Len(replies) : replies[i] \in Replies
      BY <2>2 DEF Typed
    <3>2. QED
      BY <3>1 DEF Replies
  <2>5. QED
    BY <2>2, <2>3, <2>4 DEF ChecksHold, TypeOK, Typed, Disks
<1>2. QED
  BY <1>1, Invariance, PTL

\* The limit on the messages of an application, which AddOutgoingMessage checks
\* on the counts only, holds of the database at every moment.
THEOREM DatabaseWithinLimit == Spec => []LimitEnforced
<1>1. IInv => LimitEnforced
  <2>1. SUFFICES ASSUME IInv, ~ used.revived, NEW a \in Apps
                 PROVE  CountOf(disk.ids, a) <= Limit
    BY DEF LimitEnforced, CountOf
  <2>2. disk.ids \in SUBSET Coming(disk.ids, tasks) /\ Coming(disk.ids, tasks) \in SUBSET Ids
    BY <2>1, AddsType DEF IInv, Typed, Coming, Disks
  <2>3. CountOf(disk.ids, a) <= CountOf(Coming(disk.ids, tasks), a)
    BY <2>2, CountMonotonic
  <2>4. CountOf(Coming(disk.ids, tasks), a) <= Limit
    BY <2>1 DEF IInv, Counted, WithinLimit
  <2>5. /\ CountOf(disk.ids, a) \in Nat /\ CountOf(Coming(disk.ids, tasks), a) \in Nat
        /\ Limit \in Nat
    BY <2>2, CountFinite, StoreAssumption
  <2>6. QED
    BY <2>3, <2>4, <2>5
<1>2. QED
  BY <1>1, Invariance, PTL

-----------------------------------------------------------------------------
(***************************************************************************)
(* The counts and the database to come                                     *)
(*                                                                         *)
(* CountsSettle and CountsCoverStore speak of what the posted tasks and    *)
(* continuations will do. The databases to come are a function of the      *)
(* number of tasks executed, each of which loses the messages that its     *)
(* answer takes off the counts.                                            *)
(***************************************************************************)

\* The databases that the tasks ts lead through when all of them succeed.
Runs(f, d, ts) ==
    /\ f \in [0..Len(ts) -> Disks]
    /\ f[0] = d
    /\ \A n \in 1..Len(ts) : f[n] = Executed(f[n - 1], ts[n], 2)

LEMMA SettledRuns ==
    ASSUME disk \in Disks, tasks \in Seq(Tasks)
    PROVE  Runs(SettledDisk, disk, tasks)
<1> DEFINE L == Len(tasks)
           G == [n \in 1..L |-> [y \in Disks |-> Executed(y, tasks[n], 2)]]
           F(f) == [n \in 0..L |-> IF n = 0 THEN disk ELSE Executed(f[n - 1], tasks[n], 2)]
<1>1. /\ L \in Nat /\ \A n \in 1..L : tasks[n] \in Tasks /\ n - 1 \in 0..L
      /\ 0 \in 0..L /\ \A n \in 1..L : n \in 0..L /\ n # 0
      /\ \A n \in 0..L : n = 0 \/ n \in 1..L
  OBVIOUS
<1>2. \A n \in 1..L : \A y \in Disks : Executed(y, tasks[n], 2) \in Disks
  BY <1>1, ExecutedLemma
<1>3. \A n \in 1..L : \A y \in Disks : G[n][y] = Executed(y, tasks[n], 2)
  OBVIOUS
<1> HIDE DEF G, L
<1>4. PICK f \in [0..L -> Disks] : Solution(f, disk, G, L)
  <2>1. StaysIn(G, Disks, L)
    BY <1>2, <1>3 DEF StaysIn
  <2>2. QED
    BY <1>1, <2>1, Recursion
<1>5. f[0] = disk /\ \A n \in 1..L : f[n] = Executed(f[n - 1], tasks[n], 2)
  BY <1>1, <1>3, <1>4 DEF Solution
<1>6. f = F(f)
  <2>1. \A n \in 0..L : f[n] = F(f)[n]
    BY <1>1, <1>5
  <2>2. f = [n \in 0..L |-> f[n]]
    BY <1>4
  <2>3. QED
    BY <2>1, <2>2
<1> DEFINE after == CHOOSE g : g = F(g)
<1>7. after = F(after)
  BY <1>6
<1>8. SettledDisk = after
  BY DEF SettledDisk, L
<1> HIDE DEF after
<1>9. /\ after[0] = disk /\ \A n \in 1..L : after[n] = Executed(after[n - 1], tasks[n], 2)
      /\ after = [n \in 0..L |-> after[n]]
  <2>1. \A n \in 0..L :
            F(after)[n] = IF n = 0 THEN disk ELSE Executed(after[n - 1], tasks[n], 2)
    OBVIOUS
  <2>2. F(after) = [n \in 0..L |-> F(after)[n]]
    OBVIOUS
  <2> HIDE DEF F
  <2>3. QED
    BY <1>1, <1>7, <2>1, <2>2
<1> DEFINE S == {n \in Nat : n <= L => after[n] \in Disks}
<1>10. \A n \in Nat : n \in S
  <2>1. 0 \in S
    BY <1>9
  <2>2. ASSUME NEW n \in Nat, n \in S PROVE n + 1 \in S
    <3>1. SUFFICES ASSUME n + 1 <= L PROVE after[n + 1] \in Disks
      OBVIOUS
    <3>2. n + 1 \in 1..L /\ (n + 1) - 1 = n /\ after[n] \in Disks
      BY <1>1, <2>2, <3>1
    <3>3. after[n + 1] = Executed(after[n], tasks[n + 1], 2)
      BY <1>9, <3>2
    <3>4. QED
      BY <1>2, <3>2, <3>3
  <2> HIDE DEF S
  <2>3. QED
    BY <2>1, <2>2, Induct
<1>11. \A n \in 0..L : after[n] \in Disks
  BY <1>1, <1>10
<1>12. after \in [0..L -> Disks]
  BY <1>9, <1>11
<1>13. QED
  BY <1>8, <1>9, <1>12 DEF Runs, L

\* There is one way to go.
LEMMA SameRun ==
    ASSUME NEW d, NEW ts \in Seq(Tasks), NEW f, NEW g, Runs(f, d, ts), Runs(g, d, ts)
    PROVE  \A n \in 0..Len(ts) : f[n] = g[n]
<1> DEFINE S == {n \in Nat : n <= Len(ts) => f[n] = g[n]}
<1>1. 0 \in S
  BY DEF Runs
<1>2. ASSUME NEW n \in Nat, n \in S PROVE n + 1 \in S
  <2>1. SUFFICES ASSUME n + 1 <= Len(ts) PROVE f[n + 1] = g[n + 1]
    OBVIOUS
  <2>2. n + 1 \in 1..Len(ts) /\ (n + 1) - 1 = n /\ f[n] = g[n]
    BY <1>2, <2>1
  <2>3. /\ f[n + 1] = Executed(f[n], ts[n + 1], 2)
        /\ g[n + 1] = Executed(g[n], ts[n + 1], 2)
    BY <2>2 DEF Runs
  <2>4. QED
    BY <2>2, <2>3
<1>3. \A n \in Nat : n \in S
  <2> HIDE DEF S
  <2>1. QED
    BY <1>1, <1>2, Induct
<1>4. QED
  BY <1>3


\* A run goes on with a task posted last ...
LEMMA RunPosted ==
    ASSUME NEW d \in Disks, NEW ts \in Seq(Tasks), NEW t \in Tasks, NEW f, Runs(f, d, ts)
    PROVE  \E g : /\ Runs(g, d, Append(ts, t))
                  /\ \A n \in 0..Len(ts) : g[n] = f[n]
                  /\ g[Len(ts) + 1] = Executed(f[Len(ts)], t, 2)
<1> DEFINE L == Len(ts)
           us == Append(ts, t)
           e == Executed(f[L], t, 2)
           g == [n \in 0..(L + 1) |-> IF n = L + 1 THEN e ELSE f[n]]
<1>1. /\ us \in Seq(Tasks) /\ Len(us) = L + 1 /\ us[L + 1] = t /\ L \in Nat
      /\ \A i \in 1..L : us[i] = ts[i]
  OBVIOUS
<1>2. f \in [0..L -> Disks] /\ f[0] = d /\ \A n \in 1..L : f[n] = Executed(f[n - 1], ts[n], 2)
  BY DEF Runs
<1> HIDE DEF us, L
<1>3. /\ \A n \in 0..L : n \in 0..(L + 1) /\ n # L + 1 /\ f[n] \in Disks
      /\ L \in 0..L /\ 0 \in 0..L /\ L + 1 \in 0..(L + 1)
      /\ \A n \in 1..(L + 1) : n = L + 1 \/ n \in 1..L
      /\ \A n \in 1..L : n \in 0..L /\ n - 1 \in 0..L
      /\ (L + 1) - 1 = L /\ \A n \in 0..(L + 1) : n = L + 1 \/ n \in 0..L
  BY <1>1, <1>2
<1>4. e \in Disks
  BY <1>3, ExecutedLemma
<1> HIDE DEF e
<1>5. g \in [0..(L + 1) -> Disks]
  BY <1>3, <1>4
<1>6. g[L + 1] = e /\ \A n \in 0..L : g[n] = f[n]
  BY <1>3
<1> HIDE DEF g
<1>7. ASSUME NEW n \in 1..(L + 1) PROVE g[n] = Executed(g[n - 1], us[n], 2)
  <2>1. CASE n = L + 1
    BY <1>1, <1>3, <1>6, <2>1 DEF e
  <2>2. CASE n \in 1..L
    BY <1>1, <1>2, <1>3, <1>6, <2>2
  <2>3. QED
    BY <1>3, <2>1, <2>2
<1>8. Runs(g, d, us)
  BY <1>1, <1>2, <1>3, <1>5, <1>6, <1>7 DEF Runs
<1>9. QED
  BY <1>6, <1>8 DEF us, L, e

\* ... and from where its first task has led.
LEMMA RunTaken ==
    ASSUME NEW d \in Disks, NEW ts \in Seq(Tasks), ts # << >>, NEW f, Runs(f, d, ts)
    PROVE  \E g : /\ Runs(g, Executed(d, Head(ts), 2), Tail(ts))
                  /\ \A n \in 0..Len(Tail(ts)) : g[n] = f[n + 1]
<1> DEFINE us == Tail(ts)
           M == Len(us)
           g == [n \in 0..M |-> f[n + 1]]
<1>1. /\ us \in Seq(Tasks) /\ M = Len(ts) - 1 /\ M \in Nat /\ Len(ts) \in Nat
      /\ Head(ts) = ts[1] /\ \A i \in 1..M : us[i] = ts[i + 1]
  BY TakenTask
<1>2. /\ f \in [0..Len(ts) -> Disks] /\ f[0] = d
      /\ \A n \in 1..Len(ts) : f[n] = Executed(f[n - 1], ts[n], 2)
  BY DEF Runs
<1> HIDE DEF us, M
<1>3. /\ \A n \in 0..M : n + 1 \in 0..Len(ts)
      /\ \A n \in 1..M : n \in 0..M /\ n - 1 \in 0..M /\ n + 1 \in 1..Len(ts) /\ (n - 1) + 1 = n
                         /\ (n + 1) - 1 = n
      /\ 0 \in 0..M /\ 1 \in 1..Len(ts) /\ 1 - 1 = 0 /\ 0 + 1 = 1
  BY <1>1
<1>4. g \in [0..M -> Disks]
  BY <1>2, <1>3
<1>5. \A n \in 0..M : g[n] = f[n + 1]
  OBVIOUS
<1> HIDE DEF g
<1>6. g[0] = Executed(d, Head(ts), 2)
  BY <1>1, <1>2, <1>3, <1>5
<1>7. ASSUME NEW n \in 1..M PROVE g[n] = Executed(g[n - 1], us[n], 2)
  <2>1. g[n] = f[n + 1] /\ g[n - 1] = f[n] /\ us[n] = ts[n + 1]
    BY <1>1, <1>3, <1>5
  <2>2. f[n + 1] = Executed(f[n], ts[n + 1], 2)
    BY <1>2, <1>3
  <2>3. QED
    BY <2>1, <2>2
<1>8. Runs(g, Executed(d, Head(ts), 2), us)
  BY <1>4, <1>6, <1>7 DEF Runs, M
<1>9. QED
  BY <1>5, <1>8 DEF us, M

\* What a task does that meets no failure.
LEMMA SuccessLemma ==
    ASSUME NEW d \in Disks, NEW t \in Tasks
    PROVE  LET e == Executed(d, t, 2)
           IN  /\ t.op = "load" => e.open
               /\ t.op \in {"close", "destroy"} => ~ e.open
               /\ t.op \notin {"load", "close", "destroy"} => e.open = d.open
               /\ t.op = "close" => e.ids = d.ids
               /\ ~ d.open /\ t.op \notin {"load", "destroy"} => e.ids = d.ids
               /\ d.open /\ t.op \in {"add", "overwrite"} => e.ids = d.ids \cup Elements(t.ids)
               /\ d.open /\ t.op = "remove" /\ Len(t.ids) <= 2 /\ Elements(t.ids) \subseteq d.ids
                      => /\ e.ids = d.ids \ Elements(t.ids)
                         /\ RemovedIds(d, t.ids, 2) = Elements(t.ids)
<1>1. /\ t.op \in TaskOps /\ t.ids \in Seq(Ids) /\ Elements(t.ids) \subseteq Ids
      /\ d.ids \subseteq Ids /\ d.open \in BOOLEAN
  BY TaskIds DEF Tasks, Disks
<1>2. CASE t.op = "load"
  <2>1. Executed(d, t, 2) = [d EXCEPT !.open = d.open \/ 2 > 0]
    BY <1>2 DEF Executed
  <2>2. Executed(d, t, 2).open = (d.open \/ 2 > 0) /\ 2 > 0
    BY <2>1 DEF Disks
  <2>3. QED
    BY <1>2, <2>2
<1>3. CASE t.op \in {"add", "overwrite"}
  <2>1. Executed(d, t, 2) =
            [d EXCEPT !.ids = IF d.open /\ 2 > 0 THEN d.ids \cup Elements(t.ids) ELSE d.ids]
    BY <1>3 DEF Executed
  <2>2. QED
    BY <1>1, <1>3, <2>1 DEF Disks
<1>4. CASE t.op = "remove"
  <2>1. Executed(d, t, 2) = [d EXCEPT !.ids = d.ids \ RemovedIds(d, t.ids, 2)]
    BY <1>4 DEF Executed
  <2>2. ~ d.open => RemovedIds(d, t.ids, 2) = {}
    BY DEF RemovedIds
  <2>3. ASSUME d.open, Len(t.ids) <= 2, Elements(t.ids) \subseteq d.ids
        PROVE  RemovedIds(d, t.ids, 2) = Elements(t.ids)
    <3>1. \A i \in 1..Len(t.ids) : t.ids[i] \in d.ids
      BY <2>3 DEF Elements
    <3>2. ASSUME NEW k \in 1..Len(t.ids)
          PROVE  k <= 2 /\ \A i \in 1..k : t.ids[i] \in d.ids
      <4>1. Len(t.ids) \in Nat
        BY <1>1
      <4>2. \A i \in 1..k : i \in 1..Len(t.ids)
        BY <4>1
      <4>3. QED
        BY <2>3, <3>1, <4>1, <4>2
    <3>3. RemovedIds(d, t.ids, 2) = {t.ids[n] : n \in 1..Len(t.ids)}
      BY <2>3, <3>2 DEF RemovedIds
    <3>4. QED
      BY <3>3 DEF Elements
  <2>4. QED
    BY <1>1, <1>4, <2>1, <2>2, <2>3 DEF Disks
<1>5. CASE t.op = "close"
  <2>1. Executed(d, t, 2) = [d EXCEPT !.open = FALSE]
    BY <1>5 DEF Executed
  <2>2. QED
    BY <1>1, <1>5, <2>1 DEF Disks
<1>6. CASE t.op = "destroy"
  <2>1. Executed(d, t, 2) = [open |-> FALSE, ids |-> IF 2 > 0 THEN {} ELSE d.ids]
    BY <1>6 DEF Executed
  <2>2. QED
    BY <1>1, <1>6, <2>1 DEF Disks
<1>7. QED
  BY <1>1, <1>2, <1>3, <1>4, <1>5, <1>6 DEF TaskOps


\* What the task t will have done to the messages in the database and those that
\* are to be written after it: its answer takes messages off the counts, none of
\* which are still there or to come, and all that are gone if nothing is amiss.
Loses(d, t, rest, lost) ==
    LET e == Executed(d, t, 2)
    IN  /\ \/ Answer(d, t, 2) = << >> /\ lost = {}
           \/ \E r \in Replies : /\ Answer(d, t, 2) = <<r>>
                                 /\ r.op # "load" /\ r.epoch = t.epoch /\ r.ids = lost
        /\ rest \cap e.ids = {}
        /\ (e.ids \cup rest) \cap lost = {}
        /\ (e.ids \cup rest) \cup lost \subseteq (d.ids \cup Adds(t)) \cup rest

\* The database is open, and what is overwritten or removed is there.
Serves(d, t) ==
    /\ d.open /\ Executed(d, t, 2).open
    /\ t.op \in {"overwrite", "remove"} => Len(t.ids) <= 2 /\ Elements(t.ids) \subseteq d.ids

LosesAll(d, t, rest, lost) ==
    (Executed(d, t, 2).ids \cup rest) \cup lost = (d.ids \cup Adds(t)) \cup rest

\* The task comes after the load, and finds nothing of what is to be written.
Regular(d, t, rest) ==
    /\ t.op # "load"
    /\ d.ids \cap (Adds(t) \cup rest) = {} /\ Adds(t) \cap rest = {}
    /\ t.op = "overwrite" => Executed(d, t, 2).ids = d.ids

LEMMA StepLoses ==
    ASSUME NEW d \in Disks, NEW t \in Tasks, NEW rest \in SUBSET Ids, Regular(d, t, rest)
    PROVE  \E lost \in SUBSET Ids :
               Loses(d, t, rest, lost) /\ (Serves(d, t) => LosesAll(d, t, rest, lost))
<1>0. /\ t.op # "load"
      /\ d.ids \cap (Adds(t) \cup rest) = {} /\ Adds(t) \cap rest = {}
      /\ t.op = "overwrite" => Executed(d, t, 2).ids = d.ids
  BY DEF Regular
<1> DEFINE e == Executed(d, t, 2)
           removed == RemovedIds(d, t.ids, 2)
<1>1. /\ t.op \in TaskOps /\ t.ids \in Seq(Ids) /\ Elements(t.ids) \subseteq Ids
      /\ d.ids \subseteq Ids /\ d.open \in BOOLEAN /\ t.epoch \in Nat
      /\ Adds(t) \subseteq Ids
  BY TaskIds DEF Tasks, Disks
<1>2. 2 \in {0, 1, 2}
  OBVIOUS
<1>3. CASE t.op = "add"
  <2>1. Adds(t) = Elements(t.ids)
    BY <1>3 DEF Adds
  <2>2. PICK r \in Replies :
            /\ Answer(d, t, 2) = <<r>> /\ r.op = "add" /\ r.epoch = t.epoch
            /\ r.ids = IF d.open THEN {} ELSE Elements(t.ids)
    <3> DEFINE ok == d.open /\ 2 > 0
               r == [op |-> "add", ok |-> ok, ids |-> IF ok THEN {} ELSE Elements(t.ids),
                     epoch |-> t.epoch]
    <3>1. Answer(d, t, 2) = <<r>>
      BY <1>3 DEF Answer
    <3>2. ok = d.open
      BY <1>1
    <3> HIDE DEF ok
    <3>3. r \in Replies /\ r.op = "add" /\ r.epoch = t.epoch
          /\ r.ids = IF d.open THEN {} ELSE Elements(t.ids)
      BY <1>1, <3>2 DEF Replies
    <3> HIDE DEF r
    <3>4. QED
      BY <3>1, <3>3
  <2>3. e.ids = IF d.open THEN d.ids \cup Elements(t.ids) ELSE d.ids
    <3>1. /\ ~ d.open /\ t.op \notin {"load", "destroy"} => e.ids = d.ids
          /\ d.open /\ t.op \in {"add", "overwrite"} => e.ids = d.ids \cup Elements(t.ids)
      BY SuccessLemma
    <3>2. QED
      BY <1>3, <3>1
  <2> HIDE DEF e
  <2>4. r.ids \in SUBSET Ids /\ r.op # "load"
    BY <1>1, <2>2
  <2>5. CASE d.open
    <3>1. r.ids = {} /\ e.ids = d.ids \cup Adds(t)
      BY <2>1, <2>2, <2>3, <2>5
    <3>2. /\ rest \cap e.ids = {} /\ (e.ids \cup rest) \cap r.ids = {}
          /\ (e.ids \cup rest) \cup r.ids = (d.ids \cup Adds(t)) \cup rest
      BY <1>0, <3>1
    <3>3. QED
      BY <2>2, <2>4, <3>2 DEF Loses, LosesAll, e
  <2>6. CASE ~ d.open
    <3>1. r.ids = Adds(t) /\ e.ids = d.ids
      BY <2>1, <2>2, <2>3, <2>6
    <3>2. /\ rest \cap e.ids = {} /\ (e.ids \cup rest) \cap r.ids = {}
          /\ (e.ids \cup rest) \cup r.ids = (d.ids \cup Adds(t)) \cup rest
      BY <1>0, <3>1
    <3>3. QED
      BY <2>2, <2>4, <3>2 DEF Loses, LosesAll, e
  <2>7. QED
    BY <2>5, <2>6
<1>4. CASE t.op = "remove"
  <2>1. Adds(t) = {}
    BY <1>4 DEF Adds
  <2>2. removed \subseteq d.ids \cap Elements(t.ids)
    BY <1>1, <1>2, RemovedLemma
  <2>3. PICK r \in Replies :
            /\ Answer(d, t, 2) = <<r>> /\ r.op = "remove" /\ r.epoch = t.epoch
            /\ r.ids = IF d.open /\ removed = Elements(t.ids) THEN removed ELSE {}
    <3> DEFINE ok == d.open /\ removed = Elements(t.ids)
               ids == IF d.open THEN CountedRemovals(Elements(t.ids), removed) ELSE {}
               r == [op |-> "remove", ok |-> ok, ids |-> ids, epoch |-> t.epoch]
    <3>1. Answer(d, t, 2) = <<r>>
      BY <1>4 DEF Answer
    <3>2. ids = (IF d.open /\ removed = Elements(t.ids) THEN removed ELSE {}) /\ ok \in BOOLEAN
      BY <1>1 DEF CountedRemovals
    <3>3. ids \in SUBSET Ids
      BY <1>1, <2>2, <3>2
    <3> HIDE DEF ok, ids, removed
    <3>4. r \in Replies /\ r.op = "remove" /\ r.epoch = t.epoch /\ r.ids = ids
      BY <1>1, <3>2, <3>3 DEF Replies
    <3> HIDE DEF r
    <3>5. QED
      BY <3>1, <3>2, <3>4
  <2>4. e.ids = d.ids \ removed
    <3>1. t.op = "remove" => e.ids = d.ids \ removed
      BY <1>2, ExecutedLemma, SMTT(30)
    <3>2. QED
      BY <1>4, <3>1
  <2>5. Serves(d, t) => removed = Elements(t.ids)
    <3>1. d.open /\ t.op = "remove" /\ Len(t.ids) <= 2 /\ Elements(t.ids) \subseteq d.ids
              => removed = Elements(t.ids)
      BY SuccessLemma, SMTT(30)
    <3>2. QED
      BY <1>4, <3>1 DEF Serves
  <2> HIDE DEF e, removed
  <2>6. r.ids \in SUBSET Ids /\ r.op # "load" /\ r.ids \subseteq removed
    BY <1>1, <2>2, <2>3
  <2>7. /\ rest \cap e.ids = {} /\ (e.ids \cup rest) \cap r.ids = {}
        /\ (e.ids \cup rest) \cup r.ids \subseteq (d.ids \cup Adds(t)) \cup rest
    BY <1>0, <2>1, <2>2, <2>4, <2>6
  <2>8. ASSUME Serves(d, t)
        PROVE  (e.ids \cup rest) \cup r.ids = (d.ids \cup Adds(t)) \cup rest
    <3>1. r.ids = removed
      BY <2>3, <2>5, <2>8 DEF Serves
    <3>2. QED
      BY <2>1, <2>2, <2>4, <3>1
  <2>9. QED
    BY <2>3, <2>6, <2>7, <2>8 DEF Loses, LosesAll, e
<1>5. CASE t.op \notin {"add", "remove"}
  <2>1. Adds(t) = {} /\ Answer(d, t, 2) = << >>
    BY <1>0, <1>5 DEF Adds, Answer
  <2>2. e.ids \subseteq d.ids
    <3>1. t.op \notin {"add", "overwrite"} => e.ids \subseteq d.ids
      BY <1>2, ExecutedLemma, SMTT(30)
    <3>2. QED
      BY <1>0, <1>5, <3>1
  <2>3. Serves(d, t) => e.ids = d.ids
    <3>1. t.op \in {"close", "destroy"} => ~ e.open
      BY SuccessLemma, SMTT(30)
    <3>2. QED
      BY <1>0, <1>1, <1>5, <3>1 DEF Serves, TaskOps
  <2> HIDE DEF e
  <2>4. /\ rest \cap e.ids = {} /\ (e.ids \cup rest) \cap {} = {}
        /\ (e.ids \cup rest) \cup {} \subseteq (d.ids \cup Adds(t)) \cup rest
    BY <1>0, <2>1, <2>2
  <2>5. Serves(d, t) => (e.ids \cup rest) \cup {} = (d.ids \cup Adds(t)) \cup rest
    BY <2>1, <2>3
  <2>6. QED
    BY <2>1, <2>4, <2>5 DEF Loses, LosesAll, e
<1>6. QED
  BY <1>3, <1>4, <1>5

\* ... and to the counts.
LEMMA StepCounts ==
    ASSUME NEW d \in Disks, NEW t \in Tasks, t.epoch = epoch, NEW rest, NEW lost \in SUBSET Ids,
           Loses(d, t, rest, lost), NEW c \in [Apps -> Int]
    PROVE  /\ Settled(c, d, t) \in [Apps -> Int]
           /\ \A a \in Apps : Settled(c, d, t)[a] = c[a] - CountOf(lost, a)
<1>1. CASE Answer(d, t, 2) = << >> /\ lost = {}
  <2>1. Settled(c, d, t) = c
    BY <1>1 DEF Settled
  <2>2. \A a \in Apps : c[a] = c[a] - CountOf({}, a)
    BY CountNothing
  <2>3. QED
    BY <1>1, <2>1, <2>2
<1>2. ASSUME NEW r \in Replies, Answer(d, t, 2) = <<r>>, r.op # "load", r.epoch = t.epoch,
             r.ids = lost
      PROVE  /\ Settled(c, d, t) \in [Apps -> Int]
             /\ \A a \in Apps : Settled(c, d, t)[a] = c[a] - CountOf(lost, a)
  <2>1. <<r>> # << >> /\ <<r>>[1] = r
    OBVIOUS
  <2>2. Settled(c, d, t) = Corrected(c, r)
    BY <1>2, <2>1 DEF Settled
  <2>3. QED
    BY <1>2, <2>2, CorrectedLemma
<1>3. QED
  BY <1>1, <1>2 DEF Loses


\* The continuations posted so far take what they are for off the counts.
LEMMA RepliedLemma ==
    ASSUME counts \in [Apps -> Int], replies \in Seq(Replies),
           \A i \in 1..Len(replies) : replies[i].epoch = epoch /\ replies[i].op # "load",
           \A i, j \in 1..Len(replies) : i # j => replies[i].ids \cap replies[j].ids = {}
    PROVE  /\ RepliedCounts \in [Apps -> Int]
           /\ \A a \in Apps : RepliedCounts[a] = counts[a] - CountOf(Answered(replies), a)
<1> DEFINE L == Len(replies)
           X == [Apps -> Int]
           G == [n \in 1..L |-> [y \in X |-> Corrected(y, replies[n])]]
           F(f) == [n \in 0..L |->
                      IF n = 0 THEN counts
                      ELSE IF replies[n].epoch = epoch THEN Corrected(f[n - 1], replies[n])
                      ELSE f[n - 1]]
<1>1. /\ L \in Nat /\ \A n \in 1..L : replies[n] \in Replies /\ n - 1 \in 0..L
      /\ 0 \in 0..L /\ \A n \in 1..L : n \in 0..L /\ n # 0
      /\ \A n \in 0..L : n = 0 \/ n \in 1..L
  OBVIOUS
<1>2. \A n \in 1..L : \A y \in X :
          /\ Corrected(y, replies[n]) \in X
          /\ \A a \in Apps : Corrected(y, replies[n])[a] = y[a] - CountOf(replies[n].ids, a)
  <2>1. ASSUME NEW n \in 1..L, NEW y \in X
        PROVE  /\ Corrected(y, replies[n]) \in X
               /\ \A a \in Apps : Corrected(y, replies[n])[a] = y[a] - CountOf(replies[n].ids, a)
    <3> DEFINE r == replies[n]
    <3>1. r \in Replies /\ r.op # "load"
      BY <1>1
    <3> HIDE DEF r
    <3>2. /\ Corrected(y, r) \in X
          /\ \A a \in Apps : Corrected(y, r)[a] = IF r.op = "load" THEN y[a] + CountOf(r.ids, a)
                                                    ELSE y[a] - CountOf(r.ids, a)
      BY <3>1, CorrectedLemma
    <3>3. QED
      BY <3>1, <3>2 DEF r
  <2>2. QED
    BY <2>1
<1>3. \A n \in 1..L : \A y \in X : G[n][y] = Corrected(y, replies[n])
  OBVIOUS
<1>4. \A n \in 1..L : replies[n].epoch = epoch
  OBVIOUS
<1>5. counts \in X
  OBVIOUS
<1> HIDE DEF G, L, X
<1>6. PICK f \in [0..L -> X] : Solution(f, counts, G, L)
  <2>1. StaysIn(G, X, L)
    BY <1>2, <1>3 DEF StaysIn
  <2>2. QED
    BY <1>1, <1>5, <2>1, Recursion
<1>7. f[0] = counts /\ \A n \in 1..L : f[n] = Corrected(f[n - 1], replies[n])
  BY <1>1, <1>3, <1>6 DEF Solution
<1>8. f = F(f)
  <2>1. \A n \in 0..L : f[n] = F(f)[n]
    BY <1>1, <1>4, <1>7
  <2>2. f = [n \in 0..L |-> f[n]]
    BY <1>6
  <2>3. QED
    BY <2>1, <2>2
<1> DEFINE now == CHOOSE g : g = F(g)
<1>9. now = F(now)
  BY <1>8
<1>10. RepliedCounts = now[L]
  BY DEF RepliedCounts, L
<1> HIDE DEF now
<1>11. now[0] = counts /\ \A n \in 1..L : now[n] = Corrected(now[n - 1], replies[n])
  <2>1. \A n \in 0..L :
            F(now)[n] = IF n = 0 THEN counts
                        ELSE IF replies[n].epoch = epoch THEN Corrected(now[n - 1], replies[n])
                        ELSE now[n - 1]
    OBVIOUS
  <2> HIDE DEF F
  <2>2. QED
    BY <1>1, <1>4, <1>9, <2>1
<1> DEFINE Met(n) == UNION {replies[i].ids : i \in 1..n}
           S == {n \in Nat : n <= L =>
                    /\ now[n] \in X
                    /\ \A a \in Apps : now[n][a] = counts[a] - CountOf(Met(n), a)}
<1>12. \A n \in Nat : n \in S
  <2>1. 0 \in S
    <3>1. Met(0) = {}
      OBVIOUS
    <3>2. \A a \in Apps : counts[a] \in Int
      OBVIOUS
    <3> HIDE DEF Met
    <3>3. ASSUME NEW a \in Apps PROVE counts[a] = counts[a] - CountOf(Met(0), a)
      <4>1. CountOf(Met(0), a) = 0
        BY <3>1, CountNothing
      <4>2. QED
        BY <3>2, <4>1
    <3>4. QED
      BY <1>5, <1>11, <3>3
  <2>2. ASSUME NEW n \in Nat, n \in S PROVE n + 1 \in S
    <3>1. SUFFICES ASSUME n + 1 <= L
                   PROVE  /\ now[n + 1] \in X
                          /\ \A a \in Apps : now[n + 1][a] = counts[a] - CountOf(Met(n + 1), a)
      OBVIOUS
    <3> DEFINE r == replies[n + 1]
    <3>2. /\ n + 1 \in 1..L /\ (n + 1) - 1 = n /\ now[n] \in X
          /\ \A a \in Apps : now[n][a] = counts[a] - CountOf(Met(n), a)
      BY <1>1, <2>2, <3>1
    <3>3. r \in Replies /\ r.ids \in SUBSET Ids
      BY <1>1, <3>2 DEF Replies
    <3>4. Met(n + 1) = Met(n) \cup r.ids
      <4>1. \A i \in 1..(n + 1) : i \in 1..n \/ i = n + 1
        OBVIOUS
      <4>2. n + 1 \in 1..(n + 1) /\ \A i \in 1..n : i \in 1..(n + 1)
        OBVIOUS
      <4>3. QED
        BY <4>1, <4>2
    <3>5. Met(n) \in SUBSET Ids /\ Met(n) \cap r.ids = {}
      <4>1. ASSUME NEW i \in 1..n PROVE replies[i].ids \subseteq Ids /\ replies[i].ids \cap r.ids = {}
        <5>1. i \in 1..L /\ i # n + 1
          BY <1>1, <3>1
        <5>2. replies[i].ids \cap r.ids = {}
          BY <3>2, <5>1 DEF L
        <5>3. replies[i] \in Replies
          BY <1>1, <5>1
        <5>4. QED
          BY <5>2, <5>3 DEF Replies
      <4>2. QED
        BY <4>1
    <3>6. /\ now[n + 1] = Corrected(now[n], r)
          /\ Corrected(now[n], r) \in X
          /\ \A a \in Apps : Corrected(now[n], r)[a] = now[n][a] - CountOf(r.ids, a)
      BY <1>2, <1>11, <3>2
    <3> HIDE DEF r, Met
    <3>7. ASSUME NEW a \in Apps
          PROVE  now[n + 1][a] = counts[a] - CountOf(Met(n + 1), a)
      <4>1. CountOf(Met(n + 1), a) = CountOf(Met(n), a) + CountOf(r.ids, a)
        BY <3>3, <3>4, <3>5, CountDisjoint
      <4>2. CountOf(Met(n), a) \in Int /\ CountOf(r.ids, a) \in Int /\ counts[a] \in Int
        BY <3>3, <3>5, CountFinite
      <4>3. now[n + 1][a] = (counts[a] - CountOf(Met(n), a)) - CountOf(r.ids, a)
        BY <3>2, <3>6
      <4>4. QED
        BY <4>1, <4>2, <4>3
    <3>8. QED
      BY <3>6, <3>7
  <2> HIDE DEF S
  <2>3. QED
    BY <2>1, <2>2, Induct
<1>13. Met(L) = Answered(replies)
  BY DEF Answered, L
<1>14. now[L] \in X /\ \A a \in Apps : now[L][a] = counts[a] - CountOf(Met(L), a)
  <2> HIDE DEF Met
  <2>1. QED
    BY <1>1, <1>12
<1>15. QED
  BY <1>10, <1>13, <1>14 DEF X


\* What is to be written after n of the tasks.
RestAfter(n) == UNION {Adds(tasks[i]) : i \in (n + 1)..Len(tasks)}

LEMMA RestLemma ==
    ASSUME tasks \in Seq(Tasks), AddsDistinct(disk.ids, tasks)
    PROVE  /\ RestAfter(0) = AddsOf(tasks) /\ RestAfter(Len(tasks)) = {}
           /\ \A n \in Nat : n + 1 <= Len(tasks) =>
                  /\ RestAfter(n) = Adds(tasks[n + 1]) \cup RestAfter(n + 1)
                  /\ Adds(tasks[n + 1]) \cap RestAfter(n + 1) = {}
           /\ \A n \in Nat : RestAfter(n) \in SUBSET Ids
<1>1. Len(tasks) \in Nat /\ \A i \in 1..Len(tasks) : tasks[i] \in Tasks
  OBVIOUS
<1>2. RestAfter(0) = AddsOf(tasks)
  BY DEF RestAfter, AddsOf
<1>3. RestAfter(Len(tasks)) = {}
  <2>1. (Len(tasks) + 1)..Len(tasks) = {}
    BY <1>1
  <2>2. QED
    BY <2>1 DEF RestAfter
<1>4. ASSUME NEW n \in Nat, n + 1 <= Len(tasks)
      PROVE  /\ RestAfter(n) = Adds(tasks[n + 1]) \cup RestAfter(n + 1)
             /\ Adds(tasks[n + 1]) \cap RestAfter(n + 1) = {}
  <2>1. /\ \A i \in (n + 1)..Len(tasks) : i = n + 1 \/ i \in ((n + 1) + 1)..Len(tasks)
        /\ n + 1 \in (n + 1)..Len(tasks) /\ n + 1 \in 1..Len(tasks)
        /\ \A i \in ((n + 1) + 1)..Len(tasks) :
               i \in (n + 1)..Len(tasks) /\ i \in 1..Len(tasks) /\ i # n + 1
    BY <1>1, <1>4
  <2>2. RestAfter(n) = Adds(tasks[n + 1]) \cup RestAfter(n + 1)
    BY <2>1 DEF RestAfter
  <2>3. \A i \in ((n + 1) + 1)..Len(tasks) : Adds(tasks[n + 1]) \cap Adds(tasks[i]) = {}
    BY <2>1 DEF AddsDistinct
  <2>4. QED
    BY <2>2, <2>3 DEF RestAfter
<1>5. ASSUME NEW n \in Nat PROVE RestAfter(n) \in SUBSET Ids
  <2>1. ASSUME NEW i \in (n + 1)..Len(tasks) PROVE Adds(tasks[i]) \subseteq Ids
    <3>1. i \in 1..Len(tasks)
      BY <1>1
    <3>2. QED
      BY <1>1, <3>1, TaskIds
  <2>2. QED
    BY <2>1 DEF RestAfter
<1>6. QED
  BY <1>2, <1>3, <1>4, <1>5

\* The counts keep the distance from what they cover: executing a task takes off
\* them at most what has gone, and exactly that if nothing is amiss.
LEMMA SettledLemma ==
    ASSUME disk \in Disks, tasks \in Seq(Tasks), AddsDistinct(disk.ids, tasks),
           RepliedCounts \in [Apps -> Int],
           \A i \in 1..Len(tasks) : tasks[i].epoch = epoch /\ tasks[i].op # "load",
           \A n \in 1..Len(tasks) :
               tasks[n].op = "overwrite" => SettledDisk[n].ids = SettledDisk[n - 1].ids,
           NEW a \in Apps
    PROVE  LET slack == RepliedCounts[a] - CountOf(Coming(disk.ids, tasks), a)
           IN  /\ slack \in Int /\ Stored(a) \in Int /\ SettledCounts[a] \in Int
               /\ SettledCounts[a] - Stored(a) >= slack
               /\ (\A n \in 1..Len(tasks) : Serves(SettledDisk[n - 1], tasks[n]))
                      => SettledCounts[a] - Stored(a) = slack
<1> DEFINE L == Len(tasks)
           D == SettledDisk
           X == [Apps -> Int]
           G == [n \in 1..L |-> [y \in X |-> Settled(y, D[n - 1], tasks[n])]]
           F(f) == [n \in 0..L |-> IF n = 0 THEN RepliedCounts
                                   ELSE Settled(f[n - 1], D[n - 1], tasks[n])]
           C(n) == D[n].ids \cup RestAfter(n)
           slack == RepliedCounts[a] - CountOf(Coming(disk.ids, tasks), a)
           Served == \A n \in 1..Len(tasks) : Serves(SettledDisk[n - 1], tasks[n])
<1>1. /\ L \in Nat /\ \A n \in 1..L : tasks[n] \in Tasks /\ n - 1 \in 0..L
      /\ 0 \in 0..L /\ \A n \in 1..L : n \in 0..L /\ n # 0
      /\ \A n \in 0..L : n = 0 \/ n \in 1..L
      /\ L \in 0..L
  OBVIOUS
<1>2. /\ \A n \in 0..L : D[n] \in Disks
      /\ D[0] = disk
      /\ \A n \in 1..L : D[n] = Executed(D[n - 1], tasks[n], 2)
  <2>1. Runs(D, disk, tasks)
    BY SettledRuns
  <2> HIDE DEF D
  <2>2. QED
    BY <2>1 DEF Runs
<1>3. \A n \in 1..L : tasks[n].epoch = epoch /\ tasks[n].op # "load"
  OBVIOUS
<1>4. \A n \in 1..L : tasks[n].op = "overwrite" => D[n].ids = D[n - 1].ids
  OBVIOUS
<1>5. \A n \in 1..L : \A y \in X : G[n][y] = Settled(y, D[n - 1], tasks[n])
  OBVIOUS
<1>6. RepliedCounts \in X
  OBVIOUS
<1>7. Stored(a) = CountOf(D[L].ids, a)
  BY DEF Stored, CountOf
<1>8. Served => \A n \in 1..L : Serves(D[n - 1], tasks[n])
  OBVIOUS
<1> HIDE DEF D, G, L, Served
<1>9. ASSUME NEW n \in Nat, n + 1 <= L, D[n].ids \cap RestAfter(n) = {}
      PROVE  \E lost \in SUBSET Ids :
                 /\ Loses(D[n], tasks[n + 1], RestAfter(n + 1), lost)
                 /\ Served => C(n + 1) \cup lost = C(n)
  <2> DEFINE d == D[n]
             t == tasks[n + 1]
             rest == RestAfter(n + 1)
  <2>1. /\ n + 1 \in 1..L /\ (n + 1) - 1 = n /\ n \in 0..L /\ n + 1 \in Nat
    BY <1>1, <1>9
  <2>2. /\ RestAfter(n) = Adds(t) \cup rest /\ Adds(t) \cap rest = {}
        /\ rest \in SUBSET Ids
    BY <1>9, <2>1, RestLemma DEF L
  <2>3. d \in Disks /\ t \in Tasks /\ t.op # "load"
    BY <1>1, <1>2, <1>3, <2>1
  <2>4. D[n + 1] = Executed(d, t, 2) /\ (t.op = "overwrite" => Executed(d, t, 2).ids = d.ids)
    BY <1>2, <1>4, <2>1
  <2>5. Served => Serves(d, t)
    BY <1>8, <2>1
  <2>6. d.ids \cap (Adds(t) \cup rest) = {}
    BY <1>9, <2>2
  <2> HIDE DEF d, t, rest
  <2>7. PICK lost \in SUBSET Ids :
            Loses(d, t, rest, lost) /\ (Serves(d, t) => LosesAll(d, t, rest, lost))
    <3> HIDE DEF C, F, slack
    <3>1. d \in Disks /\ t \in Tasks /\ rest \in SUBSET Ids
      BY <2>2, <2>3
    <3>2. Regular(d, t, rest)
      BY <2>2, <2>3, <2>4, <2>6 DEF Regular
    <3>3. QED
      BY <3>1, <3>2, StepLoses
  <2>8. C(n + 1) = Executed(d, t, 2).ids \cup rest /\ C(n) = (d.ids \cup Adds(t)) \cup rest
    BY <2>2, <2>4 DEF d, t, rest
  <2>9. QED
    BY <2>5, <2>7, <2>8 DEF LosesAll, d, t, rest
<1> HIDE DEF C
<1>10. C(0) = Coming(disk.ids, tasks) /\ C(L) = D[L].ids /\ \A n \in 0..L : C(n) \in SUBSET Ids
  <2>1. RestAfter(0) = AddsOf(tasks) /\ RestAfter(L) = {} /\ \A n \in Nat : RestAfter(n) \in SUBSET Ids
    BY RestLemma DEF L
  <2>2. \A n \in 0..L : n \in Nat /\ D[n].ids \in SUBSET Ids
    BY <1>1, <1>2 DEF Disks
  <2>3. QED
    BY <1>1, <1>2, <2>1, <2>2 DEF C, Coming
<1>11. \A n \in 0..L : D[n].ids \cap RestAfter(n) = {}
  <2> DEFINE S == {n \in Nat : n <= L => D[n].ids \cap RestAfter(n) = {}}
  <2>1. 0 \in S
    <3>1. RestAfter(0) = AddsOf(tasks)
      BY RestLemma
    <3>2. AddsOf(tasks) \cap disk.ids = {}
      BY DEF AddsDistinct
    <3>3. QED
      BY <1>2, <3>1, <3>2
  <2>2. ASSUME NEW n \in Nat, n \in S PROVE n + 1 \in S
    <3>1. SUFFICES ASSUME n + 1 <= L PROVE D[n + 1].ids \cap RestAfter(n + 1) = {}
      OBVIOUS
    <3>2. D[n].ids \cap RestAfter(n) = {} /\ n + 1 \in 1..L /\ (n + 1) - 1 = n
      BY <1>1, <2>2, <3>1
    <3>3. PICK lost \in SUBSET Ids : Loses(D[n], tasks[n + 1], RestAfter(n + 1), lost)
      BY <1>9, <3>1, <3>2
    <3>4. RestAfter(n + 1) \cap Executed(D[n], tasks[n + 1], 2).ids = {}
      BY <3>3 DEF Loses
    <3>5. D[n + 1] = Executed(D[n], tasks[n + 1], 2)
      BY <1>2, <3>2
    <3>6. QED
      BY <3>4, <3>5
  <2> HIDE DEF S
  <2>3. \A n \in Nat : n \in S
    BY <2>1, <2>2, Induct
  <2>4. QED
    BY <1>1, <2>3 DEF S
<1>12. ASSUME NEW n \in Nat, n + 1 <= L
       PROVE  \E lost \in SUBSET Ids :
                  /\ \A y \in X : /\ Settled(y, D[n], tasks[n + 1]) \in X
                                 /\ Settled(y, D[n], tasks[n + 1])[a] = y[a] - CountOf(lost, a)
                  /\ CountOf(C(n + 1), a) + CountOf(lost, a) <= CountOf(C(n), a)
                  /\ Served => CountOf(C(n + 1), a) + CountOf(lost, a) = CountOf(C(n), a)
  <2> DEFINE d == D[n]
             t == tasks[n + 1]
             rest == RestAfter(n + 1)
  <2>1. n \in 0..L /\ n + 1 \in 0..L /\ n + 1 \in 1..L /\ (n + 1) - 1 = n
    BY <1>1, <1>12
  <2>2. PICK lost \in SUBSET Ids :
            Loses(d, t, rest, lost) /\ (Served => C(n + 1) \cup lost = C(n))
    BY <1>9, <1>11, <1>12, <2>1
  <2>3. d \in Disks /\ t \in Tasks /\ t.epoch = epoch
    BY <1>1, <1>2, <1>3, <2>1
  <2>4. /\ C(n) \in SUBSET Ids /\ C(n + 1) \in SUBSET Ids
        /\ C(n + 1) \cap lost = {} /\ C(n + 1) \cup lost \subseteq C(n)
    <3>1. D[n + 1] = Executed(d, t, 2)
      BY <1>2, <2>1
    <3>2. RestAfter(n) = Adds(t) \cup rest
      BY <1>12, RestLemma DEF L
    <3>3. C(n + 1) = Executed(d, t, 2).ids \cup rest /\ C(n) = (d.ids \cup Adds(t)) \cup rest
      BY <3>1, <3>2 DEF C
    <3>4. QED
      BY <1>10, <2>1, <2>2, <3>3 DEF Loses
  <2> HIDE DEF d, t, rest
  <2>5. ASSUME NEW y \in X
        PROVE  Settled(y, d, t) \in X /\ Settled(y, d, t)[a] = y[a] - CountOf(lost, a)
    BY <2>2, <2>3, StepCounts
  <2>6. CountOf(C(n + 1) \cup lost, a) = CountOf(C(n + 1), a) + CountOf(lost, a)
    BY <2>4, CountDisjoint
  <2>7. CountOf(C(n + 1) \cup lost, a) <= CountOf(C(n), a)
    BY <2>4, CountMonotonic
  <2>8. QED
    BY <2>2, <2>5, <2>6, <2>7 DEF d, t
<1>13. \A n \in 1..L : \A y \in X : Settled(y, D[n - 1], tasks[n]) \in X
  <2>1. ASSUME NEW n \in 1..L, NEW y \in X PROVE Settled(y, D[n - 1], tasks[n]) \in X
    <3>1. n - 1 \in Nat /\ (n - 1) + 1 = n /\ n <= L
      BY <1>1
    <3>2. PICK lost \in SUBSET Ids :
              \A z \in X : Settled(z, D[n - 1], tasks[(n - 1) + 1]) \in X
      BY <1>12, <3>1
    <3>3. QED
      BY <3>1, <3>2
  <2>2. QED
    BY <2>1
<1>14. PICK f \in [0..L -> X] : Solution(f, RepliedCounts, G, L)
  <2>1. StaysIn(G, X, L)
    BY <1>5, <1>13 DEF StaysIn
  <2> HIDE DEF X
  <2>2. QED
    BY <1>1, <1>6, <2>1, Recursion
<1>15. f[0] = RepliedCounts /\ \A n \in 1..L : f[n] = Settled(f[n - 1], D[n - 1], tasks[n])
  BY <1>1, <1>5, <1>14 DEF Solution
<1>16. f = F(f)
  <2>1. \A n \in 0..L : f[n] = F(f)[n]
    BY <1>1, <1>15
  <2>2. f = [n \in 0..L |-> f[n]]
    BY <1>14
  <2>3. QED
    BY <2>1, <2>2
<1> DEFINE then == CHOOSE g : g = F(g)
<1>17. then = F(then)
  BY <1>16
<1>18. SettledCounts = then[L]
  BY DEF SettledCounts, L, D
<1> HIDE DEF then
<1>19. then[0] = RepliedCounts /\ \A n \in 1..L : then[n] = Settled(then[n - 1], D[n - 1], tasks[n])
  <2>1. \A n \in 0..L :
            F(then)[n] = IF n = 0 THEN RepliedCounts
                         ELSE Settled(then[n - 1], D[n - 1], tasks[n])
    OBVIOUS
  <2> HIDE DEF F
  <2>2. QED
    BY <1>1, <1>17, <2>1
<1>20. slack \in Int
  <2>1. CountOf(C(0), a) \in Int
    BY <1>1, <1>10, CountFinite
  <2>2. QED
    BY <1>6, <1>10, <2>1
<1> HIDE DEF slack, F
<1> DEFINE S == {n \in Nat : n <= L =>
                    /\ then[n] \in X
                    /\ then[n][a] - CountOf(C(n), a) >= slack
                    /\ Served => then[n][a] - CountOf(C(n), a) = slack}
<1>21. \A n \in Nat : n \in S
  <2>1. 0 \in S
    <3>1. then[0][a] - CountOf(C(0), a) = slack
      BY <1>10, <1>19 DEF slack
    <3>2. QED
      BY <1>6, <1>19, <1>20, <3>1
  <2>2. ASSUME NEW n \in Nat, n \in S PROVE n + 1 \in S
    <3>1. SUFFICES ASSUME n + 1 <= L
                   PROVE  /\ then[n + 1] \in X
                          /\ then[n + 1][a] - CountOf(C(n + 1), a) >= slack
                          /\ Served => then[n + 1][a] - CountOf(C(n + 1), a) = slack
      OBVIOUS
    <3>2. /\ n + 1 \in 1..L /\ (n + 1) - 1 = n /\ n \in 0..L /\ n + 1 \in 0..L
          /\ then[n] \in X /\ then[n][a] - CountOf(C(n), a) >= slack
          /\ Served => then[n][a] - CountOf(C(n), a) = slack
      BY <1>1, <2>2, <3>1
    <3>3. PICK lost \in SUBSET Ids :
              /\ \A y \in X : /\ Settled(y, D[n], tasks[n + 1]) \in X
                             /\ Settled(y, D[n], tasks[n + 1])[a] = y[a] - CountOf(lost, a)
              /\ CountOf(C(n + 1), a) + CountOf(lost, a) <= CountOf(C(n), a)
              /\ Served => CountOf(C(n + 1), a) + CountOf(lost, a) = CountOf(C(n), a)
      BY <1>12, <3>1
    <3>4. then[n + 1] = Settled(then[n], D[n], tasks[n + 1])
      BY <1>19, <3>2
    <3>5. then[n + 1] \in X /\ then[n + 1][a] = then[n][a] - CountOf(lost, a)
      BY <3>2, <3>3, <3>4
    <3>6. then[n][a] \in Int /\ CountOf(lost, a) \in Int /\ CountOf(C(n), a) \in Int
          /\ CountOf(C(n + 1), a) \in Int
      BY <1>10, <3>2, CountFinite
    <3>7. QED
      BY SMTT(30), <1>20, <3>2, <3>3, <3>5, <3>6
  <2> HIDE DEF S
  <2>3. QED
    BY <2>1, <2>2, Induct
<1>22. /\ then[L] \in X /\ then[L][a] - CountOf(C(L), a) >= slack
       /\ Served => then[L][a] - CountOf(C(L), a) = slack
  <2>1. L \in S
    <3> HIDE DEF S
    <3>1. QED
      BY <1>1, <1>21
  <2>2. L <= L
    BY <1>1
  <2>3. QED
    BY <2>1, <2>2
<1>23. C(L) = D[L].ids /\ CountOf(C(L), a) \in Int
  BY <1>1, <1>10, CountFinite
<1>24. SettledCounts[a] \in Int /\ Stored(a) \in Int
  BY <1>7, <1>18, <1>22, <1>23
<1>25. /\ SettledCounts[a] - Stored(a) >= slack
       /\ Served => SettledCounts[a] - Stored(a) = slack
  BY <1>7, <1>18, <1>22, <1>23
<1> HIDE DEF X
<1>26. QED
  BY <1>20, <1>24, <1>25 DEF slack, Served


\* While the store is loaded, the continuations posted so far keep the distance
\* between the counts and what is charged.
LEMMA RepliedSlack ==
    ASSUME Typed, Counted, status = "loaded"
    PROVE  /\ RepliedCounts \in [Apps -> Int]
           /\ \A a \in Apps : RepliedCounts[a] - CountOf(Coming(disk.ids, tasks), a)
                                  = counts[a] - CountOf(Charged, a)
           /\ \A a \in Apps : counts[a] \in Int /\ CountOf(Charged, a) \in Int
<1>1. counts \in [Apps -> Int] /\ replies \in Seq(Replies) /\ disk \in Disks /\ tasks \in Seq(Tasks)
  BY DEF Typed
<1>2. \A i \in 1..Len(replies) : replies[i].epoch = epoch /\ replies[i].op # "load"
  BY DEF Counted, Quiet
<1>3. /\ \A i, j \in 1..Len(replies) : i # j => replies[i].ids \cap replies[j].ids = {}
      /\ Coming(disk.ids, tasks) \cap Answered(replies) = {}
  BY DEF Counted, Covered
<1>4. /\ RepliedCounts \in [Apps -> Int]
      /\ \A a \in Apps : RepliedCounts[a] = counts[a] - CountOf(Answered(replies), a)
  BY <1>1, <1>2, <1>3, RepliedLemma
<1>5. Answered(replies) \in SUBSET Ids /\ Coming(disk.ids, tasks) \in SUBSET Ids
  BY <1>1, AnsweredType, AddsType DEF Coming, Disks
<1>6. ASSUME NEW a \in Apps
      PROVE  /\ RepliedCounts[a] - CountOf(Coming(disk.ids, tasks), a)
                    = counts[a] - CountOf(Charged, a)
             /\ counts[a] \in Int /\ CountOf(Charged, a) \in Int
  <2> DEFINE x == CountOf(Coming(disk.ids, tasks), a)
             y == CountOf(Answered(replies), a)
  <2>1. x \in Int /\ y \in Int /\ counts[a] \in Int
    BY <1>1, <1>5, CountFinite
  <2>2. CountOf(Charged, a) = x + y
    BY <1>3, <1>5, CountDisjoint DEF Charged
  <2>3. RepliedCounts[a] = counts[a] - y
    BY <1>4
  <2> HIDE DEF x, y
  <2>4. (counts[a] - y) - x = counts[a] - (x + y)
    BY <2>1
  <2>5. QED
    BY <2>1, <2>2, <2>3, <2>4 DEF x
<1>7. QED
  BY <1>4, <1>6

LEMMA LoadedTasks ==
    ASSUME Counted, status = "loaded"
    PROVE  \A i \in 1..Len(tasks) : tasks[i].epoch = epoch /\ tasks[i].op # "load"
BY DEF Counted, Quiet

\* A message that fails to be removed stays counted: whatever has failed, the counts
\* do not come out below what the database will hold, unless an overwrite revived a
\* message or one on its way will.
THEOREM StoreStaysCovered == Spec => []CountsCoverStore
<1>1. IInv => CountsCoverStore
  <2>1. SUFFICES ASSUME IInv, status = "loaded", ~ Revives, NEW a \in Apps
                 PROVE  SettledCounts[a] >= Stored(a)
    BY DEF CountsCoverStore
  <2>2. Typed /\ Counted
    BY <2>1 DEF IInv, Revives
  <2>3. \A n \in 1..Len(tasks) :
            tasks[n].op = "overwrite" => SettledDisk[n].ids = SettledDisk[n - 1].ids
    BY <2>1 DEF Revives
  <2>4. /\ RepliedCounts \in [Apps -> Int]
        /\ RepliedCounts[a] - CountOf(Coming(disk.ids, tasks), a) = counts[a] - CountOf(Charged, a)
        /\ counts[a] \in Int /\ CountOf(Charged, a) \in Int
    BY <2>1, <2>2, RepliedSlack
  <2>5. disk \in Disks /\ tasks \in Seq(Tasks) /\ AddsDistinct(disk.ids, tasks)
        /\ CountOf(Charged, a) <= counts[a]
    BY <2>1, <2>2 DEF Typed, Counted, Covered
  <2> DEFINE slack == RepliedCounts[a] - CountOf(Coming(disk.ids, tasks), a)
  <2>6. /\ slack \in Int /\ Stored(a) \in Int /\ SettledCounts[a] \in Int
        /\ SettledCounts[a] - Stored(a) >= slack
    BY <2>1, <2>2, <2>3, <2>4, <2>5, LoadedTasks, SettledLemma
  <2>7. slack >= 0
    BY <2>4, <2>5
  <2> HIDE DEF slack
  <2>8. QED
    BY <2>6, <2>7
<1>2. QED
  BY <1>1, Invariance, PTL


-----------------------------------------------------------------------------
(***************************************************************************)
(* Without failures                                                        *)
(*                                                                         *)
(* As long as LevelDB has not failed, the databases to come are known: the *)
(* user believes the last of them, everything that will be overwritten or  *)
(* removed will be there when it is, and the counts are exactly what is    *)
(* charged.                                                                *)
(***************************************************************************)

\* The tasks ts of MCSClient meet the messages they are for, unless the database is
\* closed.
Served(f, ts) ==
    \A n \in 1..Len(ts) : ts[n].op \in {"overwrite", "remove"} =>
        Len(ts[n].ids) <= 2 /\ (f[n - 1].open => Elements(ts[n].ids) \subseteq f[n - 1].ids)

\* What the user knows of the store fits the databases to come.
Ready(f) ==
    LET last == f[Len(tasks)]
    IN  /\ status # "failed"
        /\ status # "loaded" => ~ used.destroyed
        /\ status = "closed" => ~ last.open
        /\ status = "loading" =>
               /\ last.open
               /\ IF tasks = << >> THEN replies[Len(replies)].ok ELSE ~ f[Len(tasks) - 1].open
        /\ status = "loaded" /\ used.destroyed => ~ last.open
        /\ status = "loaded" /\ ~ used.destroyed =>
               (\A n \in 0..Len(tasks) : f[n].open) /\ held = last.ids

Exact == status = "loaded" /\ ~ used.destroyed => \A a \in Apps : counts[a] = CountOf(Charged, a)

Foreseen == \E f : Runs(f, disk, tasks) /\ Served(f, tasks) /\ Ready(f)

Lined == used.failures = 0 => ~ used.revived /\ Exact /\ Foreseen

\* A task is posted.
LEMMA ServedPosted ==
    ASSUME NEW d \in Disks, NEW ts \in Seq(Tasks), NEW t \in Tasks, NEW f, NEW g,
           Runs(f, d, ts), Served(f, ts), \A n \in 0..Len(ts) : g[n] = f[n],
           t.op \in {"overwrite", "remove"} =>
               Len(t.ids) <= 2 /\ (f[Len(ts)].open => Elements(t.ids) \subseteq f[Len(ts)].ids)
    PROVE  Served(g, Append(ts, t))
<1> DEFINE us == Append(ts, t)
           L == Len(ts)
<1>1. /\ us \in Seq(Tasks) /\ Len(us) = L + 1 /\ us[L + 1] = t /\ L \in Nat
      /\ \A i \in 1..L : us[i] = ts[i]
  OBVIOUS
<1> HIDE DEF us
<1>2. /\ \A n \in 1..(L + 1) : n = L + 1 \/ (n \in 1..L /\ n - 1 \in 0..L)
      /\ (L + 1) - 1 = L /\ L \in 0..L
  BY <1>1
<1>3. ASSUME NEW n \in 1..Len(us), us[n].op \in {"overwrite", "remove"}
      PROVE  /\ Len(us[n].ids) <= 2
             /\ g[n - 1].open => Elements(us[n].ids) \subseteq g[n - 1].ids
  <2>1. CASE n = L + 1
    <3>1. us[n] = t /\ g[n - 1] = f[L]
      BY <1>1, <1>2, <2>1
    <3>2. QED
      BY <1>3, <3>1
  <2>2. CASE n \in 1..L
    <3>1. us[n] = ts[n] /\ g[n - 1] = f[n - 1]
      BY <1>1, <1>2, <2>2
    <3>2. QED
      BY <1>3, <2>2, <3>1 DEF Served
  <2>3. QED
    BY <1>1, <1>2, <2>1, <2>2
<1>4. QED
  BY <1>3 DEF Served, us

\* The oldest is executed.
LEMMA ServedTaken ==
    ASSUME NEW ts \in Seq(Tasks), ts # << >>, NEW f, NEW g, Served(f, ts),
           \A n \in 0..Len(Tail(ts)) : g[n] = f[n + 1]
    PROVE  Served(g, Tail(ts))
<1> DEFINE us == Tail(ts)
           M == Len(us)
<1>1. /\ us \in Seq(Tasks) /\ M = Len(ts) - 1 /\ M \in Nat /\ Len(ts) \in Nat
      /\ \A i \in 1..M : us[i] = ts[i + 1]
  BY TakenTask
<1> HIDE DEF us, M
<1>2. ASSUME NEW n \in 1..M
      PROVE  n + 1 \in 1..Len(ts) /\ (n + 1) - 1 = n /\ n - 1 \in 0..M /\ (n - 1) + 1 = n
  BY <1>1
<1>3. ASSUME NEW n \in 1..M, us[n].op \in {"overwrite", "remove"}
      PROVE  /\ Len(us[n].ids) <= 2
             /\ g[n - 1].open => Elements(us[n].ids) \subseteq g[n - 1].ids
  <2>1. us[n] = ts[n + 1] /\ g[n - 1] = f[(n + 1) - 1] /\ n + 1 \in 1..Len(ts)
    BY <1>1, <1>2 DEF us, M
  <2>2. QED
    BY <1>3, <2>1 DEF Served
<1>4. QED
  BY <1>3 DEF Served, us, M


\* A task of the foreground sequence is posted.
LEMMA ForeseenPosted ==
    ASSUME Typed, NEW op \in TaskOps, NEW ids \in Seq(Ids), Post(op, ids), disk' = disk,
           NEW f, Runs(f, disk, tasks), Served(f, tasks),
           op \in {"overwrite", "remove"} =>
               /\ Len(ids) <= 2
               /\ f[Len(tasks)].open => Elements(ids) \subseteq f[Len(tasks)].ids
    PROVE  LET t == [op |-> op, ids |-> ids, epoch |-> epoch]
           IN  \E g : /\ Runs(g, disk', tasks') /\ Served(g, tasks')
                      /\ \A n \in 0..Len(tasks) : g[n] = f[n]
                      /\ Len(tasks') = Len(tasks) + 1 /\ tasks' # << >> /\ Len(tasks) \in Nat
                      /\ t \in Tasks /\ f[Len(tasks)] \in Disks
                      /\ g[Len(tasks')] = Executed(f[Len(tasks)], t, 2)
<1> DEFINE t == [op |-> op, ids |-> ids, epoch |-> epoch]
<1>1. tasks \in Seq(Tasks) /\ disk \in Disks /\ epoch \in Nat
  BY DEF Typed
<1>2. t \in Tasks /\ t.op = op /\ t.ids = ids
  BY <1>1 DEF Tasks
<1>3. tasks' = Append(tasks, t)
  BY DEF Post
<1> HIDE DEF t
<1>4. Len(Append(tasks, t)) = Len(tasks) + 1 /\ Append(tasks, t) # << >> /\ Len(tasks) \in Nat
  BY SMTT(30), <1>1, <1>2
<1>5. PICK g : /\ Runs(g, disk, Append(tasks, t))
               /\ \A n \in 0..Len(tasks) : g[n] = f[n]
               /\ g[Len(tasks) + 1] = Executed(f[Len(tasks)], t, 2)
  BY <1>1, <1>2, RunPosted
<1>6. Served(g, Append(tasks, t))
  BY <1>1, <1>2, <1>5, ServedPosted
<1>7. f[Len(tasks)] \in Disks
  <2>1. Len(tasks) \in 0..Len(tasks)
    BY <1>4
  <2>2. QED
    BY <2>1 DEF Runs
<1>8. QED
  BY <1>2, <1>3, <1>4, <1>5, <1>6, <1>7 DEF t

LEMMA LoadLined ==
    ASSUME IInv, Lined, Load
    PROVE  Lined'
<1>1. /\ status = "closed" /\ status' = "loading" /\ Post("load", << >>)
      /\ UNCHANGED <<counts, disk, replies, epoch, held, fresh, checks, used>>
  BY DEF Load
<1>2. SUFFICES ASSUME used.failures = 0 PROVE ~ used'.revived /\ Exact' /\ Foreseen'
  BY <1>1 DEF Lined
<1>3. ~ used.revived /\ Foreseen /\ Typed
  BY <1>2 DEF Lined, IInv
<1>4. PICK f : Runs(f, disk, tasks) /\ Served(f, tasks) /\ Ready(f)
  BY <1>3 DEF Foreseen
<1> DEFINE t == [op |-> "load", ids |-> << >>, epoch |-> epoch]
<1>5. PICK g : /\ Runs(g, disk', tasks') /\ Served(g, tasks')
               /\ \A n \in 0..Len(tasks) : g[n] = f[n]
               /\ Len(tasks') = Len(tasks) + 1 /\ tasks' # << >> /\ Len(tasks) \in Nat
               /\ t \in Tasks /\ f[Len(tasks)] \in Disks
               /\ g[Len(tasks')] = Executed(f[Len(tasks)], t, 2)
  <2>1. "load" \in TaskOps /\ << >> \in Seq(Ids) /\ "load" \notin {"overwrite", "remove"}
    BY DEF TaskOps
  <2>2. QED
    BY <1>1, <1>3, <1>4, <2>1, ForeseenPosted
<1>6. g[Len(tasks')].open
  <2>1. t.op = "load" => Executed(f[Len(tasks)], t, 2).open
    BY <1>5, SuccessLemma, SMTT(30)
  <2>2. QED
    BY <1>5, <2>1
<1>7. ~ g[Len(tasks') - 1].open
  <2>1. Len(tasks') - 1 = Len(tasks) /\ Len(tasks) \in 0..Len(tasks)
    BY <1>5
  <2>2. ~ f[Len(tasks)].open
    BY <1>1, <1>4 DEF Ready
  <2>3. QED
    BY <1>5, <2>1, <2>2
<1>8. ~ used.destroyed
  BY <1>1, <1>4 DEF Ready
<1>9. Ready(g)'
  BY <1>1, <1>5, <1>6, <1>7, <1>8 DEF Ready
<1>10. Exact'
  BY <1>1 DEF Exact
<1>11. QED
  BY <1>1, <1>3, <1>5, <1>9, <1>10 DEF Foreseen

LEMMA CloseLined ==
    ASSUME IInv, Lined, Close
    PROVE  Lined'
<1>1. /\ status' = "closed" /\ Post("close", << >>) /\ disk' = disk
      /\ used' = [used EXCEPT !.closes = @ + 1, !.destroyed = FALSE]
  BY DEF Close
<1>2. used \in Uses
  BY DEF IInv, Typed
<1>3. used'.failures = used.failures /\ used'.revived = used.revived /\ ~ used'.destroyed
  BY <1>1, <1>2 DEF Uses
<1>4. SUFFICES ASSUME used.failures = 0 PROVE ~ used'.revived /\ Exact' /\ Foreseen'
  BY <1>3 DEF Lined
<1>5. ~ used.revived /\ Foreseen /\ Typed
  BY <1>4 DEF Lined, IInv
<1>6. PICK f : Runs(f, disk, tasks) /\ Served(f, tasks)
  BY <1>5 DEF Foreseen
<1> DEFINE t == [op |-> "close", ids |-> << >>, epoch |-> epoch]
<1>7. PICK g : /\ Runs(g, disk', tasks') /\ Served(g, tasks')
               /\ \A n \in 0..Len(tasks) : g[n] = f[n]
               /\ Len(tasks') = Len(tasks) + 1 /\ tasks' # << >> /\ Len(tasks) \in Nat
               /\ t \in Tasks /\ f[Len(tasks)] \in Disks
               /\ g[Len(tasks')] = Executed(f[Len(tasks)], t, 2)
  <2>1. "close" \in TaskOps /\ << >> \in Seq(Ids) /\ "close" \notin {"overwrite", "remove"}
    BY DEF TaskOps
  <2>2. QED
    BY <1>1, <1>5, <1>6, <2>1, ForeseenPosted
<1>8. ~ g[Len(tasks')].open
  <2>1. t.op \in {"close", "destroy"} => ~ Executed(f[Len(tasks)], t, 2).open
    BY <1>7, SuccessLemma, SMTT(30)
  <2>2. QED
    BY <1>7, <2>1
<1>9. Ready(g)'
  BY <1>1, <1>3, <1>8 DEF Ready
<1>10. Exact'
  BY <1>1 DEF Exact
<1>11. QED
  BY <1>3, <1>5, <1>7, <1>9, <1>10 DEF Foreseen

LEMMA DestroyLined ==
    ASSUME IInv, Lined, Destroy
    PROVE  Lined'
<1>1. /\ status = "loaded" /\ status' = "loaded" /\ Post("destroy", << >>) /\ disk' = disk
      /\ used' = [used EXCEPT !.closes = @ + 1, !.destroyed = TRUE]
  BY DEF Destroy
<1>2. used \in Uses
  BY DEF IInv, Typed
<1>3. used'.failures = used.failures /\ used'.revived = used.revived /\ used'.destroyed
  BY <1>1, <1>2 DEF Uses
<1>4. SUFFICES ASSUME used.failures = 0 PROVE ~ used'.revived /\ Exact' /\ Foreseen'
  BY <1>3 DEF Lined
<1>5. ~ used.revived /\ Foreseen /\ Typed
  BY <1>4 DEF Lined, IInv
<1>6. PICK f : Runs(f, disk, tasks) /\ Served(f, tasks)
  BY <1>5 DEF Foreseen
<1> DEFINE t == [op |-> "destroy", ids |-> << >>, epoch |-> epoch]
<1>7. PICK g : /\ Runs(g, disk', tasks') /\ Served(g, tasks')
               /\ \A n \in 0..Len(tasks) : g[n] = f[n]
               /\ Len(tasks') = Len(tasks) + 1 /\ tasks' # << >> /\ Len(tasks) \in Nat
               /\ t \in Tasks /\ f[Len(tasks)] \in Disks
               /\ g[Len(tasks')] = Executed(f[Len(tasks)], t, 2)
  <2>1. "destroy" \in TaskOps /\ << >> \in Seq(Ids) /\ "destroy" \notin {"overwrite", "remove"}
    BY DEF TaskOps
  <2>2. QED
    BY <1>1, <1>5, <1>6, <2>1, ForeseenPosted
<1>8. ~ g[Len(tasks')].open
  <2>1. t.op \in {"close", "destroy"} => ~ Executed(f[Len(tasks)], t, 2).open
    BY <1>7, SuccessLemma, SMTT(30)
  <2>2. QED
    BY <1>7, <2>1
<1>9. Ready(g)'
  BY <1>1, <1>3, <1>8 DEF Ready
<1>10. Exact'
  BY <1>3 DEF Exact
<1>11. QED
  BY <1>3, <1>5, <1>7, <1>9, <1>10 DEF Foreseen


\* MCSClient adds, overwrites or removes messages of the loaded store.
LEMMA ForeseenLoaded ==
    ASSUME Typed, Foreseen, status = "loaded", status' = status, disk' = disk,
           used'.destroyed = used.destroyed,
           NEW op \in {"add", "overwrite", "remove"}, NEW ids \in Seq(Ids), Len(ids) <= 2,
           Post(op, ids), op # "add" => Elements(ids) \subseteq held,
           held' = IF op = "remove" THEN held \ Elements(ids) ELSE held \cup Elements(ids)
    PROVE  Foreseen'
<1>1. PICK f : Runs(f, disk, tasks) /\ Served(f, tasks) /\ Ready(f)
  BY DEF Foreseen
<1> DEFINE t == [op |-> op, ids |-> ids, epoch |-> epoch]
           last == f[Len(tasks)]
           e == Executed(last, t, 2)
<1>2. IF used.destroyed THEN ~ last.open
      ELSE (\A n \in 0..Len(tasks) : f[n].open) /\ held = last.ids
  BY <1>1 DEF Ready
<1>3. last.open => ~ used.destroyed /\ held = last.ids
  BY <1>2
<1>4. PICK g : /\ Runs(g, disk', tasks') /\ Served(g, tasks')
               /\ \A n \in 0..Len(tasks) : g[n] = f[n]
               /\ Len(tasks') = Len(tasks) + 1 /\ tasks' # << >> /\ Len(tasks) \in Nat
               /\ t \in Tasks /\ f[Len(tasks)] \in Disks
               /\ g[Len(tasks')] = Executed(f[Len(tasks)], t, 2)
  <2>1. op \in TaskOps
    BY DEF TaskOps
  <2>2. op \in {"overwrite", "remove"} =>
            Len(ids) <= 2 /\ (f[Len(tasks)].open => Elements(ids) \subseteq f[Len(tasks)].ids)
    BY <1>3
  <2>3. QED
    BY <1>1, <2>1, <2>2, ForeseenPosted
<1>5. t.op = op /\ t.ids = ids
  OBVIOUS
<1> HIDE DEF t, last
<1>6. last \in Disks /\ t \in Tasks
  BY <1>4 DEF last
<1>7. e.open = last.open
  <2>1. t.op \notin {"load", "close", "destroy"} => e.open = last.open
    BY <1>6, SuccessLemma, SMTT(30)
  <2>2. QED
    BY <1>5, <2>1
<1>8. ASSUME last.open PROVE e.ids = held'
  <2>1. last.ids = held
    BY <1>3, <1>8
  <2>2. CASE op = "remove"
    <3>1. Elements(t.ids) \subseteq last.ids /\ Len(t.ids) <= 2 /\ t.op = "remove"
      BY <1>5, <2>1, <2>2
    <3>2. last.open /\ t.op = "remove" /\ Len(t.ids) <= 2 /\ Elements(t.ids) \subseteq last.ids
              => e.ids = last.ids \ Elements(t.ids)
      BY <1>6, SuccessLemma, SMTT(30)
    <3> HIDE DEF e
    <3>3. QED
      BY <1>5, <1>8, <2>1, <2>2, <3>1, <3>2
  <2>3. CASE op # "remove"
    <3>1. t.op \in {"add", "overwrite"}
      BY <1>5, <2>3
    <3>2. last.open /\ t.op \in {"add", "overwrite"} => e.ids = last.ids \cup Elements(t.ids)
      BY <1>6, SuccessLemma, SMTT(30)
    <3> HIDE DEF e
    <3>3. QED
      BY <1>5, <1>8, <2>1, <2>3, <3>1, <3>2
  <2>4. QED
    BY <2>2, <2>3
<1>9. g[Len(tasks')] = e
  BY <1>4 DEF last
<1> HIDE DEF e
<1>10. ~ used.destroyed => \A n \in 0..Len(tasks') : g[n].open
  <2>1. \A n \in 0..Len(tasks') : n = Len(tasks') \/ n \in 0..Len(tasks)
    BY <1>4
  <2>2. Len(tasks) \in 0..Len(tasks)
    BY <1>4
  <2>3. QED
    BY <1>2, <1>4, <1>7, <1>9, <2>1, <2>2 DEF last
<1>11. ~ used.destroyed => held' = g[Len(tasks')].ids
  <2>1. ~ used.destroyed => last.open
    <3>1. Len(tasks) \in 0..Len(tasks)
      BY <1>4
    <3>2. QED
      BY <1>2, <3>1 DEF last
  <2>2. QED
    BY <1>8, <1>9, <2>1
<1>12. used.destroyed => ~ g[Len(tasks')].open
  BY <1>2, <1>7, <1>9
<1>13. Ready(g)'
  BY <1>10, <1>11, <1>12 DEF Ready
<1>14. QED
  BY <1>4, <1>13 DEF Foreseen

LEMMA OverwriteLined ==
    ASSUME IInv, Lined, OverwriteOutgoingMessage
    PROVE  Lined'
<1>1. PICK id \in held : Post("overwrite", <<id>>)
  BY DEF OverwriteOutgoingMessage
<1>2. /\ status = "loaded" /\ used' = [used EXCEPT !.overwrites = @ + 1]
      /\ UNCHANGED <<counts, disk, replies, epoch, status, held, fresh, checks>>
  BY DEF OverwriteOutgoingMessage
<1>3. Typed /\ used \in Uses /\ held \subseteq Ids \ fresh
  BY DEF IInv, Typed
<1>4. /\ used'.failures = used.failures /\ used'.revived = used.revived
      /\ used'.destroyed = used.destroyed
  BY <1>2, <1>3 DEF Uses
<1>5. SUFFICES ASSUME used.failures = 0 PROVE ~ used'.revived /\ Exact' /\ Foreseen'
  BY <1>4 DEF Lined
<1>6. ~ used.revived /\ Exact /\ Foreseen
  BY <1>5 DEF Lined
<1>7. /\ <<id>> \in Seq(Ids) /\ Len(<<id>>) <= 2 /\ Elements(<<id>>) = {id}
      /\ Elements(<<id>>) \cap fresh = {}
  BY <1>1, <1>3 DEF Elements
<1>8. Foreseen'
  <2>1. Elements(<<id>>) \subseteq held /\ held' = held \cup Elements(<<id>>)
    BY <1>1, <1>2, <1>7
  <2>2. QED
    BY <1>1, <1>2, <1>3, <1>4, <1>6, <1>7, <2>1, ForeseenLoaded
<1>9. Charged' = Charged
  <2>1. AddsOf(tasks') = AddsOf(tasks)
    <3>1. "overwrite" \in TaskOps \ {"add"}
      BY DEF TaskOps
    <3>2. QED
      BY <1>1, <1>3, <1>7, <3>1, PostLemma
  <2>2. QED
    BY <1>2, <2>1 DEF Charged, Coming
<1>10. Exact'
  BY <1>2, <1>4, <1>6, <1>9 DEF Exact
<1>11. QED
  BY <1>4, <1>6, <1>8, <1>10

LEMMA RemoveLined ==
    ASSUME IInv, Lined, RemoveOutgoingMessages
    PROVE  Lined'
<1>1. PICK i, j \in held : /\ held' = held \ {i, j}
                           /\ Post("remove", IF i = j THEN <<i>> ELSE <<i, j>>)
  BY DEF RemoveOutgoingMessages
<1>2. /\ status = "loaded"
      /\ UNCHANGED <<counts, disk, replies, epoch, status, fresh, checks, used>>
  BY DEF RemoveOutgoingMessages
<1>3. Typed /\ held \subseteq Ids \ fresh
  BY DEF IInv, Typed
<1>4. SUFFICES ASSUME used.failures = 0 PROVE ~ used'.revived /\ Exact' /\ Foreseen'
  BY <1>2 DEF Lined
<1>5. ~ used.revived /\ Exact /\ Foreseen
  BY <1>4 DEF Lined
<1> DEFINE ids == IF i = j THEN <<i>> ELSE <<i, j>>
<1>6. i \in Ids \ fresh /\ j \in Ids \ fresh
  BY <1>1, <1>3
<1>7. ids \in Seq(Ids) /\ Len(ids) <= 2 /\ Elements(ids) = {i, j} /\ Elements(ids) \cap fresh = {}
  <2>1. <<i>> \in Seq(Ids) /\ <<i, j>> \in Seq(Ids) /\ Len(<<i>>) <= 2 /\ Len(<<i, j>>) <= 2
    BY <1>6
  <2>2. Elements(<<i>>) = {i} /\ Elements(<<i, j>>) = {i, j}
    BY DEF Elements
  <2>3. QED
    BY <1>6, <2>1, <2>2
<1>8. Post("remove", ids)
  BY <1>1
<1> HIDE DEF ids
<1>9. Foreseen'
  <2>1. Elements(ids) \subseteq held /\ held' = held \ Elements(ids)
    BY <1>1, <1>7
  <2>2. QED
    BY <1>2, <1>3, <1>5, <1>7, <1>8, <2>1, ForeseenLoaded
<1>10. Charged' = Charged
  <2>1. AddsOf(tasks') = AddsOf(tasks)
    <3>1. "remove" \in TaskOps \ {"add"}
      BY DEF TaskOps
    <3>2. QED
      BY <1>3, <1>7, <1>8, <3>1, PostLemma
  <2>2. QED
    BY <1>2, <2>1 DEF Charged, Coming
<1>11. Exact'
  BY <1>2, <1>5, <1>10 DEF Exact
<1>12. QED
  BY <1>2, <1>5, <1>9, <1>11

LEMMA AddLined ==
    ASSUME IInv, Lined, AddOutgoingMessage
    PROVE  Lined'
<1>1. PICK id \in fresh : Add(id) /\ fresh' = fresh \ {id}
  BY DEF AddOutgoingMessage
<1>2. Typed /\ id \in Ids
  BY <1>1 DEF IInv, Typed
<1>3. status = "loaded" /\ UNCHANGED <<disk, replies, epoch, status, checks, used>>
  BY <1>1 DEF Add
<1>4. SUFFICES ASSUME used.failures = 0 PROVE ~ used'.revived /\ Exact' /\ Foreseen'
  BY <1>3 DEF Lined
<1>5. ~ used.revived /\ Exact /\ Foreseen
  BY <1>4 DEF Lined
<1>6. CASE UNCHANGED <<counts, held, tasks>>
  <2>1. Exact'
    BY <1>3, <1>5, <1>6 DEF Exact, Charged
  <2>2. Foreseen'
    BY <1>3, <1>5, <1>6 DEF Foreseen, Ready
  <2>3. QED
    BY <1>3, <1>5, <2>1, <2>2
<1>7. CASE /\ counts' = Plus(counts, {id}) /\ held' = held \cup {id} /\ Post("add", <<id>>)
  <2>1. <<id>> \in Seq(Ids) /\ Len(<<id>>) <= 2 /\ Elements(<<id>>) = {id}
    BY <1>2 DEF Elements
  <2>2. Foreseen'
    <3>1. held' = held \cup Elements(<<id>>)
      BY <1>7, <2>1
    <3>2. QED
      BY <1>2, <1>3, <1>5, <1>7, <2>1, <3>1, ForeseenLoaded
  <2> DEFINE t == [op |-> "add", ids |-> <<id>>, epoch |-> epoch]
  <2>3. tasks' = Append(tasks, t) /\ tasks \in Seq(Tasks)
    BY <1>2, <1>7 DEF Post, Typed
  <2>4. t \in Tasks /\ Adds(t) = {id}
    BY <1>2, <2>1 DEF Tasks, TaskOps, Typed, Adds
  <2> HIDE DEF t
  <2>5. AddsOf(tasks') = AddsOf(tasks) \cup {id}
    BY <2>3, <2>4, PostedTask
  <2>6. Charged' = Charged \cup {id}
    BY <1>3, <2>5 DEF Coming, Charged
  <2>7. Charged \in SUBSET Ids
    BY <1>2, AddsType, AnsweredType DEF Coming, Charged, Typed, Disks
  <2>8. id \notin Charged
    <3>1. id \notin disk.ids
      BY <1>1, <1>2 DEF Typed
    <3>2. \A i \in 1..Len(tasks) : id \notin Adds(tasks[i])
      BY <1>1, <1>2 DEF Typed, Adds
    <3>3. \A i \in 1..Len(replies) : id \notin replies[i].ids
      BY <1>1, <1>2 DEF Typed
    <3>4. QED
      BY <3>1, <3>2, <3>3 DEF Charged, Coming, AddsOf, Answered
  <2>9. counts' = [a \in Apps |-> counts[a] + CountOf({id}, a)]
    BY <1>7 DEF Plus, CountOf
  <2>10. ASSUME NEW a \in Apps, counts[a] = CountOf(Charged, a)
         PROVE  counts'[a] = CountOf(Charged', a)
    <3>1. {id} \in SUBSET Ids /\ Charged \cap {id} = {}
      BY <1>2, <2>8
    <3>2. CountOf(Charged \cup {id}, a) = CountOf(Charged, a) + CountOf({id}, a)
      BY <2>7, <3>1, CountDisjoint
    <3>3. QED
      BY <2>6, <2>9, <2>10, <3>2
  <2>11. Exact'
    BY <1>3, <1>5, <2>10 DEF Exact
  <2>12. QED
    BY <1>3, <1>5, <2>2, <2>11
<1>8. QED
  BY <1>1, <1>6, <1>7 DEF Add


\* The answer to a load that meets the closed database.
LEMMA LoadSucceeds ==
    ASSUME NEW d \in Disks, NEW t \in Tasks, t.op = "load", ~ d.open
    PROVE  \E r \in Replies : Answer(d, t, 2) = <<r>> /\ r.ok
<1> DEFINE ok == ~ d.open /\ 2 > 1
           r == [op |-> "load", ok |-> ok, ids |-> IF ok THEN d.ids ELSE {}, epoch |-> t.epoch]
<1>1. Answer(d, t, 2) = <<r>>
  BY DEF Answer
<1>2. ok /\ d.ids \in SUBSET Ids /\ t.epoch \in Nat
  BY DEF Disks, Tasks
<1> HIDE DEF ok
<1>3. r \in Replies /\ r.ok
  BY <1>2 DEF Replies
<1> HIDE DEF r
<1>4. QED
  BY <1>1, <1>3

\* The Backend executes a task without a failure.
LEMMA BackendLined ==
    ASSUME IInv, Lined, BackendStep
    PROVE  Lined'
<1> DEFINE t == Head(tasks)
<1>1. PICK good \in {0, 1, 2} :
          /\ disk' = Executed(disk, t, good)
          /\ used' = [used EXCEPT
                 !.failures = IF good < 2 THEN @ + 1 ELSE @,
                 !.revived = @ \/ (t.op = "overwrite" /\ disk'.ids # disk.ids)]
          /\ replies' = replies \o Answer(disk, t, good)
  BY DEF BackendStep
<1>2. /\ tasks # << >> /\ tasks' = Tail(tasks)
      /\ UNCHANGED <<counts, epoch, status, held, fresh, checks>>
  BY DEF BackendStep
<1>3. /\ Typed /\ disk \in Disks /\ tasks \in Seq(Tasks) /\ replies \in Seq(Replies)
  BY DEF IInv, Typed
<1>4. SUFFICES ASSUME used'.failures = 0 PROVE ~ used'.revived /\ Exact' /\ Foreseen'
  BY DEF Lined
<1>5. /\ used.failures = 0 /\ good = 2 /\ used'.destroyed = used.destroyed
      /\ used'.revived = (used.revived \/ (t.op = "overwrite" /\ disk'.ids # disk.ids))
  <2> DEFINE n == IF good < 2 THEN used.failures + 1 ELSE used.failures
             v == used.revived \/ (t.op = "overwrite" /\ disk'.ids # disk.ids)
  <2>1. used \in Uses /\ used.failures \in Nat
    BY <1>3 DEF Typed, Uses
  <2>2. used' = [used EXCEPT !.failures = n, !.revived = v]
    BY <1>1
  <2> HIDE DEF n, v
  <2>3. used'.failures = n /\ used'.destroyed = used.destroyed /\ used'.revived = v
    BY <2>1, <2>2 DEF Uses
  <2>4. n = 0
    BY <1>4, <2>3
  <2>5. used.failures = 0 /\ good = 2
    BY <2>1, <2>4 DEF n
  <2>6. QED
    BY <2>3, <2>5 DEF v
<1>6. ~ used.revived /\ Exact /\ Foreseen /\ Counted
  BY <1>5 DEF Lined, IInv
<1>7. PICK f : Runs(f, disk, tasks) /\ Served(f, tasks) /\ Ready(f)
  BY <1>6 DEF Foreseen
<1>8. /\ tasks' \in Seq(Tasks) /\ Len(tasks') = Len(tasks) - 1 /\ t \in Tasks /\ t = tasks[1]
      /\ Len(tasks) \in Nat /\ Len(tasks) > 0
      /\ \A i \in 1..Len(tasks') : tasks'[i] = tasks[i + 1]
      /\ AddsOf(tasks) = Adds(t) \cup AddsOf(tasks')
  BY <1>2, <1>3, TakenTask
<1>9. disk' = Executed(disk, t, 2) /\ replies' = replies \o Answer(disk, t, 2)
  BY <1>1, <1>5
<1>10. PICK g : Runs(g, disk', tasks') /\ \A n \in 0..Len(tasks') : g[n] = f[n + 1]
  BY <1>2, <1>3, <1>7, <1>9, RunTaken
<1>11. Served(g, tasks')
  BY <1>2, <1>3, <1>7, <1>10, ServedTaken
<1>12. /\ 1 \in 1..Len(tasks) /\ 1 - 1 = 0 /\ Len(tasks') \in 0..Len(tasks')
       /\ Len(tasks') + 1 = Len(tasks) /\ Len(tasks') \in Nat
       /\ \A n \in 0..Len(tasks') : n + 1 \in 0..Len(tasks)
       /\ \A i \in 1..Len(tasks') : i + 1 \in 1..Len(tasks) /\ i + 1 # 1
       /\ 0 \in 0..Len(tasks) /\ 1 \in 0..Len(tasks)
  BY <1>8
<1>13. f[0] = disk /\ f[1] = disk'
  BY <1>7, <1>8, <1>9, <1>12 DEF Runs
<1> HIDE DEF t
<1>14. t.op \in {"overwrite", "remove"} =>
           Len(t.ids) <= 2 /\ (disk.open => Elements(t.ids) \subseteq disk.ids)
  <2>1. tasks[1].op \in {"overwrite", "remove"} =>
            /\ Len(tasks[1].ids) <= 2
            /\ f[1 - 1].open => Elements(tasks[1].ids) \subseteq f[1 - 1].ids
    BY <1>7, <1>12 DEF Served
  <2>2. QED
    BY <1>8, <1>12, <1>13, <2>1
<1>15. t.op = "overwrite" => disk'.ids = disk.ids
  <2>1. SUFFICES ASSUME t.op = "overwrite" PROVE disk'.ids = disk.ids
    OBVIOUS
  <2> DEFINE e == Executed(disk, t, 2)
  <2>2. /\ ~ disk.open /\ t.op \notin {"load", "destroy"} => e.ids = disk.ids
        /\ disk.open /\ t.op \in {"add", "overwrite"} => e.ids = disk.ids \cup Elements(t.ids)
    BY <1>3, <1>8, SuccessLemma, SMTT(30)
  <2>3. disk' = e
    BY <1>9
  <2> HIDE DEF e
  <2>4. QED
    BY <1>14, <2>1, <2>2, <2>3
<1>16. ~ used'.revived
  BY <1>5, <1>6, <1>15
<1>17. g[Len(tasks')] = f[Len(tasks)]
  BY <1>10, <1>12
<1>18. Ready(g)'
  <2>1. status = "loading" =>
            IF tasks' = << >> THEN replies'[Len(replies')].ok ELSE ~ g[Len(tasks') - 1].open
    <3>1. SUFFICES ASSUME status = "loading"
                   PROVE  IF tasks' = << >> THEN replies'[Len(replies')].ok
                          ELSE ~ g[Len(tasks') - 1].open
      OBVIOUS
    <3>2. ~ f[Len(tasks) - 1].open /\ tasks[Len(tasks)].op = "load"
      BY <1>2, <1>6, <1>7, <3>1 DEF Ready, Counted, Quiet
    <3>3. CASE tasks' = << >>
      <4>1. Len(tasks) = 1 /\ Len(tasks) - 1 = 0
        BY <1>8, <3>3
      <4>2. ~ disk.open /\ t.op = "load"
        BY <1>8, <1>13, <3>2, <4>1
      <4>3. PICK r \in Replies : Answer(disk, t, 2) = <<r>> /\ r.ok
        BY <1>3, <1>8, <4>2, LoadSucceeds
      <4>4. replies'[Len(replies')] = r
        <5>1. replies' = replies \o <<r>>
          BY <1>9, <4>3
        <5>2. (replies \o <<r>>)[Len(replies \o <<r>>)] = r
          BY <1>3
        <5>3. QED
          BY <5>1, <5>2
      <4>5. QED
        BY <3>3, <4>3, <4>4
    <3>4. CASE tasks' # << >>
      <4>1. /\ Len(tasks') - 1 \in 0..Len(tasks') /\ (Len(tasks') - 1) + 1 = Len(tasks) - 1
        BY <1>8, <3>4
      <4>2. g[Len(tasks') - 1] = f[Len(tasks) - 1]
        BY <1>10, <4>1
      <4>3. QED
        BY <3>2, <3>4, <4>2
    <3>5. QED
      BY <3>3, <3>4
  <2>2. /\ status # "failed"
        /\ status # "loaded" => ~ used.destroyed
        /\ status = "closed" => ~ g[Len(tasks')].open
        /\ status = "loading" => g[Len(tasks')].open
        /\ status = "loaded" /\ used.destroyed => ~ g[Len(tasks')].open
        /\ status = "loaded" /\ ~ used.destroyed => held = g[Len(tasks')].ids
    BY <1>7, <1>17 DEF Ready
  <2>3. status = "loaded" /\ ~ used.destroyed => \A n \in 0..Len(tasks') : g[n].open
    BY <1>7, <1>10, <1>12 DEF Ready
  <2>4. QED
    BY <1>2, <1>5, <2>1, <2>2, <2>3 DEF Ready
<1>19. Exact'
  <2>1. SUFFICES ASSUME status = "loaded", ~ used.destroyed PROVE Charged' = Charged
    BY <1>2, <1>5, <1>6 DEF Exact
  <2> DEFINE rest == AddsOf(tasks')
  <2>2. t.op # "load"
    BY <1>6, <1>8, <1>12, <2>1 DEF Counted, Quiet
  <2>3. AddsDistinct(disk.ids, tasks)
    BY <1>6 DEF Counted
  <2>4. Adds(t) \cap rest = {} /\ rest \in SUBSET Ids
    <3>1. \A i \in 1..Len(tasks') : Adds(tasks[1]) \cap Adds(tasks'[i]) = {}
      BY <1>8, <1>12, <2>3 DEF AddsDistinct
    <3>2. QED
      BY <1>8, <3>1, AddsType DEF AddsOf
  <2>5. Regular(disk, t, rest)
    <3>1. disk.ids \cap (Adds(t) \cup rest) = {}
      BY <1>8, <2>3 DEF AddsDistinct
    <3>2. t.op = "overwrite" => Executed(disk, t, 2).ids = disk.ids
      BY <1>9, <1>15
    <3>3. QED
      BY <2>2, <2>4, <3>1, <3>2 DEF Regular
  <2>6. Serves(disk, t)
    <3>1. f[0].open /\ f[1].open
      BY <1>7, <1>12, <2>1 DEF Ready
    <3>2. disk.open /\ Executed(disk, t, 2).open
      BY <1>9, <1>13, <3>1
    <3>3. QED
      BY <1>14, <3>2 DEF Serves
  <2> HIDE DEF rest
  <2>7. PICK lost \in SUBSET Ids :
            Loses(disk, t, rest, lost) /\ (Serves(disk, t) => LosesAll(disk, t, rest, lost))
    BY <1>3, <1>8, <2>4, <2>5, StepLoses
  <2>8. (disk'.ids \cup rest) \cup lost = (disk.ids \cup Adds(t)) \cup rest
    BY <1>9, <2>6, <2>7 DEF LosesAll
  <2>9. Answered(replies') = Answered(replies) \cup lost
    <3>1. CASE Answer(disk, t, 2) = << >> /\ lost = {}
      <4>1. replies' = replies
        BY <1>3, <1>9, <3>1
      <4>2. QED
        BY <3>1, <4>1
    <3>2. ASSUME NEW r \in Replies, Answer(disk, t, 2) = <<r>>, r.ids = lost
          PROVE  Answered(replies') = Answered(replies) \cup lost
      BY <1>3, <1>9, <3>2, PostedReply
    <3>3. QED
      BY <2>7, <3>1, <3>2 DEF Loses
  <2>10. /\ Charged = ((disk.ids \cup Adds(t)) \cup rest) \cup Answered(replies)
         /\ Charged' = (disk'.ids \cup rest) \cup Answered(replies')
    BY <1>8 DEF Charged, Coming, rest
  <2>11. QED
    BY <2>8, <2>9, <2>10
<1>20. QED
  BY <1>10, <1>11, <1>16, <1>18, <1>19 DEF Foreseen


\* A continuation that is dropped leaves the last answer where it is.
LEMMA DeadReply ==
    ASSUME Typed, Quiet, replies # << >>, Head(replies).epoch # epoch
    PROVE  /\ status # "loaded"
           /\ status = "loading" /\ tasks = << >> =>
                  Tail(replies)[Len(Tail(replies))] = replies[Len(replies)]
<1> DEFINE us == Tail(replies)
<1>1. replies \in Seq(Replies)
  BY DEF Typed
<1>2. /\ Len(us) = Len(replies) - 1 /\ Head(replies) = replies[1]
      /\ Len(replies) \in Nat /\ Len(replies) > 0
      /\ \A i \in 1..Len(us) : us[i] = replies[i + 1]
  BY <1>1, TakenReply
<1> HIDE DEF us
<1>3. 1 \in 1..Len(replies)
  BY <1>2
<1>4. status # "loaded"
  BY <1>2, <1>3 DEF Quiet
<1>5. ASSUME status = "loading", tasks = << >> PROVE us[Len(us)] = replies[Len(replies)]
  <2>1. replies[Len(replies)].epoch = epoch
    BY <1>5 DEF Quiet, LoadAnswer
  <2>2. Len(replies) # 1
    BY <1>2, <2>1
  <2>3. Len(us) \in 1..Len(us) /\ Len(us) + 1 = Len(replies)
    BY <1>2, <2>2
  <2>4. QED
    BY <1>2, <2>3
<1>6. QED
  BY <1>4, <1>5 DEF us

\* What a continuation takes off the counts is no longer charged.
LEMMA ExactContinued ==
    ASSUME Typed, Counted, replies # << >>, status = "loaded",
           replies' = Tail(replies), counts' = Corrected(counts, Head(replies)),
           UNCHANGED <<disk, tasks>>, NEW a \in Apps, counts[a] = CountOf(Charged, a)
    PROVE  counts'[a] = CountOf(Charged', a)
<1> DEFINE r == Head(replies)
           rest == Coming(disk.ids, tasks) \cup Answered(replies')
<1>1. /\ replies \in Seq(Replies) /\ tasks \in Seq(Tasks) /\ disk.ids \subseteq Ids
      /\ counts \in [Apps -> Int]
  BY DEF Typed, Disks
<1>2. /\ Len(replies') = Len(replies) - 1 /\ r = replies[1] /\ r \in Replies
      /\ Len(replies) \in Nat /\ Len(replies) > 0 /\ replies' \in Seq(Replies)
      /\ \A i \in 1..Len(replies') : replies'[i] = replies[i + 1]
      /\ Answered(replies) = r.ids \cup Answered(replies')
  BY <1>1, TakenReply
<1>3. 1 \in 1..Len(replies) /\ \A i \in 1..Len(replies') : i + 1 \in 1..Len(replies) /\ i + 1 # 1
  BY <1>2
<1> HIDE DEF r
<1>4. r.ids \cap Answered(replies') = {}
  <2>1. \A i \in 1..Len(replies') : r.ids \cap replies'[i].ids = {}
    BY <1>2, <1>3 DEF Counted, Covered
  <2>2. QED
    BY <2>1 DEF Answered
<1>5. /\ Charged = rest \cup r.ids /\ rest \cap r.ids = {}
      /\ rest \in SUBSET Ids /\ r.ids \in SUBSET Ids /\ Charged' = rest
  <2>1. /\ AddsOf(tasks) \subseteq Ids /\ Answered(replies') \subseteq Ids /\ r.ids \subseteq Ids
    BY <1>1, <1>2, AddsType, AnsweredType DEF Replies
  <2>2. Coming(disk.ids, tasks) \cap Answered(replies) = {}
    BY DEF Counted, Covered
  <2>3. QED
    BY <1>1, <1>2, <1>4, <2>1, <2>2 DEF Charged, Coming
<1>6. r.op # "load"
  BY <1>2, <1>3 DEF Counted, Quiet
<1> HIDE DEF rest
<1>7. counts'[a] = counts[a] - CountOf(r.ids, a)
  BY <1>1, <1>2, <1>6, CorrectedLemma DEF r
<1>8. CountOf(Charged, a) = CountOf(rest, a) + CountOf(r.ids, a)
  BY <1>5, CountDisjoint
<1>9. CountOf(rest, a) \in Nat /\ CountOf(r.ids, a) \in Nat
  BY <1>5, CountFinite
<1>10. QED
  BY <1>5, <1>7, <1>8, <1>9

LEMMA ContinuationLined ==
    ASSUME IInv, Lined, Continuation
    PROVE  Lined'
<1> DEFINE r == Head(replies)
<1>1. /\ replies # << >> /\ replies' = Tail(replies)
      /\ counts' = IF r.epoch = epoch THEN Corrected(counts, r) ELSE counts
      /\ UNCHANGED <<disk, tasks, epoch, fresh, used>>
  BY DEF Continuation, Continue
<1>2. \/ /\ r.epoch = epoch /\ r.op = "load"
         /\ \/ r.ok /\ status' = "loaded" /\ held' = r.ids
            \/ ~ r.ok /\ status' = "failed" /\ held' = held
      \/ (r.epoch # epoch \/ r.op # "load") /\ UNCHANGED <<status, held>>
  BY DEF Continuation, Continue
<1>3. SUFFICES ASSUME used.failures = 0 PROVE ~ used'.revived /\ Exact' /\ Foreseen'
  BY <1>1 DEF Lined
<1>4. ~ used.revived /\ Exact /\ Foreseen /\ Typed /\ Counted /\ Quiet
  BY <1>3 DEF Lined, IInv, Counted
<1>5. PICK f : Runs(f, disk, tasks) /\ Served(f, tasks) /\ Ready(f)
  BY <1>4 DEF Foreseen
<1>6. SUFFICES Exact' /\ Ready(f)'
  BY <1>1, <1>4, <1>5 DEF Foreseen
<1>7. CASE r.epoch # epoch
  <2>1. UNCHANGED <<status, held, counts>>
    BY <1>1, <1>2, <1>7
  <2>2. /\ status # "loaded"
        /\ status = "loading" /\ tasks = << >> =>
               replies'[Len(replies')] = replies[Len(replies)]
    BY <1>1, <1>4, <1>7, DeadReply
  <2>3. Exact'
    BY <2>1, <2>2 DEF Exact
  <2>4. Ready(f)'
    BY <1>1, <1>5, <2>1, <2>2 DEF Ready
  <2>5. QED
    BY <2>3, <2>4
<1>8. CASE r.epoch = epoch /\ status = "loaded"
  <2>1. r.op # "load"
    <3>1. replies \in Seq(Replies)
      BY <1>4 DEF Typed
    <3>2. 1 \in 1..Len(replies) /\ r = replies[1]
      BY <1>1, <3>1
    <3>3. QED
      BY <1>4, <1>8, <3>2 DEF Quiet
  <2>2. UNCHANGED <<status, held>> /\ counts' = Corrected(counts, Head(replies))
    BY <1>1, <1>2, <1>8, <2>1
  <2>3. Exact'
    <3>1. SUFFICES ASSUME ~ used.destroyed, NEW a \in Apps PROVE counts'[a] = CountOf(Charged', a)
      BY <1>1 DEF Exact
    <3>2. counts[a] = CountOf(Charged, a)
      BY <1>4, <1>8, <3>1 DEF Exact
    <3>3. QED
      BY <1>1, <1>4, <1>8, <2>2, <3>2, ExactContinued
  <2>4. Ready(f)'
    BY <1>1, <1>5, <1>8, <2>2 DEF Ready
  <2>5. QED
    BY <2>3, <2>4
<1>9. CASE r.epoch = epoch /\ status # "loaded"
  <2>1. /\ status = "loading" /\ tasks = << >> /\ Len(replies) = 1 /\ replies' = << >>
        /\ LoadAnswer(r) /\ counts = NoCounts
    BY <1>1, <1>4, <1>9, LiveLoad
  <2>2. r = replies[1] /\ r \in Replies /\ disk.ids \in SUBSET Ids /\ counts \in [Apps -> Int]
    <3>1. replies \in Seq(Replies) /\ disk.ids \in SUBSET Ids /\ counts \in [Apps -> Int]
      BY <1>4 DEF Typed, Disks
    <3>2. QED
      BY <1>1, <3>1
  <2>3. r.ok /\ ~ used.destroyed /\ f[Len(tasks)].open
    BY <1>5, <2>1, <2>2 DEF Ready
  <2>4. r.op = "load" /\ r.ids = disk.ids
    BY <2>1, <2>3 DEF LoadAnswer
  <2>5. status' = "loaded" /\ held' = disk.ids /\ counts' = Corrected(counts, r)
    BY <1>1, <1>2, <1>9, <2>3, <2>4
  <2>6. Len(tasks) = 0 /\ f[0] = disk
    BY <1>5, <2>1 DEF Runs
  <2>7. Ready(f)'
    <3>1. \A n \in 0..0 : n = 0
      OBVIOUS
    <3>2. \A n \in 0..Len(tasks) : f[n].open
      BY <2>3, <2>6, <3>1
    <3>3. held' = f[Len(tasks)].ids
      BY <2>5, <2>6
    <3>4. QED
      BY <1>1, <2>3, <2>5, <3>2, <3>3 DEF Ready
  <2> HIDE DEF r
  <2>8. Charged' = disk.ids
    <3>1. AddsOf(<< >>) = {} /\ Answered(<< >>) = {}
      BY DEF AddsOf, Answered
    <3>2. QED
      BY <1>1, <2>1, <3>1 DEF Charged, Coming
  <2>9. ASSUME NEW a \in Apps PROVE counts'[a] = CountOf(Charged', a)
    <3>1. counts'[a] = counts[a] + CountOf(r.ids, a)
      BY <2>2, <2>4, <2>5, CorrectedLemma
    <3>2. counts[a] = 0 /\ CountOf(disk.ids, a) \in Nat
      BY <2>1, <2>2, CountFinite DEF NoCounts
    <3>3. QED
      BY <2>4, <2>8, <3>1, <3>2
  <2>10. Exact'
    BY <2>9 DEF Exact
  <2>11. QED
    BY <2>7, <2>10
<1>10. QED
  BY <1>7, <1>8, <1>9

\* An empty sequence of tasks leads nowhere.
LEMMA NoTasks ==
    ASSUME NEW d \in Disks
    PROVE  \E f : Runs(f, d, << >>) /\ Served(f, << >>) /\ f[0] = d
<1> DEFINE f == [n \in 0..0 |-> d]
<1>1. f \in [0..Len(<< >>) -> Disks] /\ f[0] = d /\ ~ \E n : n \in 1..Len(<< >>)
  OBVIOUS
<1> HIDE DEF f
<1>2. QED
  BY <1>1 DEF Runs, Served

LEMMA RestartLined ==
    ASSUME IInv, Lined, Restart
    PROVE  Lined'
<1>1. /\ used' = [used EXCEPT !.closes = @ + 1, !.destroyed = FALSE]
      /\ disk' = [disk EXCEPT !.open = FALSE] /\ tasks' = << >> /\ status' = "closed"
  BY DEF Restart
<1>2. disk \in Disks /\ used \in Uses
  BY DEF IInv, Typed
<1>3. used'.failures = used.failures /\ used'.revived = used.revived /\ ~ used'.destroyed
  BY <1>1, <1>2 DEF Uses
<1>4. disk' \in Disks /\ ~ disk'.open
  BY <1>1, <1>2 DEF Disks
<1>5. PICK f : Runs(f, disk', << >>) /\ Served(f, << >>) /\ f[0] = disk'
  BY <1>4, NoTasks
<1>6. Len(tasks') = 0
  BY <1>1
<1>7. Ready(f)'
  BY <1>1, <1>3, <1>4, <1>5, <1>6 DEF Ready
<1>8. Foreseen' /\ Exact'
  BY <1>1, <1>5, <1>7 DEF Foreseen, Exact
<1>9. QED
  BY <1>3, <1>8 DEF Lined

LEMMA InitLined ==
    ASSUME Init
    PROVE  Lined
<1>1. /\ disk = [open |-> FALSE, ids |-> {}] /\ tasks = << >> /\ status = "closed"
      /\ used = [closes |-> 0, failures |-> 0, overwrites |-> 0, destroyed |-> FALSE,
                 revived |-> FALSE]
  BY DEF Init
<1>2. disk \in Disks /\ ~ disk.open /\ ~ used.destroyed /\ ~ used.revived
  BY <1>1 DEF Disks
<1>3. PICK f : Runs(f, disk, << >>) /\ Served(f, << >>) /\ f[0] = disk
  BY <1>2, NoTasks
<1>4. Len(tasks) = 0
  BY <1>1
<1>5. Ready(f)
  BY <1>1, <1>2, <1>3, <1>4 DEF Ready
<1>6. QED
  BY <1>1, <1>2, <1>3, <1>5 DEF Lined, Foreseen, Exact

LEMMA StepLined ==
    ASSUME IInv, Lined, [Next]_vars
    PROVE  Lined'
<1>1. CASE Load
  BY <1>1, LoadLined
<1>2. CASE Close
  BY <1>2, CloseLined
<1>3. CASE Destroy
  BY <1>3, DestroyLined
<1>4. CASE AddOutgoingMessage
  BY <1>4, AddLined
<1>5. CASE OverwriteOutgoingMessage
  BY <1>5, OverwriteLined
<1>6. CASE RemoveOutgoingMessages
  BY <1>6, RemoveLined
<1>7. CASE BackendStep
  BY <1>7, BackendLined
<1>8. CASE Continuation
  BY <1>8, ContinuationLined
<1>9. CASE Restart
  BY <1>9, RestartLined
<1>10. CASE UNCHANGED vars
  BY <1>10 DEF vars, Lined, Exact, Charged, Foreseen, Ready
<1>11. QED
  BY <1>1, <1>2, <1>3, <1>4, <1>5, <1>6, <1>7, <1>8, <1>9, <1>10 DEF Next

\* However tasks and continuations interleave, and through closing, reloading and
\* restarting, app_message_counts_ comes to agree with the database, as long as no
\* operation of LevelDB fails and the database is not destroyed.
THEOREM CountsComeRight == Spec => []CountsSettle
<1>1. IInv /\ Lined => CountsSettle
  <2>1. SUFFICES ASSUME IInv, Lined, status = "loaded", used.failures = 0, ~ used.destroyed,
                        NEW a \in Apps
                 PROVE  SettledCounts[a] = Stored(a)
    BY DEF CountsSettle
  <2>2. Typed /\ Counted /\ Exact /\ Foreseen
    BY <2>1 DEF IInv, Lined
  <2>3. disk \in Disks /\ tasks \in Seq(Tasks) /\ AddsDistinct(disk.ids, tasks) /\ Len(tasks) \in Nat
    BY <2>2 DEF Typed, Counted
  <2>4. PICK f : Runs(f, disk, tasks) /\ Served(f, tasks) /\ Ready(f)
    BY <2>2 DEF Foreseen
  <2>5. \A n \in 0..Len(tasks) : f[n].open
    BY <2>1, <2>4 DEF Ready
  <2>6. /\ \A n \in 0..Len(tasks) : f[n] = SettledDisk[n]
        /\ Runs(SettledDisk, disk, tasks)
    BY <2>3, <2>4, SettledRuns, SameRun
  <2>7. ASSUME NEW n \in 1..Len(tasks)
        PROVE  /\ Serves(SettledDisk[n - 1], tasks[n])
               /\ tasks[n].op = "overwrite" => SettledDisk[n].ids = SettledDisk[n - 1].ids
    <3> DEFINE d == SettledDisk[n - 1]
               e == SettledDisk[n]
               t == tasks[n]
    <3>1. n \in 0..Len(tasks) /\ n - 1 \in 0..Len(tasks)
      BY <2>3
    <3>2. d = f[n - 1] /\ e = f[n] /\ e = Executed(d, t, 2) /\ d \in Disks /\ t \in Tasks
      BY <2>3, <2>6, <3>1 DEF Runs
    <3>3. t.op \in {"overwrite", "remove"} =>
              Len(t.ids) <= 2 /\ (f[n - 1].open => Elements(t.ids) \subseteq f[n - 1].ids)
      BY <2>4 DEF Served
    <3> HIDE DEF d, e, t
    <3>4. d.open /\ e.open
      BY <2>5, <3>1, <3>2
    <3>5. Serves(d, t)
      BY <3>2, <3>3, <3>4 DEF Serves
    <3>6. t.op = "overwrite" => e.ids = d.ids
      <4>1. d.open /\ t.op \in {"add", "overwrite"}
                => Executed(d, t, 2).ids = d.ids \cup Elements(t.ids)
        BY <3>2, SuccessLemma, SMTT(30)
      <4>2. t.op = "overwrite" => Elements(t.ids) \subseteq d.ids
        BY <3>2, <3>3, <3>4
      <4>3. QED
        BY <3>2, <3>4, <4>1, <4>2
    <3>7. QED
      BY <3>5, <3>6 DEF d, e, t
  <2>8. /\ RepliedCounts \in [Apps -> Int]
        /\ RepliedCounts[a] - CountOf(Coming(disk.ids, tasks), a) = counts[a] - CountOf(Charged, a)
        /\ counts[a] \in Int /\ CountOf(Charged, a) \in Int
    BY <2>1, <2>2, RepliedSlack
  <2>9. counts[a] = CountOf(Charged, a)
    BY <2>1, <2>2 DEF Exact
  <2> DEFINE slack == RepliedCounts[a] - CountOf(Coming(disk.ids, tasks), a)
  <2>10. /\ slack \in Int /\ Stored(a) \in Int /\ SettledCounts[a] \in Int
         /\ (\A n \in 1..Len(tasks) : Serves(SettledDisk[n - 1], tasks[n]))
                => SettledCounts[a] - Stored(a) = slack
    <3>1. \A n \in 1..Len(tasks) :
              tasks[n].op = "overwrite" => SettledDisk[n].ids = SettledDisk[n - 1].ids
      BY <2>7
    <3>2. QED
      BY <2>1, <2>2, <2>3, <2>8, <3>1, LoadedTasks, SettledLemma
  <2>11. slack = 0
    BY <2>8, <2>9
  <2> HIDE DEF slack
  <2>12. QED
    BY <2>7, <2>10, <2>11
<1>2. Init => IInv /\ Lined
  BY InitInv, InitLined
<1>3. IInv /\ Lined /\ [Next]_vars => (IInv /\ Lined)'
  BY StepInv, StepLined
<1>4. QED
  BY <1>1, <1>2, <1>3, PTL DEF Spec


===============================================================================
