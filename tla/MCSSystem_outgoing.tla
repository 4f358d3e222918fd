-------------------------- MODULE MCSSystem_outgoing --------------------------
(***************************************************************************)
(* Proofs about the messages MCSClient sends: its queues are in order, the *)
(* collapse keys point into them, and the store follows them, through any  *)
(* number of sends, collapses, acknowledgements, reconnections and         *)
(* restarts of the process. While the process lives, the client keeps the  *)
(* promise of ReliableQueue, and reports a message sent only if the server *)
(* has it.                                                                 *)
(*                                                                         *)
(* No theorem here is about a machine restarted (Reboots = TRUE and        *)
(* MaxRestarts > 0): after a reboot TimeTicks starts again below the       *)
(* persistent ids of stored messages and may come to one of them again.    *)
(***************************************************************************)
EXTENDS MCSSystem_proofs, SequenceTheorems

-----------------------------------------------------------------------------
(***************************************************************************)
(* The inductive invariant                                                 *)
(***************************************************************************)

\* The reliable packets of s are in the order of their persistent ids.
Rising(s) ==
    \A i, j \in 1..Len(s) : i < j /\ s[i].pid # 0 /\ s[j].pid # 0 => s[i].pid < s[j].pid

\* Those of r come before those of s.
Before(r, s) ==
    \A i \in 1..Len(r), j \in 1..Len(s) :
        r[i].pid # 0 /\ s[j].pid # 0 => r[i].pid < s[j].pid

UpTo(s, t) == \A i \in 1..Len(s) : s[i].pid <= t

\* The packets awaiting an acknowledgement are reliable and in the order of
\* their stream ids.
Awaiting(r, out) ==
    /\ \A i \in 1..Len(r) : r[i].pid # 0 /\ r[i].sid <= out
    /\ \A i, j \in 1..Len(r) : i < j => r[i].sid < r[j].sid

\* The keys point to packets of s with that key.
Points(keymap, s) ==
    \A k \in Keys : keymap[k] # 0 =>
        \E i \in 1..Len(s) : s[i].pid = keymap[k] /\ Key(s[i].body) = k

\* The two queues of a client, below the persistent ids still to come.
InOrder(r, s, t) == Rising(r) /\ Rising(s) /\ Before(r, s) /\ UpTo(r, t) /\ UpTo(s, t)

Sound(c) ==
    /\ InOrder(c.to_resend, c.to_send, c.ticks)
    /\ Awaiting(c.to_resend, c.out)
    /\ Points(c.keymap, c.to_send)

Has(s, p, b) == \E i \in 1..Len(s) : s[i].pid = p /\ s[i].body = b

Holds(store, p, b) == \E e \in store.out : e.pid = p /\ e.body = b

\* The store has the reliable packets of both queues and nothing else.
Synced(store, r, s) ==
    \A p \in Nat \ {0}, b \in Reliables : Holds(store, p, b) <=> Has(r, p, b) \/ Has(s, p, b)

\* The persistent ids in the store tell its messages apart.
Distinct(store, t) ==
    /\ \A e, f \in store.out : e.pid = f.pid => e = f
    /\ \A e \in store.out : e.pid <= t

Writes(op) == op.kind \in {"addOut", "overwrite"}

\* And go on to do so while it executes ops: what they add is new.
Adding(store, ops, t) ==
    /\ \A n \in 1..Len(ops) : Writes(ops[n]) => \A p \in ops[n].ids : p <= t
    /\ \A n \in 1..Len(ops) : ops[n].kind = "addOut" =>
           \A p \in ops[n].ids :
               /\ \A e \in store.out : e.pid < p
               /\ \A m \in 1..Len(ops) : m < n /\ Writes(ops[m]) => \A q \in ops[m].ids : q < p

Orderly(store, ops, t) == Distinct(store, t) /\ Adding(store, ops, t)

\* What holds of a client and of the store under it.
Out(c, store) ==
    /\ Sound(c)
    /\ Synced(After(store, c.storeq), c.to_resend, c.to_send)
    /\ Orderly(store, c.storeq, c.ticks)

-----------------------------------------------------------------------------
(***************************************************************************)
(* Queues taken apart and put together                                     *)
(***************************************************************************)

\* Where an element of two joined sequences comes from.
LEMMA JoinIndex ==
    ASSUME NEW P, NEW x \in Seq(P), NEW y \in Seq(P)
    PROVE  /\ x \o y \in Seq(P) /\ Len(x \o y) = Len(x) + Len(y)
           /\ \A i \in 1..Len(x) : i \in 1..Len(x \o y) /\ (x \o y)[i] = x[i]
           /\ \A i \in 1..Len(y) : /\ Len(x) + i \in 1..Len(x \o y)
                                   /\ (x \o y)[Len(x) + i] = y[i]
           /\ \A i \in 1..Len(x \o y) :
                  \/ i \in 1..Len(x) /\ (x \o y)[i] = x[i]
                  \/ i - Len(x) \in 1..Len(y) /\ (x \o y)[i] = y[i - Len(x)]
<1>1. Len(x) \in Nat /\ Len(y) \in Nat
  OBVIOUS
<1>2. x \o y \in Seq(P) /\ Len(x \o y) = Len(x) + Len(y)
  OBVIOUS
<1>3. \A i \in 1..(Len(x) + Len(y)) : (x \o y)[i] = IF i <= Len(x) THEN x[i] ELSE y[i - Len(x)]
  OBVIOUS
<1>4. \A i \in 1..Len(y) : (Len(x) + i) - Len(x) = i /\ ~ (Len(x) + i <= Len(x))
  BY <1>1
<1>5. QED
  BY <1>1, <1>2, <1>3, <1>4

\* The facts about joined queues that the invariant is made of.
LEMMA JoinLemma ==
    ASSUME NEW x \in Seq(Packets), NEW y \in Seq(Packets)
    PROVE  /\ Rising(x \o y) <=> Rising(x) /\ Rising(y) /\ Before(x, y)
           /\ \A t : UpTo(x \o y, t) <=> UpTo(x, t) /\ UpTo(y, t)
           /\ \A p, b : Has(x \o y, p, b) <=> Has(x, p, b) \/ Has(y, p, b)
           /\ \A z \in Seq(Packets) : Before(x \o y, z) <=> Before(x, z) /\ Before(y, z)
           /\ \A z \in Seq(Packets) : Before(z, x \o y) <=> Before(z, x) /\ Before(z, y)
<1> DEFINE j == x \o y
           n == Len(x)
<1>1. /\ n \in Nat /\ Len(y) \in Nat /\ Len(j) = n + Len(y)
      /\ \A i \in 1..n : i \in 1..Len(j) /\ j[i] = x[i]
      /\ \A i \in 1..Len(y) : n + i \in 1..Len(j) /\ j[n + i] = y[i]
      /\ \A i \in 1..Len(j) : \/ i \in 1..n /\ j[i] = x[i]
                              \/ i - n \in 1..Len(y) /\ j[i] = y[i - n]
  BY JoinIndex
<1> HIDE DEF j, n
<1>2. n = Len(x)
  BY DEF n
<1>3. Rising(j) => Rising(x) /\ Rising(y) /\ Before(x, y)
  <2>1. SUFFICES ASSUME Rising(j) PROVE Rising(x) /\ Rising(y) /\ Before(x, y)
    OBVIOUS
  <2>2. Rising(x)
    BY <1>1, <1>2, <2>1 DEF Rising
  <2>3. \A i, k \in 1..Len(y) : i < k => n + i < n + k
    BY <1>1
  <2>4. Rising(y)
    <3>1. SUFFICES ASSUME NEW i \in 1..Len(y), NEW k \in 1..Len(y), i < k,
                          y[i].pid # 0, y[k].pid # 0
                   PROVE  y[i].pid < y[k].pid
      BY DEF Rising
    <3>2. /\ n + i \in 1..Len(j) /\ n + k \in 1..Len(j) /\ n + i < n + k
          /\ j[n + i] = y[i] /\ j[n + k] = y[k]
      BY <1>1, <2>3, <3>1
    <3>3. QED
      BY <2>1, <3>1, <3>2 DEF Rising
  <2>5. \A i \in 1..n, k \in 1..Len(y) : i < n + k
    BY <1>1
  <2>6. Before(x, y)
    BY <1>1, <1>2, <2>1, <2>5 DEF Rising, Before
  <2>7. QED
    BY <2>2, <2>4, <2>6
<1>4. Rising(x) /\ Rising(y) /\ Before(x, y) => Rising(j)
  <2>1. SUFFICES ASSUME Rising(x), Rising(y), Before(x, y),
                        NEW i \in 1..Len(j), NEW k \in 1..Len(j), i < k,
                        j[i].pid # 0, j[k].pid # 0
                 PROVE  j[i].pid < j[k].pid
    BY DEF Rising
  <2>2. CASE i \in 1..n /\ k \in 1..n
    <3>1. j[i] = x[i] /\ j[k] = x[k]
      BY <1>1, <2>2
    <3>2. QED
      BY <1>2, <2>1, <2>2, <3>1 DEF Rising
  <2>3. CASE i \in 1..n /\ k \notin 1..n
    <3>1. j[i] = x[i] /\ k - n \in 1..Len(y) /\ j[k] = y[k - n]
      BY <1>1, <2>3
    <3>2. QED
      BY <1>2, <2>1, <2>3, <3>1 DEF Before
  <2>4. CASE i \notin 1..n /\ k \notin 1..n
    <3>1. /\ i - n \in 1..Len(y) /\ j[i] = y[i - n]
          /\ k - n \in 1..Len(y) /\ j[k] = y[k - n]
      BY <1>1, <2>4
    <3>2. i - n < k - n
      BY <1>1, <2>1
    <3>3. QED
      BY <2>1, <3>1, <3>2 DEF Rising
  <2>5. ~ (i \notin 1..n /\ k \in 1..n)
    BY <1>1, <2>1
  <2>6. QED
    BY <2>2, <2>3, <2>4, <2>5
<1>5. ASSUME NEW t PROVE UpTo(j, t) <=> UpTo(x, t) /\ UpTo(y, t)
  BY <1>1, <1>2 DEF UpTo
<1>6. ASSUME NEW p, NEW b PROVE Has(j, p, b) <=> Has(x, p, b) \/ Has(y, p, b)
  BY SMTT(30), <1>1, <1>2 DEF Has
<1>7. ASSUME NEW z \in Seq(Packets) PROVE Before(j, z) <=> Before(x, z) /\ Before(y, z)
  <2>1. Before(j, z) => Before(x, z)
    BY <1>1, <1>2 DEF Before
  <2>2. Before(j, z) => Before(y, z)
    BY <1>1 DEF Before
  <2>3. ASSUME Before(x, z), Before(y, z), NEW i \in 1..Len(j), NEW k \in 1..Len(z),
               j[i].pid # 0, z[k].pid # 0
        PROVE  j[i].pid < z[k].pid
    <3>1. CASE i \in 1..n /\ j[i] = x[i]
      BY <1>2, <2>3, <3>1 DEF Before
    <3>2. CASE i - n \in 1..Len(y) /\ j[i] = y[i - n]
      BY <2>3, <3>2 DEF Before
    <3>3. QED
      BY <1>1, <3>1, <3>2
  <2>4. QED
    BY <2>1, <2>2, <2>3 DEF Before
<1>8. ASSUME NEW z \in Seq(Packets) PROVE Before(z, j) <=> Before(z, x) /\ Before(z, y)
  <2>1. Before(z, j) => Before(z, x)
    BY <1>1, <1>2 DEF Before
  <2>2. Before(z, j) => Before(z, y)
    BY <1>1 DEF Before
  <2>3. ASSUME Before(z, x), Before(z, y), NEW i \in 1..Len(j), NEW k \in 1..Len(z),
               j[i].pid # 0, z[k].pid # 0
        PROVE  z[k].pid < j[i].pid
    <3>1. CASE i \in 1..n /\ j[i] = x[i]
      BY <1>2, <2>3, <3>1 DEF Before
    <3>2. CASE i - n \in 1..Len(y) /\ j[i] = y[i - n]
      BY <2>3, <3>2 DEF Before
    <3>3. QED
      BY <1>1, <3>1, <3>2
  <2>4. QED
    BY <2>1, <2>2, <2>3 DEF Before
<1>9. QED
  BY <1>3, <1>4, <1>5, <1>6, <1>7, <1>8 DEF j

\* A sequence is its first part and the rest.
LEMMA SplitLemma ==
    ASSUME NEW P, NEW s \in Seq(P), NEW n \in 0..Len(s)
    PROVE  s = SubSeq(s, 1, n) \o SubSeq(s, n + 1, Len(s))
<1> DEFINE a == SubSeq(s, 1, n)
           b == SubSeq(s, n + 1, Len(s))
<1>1. a = [i \in 1..n |-> s[i]] /\ b = [i \in 1..(Len(s) - n) |-> s[i + n]]
  BY DEF SubSeq
<1>2. a \in Seq(P) /\ b \in Seq(P)
  BY PartLemma
<1>3. Len(a) = n /\ Len(b) = Len(s) - n /\ Len(s) \in Nat
  <2>1. Len(s) \in Nat /\ n \in Nat /\ Len(s) - n \in Nat
    OBVIOUS
  <2>2. DOMAIN a = 1..n /\ DOMAIN b = 1..(Len(s) - n)
    BY <1>1
  <2> HIDE DEF a, b
  <2>3. QED
    BY <1>2, <2>1, <2>2, LenProperties
<1>4. a \o b \in Seq(P) /\ Len(a \o b) = Len(s)
  <2> HIDE DEF a, b
  <2>1. a \o b \in Seq(P) /\ Len(a \o b) = Len(a) + Len(b)
    BY <1>2, ConcatProperties
  <2>2. QED
    BY <1>3, <2>1
<1>5. ASSUME NEW i \in 1..Len(s) PROVE (a \o b)[i] = s[i]
  <2> HIDE DEF a, b
  <2>1. CASE i <= n
    <3>1. i \in 1..Len(a) /\ (a \o b)[i] = a[i]
      BY <1>2, <1>3, <2>1
    <3>2. QED
      BY <1>1, <1>3, <3>1
  <2>2. CASE ~ (i <= n)
    <3>1. i - n \in 1..Len(b) /\ (a \o b)[i] = b[i - n] /\ (i - n) + n = i
      BY SMTT(30), <1>2, <1>3, <2>2
    <3>2. QED
      BY <1>1, <1>3, <3>1
  <2>3. QED
    BY <2>1, <2>2
<1>6. QED
  <2> HIDE DEF a, b
  <2>1. \A i \in 1..Len(s) : s[i] = (a \o b)[i]
    BY <1>5
  <2> DEFINE u == a \o b
  <2>2. u \in Seq(P) /\ Len(u) = Len(s) /\ \A i \in 1..Len(s) : s[i] = u[i]
    BY <1>4, <2>1
  <2> HIDE DEF u
  <2>3. s = u
    BY <2>2, SeqEqual
  <2>4. QED
    BY <2>3 DEF u, a, b

LEMMA HeadTailLemma ==
    ASSUME NEW P, NEW s \in Seq(P), s # << >>
    PROVE  Head(s) \in P /\ Tail(s) \in Seq(P) /\ s = <<Head(s)>> \o Tail(s)
<1>1. Head(s) \in P /\ Tail(s) \in Seq(P)
  OBVIOUS
<1>2. s = <<Head(s)>> \o Tail(s)
  OBVIOUS
<1>3. QED
  BY <1>1, <1>2

LEMMA AppendLemma ==
    ASSUME NEW P, NEW s \in Seq(P), NEW e \in P
    PROVE  Append(s, e) \in Seq(P) /\ Append(s, e) = s \o <<e>>
  OBVIOUS

\* A queue of one packet.
LEMMA SingleLemma ==
    ASSUME NEW p \in Packets
    PROVE  /\ <<p>> \in Seq(Packets)
           /\ Rising(<<p>>)
           /\ \A t : UpTo(<<p>>, t) <=> p.pid <= t
           /\ \A q, b : Has(<<p>>, q, b) <=> p.pid = q /\ p.body = b
           /\ \A z : Before(<<p>>, z) <=>
                  \A i \in 1..Len(z) : p.pid # 0 /\ z[i].pid # 0 => p.pid < z[i].pid
           /\ \A z : Before(z, <<p>>) <=>
                  \A i \in 1..Len(z) : p.pid # 0 /\ z[i].pid # 0 => z[i].pid < p.pid
<1>1. <<p>> \in Seq(Packets) /\ Len(<<p>>) = 1 /\ <<p>>[1] = p /\ 1..1 = {1}
  OBVIOUS
<1>2. Rising(<<p>>)
  BY <1>1 DEF Rising
<1>3. \A t : UpTo(<<p>>, t) <=> p.pid <= t
  BY <1>1 DEF UpTo
<1>4. \A q, b : Has(<<p>>, q, b) <=> p.pid = q /\ p.body = b
  BY <1>1 DEF Has
<1>5. QED
  BY <1>1, <1>2, <1>3, <1>4 DEF Before

\* A message in one queue is not in another that comes before or after it.
LEMMA ApartLemma ==
    ASSUME NEW x \in Seq(Packets), NEW y \in Seq(Packets), Before(x, y) \/ Before(y, x),
           NEW p \in Nat \ {0}, NEW b, Has(y, p, b)
    PROVE  p \notin Pids(x)
<1>1. PICK k \in 1..Len(y) : y[k].pid = p
  BY DEF Has
<1>2. SUFFICES ASSUME NEW i \in 1..Len(x), x[i].pid = p PROVE FALSE
  BY DEF Pids
<1>3. x[i].pid < y[k].pid \/ y[k].pid < x[i].pid
  BY <1>1, <1>2 DEF Before
<1>4. QED
  BY <1>1, <1>2, <1>3

LEMMA PidsLemma ==
    ASSUME NEW x \in Seq(Packets), NEW p \in Nat \ {0}
    PROVE  /\ \A b : Has(x, p, b) => p \in Pids(x)
           /\ p \in Pids(x) => \E b \in Reliables : Has(x, p, b)
<1>1. \A b : Has(x, p, b) => p \in Pids(x)
  BY DEF Has, Pids
<1>2. ASSUME p \in Pids(x) PROVE \E b \in Reliables : Has(x, p, b)
  <2>1. PICK i \in 1..Len(x) : x[i].pid = p
    BY <1>2 DEF Pids
  <2>2. x[i] \in Packets
    OBVIOUS
  <2>3. x[i].body \in Reliables
    BY <2>1, <2>2 DEF Packets
  <2>4. QED
    BY <2>1, <2>3 DEF Has
<1>3. QED
  BY <1>1, <1>2

-----------------------------------------------------------------------------
(***************************************************************************)
(* The store                                                               *)
(***************************************************************************)

\* What operation o does to the messages in the store.
Becomes(old, new, o) ==
    \A p \in Nat \ {0}, b \in Reliables :
        Holds(new, p, b) <=>
            \/ Holds(old, p, b) /\ (o.kind \in {"overwrite", "removeOut"} => p \notin o.ids)
            \/ Writes(o) /\ p \in o.ids /\ b = o.body

LEMMA AppliedOut ==
    ASSUME NEW s \in Stores, NEW o \in Ops
    PROVE  Becomes(s, Applied(s, o), o)
<1> DEFINE t == Applied(s, o)
           new == {[pid |-> p, body |-> o.body, hdr |-> o.hdr] : p \in o.ids}
<1>0. /\ s = [out |-> s.out, in |-> s.in]
      /\ s.out \in SUBSET Entries
  BY DEF Stores
<1>1. SUFFICES ASSUME NEW p \in Nat \ {0}, NEW b \in Reliables
               PROVE  Holds(t, p, b) <=>
                          \/ /\ Holds(s, p, b)
                             /\ o.kind \in {"overwrite", "removeOut"} => p \notin o.ids
                          \/ Writes(o) /\ p \in o.ids /\ b = o.body
  BY DEF Becomes
<1>2. (\E e \in new : e.pid = p /\ e.body = b) <=> p \in o.ids /\ b = o.body
  <2>1. ASSUME p \in o.ids, b = o.body PROVE \E e \in new : e.pid = p /\ e.body = b
    <3>1. [pid |-> p, body |-> o.body, hdr |-> o.hdr] \in new
      BY <2>1
    <3>2. QED
      BY <2>1, <3>1
  <2>2. QED
    BY <2>1
<1>3. CASE o.kind = "addOut"
  <2>1. t.out = s.out \cup new
    BY <1>0, <1>3 DEF Applied
  <2> HIDE DEF t, new
  <2>2. QED
    BY <1>2, <1>3, <2>1 DEF Holds, Writes
<1>4. CASE o.kind = "overwrite"
  <2>1. t.out = {e \in s.out : e.pid \notin o.ids} \cup new
    BY <1>0, <1>4 DEF Applied
  <2> HIDE DEF t, new
  <2>2. QED
    BY <1>2, <1>4, <2>1 DEF Holds, Writes
<1>5. CASE o.kind = "removeOut"
  <2>1. t.out = {e \in s.out : e.pid \notin o.ids}
    BY <1>0, <1>5 DEF Applied
  <2> HIDE DEF t, new
  <2>2. QED
    BY <1>5, <2>1 DEF Holds, Writes
<1>6. CASE o \in InOps
  <2>1. t.out = s.out
    BY <1>6, AppliedLemma
  <2>2. o.kind \in {"addIn", "removeIn"}
    BY <1>6 DEF InOps
  <2> HIDE DEF t
  <2>3. QED
    BY <2>1, <2>2 DEF Holds, Writes
<1>7. QED
  BY <1>3, <1>4, <1>5, <1>6 DEF Ops, OutOps, WriteOps, RemoveOps

\* The operations of the store with one more.
Given(q, o) == IF o.ids = {} THEN q ELSE Append(q, o)

LEMMA GivenLemma ==
    ASSUME NEW c \in Clients, NEW o \in Ops
    PROVE  /\ Store(c, o) = [c EXCEPT !.storeq = Given(c.storeq, o)]
           /\ Given(c.storeq, o) \in Seq(Ops)
           /\ Store(c, o) \in Clients
<1>1. PICK q \in Seq(Ops) : /\ Store(c, o) = [c EXCEPT !.storeq = q]
                            /\ q = IF o.ids = {} THEN c.storeq ELSE Append(c.storeq, o)
  BY StoreLemma
<1>2. q = Given(c.storeq, o)
  BY <1>1 DEF Given
<1>3. [c EXCEPT !.storeq = q] \in Clients
  BY DEF Clients
<1>4. QED
  BY <1>1, <1>2, <1>3

\* It takes effect after the earlier ones.
LEMMA GivenBecomes ==
    ASSUME NEW q \in Seq(Ops), NEW o \in Ops, NEW s \in Stores
    PROVE  Becomes(After(s, q), After(s, Given(q, o)), o)
<1>1. CASE o.ids = {}
  <2>1. ~ Writes(o) \/ o.ids # {}
    BY DEF Writes, Ops, OutOps, WriteOps, RemoveOps, InOps
  <2>2. QED
    BY <1>1, <2>1 DEF Becomes, Given
<1>2. CASE o.ids # {}
  <2>1. After(s, q) \in Stores /\ After(s, Given(q, o)) = Applied(After(s, q), o)
    BY <1>2, AfterType, AfterAppend DEF Given
  <2>2. QED
    BY <2>1, AppliedOut
<1>3. QED
  BY <1>1, <1>2

\* More is handed to the store: nothing new, or a message with the next id.
LEMMA OrderlyAppend ==
    ASSUME NEW s \in Stores, NEW ops \in Seq(Ops), NEW t \in Nat, Orderly(s, ops, t), NEW o \in Ops,
           NEW u \in Nat, t <= u, Writes(o) => \A p \in o.ids : p <= u,
           o.kind = "addOut" => \A p \in o.ids : t < p
    PROVE  Orderly(s, Append(ops, o), u)
<1> DEFINE k == Len(ops) + 1
           q == Append(ops, o)
<1>1. /\ q \in Seq(Ops) /\ Len(q) = k /\ Len(ops) \in Nat /\ k \in Nat /\ q[k] = o
      /\ \A i \in 1..Len(ops) : q[i] = ops[i] /\ i < k
      /\ \A i \in 1..k : i = k \/ i \in 1..Len(ops)
  OBVIOUS
<1> HIDE DEF q, k
<1>2. Distinct(s, u)
  <2>1. \A e \in s.out : e.pid <= t /\ e.pid \in Nat
    BY DEF Orderly, Distinct, Stores, Entries
  <2>2. ASSUME NEW e \in s.out PROVE e.pid <= u
    BY <2>1
  <2>3. QED
    BY <2>2 DEF Orderly, Distinct
<1>3. ASSUME NEW x \in Ops, Writes(x), NEW p \in x.ids
      PROVE  p \in Nat
  <2>1. x \in WriteOps
    BY <1>3 DEF Writes, Ops, OutOps, RemoveOps, InOps
  <2>2. QED
    BY <2>1 DEF WriteOps
<1>4. ASSUME NEW n \in 1..k, Writes(q[n]), NEW p \in q[n].ids PROVE p <= u
  <2>1. CASE n = k
    BY <1>1, <1>4, <2>1
  <2>2. CASE n \in 1..Len(ops)
    <3>1. q[n] = ops[n] /\ ops[n] \in Ops
      BY <1>1, <2>2
    <3>2. p <= t
      BY <1>4, <2>2, <3>1 DEF Orderly, Adding
    <3>3. p \in Nat
      BY <1>3, <1>4, <3>1
    <3>4. QED
      BY <3>2, <3>3
  <2>3. QED
    BY <1>1, <2>1, <2>2
<1>5. ASSUME NEW n \in 1..k, q[n].kind = "addOut", NEW p \in q[n].ids, NEW e \in s.out
      PROVE  e.pid < p
  <2>1. CASE n = k
    <3>1. t < p /\ e.pid <= t
      BY <1>1, <1>5, <2>1 DEF Orderly, Distinct
    <3>2. p \in Nat /\ e.pid \in Nat
      BY <1>1, <1>3, <1>5, <2>1 DEF Writes, Stores, Entries
    <3>3. QED
      BY <3>1, <3>2
  <2>2. CASE n \in 1..Len(ops)
    BY <1>1, <1>5, <2>2 DEF Orderly, Adding
  <2>3. QED
    BY <1>1, <2>1, <2>2
<1>6. ASSUME NEW n \in 1..k, q[n].kind = "addOut", NEW p \in q[n].ids,
             NEW m \in 1..k, m < n, Writes(q[m]), NEW z \in q[m].ids
      PROVE  z < p
  <2>1. m \in 1..Len(ops) /\ q[m] = ops[m] /\ ops[m] \in Ops
    BY <1>1, <1>6
  <2>2. CASE n = k
    <3>1. t < p /\ z <= t
      BY <1>1, <1>6, <2>1, <2>2 DEF Orderly, Adding
    <3>2. p \in Nat /\ z \in Nat
      BY <1>1, <1>3, <1>6, <2>1, <2>2 DEF Writes
    <3>3. QED
      BY <3>1, <3>2
  <2>3. CASE n \in 1..Len(ops)
    BY <1>1, <1>6, <2>1, <2>3 DEF Orderly, Adding
  <2>4. QED
    BY <1>1, <2>2, <2>3
<1>7. Adding(s, q, u)
  BY <1>1, <1>4, <1>5, <1>6 DEF Adding
<1>8. QED
  BY <1>2, <1>7 DEF Orderly, q

\* The store executes the first operation.
LEMMA OrderlyHead ==
    ASSUME NEW s \in Stores, NEW ops \in Seq(Ops), NEW t \in Nat, Orderly(s, ops, t),
           ops # << >>
    PROVE  Orderly(Applied(s, Head(ops)), Tail(ops), t)
<1> DEFINE o == Head(ops)
           z == Applied(s, o)
           q == Tail(ops)
           new == {[pid |-> p, body |-> o.body, hdr |-> o.hdr] : p \in o.ids}
<1>1. /\ o \in Ops /\ o = ops[1] /\ Len(ops) \in Nat /\ 1 \in 1..Len(ops)
      /\ q \in Seq(Ops) /\ Len(q) = Len(ops) - 1
      /\ \A i \in 1..Len(q) : q[i] = ops[i + 1] /\ i + 1 \in 1..Len(ops) /\ 1 < i + 1
  OBVIOUS
<1>2. /\ s = [out |-> s.out, in |-> s.in]
      /\ s.out \in SUBSET Entries
  BY DEF Stores
<1>3. \A e \in new : e.pid \in o.ids
  OBVIOUS
<1>4. /\ o.kind = "addOut" => z.out = s.out \cup new
      /\ o.kind = "overwrite" => z.out = {e \in s.out : e.pid \notin o.ids} \cup new
      /\ ~ Writes(o) => z.out \subseteq s.out
  <2>1. CASE o \in InOps
    BY <1>1, <2>1, AppliedLemma DEF InOps, Writes
  <2>2. CASE o \notin InOps
    BY <1>1, <1>2, <2>2 DEF Applied, Writes, Ops, OutOps, WriteOps, RemoveOps
  <2>3. QED
    BY <2>1, <2>2
<1>5. \A e, f \in new : e.pid = f.pid => e = f
  OBVIOUS
<1> HIDE DEF o, z, q, new
<1>6. \A e \in z.out : e \in s.out \/ (Writes(o) /\ e \in new)
  BY <1>4 DEF Writes
<1>7. Distinct(z, t)
  <2>1. ASSUME NEW e \in z.out PROVE e.pid <= t
    <3>1. Writes(o) => \A p \in o.ids : p <= t
      BY <1>1 DEF Orderly, Adding
    <3>2. QED
      BY <1>3, <1>6, <3>1 DEF Orderly, Distinct
  <2>2. ASSUME NEW e \in z.out, NEW f \in z.out, e.pid = f.pid PROVE e = f
    <3>1. CASE e \in s.out /\ f \in s.out
      BY <2>2, <3>1 DEF Orderly, Distinct
    <3>2. CASE Writes(o) /\ e \in new /\ f \in new
      BY <1>5, <2>2, <3>2
    <3>3. ASSUME Writes(o), NEW x \in s.out, NEW y \in new, x \in z.out, x.pid = y.pid
          PROVE  x \in new
      <4>1. y.pid \in o.ids
        BY <1>3
      <4>2. CASE o.kind = "addOut"
        <5>1. x.pid < y.pid /\ x.pid \in Nat
          BY <1>1, <1>2, <4>1, <4>2 DEF Orderly, Adding, Entries
        <5>2. QED
          BY <3>3, <5>1
      <4>3. CASE o.kind = "overwrite"
        BY <1>4, <3>3, <4>1, <4>3
      <4>4. QED
        BY <3>3, <4>2, <4>3 DEF Writes
    <3>4. QED
      BY <1>6, <2>2, <3>1, <3>2, <3>3
  <2>3. QED
    BY <2>1, <2>2 DEF Distinct
<1>8. ASSUME NEW n \in 1..Len(q), Writes(q[n]), NEW p \in q[n].ids PROVE p <= t
  BY <1>1, <1>8 DEF Orderly, Adding
<1>9. ASSUME NEW n \in 1..Len(q), q[n].kind = "addOut", NEW p \in q[n].ids, NEW e \in z.out
      PROVE  e.pid < p
  <2>1. CASE e \in s.out
    BY <1>1, <1>9, <2>1 DEF Orderly, Adding
  <2>2. CASE Writes(o) /\ e \in new
    BY <1>1, <1>3, <1>9, <2>2 DEF Orderly, Adding
  <2>3. QED
    BY <1>6, <2>1, <2>2
<1>10. ASSUME NEW n \in 1..Len(q), q[n].kind = "addOut", NEW p \in q[n].ids,
              NEW m \in 1..Len(q), m < n, Writes(q[m]), NEW x \in q[m].ids
       PROVE  x < p
  <2>1. /\ n + 1 \in 1..Len(ops) /\ m + 1 \in 1..Len(ops) /\ m + 1 < n + 1
        /\ q[n] = ops[n + 1] /\ q[m] = ops[m + 1]
    BY SMTT(30), <1>1, <1>10
  <2>2. QED
    BY <1>10, <2>1 DEF Orderly, Adding
<1>11. QED
  BY <1>7, <1>8, <1>9, <1>10 DEF Orderly, Adding, o, z, q

\* The same, for an operation that adds nothing.
LEMMA OrderlyGiven ==
    ASSUME NEW s \in Stores, NEW ops \in Seq(Ops), NEW t \in Nat, Orderly(s, ops, t),
           NEW o \in Ops, ~ Writes(o)
    PROVE  Orderly(s, Given(ops, o), t)
<1>1. CASE o.ids = {}
  BY <1>1 DEF Given
<1>2. CASE o.ids # {}
  <2>1. Given(ops, o) = Append(ops, o) /\ o.kind # "addOut" /\ t <= t
    BY <1>2 DEF Given, Writes
  <2>2. QED
    BY <2>1, OrderlyAppend
<1>3. QED
  BY <1>1, <1>2

-----------------------------------------------------------------------------
(***************************************************************************)
(* What each method does to the queues                                     *)
(***************************************************************************)

\* What the applications are told when st is reported of these messages.
Reported(status, bodies, st) ==
    [m \in Messages |-> IF m \in bodies THEN status[m] \cup {st} ELSE status[m]]

LEMMA ReportedLemma ==
    ASSUME NEW c \in Clients, NEW bodies, NEW st \in Statuses
    PROVE  /\ Notify(c, bodies, st) = [c EXCEPT !.status = Reported(c.status, bodies, st)]
           /\ Reported(c.status, bodies, st) \in [Messages -> SUBSET Statuses]
           /\ Notify(c, bodies, st) \in Clients
<1> DEFINE x == Reported(c.status, bodies, st)
<1>1. c.status \in [Messages -> SUBSET Statuses]
  BY DEF Clients
<1>2. x \in [Messages -> SUBSET Statuses]
  BY <1>1 DEF Reported
<1>3. Notify(c, bodies, st) = [c EXCEPT !.status = x]
  BY DEF Notify, Reported
<1> HIDE DEF x
<1>4. [c EXCEPT !.status = x] \in Clients
  BY <1>2 DEF Clients
<1>5. QED
  BY <1>2, <1>3, <1>4 DEF x

\* The queues and what is said about them are as before.
SameQueues(c, d) ==
    /\ d.to_send = c.to_send /\ d.to_resend = c.to_resend /\ d.keymap = c.keymap
    /\ d.storeq = c.storeq /\ d.ticks = c.ticks /\ d.out = c.out
    /\ d.status = c.status /\ d.flush = c.flush /\ d.expired = c.expired

Popped(c) == [k \in Keys |-> IF k = Key(Head(c.to_send).body) THEN 0 ELSE c.keymap[k]]

\* From c to d the first packet goes out.
Transmits(c, d) ==
    LET p == Head(c.to_send)
    IN  /\ c.to_send # << >> /\ Reachable(c) /\ ~ HasTTLExpired(c, p.body)
        /\ d.to_send = Tail(c.to_send)
        /\ d.to_resend = IF p.pid # 0 THEN Append(c.to_resend, [p EXCEPT !.sid = c.out + 1])
                         ELSE c.to_resend
        /\ d.keymap = Popped(c) /\ d.out = c.out + 1
        /\ d.storeq = c.storeq /\ d.ticks = c.ticks /\ d.status = c.status
        /\ d.expired = c.expired
        /\ d.flush = <<[body |-> p.body, hdr |-> p.hdr, last |-> c.in, ids |-> {}]>>

\* From c to d the first packet is dropped, its time being over.
Lapses(c, d) ==
    LET p == Head(c.to_send)
    IN  /\ c.to_send # << >> /\ Reachable(c) /\ HasTTLExpired(c, p.body)
        /\ d.to_send = Tail(c.to_send) /\ d.to_resend = c.to_resend
        /\ d.keymap = Popped(c) /\ d.out = c.out
        /\ d.storeq = Given(c.storeq, RemoveOutgoing({p.pid})) /\ d.ticks = c.ticks
        /\ d.status = Reported(c.status, {p.body}, "TTL_EXCEEDED")
        /\ d.expired = c.expired /\ d.flush = c.flush

LEMMA SendPacketExact ==
    ASSUME NEW c \in Clients, NEW p \in Packets
    PROVE  LET d == SendPacketToWire(c, p)
           IN  /\ d.to_send = c.to_send /\ d.keymap = c.keymap /\ d.storeq = c.storeq
               /\ d.ticks = c.ticks /\ d.status = c.status /\ d.expired = c.expired
               /\ d.out = c.out + 1
               /\ d.to_resend = IF p.pid # 0 THEN Append(c.to_resend, [p EXCEPT !.sid = c.out + 1])
                                ELSE c.to_resend
               /\ d.flush = <<[body |-> p.body, hdr |-> p.hdr, last |-> c.in, ids |-> {}]>>
<1> DEFINE m == MarkAcknowledged([c EXCEPT !.out = c.out + 1])
           r == IF p.pid # 0 THEN Append(c.to_resend, [p EXCEPT !.sid = c.out + 1])
                ELSE c.to_resend
           f == <<[body |-> p.body, hdr |-> p.hdr, last |-> c.in, ids |-> {}]>>
<1>1. \E l, u, a : m = [c EXCEPT !.out = c.out + 1, !.last_in = l, !.unacked = u, !.acked = a]
  <2> DEFINE e == [c EXCEPT !.out = c.out + 1]
  <2>1. e.last_in = c.last_in /\ e.in = c.in
    BY DEF Clients
  <2>2. CASE c.in = c.last_in
    <3>1. m = e
      BY <2>1, <2>2 DEF MarkAcknowledged
    <3>2. e = [c EXCEPT !.out = c.out + 1, !.last_in = c.last_in, !.unacked = c.unacked,
                        !.acked = c.acked]
      BY DEF Clients
    <3>3. m = [c EXCEPT !.out = c.out + 1, !.last_in = c.last_in, !.unacked = c.unacked,
                        !.acked = c.acked]
      BY <3>1, <3>2
    <3> HIDE DEF m, e
    <3>4. QED
      BY <3>3
  <2>3. CASE c.in # c.last_in
    <3> DEFINE a == e.acked \cup {[sid |-> e.out, id |-> i] : i \in UnackedIds(e)}
    <3>1. m = [e EXCEPT !.last_in = e.in, !.unacked = << >>, !.acked = a]
      BY <2>1, <2>3 DEF MarkAcknowledged
    <3> HIDE DEF a
    <3>2. m = [c EXCEPT !.out = c.out + 1, !.last_in = e.in, !.unacked = << >>, !.acked = a]
      BY <3>1
    <3>3. QED
      BY <3>2
  <2>4. QED
    BY <2>2, <2>3
<1>2. PICK l, u, a : m = [c EXCEPT !.out = c.out + 1, !.last_in = l, !.unacked = u, !.acked = a]
  BY <1>1
<1> HIDE DEF m
<1>3. /\ m.out = c.out + 1 /\ m.to_send = c.to_send /\ m.to_resend = c.to_resend
      /\ m.keymap = c.keymap /\ m.storeq = c.storeq /\ m.ticks = c.ticks
      /\ m.status = c.status /\ m.expired = c.expired
      /\ DOMAIN m = DOMAIN c
  BY <1>2 DEF Clients
<1>4. SendPacketToWire(c, p) = [m EXCEPT !.to_resend = r, !.flush = f]
  BY <1>3 DEF SendPacketToWire, m
<1> HIDE DEF r, f
<1> DEFINE d == [m EXCEPT !.to_resend = r, !.flush = f]
<1>5. {"to_send", "to_resend", "keymap", "storeq", "ticks", "status", "expired", "out", "flush"}
          \subseteq DOMAIN m
  BY <1>3 DEF Clients
<1>6. /\ d.to_resend = r /\ d.flush = f /\ d.out = m.out /\ d.to_send = m.to_send
      /\ d.keymap = m.keymap /\ d.storeq = m.storeq /\ d.ticks = m.ticks
      /\ d.status = m.status /\ d.expired = m.expired
  BY <1>5
<1>7. QED
  BY <1>3, <1>4, <1>6 DEF r, f

\* What MaybeSendMessage may do.
Runs(c, d) == d \in Clients /\ (SameQueues(c, d) \/ Transmits(c, d) \/ Lapses(c, d))

LEMMA MaybeSendExact ==
    ASSUME NEW c \in Clients
    PROVE  Runs(c, MaybeSendMessage(c))
<1> DEFINE p == Head(c.to_send)
           d == [c EXCEPT !.to_send = Tail(c.to_send), !.keymap = Popped(c)]
           h == MaybeSendMessage(c)
<1>0. h \in Clients
  BY MaybeSendLemma DEF Sent
<1>1. CASE c.to_send = << >> \/ ~ Reachable(c)
  BY <1>0, <1>1 DEF MaybeSendMessage, Runs, SameQueues
<1>2. CASE c.to_send # << >> /\ Reachable(c)
  <2>1. PopMessageForSend(c) = d
    BY DEF PopMessageForSend, Popped
  <2>2. c.to_send \in Seq(Packets) /\ c.keymap \in [Keys -> Nat]
    BY DEF Clients
  <2>3. p \in Packets /\ Tail(c.to_send) \in Seq(Packets)
    BY <1>2, <2>2
  <2>4. Popped(c) \in [Keys -> Nat]
    BY <2>2 DEF Popped
  <2>5. /\ d \in Clients /\ d.to_send = Tail(c.to_send) /\ d.keymap = Popped(c)
        /\ d.to_resend = c.to_resend /\ d.storeq = c.storeq /\ d.ticks = c.ticks
        /\ d.out = c.out /\ d.in = c.in /\ d.status = c.status /\ d.flush = c.flush
        /\ d.expired = c.expired
    BY <2>3, <2>4 DEF Clients
  <2>6. CASE ~ HasTTLExpired(c, p.body)
    <3>1. h = SendPacketToWire(d, p)
      BY <1>2, <2>1, <2>6 DEF MaybeSendMessage
    <3> HIDE DEF d, h, p
    <3>2. /\ h.to_send = d.to_send /\ h.keymap = d.keymap /\ h.storeq = d.storeq
          /\ h.ticks = d.ticks /\ h.status = d.status /\ h.expired = d.expired
          /\ h.out = d.out + 1
          /\ h.to_resend = IF p.pid # 0 THEN Append(d.to_resend, [p EXCEPT !.sid = d.out + 1])
                           ELSE d.to_resend
          /\ h.flush = <<[body |-> p.body, hdr |-> p.hdr, last |-> d.in, ids |-> {}]>>
      BY <2>3, <2>5, <3>1, SendPacketExact
    <3>3. Transmits(c, h)
      BY <1>2, <2>5, <2>6, <3>2 DEF Transmits, p
    <3>4. QED
      BY <1>0, <3>3 DEF Runs, h
  <2>7. CASE HasTTLExpired(c, p.body)
    <3> DEFINE o == RemoveOutgoing({p.pid})
               n == Notify(d, {p.body}, "TTL_EXCEEDED")
               e == Store(n, o)
    <3>1. o \in Ops /\ "TTL_EXCEEDED" \in Statuses
      BY <2>3 DEF Ops, OutOps, RemoveOps, RemoveOutgoing, Op, Statuses, Packets
    <3>2. h = [e EXCEPT !.posted = e.posted + 1]
      BY <1>2, <2>1, <2>7 DEF MaybeSendMessage
    <3> HIDE DEF d, o, p
    <3>3. n = [d EXCEPT !.status = Reported(d.status, {p.body}, "TTL_EXCEEDED")] /\ n \in Clients
      BY ZenonT(40), <2>5, <3>1, ReportedLemma
    <3> DEFINE x == Reported(d.status, {p.body}, "TTL_EXCEEDED")
    <3> HIDE DEF n, x
    <3>4. e = [n EXCEPT !.storeq = Given(n.storeq, o)] /\ e \in Clients
      BY <3>1, <3>3, GivenLemma
    <3>5. /\ n.to_send = d.to_send /\ n.to_resend = d.to_resend /\ n.keymap = d.keymap
          /\ n.storeq = d.storeq /\ n.ticks = d.ticks /\ n.out = d.out
          /\ n.status = x /\ n.flush = d.flush /\ n.expired = d.expired
      BY <2>5, <3>3 DEF Clients, x
    <3> DEFINE g == Given(n.storeq, o)
    <3> HIDE DEF e, g
    <3>6. /\ e.to_send = n.to_send /\ e.to_resend = n.to_resend /\ e.keymap = n.keymap
          /\ e.storeq = g /\ e.ticks = n.ticks /\ e.out = n.out
          /\ e.status = n.status /\ e.flush = n.flush /\ e.expired = n.expired
      BY <3>3, <3>4 DEF Clients, g
    <3>7. /\ h.to_send = e.to_send /\ h.to_resend = e.to_resend /\ h.keymap = e.keymap
          /\ h.storeq = e.storeq /\ h.ticks = e.ticks /\ h.out = e.out
          /\ h.status = e.status /\ h.flush = e.flush /\ h.expired = e.expired
      BY <3>2, <3>4 DEF Clients
    <3> HIDE DEF h
    <3>8. h.status = Reported(c.status, {p.body}, "TTL_EXCEEDED")
      BY <2>5, <3>5, <3>6, <3>7 DEF x
    <3>9. h.storeq = Given(c.storeq, RemoveOutgoing({p.pid}))
      BY <2>5, <3>5, <3>6, <3>7 DEF g, o
    <3>10. Lapses(c, h)
      BY <1>2, <2>5, <2>7, <3>5, <3>6, <3>7, <3>8, <3>9 DEF Lapses, p
    <3>11. QED
      BY <1>0, <3>10 DEF Runs, h
  <2>8. QED
    BY <2>6, <2>7
<1>3. QED
  BY <1>1, <1>2

\* From c to d a packet joins the queue.
Joins(c, d, body, pid) ==
    /\ d \in Clients
    /\ d.to_send = Append(c.to_send, [body |-> body, pid |-> pid, hdr |-> pid, sid |-> 0])
    /\ d.to_resend = c.to_resend /\ d.keymap = c.keymap /\ d.storeq = c.storeq
    /\ d.ticks = c.ticks /\ d.out = c.out
    /\ d.status = Reported(c.status, {body}, "QUEUED")
    /\ d.flush = c.flush /\ d.expired = c.expired

LEMMA EnqueueExact ==
    ASSUME NEW c \in Clients, NEW body \in Messages \cup Control, NEW pid \in Nat,
           pid # 0 <=> body \in Reliables
    PROVE  \E e : Joins(c, e, body, pid) /\ Runs(e, Enqueue(c, body, pid))
<1> DEFINE p == [body |-> body, pid |-> pid, hdr |-> pid, sid |-> 0]
           q == Append(c.to_send, p)
           d == [c EXCEPT !.to_send = q]
           n == Notify(d, {body}, "QUEUED")
<1>1. p \in Packets
  BY DEF Packets
<1>2. q \in Seq(Packets)
  BY <1>1 DEF Clients
<1>3. Enqueue(c, body, pid) = MaybeSendMessage(n)
  BY DEF Enqueue
<1>4. "QUEUED" \in Statuses
  BY DEF Statuses
<1> HIDE DEF q
<1>5. /\ d \in Clients /\ d.to_send = q /\ d.to_resend = c.to_resend /\ d.keymap = c.keymap
      /\ d.storeq = c.storeq /\ d.ticks = c.ticks /\ d.out = c.out
      /\ d.status = c.status /\ d.flush = c.flush /\ d.expired = c.expired
  BY <1>2 DEF Clients
<1> HIDE DEF d
<1> DEFINE x == Reported(d.status, {body}, "QUEUED")
<1>6. n = [d EXCEPT !.status = x] /\ n \in Clients
  <2>1. d \in Clients
    BY <1>5
  <2>2. QED
    BY <1>4, <2>1, ReportedLemma, Zenon
<1> HIDE DEF n, x
<1>7. /\ n.to_send = q /\ n.to_resend = d.to_resend /\ n.keymap = d.keymap
      /\ n.storeq = d.storeq /\ n.ticks = d.ticks /\ n.out = d.out
      /\ n.status = x /\ n.flush = d.flush /\ n.expired = d.expired
  BY <1>5, <1>6 DEF Clients
<1>8. n.status = Reported(c.status, {body}, "QUEUED")
  BY <1>5, <1>7 DEF x
<1>9. Joins(c, n, body, pid)
  BY <1>5, <1>6, <1>7, <1>8 DEF Joins, q
<1>10. Runs(n, MaybeSendMessage(n))
  BY <1>6, MaybeSendExact
<1>11. QED
  BY <1>3, <1>9, <1>10


\* From c to d the message takes the place of the queued one with its key.
Replaces(c, d, body) ==
    LET pid == c.keymap[Key(body)]
        new(p) == IF p.pid = pid THEN [p EXCEPT !.body = body, !.hdr = pid] ELSE p
    IN  /\ d \in Clients /\ Key(body) \in Keys /\ pid # 0
        /\ d.to_send = [i \in 1..Len(c.to_send) |-> new(c.to_send[i])]
        /\ d.to_resend = c.to_resend /\ d.keymap = c.keymap
        /\ d.storeq = Append(c.storeq, Op("overwrite", {pid}, body, 0))
        /\ d.ticks = c.ticks /\ d.out = c.out /\ d.status = c.status
        /\ d.flush = c.flush /\ d.expired = c.expired

LEMMA CollapseExact ==
    ASSUME NEW c \in Clients, NEW body \in Reliables, Key(body) \in Keys, c.keymap[Key(body)] # 0
    PROVE  Replaces(c, Collapse(c, body), body)
<1> DEFINE pid == c.keymap[Key(body)]
           new(p) == IF p.pid = pid THEN [p EXCEPT !.body = body, !.hdr = pid] ELSE p
           q == [i \in 1..Len(c.to_send) |-> new(c.to_send[i])]
           d == [c EXCEPT !.to_send = q]
           o == Op("overwrite", {pid}, body, 0)
           e == Collapse(c, body)
<1>1. e \in Clients
  BY CollapseLemma DEF Sent
<1>2. e = Store(d, o)
  BY DEF Collapse
<1>3. o.ids # {}
  BY DEF Op
<1> HIDE DEF q, o
<1>4. /\ d.to_send = q /\ d.storeq = c.storeq /\ d.to_resend = c.to_resend
      /\ d.keymap = c.keymap /\ d.ticks = c.ticks /\ d.out = c.out /\ d.status = c.status
      /\ d.flush = c.flush /\ d.expired = c.expired /\ DOMAIN d = DOMAIN c
  BY DEF Clients
<1> DEFINE g == Append(d.storeq, o)
<1> HIDE DEF d
<1>5. e = [d EXCEPT !.storeq = g]
  BY <1>2, <1>3 DEF Store
<1> HIDE DEF g, e
<1>6. {"to_send", "to_resend", "keymap", "storeq", "ticks", "out", "status", "flush", "expired"}
          \subseteq DOMAIN d
  BY <1>4 DEF Clients
<1>7. /\ e.to_send = d.to_send /\ e.to_resend = d.to_resend /\ e.keymap = d.keymap
      /\ e.storeq = g /\ e.ticks = d.ticks /\ e.out = d.out /\ e.status = d.status
      /\ e.flush = d.flush /\ e.expired = d.expired
  BY <1>5, <1>6
<1>8. e.storeq = Append(c.storeq, o)
  BY <1>4, <1>7 DEF g
<1>9. e.to_send = q
  BY <1>4, <1>7
<1>10. Replaces(c, e, body)
  BY <1>1, <1>4, <1>7, <1>8, <1>9 DEF Replaces, q, o
<1>11. QED
  BY <1>10 DEF e

\* From c to d the message is refused.
Refuses(c, d, body) ==
    /\ d \in Clients
    /\ d.to_send = c.to_send /\ d.to_resend = c.to_resend /\ d.keymap = c.keymap
    /\ d.storeq = c.storeq /\ d.ticks \in {c.ticks, c.ticks + 1} /\ d.out = c.out
    /\ d.flush = c.flush /\ d.expired = c.expired
    /\ \E st \in Refusals \cup {"NO_CONNECTION_ON_ZERO_TTL"} :
           /\ d.status = Reported(c.status, {body}, st)
           /\ st = "NO_CONNECTION_ON_ZERO_TTL" => ~ IsReliable(body)

LEMMA RefuseExact ==
    ASSUME NEW c \in Clients, NEW body, NEW st \in Refusals \cup {"NO_CONNECTION_ON_ZERO_TTL"},
           st = "NO_CONNECTION_ON_ZERO_TTL" => ~ IsReliable(body),
           NEW t \in {c.ticks, c.ticks + 1}
    PROVE  Refuses(c, Notify([c EXCEPT !.ticks = t], {body}, st), body)
<1> DEFINE e == [c EXCEPT !.ticks = t]
           d == Notify(e, {body}, st)
<1>1. st \in Statuses
  BY DEF Statuses, Refusals
<1>2. t \in Nat
  BY DEF Clients
<1>3. /\ e \in Clients /\ e.to_send = c.to_send /\ e.to_resend = c.to_resend
      /\ e.keymap = c.keymap /\ e.storeq = c.storeq /\ e.ticks = t /\ e.out = c.out
      /\ e.status = c.status /\ e.flush = c.flush /\ e.expired = c.expired
  BY <1>2 DEF Clients
<1> HIDE DEF e
<1> DEFINE x == Reported(e.status, {body}, st)
<1>4. d = [e EXCEPT !.status = x] /\ d \in Clients
  <2>1. e \in Clients
    BY <1>3
  <2>2. QED
    BY <1>1, <2>1, ReportedLemma, Zenon
<1> HIDE DEF d, x
<1>5. /\ d.to_send = e.to_send /\ d.to_resend = e.to_resend /\ d.keymap = e.keymap
      /\ d.storeq = e.storeq /\ d.ticks = e.ticks /\ d.out = e.out /\ d.status = x
      /\ d.flush = e.flush /\ d.expired = e.expired
  BY <1>3, <1>4 DEF Clients
<1>6. d.status = Reported(c.status, {body}, st)
  BY <1>3, <1>5 DEF x
<1>7. Refuses(c, d, body)
  BY <1>3, <1>4, <1>5, <1>6 DEF Refuses
<1>8. QED
  BY <1>7 DEF d, e

\* From c to d a reliable message is queued and given to the store.
Queues(c, d, body) ==
    LET pid == c.ticks + 1
    IN  /\ d \in Clients
        /\ Key(body) # NoKey => c.keymap[Key(body)] = 0
        /\ d.to_send = Append(c.to_send, [body |-> body, pid |-> pid, hdr |-> pid, sid |-> 0])
        /\ d.to_resend = c.to_resend
        /\ d.keymap = [k \in Keys |-> IF k = Key(body) THEN pid ELSE c.keymap[k]]
        /\ d.storeq = Append(c.storeq, Op("addOut", {pid}, body, pid))
        /\ d.ticks = pid /\ d.out = c.out
        /\ d.status = Reported(c.status, {body}, "QUEUED")
        /\ d.flush = c.flush /\ d.expired = c.expired

LEMMA SendReliableExact ==
    ASSUME NEW c \in Clients, NEW body \in Reliables, NEW accepted \in BOOLEAN
    PROVE  LET d == SendReliable(c, body, accepted)
           IN  \/ Replaces(c, d, body)
               \/ Refuses(c, d, body)
               \/ \E e : Queues(c, e, body) /\ Runs(e, d)
<1> DEFINE key == Key(body)
           pid == c.ticks + 1
           d == [c EXCEPT !.ticks = pid]
<1>1. c.ticks \in Nat /\ pid \in Nat \ {0} /\ body \in Messages /\ key \in Keys \cup {NoKey}
  BY ClientAssumption DEF Clients, Reliables, Key
<1>2. CASE key # NoKey /\ c.keymap[key] # 0
  <2>1. SendReliable(c, body, accepted) = Collapse(c, body)
    BY <1>2 DEF SendReliable
  <2>2. QED
    BY <1>1, <1>2, <2>1, CollapseExact
<1>3. CASE ~ (key # NoKey /\ c.keymap[key] # 0) /\ ~ accepted
  <2>1. SendReliable(c, body, accepted) = Notify(d, {body}, "APP_QUEUE_SIZE_LIMIT_REACHED")
    BY <1>3 DEF SendReliable
  <2>2. "APP_QUEUE_SIZE_LIMIT_REACHED" \in Refusals \cup {"NO_CONNECTION_ON_ZERO_TTL"}
    BY DEF Refusals
  <2>3. Refuses(c, Notify(d, {body}, "APP_QUEUE_SIZE_LIMIT_REACHED"), body)
    BY <2>2, RefuseExact
  <2>4. QED
    BY <2>1, <2>3
<1>4. CASE ~ (key # NoKey /\ c.keymap[key] # 0) /\ accepted
  <2> DEFINE o == Op("addOut", {pid}, body, pid)
             s == Append(d.storeq, o)
             e == Store(d, o)
             m == [k \in Keys |-> IF k = key THEN pid ELSE e.keymap[k]]
             g == [e EXCEPT !.keymap = m]
  <2>1. SendReliable(c, body, accepted) = Enqueue(g, body, pid)
    BY <1>4 DEF SendReliable
  <2>2. o \in Ops /\ o.ids # {}
    BY <1>1 DEF WriteOps, OutOps, Ops, Op
  <2>3. /\ d \in Clients /\ d.to_send = c.to_send /\ d.to_resend = c.to_resend
        /\ d.keymap = c.keymap /\ d.storeq = c.storeq /\ d.ticks = pid /\ d.out = c.out
        /\ d.status = c.status /\ d.flush = c.flush /\ d.expired = c.expired
    BY <1>1 DEF Clients
  <2> HIDE DEF d, o, pid
  <2>4. e = [d EXCEPT !.storeq = s] /\ s \in Seq(Ops)
    BY SMTT(30), <2>2, <2>3 DEF Store, Clients
  <2> HIDE DEF e, s
  <2>5. /\ e \in Clients /\ e.to_send = d.to_send /\ e.to_resend = d.to_resend
        /\ e.keymap = d.keymap /\ e.storeq = s /\ e.ticks = d.ticks /\ e.out = d.out
        /\ e.status = d.status /\ e.flush = d.flush /\ e.expired = d.expired
    BY <2>3, <2>4 DEF Clients
  <2>6. m \in [Keys -> Nat] /\ m = [k \in Keys |-> IF k = key THEN pid ELSE c.keymap[k]]
    BY <1>1, <2>3, <2>5 DEF Clients
  <2> HIDE DEF m
  <2>7. /\ g \in Clients /\ g.to_send = e.to_send /\ g.to_resend = e.to_resend
        /\ g.keymap = m /\ g.storeq = e.storeq /\ g.ticks = e.ticks /\ g.out = e.out
        /\ g.status = e.status /\ g.flush = e.flush /\ g.expired = e.expired
    BY <2>5, <2>6 DEF Clients
  <2> HIDE DEF g
  <2>8. PICK z : Joins(g, z, body, pid) /\ Runs(z, Enqueue(g, body, pid))
    BY <1>1, <2>7, EnqueueExact
  <2>9. g.storeq = Append(c.storeq, o)
    BY <2>3, <2>5, <2>7 DEF s
  <2>10. Key(body) # NoKey => c.keymap[Key(body)] = 0
    BY <1>4
  <2>11. /\ z.keymap = [k \in Keys |-> IF k = Key(body) THEN pid ELSE c.keymap[k]]
         /\ z.storeq = Append(c.storeq, Op("addOut", {pid}, body, pid))
    BY <2>6, <2>7, <2>8, <2>9 DEF Joins, o
  <2>12. /\ z \in Clients
         /\ z.to_send = Append(c.to_send, [body |-> body, pid |-> pid, hdr |-> pid, sid |-> 0])
         /\ z.to_resend = c.to_resend /\ z.ticks = pid /\ z.out = c.out
         /\ z.status = Reported(c.status, {body}, "QUEUED")
         /\ z.flush = c.flush /\ z.expired = c.expired
    BY <2>3, <2>5, <2>7, <2>8 DEF Joins
  <2>13. Queues(c, z, body)
    BY <2>10, <2>11, <2>12 DEF Queues, pid
  <2>14. QED
    BY <2>1, <2>8, <2>13
<1>5. QED
  BY <1>2, <1>3, <1>4

\* What sending a message may do.
Submits(c, d, body) ==
    \/ IsReliable(body) /\ Replaces(c, d, body)
    \/ Refuses(c, d, body)
    \/ IsReliable(body) /\ \E e : Queues(c, e, body) /\ Runs(e, d)
    \/ ~ IsReliable(body) /\ \E e : Joins(c, e, body, 0) /\ Runs(e, d)

LEMMA SendMessageExact ==
    ASSUME NEW c \in Clients, NEW body \in Messages \cup Control, NEW accepted \in BOOLEAN
    PROVE  Submits(c, SendMessage(c, body, accepted), body)
<1>1. c = [c EXCEPT !.ticks = c.ticks]
  BY DEF Clients
<1>2. ASSUME NEW st \in Refusals \cup {"NO_CONNECTION_ON_ZERO_TTL"},
             st = "NO_CONNECTION_ON_ZERO_TTL" => ~ IsReliable(body)
      PROVE  Refuses(c, Notify(c, {body}, st), body)
  <2>1. Refuses(c, Notify([c EXCEPT !.ticks = c.ticks], {body}, st), body)
    BY <1>2, RefuseExact
  <2>2. QED
    BY <1>1, <2>1
<1>3. CASE Len(c.to_send) > MaxSendQueue
  <2>1. SendMessage(c, body, accepted) = Notify(c, {body}, "QUEUE_SIZE_LIMIT_REACHED")
    BY <1>3 DEF SendMessage
  <2>2. QED
    BY <1>2, <2>1 DEF Submits, Refusals
<1>4. CASE ~ (Len(c.to_send) > MaxSendQueue) /\ body \in Oversized
  <2>1. SendMessage(c, body, accepted) = Notify(c, {body}, "MESSAGE_TOO_LARGE")
    BY <1>4 DEF SendMessage
  <2>2. QED
    BY <1>2, <2>1 DEF Submits, Refusals
<1>5. CASE ~ (Len(c.to_send) > MaxSendQueue) /\ body \notin Oversized /\ IsReliable(body)
  <2>1. SendMessage(c, body, accepted) = SendReliable(c, body, accepted)
    BY <1>5 DEF SendMessage
  <2>2. body \in Reliables
    BY <1>5 DEF IsReliable, Reliables
  <2>3. QED
    BY <1>5, <2>1, <2>2, SendReliableExact DEF Submits
<1>6. CASE /\ ~ (Len(c.to_send) > MaxSendQueue) /\ body \notin Oversized
           /\ ~ IsReliable(body) /\ ~ Reachable(c)
  <2>1. SendMessage(c, body, accepted) = Notify(c, {body}, "NO_CONNECTION_ON_ZERO_TTL")
    BY <1>6 DEF SendMessage
  <2>2. QED
    BY <1>2, <1>6, <2>1 DEF Submits
<1>7. CASE /\ ~ (Len(c.to_send) > MaxSendQueue) /\ body \notin Oversized
           /\ ~ IsReliable(body) /\ Reachable(c)
  <2>1. SendMessage(c, body, accepted) = Enqueue(c, body, 0)
    BY <1>7 DEF SendMessage
  <2>2. body \notin Reliables
    BY <1>7 DEF IsReliable, Reliables
  <2>3. QED
    BY <1>7, <2>1, <2>2, EnqueueExact DEF Submits
<1>8. QED
  BY <1>3, <1>4, <1>5, <1>6, <1>7


\* The packets of the queue that are worth sending on a new connection, by their
\* bodies, and the places of the others.
Worth(c, queue) == {b \in Bodies(queue) : IsReliable(b) /\ ~ HasTTLExpired(c, b)}

Dropped(c, queue) == {i \in 1..Len(queue) : queue[i].body \notin Worth(c, queue)}

\* From c to d the stream starts over, with what is left of the queue.
StartsOver(c, d, queue) ==
    /\ d \in Clients
    /\ d.to_send = WithBody(queue, Worth(c, queue)) /\ d.to_resend = << >>
    /\ d.keymap = [k \in Keys |-> IF \E b \in Bodies(queue) : Key(b) = k THEN 0 ELSE c.keymap[k]]
    /\ d.storeq = Given(c.storeq, RemoveOutgoing({queue[i].pid : i \in Dropped(c, queue)} \ {0}))
    /\ d.ticks = c.ticks /\ d.out = 1
    /\ d.status = Reported(c.status, {queue[i].body : i \in Dropped(c, queue)}, "TTL_EXCEEDED")
    /\ d.flush = << >> /\ d.expired = c.expired

LEMMA StartOverExact ==
    ASSUME NEW c \in Clients, NEW queue \in Seq(Packets)
    PROVE  StartsOver(c, StartOver(c, queue), queue)
<1> DEFINE kept == WithBody(queue, Worth(c, queue))
           m == [k \in Keys |-> IF \E b \in Bodies(queue) : Key(b) = k THEN 0 ELSE c.keymap[k]]
           a == {[sid |-> 1, id |-> i] : i \in TrackedIds(c)}
           d == [c EXCEPT !.in = 0, !.out = 1, !.last_in = 0, !.unacked = << >>, !.acked = a,
                          !.restored = {}, !.to_resend = << >>, !.to_send = kept, !.keymap = m,
                          !.state = "CONNECTING", !.conn = "handshake", !.flush = << >>]
           told == {queue[i].body : i \in Dropped(c, queue)}
           o == RemoveOutgoing({queue[i].pid : i \in Dropped(c, queue)} \ {0})
           n == Notify(d, told, "TTL_EXCEEDED")
           e == Store(n, o)
<1>1. StartOver(c, queue) = e
  BY DEF StartOver, Worth, Dropped
<1>2. e \in Clients
  BY <1>1, StartOverLemma DEF Restarted
<1>3. kept \in Seq(Packets)
  BY WithBodyLemma
<1>4. m \in [Keys -> Nat]
  BY DEF Clients
<1>5. a \in SUBSET [sid : Nat, id : ServerIds]
  BY TrackedType
<1>6. o \in Ops /\ "TTL_EXCEEDED" \in Statuses
  <2>1. \A i \in 1..Len(queue) : queue[i].pid \in Nat
    BY DEF Packets
  <2>2. QED
    BY <2>1 DEF Ops, OutOps, RemoveOps, RemoveOutgoing, Op, Statuses, Dropped
<1> HIDE DEF kept, m, a, o, told
<1>7. /\ d \in Clients /\ d.storeq = c.storeq /\ d.ticks = c.ticks /\ d.expired = c.expired
      /\ d.status = c.status /\ d.to_send = kept /\ d.to_resend = << >> /\ d.keymap = m
      /\ d.out = 1 /\ d.flush = << >>
  <2> DEFINE d1 == [c EXCEPT !.in = 0, !.out = 1, !.last_in = 0, !.unacked = << >>, !.acked = a,
                             !.restored = {}]
             d2 == [d1 EXCEPT !.to_resend = << >>, !.to_send = kept, !.keymap = m,
                              !.state = "CONNECTING", !.conn = "handshake", !.flush = << >>]
  <2>1. << >> \in Seq(ServerIds) /\ << >> \in Seq(Packets)
    OBVIOUS
  <2>2. /\ d1 \in Clients /\ d1.storeq = c.storeq /\ d1.ticks = c.ticks
        /\ d1.expired = c.expired /\ d1.status = c.status /\ d1.out = 1
    BY <1>5, <2>1 DEF Clients
  <2>3. d = d2
    BY DEF Clients
  <2> HIDE DEF d, d1
  <2>4. /\ d2 \in Clients /\ d2.storeq = d1.storeq /\ d2.ticks = d1.ticks
        /\ d2.expired = d1.expired /\ d2.status = d1.status /\ d2.out = d1.out
        /\ d2.to_send = kept /\ d2.to_resend = << >> /\ d2.keymap = m /\ d2.flush = << >>
    BY <1>3, <1>4, <2>1, <2>2 DEF Clients
  <2>5. QED
    BY <2>2, <2>3, <2>4
<1> HIDE DEF d
<1> DEFINE x == Reported(d.status, told, "TTL_EXCEEDED")
<1>8. n = [d EXCEPT !.status = x] /\ n \in Clients
  <2>1. d \in Clients
    BY <1>7
  <2>2. QED
    BY <1>6, <2>1, ReportedLemma, Zenon
<1> HIDE DEF n, x
<1>9. /\ n.storeq = d.storeq /\ n.ticks = d.ticks /\ n.expired = d.expired /\ n.status = x
      /\ n.to_send = d.to_send /\ n.to_resend = d.to_resend /\ n.keymap = d.keymap
      /\ n.out = d.out /\ n.flush = d.flush
  BY <1>7, <1>8 DEF Clients
<1> DEFINE g == Given(n.storeq, o)
<1>10. e = [n EXCEPT !.storeq = g]
  BY <1>6, <1>8, GivenLemma
<1> HIDE DEF e, g
<1>11. /\ e.storeq = g /\ e.ticks = n.ticks /\ e.expired = n.expired /\ e.status = n.status
       /\ e.to_send = n.to_send /\ e.to_resend = n.to_resend /\ e.keymap = n.keymap
       /\ e.out = n.out /\ e.flush = n.flush
  BY <1>8, <1>10 DEF Clients
<1>12. e.storeq = Given(c.storeq, o) /\ e.status = Reported(c.status, told, "TTL_EXCEEDED")
  BY <1>7, <1>9, <1>11 DEF g, x
<1>13. /\ e.ticks = c.ticks /\ e.expired = c.expired /\ e.to_send = kept
       /\ e.to_resend = << >> /\ e.keymap = m /\ e.out = 1 /\ e.flush = << >>
  BY <1>7, <1>9, <1>11
<1>14. StartsOver(c, e, queue)
  BY <1>2, <1>12, <1>13 DEF StartsOver, kept, m, o, told
<1>15. QED
  BY <1>1, <1>14

\* From c to d the store is given an operation about incoming messages.
Notes(c, d) ==
    /\ d \in Clients
    /\ d.to_send = c.to_send /\ d.to_resend = c.to_resend /\ d.keymap = c.keymap
    /\ \E o \in InOps : d.storeq = Given(c.storeq, o)
    /\ d.ticks = c.ticks /\ d.out = c.out
    /\ d.status = c.status /\ d.flush = c.flush /\ d.expired = c.expired

LEMMA ConfirmExact ==
    ASSUME NEW c \in Clients, NEW last
    PROVE  Notes(c, HandleServerConfirmedReceipt(c, last))
<1> DEFINE confirmed == {x \in c.acked : x.sid <= last}
           a == c.acked \ confirmed
           o == Op("removeIn", ConfirmedIds(c, last), NoKey, 0)
           d == [c EXCEPT !.acked = a]
           e == Store(d, o)
<1>1. HandleServerConfirmedReceipt(c, last) = e
  BY DEF HandleServerConfirmedReceipt, ConfirmedIds
<1>2. c.acked \in SUBSET [sid : Nat, id : ServerIds] /\ a \in SUBSET [sid : Nat, id : ServerIds]
  BY DEF Clients
<1>3. ConfirmedIds(c, last) \subseteq ServerIds
  BY <1>2 DEF ConfirmedIds
<1>4. o \in InOps /\ o \in Ops
  BY <1>3 DEF InOps, Ops, Op
<1> HIDE DEF a, o
<1>5. /\ d \in Clients /\ d.to_send = c.to_send /\ d.to_resend = c.to_resend
      /\ d.keymap = c.keymap /\ d.storeq = c.storeq /\ d.ticks = c.ticks /\ d.out = c.out
      /\ d.status = c.status /\ d.flush = c.flush /\ d.expired = c.expired
  BY <1>2 DEF Clients
<1> HIDE DEF d
<1> DEFINE g == Given(d.storeq, o)
<1>6. e = [d EXCEPT !.storeq = g] /\ e \in Clients
  BY <1>4, <1>5, GivenLemma
<1> HIDE DEF e, g
<1>7. /\ e.to_send = d.to_send /\ e.to_resend = d.to_resend
      /\ e.keymap = d.keymap /\ e.storeq = g /\ e.ticks = d.ticks /\ e.out = d.out
      /\ e.status = d.status /\ e.flush = d.flush /\ e.expired = d.expired
  BY <1>5, <1>6 DEF Clients
<1>8. e.storeq = Given(c.storeq, o)
  BY <1>5, <1>7 DEF g
<1>9. Notes(c, e)
  BY <1>4, <1>5, <1>6, <1>7, <1>8 DEF Notes
<1>10. QED
  BY <1>1, <1>9

\* From c to d the first packets awaiting an acknowledgement have it: their
\* stream ids are up to last.
StreamAcked(c, d, last) ==
    \E done, rest \in Seq(Packets) :
        /\ c.to_resend = done \o rest
        /\ \A i \in 1..Len(done) : done[i].sid <= last
        /\ d \in Clients
        /\ d.to_send = c.to_send /\ d.to_resend = rest /\ d.keymap = c.keymap
        /\ d.storeq = Given(c.storeq, RemoveOutgoing(Pids(done)))
        /\ d.ticks = c.ticks /\ d.out = c.out
        /\ d.status = Reported(c.status, Bodies(done), "SENT")
        /\ d.flush = c.flush /\ d.expired = c.expired

LEMMA RemoveType ==
    ASSUME NEW s \in Seq(Packets)
    PROVE  RemoveOutgoing(Pids(s)) \in Ops /\ RemoveOutgoing(Pids(s)).ids = Pids(s)
<1>1. \A i \in 1..Len(s) : s[i].pid \in Nat
  BY DEF Packets
<1>2. Pids(s) \subseteq Nat
  BY <1>1 DEF Pids
<1>3. QED
  BY <1>2 DEF Ops, OutOps, RemoveOps, RemoveOutgoing, Op

LEMMA StreamAckExact ==
    ASSUME NEW c \in Clients, NEW last
    PROVE  \E e : StreamAcked(c, e, last) /\ Notes(e, HandleStreamAck(c, last))
<1> DEFINE k == Acknowledged(c.to_resend, last)
           done == SubSeq(c.to_resend, 1, k)
           r == SubSeq(c.to_resend, k + 1, Len(c.to_resend))
           d == [c EXCEPT !.to_resend = r]
           o == RemoveOutgoing(Pids(done))
           n == Notify(d, Bodies(done), "SENT")
           e == Store(n, o)
<1>1. HandleStreamAck(c, last) = HandleServerConfirmedReceipt(e, last)
  BY DEF HandleStreamAck
<1>2. c.to_resend \in Seq(Packets)
  BY DEF Clients
<1>3. k \in 0..Len(c.to_resend) /\ \A i \in 1..k : c.to_resend[i].sid <= last
  BY <1>2, AcknowledgedLemma
<1> HIDE DEF k
<1>4. done \in Seq(Packets) /\ r \in Seq(Packets)
  BY <1>2, <1>3, PartLemma
<1>5. c.to_resend = done \o r
  BY <1>2, <1>3, SplitLemma
<1>6. \A i \in 1..Len(done) : done[i].sid <= last
  <2>1. done = [i \in 1..k |-> c.to_resend[i]]
    BY <1>3 DEF SubSeq
  <2>2. DOMAIN done = 1..k
    BY <2>1
  <2> HIDE DEF done
  <2>3. 1..Len(done) = 1..k
    BY <1>4, <2>2, LenProperties
  <2>4. QED
    BY <1>3, <2>1, <2>3
<1> HIDE DEF done, r
<1>7. o \in Ops /\ "SENT" \in Statuses
  BY <1>4, RemoveType DEF Statuses
<1> HIDE DEF o
<1>8. /\ d \in Clients /\ d.to_send = c.to_send /\ d.to_resend = r
      /\ d.keymap = c.keymap /\ d.storeq = c.storeq /\ d.ticks = c.ticks /\ d.out = c.out
      /\ d.status = c.status /\ d.flush = c.flush /\ d.expired = c.expired
  BY <1>4 DEF Clients
<1> HIDE DEF d
<1> DEFINE x == Reported(d.status, Bodies(done), "SENT")
<1>9. n = [d EXCEPT !.status = x] /\ n \in Clients
  <2>1. d \in Clients
    BY <1>8
  <2>2. QED
    BY <1>7, <2>1, ReportedLemma, Zenon
<1> HIDE DEF n, x
<1>10. /\ n.to_send = d.to_send /\ n.to_resend = d.to_resend
       /\ n.keymap = d.keymap /\ n.storeq = d.storeq /\ n.ticks = d.ticks /\ n.out = d.out
       /\ n.status = x /\ n.flush = d.flush /\ n.expired = d.expired
  BY <1>8, <1>9 DEF Clients
<1> DEFINE g == Given(n.storeq, o)
<1>11. e = [n EXCEPT !.storeq = g] /\ e \in Clients
  BY <1>7, <1>9, GivenLemma
<1> HIDE DEF e, g
<1>12. /\ e.to_send = n.to_send /\ e.to_resend = n.to_resend
       /\ e.keymap = n.keymap /\ e.storeq = g /\ e.ticks = n.ticks /\ e.out = n.out
       /\ e.status = n.status /\ e.flush = n.flush /\ e.expired = n.expired
  BY <1>9, <1>11 DEF Clients
<1>13. e.storeq = Given(c.storeq, o) /\ e.status = Reported(c.status, Bodies(done), "SENT")
  BY <1>8, <1>10, <1>12 DEF g, x
<1>14. /\ e.to_send = c.to_send /\ e.to_resend = r /\ e.keymap = c.keymap /\ e.ticks = c.ticks
       /\ e.out = c.out /\ e.flush = c.flush /\ e.expired = c.expired
  BY <1>8, <1>10, <1>12
<1>15. StreamAcked(c, e, last)
  BY <1>4, <1>5, <1>6, <1>11, <1>13, <1>14 DEF StreamAcked, o
<1>16. Notes(e, HandleServerConfirmedReceipt(e, last))
  BY <1>11, ConfirmExact
<1>17. QED
  BY <1>1, <1>15, <1>16

\* Every packet of s is named in ids.
Among(s, ids) == \A i \in 1..Len(s) : s[i].pid \in ids

\* From c to d the packets named at the front of both queues have arrived, and the
\* others go back to be sent.
Settles(c, d, ids) ==
    \E first, back, second, left \in Seq(Packets) :
        /\ c.to_resend = first \o back /\ c.to_send = second \o left
        /\ Pids(first) \cup Pids(second) \subseteq ids
        /\ Among(first, ids) /\ Among(second, ids)
        /\ d \in Clients
        /\ d.to_send = back \o left /\ d.to_resend = << >>
        /\ d.keymap = [key \in Keys |-> IF \E b \in Bodies(second) : Key(b) = key THEN 0
                                        ELSE c.keymap[key]]
        /\ \E o \in InOps :
               d.storeq = Given(Given(c.storeq, o), RemoveOutgoing(Pids(first \o second)))
        /\ d.ticks = c.ticks /\ d.out = c.out
        /\ d.status = Reported(c.status, Bodies(first \o second), "SENT")
        /\ d.flush = c.flush /\ d.expired = c.expired

\* The named packets at the front of a queue.
LEMMA NamedPart ==
    ASSUME NEW s \in Seq(Packets), NEW ids
    PROVE  LET n == Named(s, ids)
               a == SubSeq(s, 1, n)
               b == SubSeq(s, n + 1, Len(s))
           IN  a \in Seq(Packets) /\ b \in Seq(Packets) /\ s = a \o b /\ Pids(a) \subseteq ids
               /\ Among(a, ids)
<1> DEFINE n == Named(s, ids)
           a == SubSeq(s, 1, n)
<1>1. n \in 0..Len(s) /\ \A i \in 1..n : s[i].pid \in ids
  BY NamedLemma
<1> HIDE DEF n
<1>2. a \in Seq(Packets) /\ SubSeq(s, n + 1, Len(s)) \in Seq(Packets)
  BY <1>1, PartLemma
<1>3. s = a \o SubSeq(s, n + 1, Len(s))
  BY <1>1, SplitLemma
<1>4. Pids(a) \subseteq ids /\ Among(a, ids)
  <2>1. a = [i \in 1..n |-> s[i]]
    BY <1>1 DEF SubSeq
  <2>2. DOMAIN a = 1..n
    BY <2>1
  <2> HIDE DEF a
  <2>3. 1..Len(a) = 1..n
    BY <1>2, <2>2, LenProperties
  <2>4. QED
    BY <1>1, <2>1, <2>3 DEF Pids, Among
<1>5. QED
  BY <1>2, <1>3, <1>4 DEF n

LEMMA SelectiveAckExact ==
    ASSUME NEW c \in Clients, NEW ids
    PROVE  Settles(c, HandleSelectiveAck(c, ids), ids)
<1> DEFINE k == Named(c.to_resend, ids)
           first == SubSeq(c.to_resend, 1, k)
           back == SubSeq(c.to_resend, k + 1, Len(c.to_resend))
           rest == ids \ Pids(first)
           j == Named(c.to_send, rest)
           second == SubSeq(c.to_send, 1, j)
           left == SubSeq(c.to_send, j + 1, Len(c.to_send))
           done == first \o second
           m == [key \in Keys |-> IF \E b \in Bodies(second) : Key(b) = key THEN 0
                                  ELSE c.keymap[key]]
           d == [c EXCEPT !.to_resend = << >>, !.to_send = back \o left, !.keymap = m,
                          !.posted = c.posted + 1]
           n == Notify(d, Bodies(done), "SENT")
           e == HandleServerConfirmedReceipt(n, LastStreamId(done))
           o == RemoveOutgoing(Pids(done))
           h == Store(e, o)
<1>1. HandleSelectiveAck(c, ids) = h
  BY DEF HandleSelectiveAck
<1>2. /\ c.to_resend \in Seq(Packets) /\ c.to_send \in Seq(Packets) /\ c.posted \in Nat
      /\ c.keymap \in [Keys -> Nat] /\ c.posted + 1 \in Nat
  BY DEF Clients
<1>3. /\ first \in Seq(Packets) /\ back \in Seq(Packets) /\ c.to_resend = first \o back
      /\ Pids(first) \subseteq ids /\ Among(first, ids)
  BY <1>2, NamedPart
<1> HIDE DEF first, back
<1>4. /\ second \in Seq(Packets) /\ left \in Seq(Packets) /\ c.to_send = second \o left
      /\ Pids(second) \subseteq rest /\ Among(second, rest)
  <2> HIDE DEF rest
  <2>1. QED
    BY <1>2, NamedPart
<1>5. /\ Pids(first) \cup Pids(second) \subseteq ids
      /\ Among(first, ids) /\ Among(second, ids)
  BY <1>3, <1>4 DEF Among
<1>6. m \in [Keys -> Nat]
  BY <1>2
<1> HIDE DEF second, left, m
<1>7. done \in Seq(Packets) /\ back \o left \in Seq(Packets) /\ << >> \in Seq(Packets)
  BY <1>3, <1>4
<1>8. o \in Ops /\ "SENT" \in Statuses
  <2> HIDE DEF done
  <2>1. QED
    BY <1>7, RemoveType DEF Statuses
<1> DEFINE q == back \o left
<1> HIDE DEF done, o, q
<1>9. /\ d \in Clients /\ d.to_send = q /\ d.to_resend = << >>
      /\ d.keymap = m /\ d.storeq = c.storeq /\ d.ticks = c.ticks /\ d.out = c.out
      /\ d.status = c.status /\ d.flush = c.flush /\ d.expired = c.expired
  BY <1>2, <1>6, <1>7 DEF Clients, q
<1> HIDE DEF d
<1> DEFINE x == Reported(d.status, Bodies(done), "SENT")
<1>10. n = [d EXCEPT !.status = x] /\ n \in Clients
  <2>1. d \in Clients
    BY <1>9
  <2>2. QED
    BY <1>8, <2>1, ReportedLemma, Zenon
<1> HIDE DEF n, x
<1>11. /\ n.to_send = d.to_send /\ n.to_resend = d.to_resend
       /\ n.keymap = d.keymap /\ n.storeq = d.storeq /\ n.ticks = d.ticks /\ n.out = d.out
       /\ n.status = x /\ n.flush = d.flush /\ n.expired = d.expired
  BY <1>9, <1>10 DEF Clients
<1>12. Notes(n, e)
  BY <1>10, ConfirmExact
<1> HIDE DEF e
<1>13. PICK p \in InOps : e.storeq = Given(n.storeq, p)
  BY <1>12 DEF Notes
<1>14. e \in Clients
  BY <1>12 DEF Notes
<1> DEFINE g == Given(e.storeq, o)
<1>15. h = [e EXCEPT !.storeq = g] /\ h \in Clients
  BY <1>8, <1>14, GivenLemma
<1> HIDE DEF h, g
<1>16. /\ h.to_send = e.to_send /\ h.to_resend = e.to_resend
       /\ h.keymap = e.keymap /\ h.storeq = g /\ h.ticks = e.ticks /\ h.out = e.out
       /\ h.status = e.status /\ h.flush = e.flush /\ h.expired = e.expired
  BY <1>14, <1>15 DEF Clients
<1>17. /\ h.storeq = Given(Given(c.storeq, p), o)
       /\ h.status = Reported(c.status, Bodies(done), "SENT")
  BY <1>9, <1>11, <1>12, <1>13, <1>16 DEF g, x, Notes
<1>18. /\ h.to_send = q /\ h.to_resend = << >> /\ h.keymap = m /\ h.ticks = c.ticks
       /\ h.out = c.out /\ h.flush = c.flush /\ h.expired = c.expired
  BY <1>9, <1>11, <1>12, <1>16 DEF Notes
<1>19. /\ h.storeq = Given(Given(c.storeq, p), RemoveOutgoing(Pids(first \o second)))
       /\ h.status = Reported(c.status, Bodies(first \o second), "SENT")
       /\ h.to_send = back \o left
  BY <1>17, <1>18 DEF o, done, q
<1>20. \E z \in InOps :
           h.storeq = Given(Given(c.storeq, z), RemoveOutgoing(Pids(first \o second)))
  BY <1>19
<1>21. h.keymap = [key \in Keys |-> IF \E b \in Bodies(second) : Key(b) = key THEN 0
                                    ELSE c.keymap[key]]
  BY <1>18 DEF m
<1>22. Settles(c, h, ids)
  BY <1>3, <1>4, <1>5, <1>15, <1>18, <1>19, <1>20, <1>21 DEF Settles
<1>23. QED
  BY <1>1, <1>22

\* From c to d the queues stay as they are; a packet being flushed is lost only with
\* the connection.
Rests(c, d) ==
    /\ d \in Clients
    /\ d.to_send = c.to_send /\ d.to_resend = c.to_resend /\ d.keymap = c.keymap
    /\ d.storeq = c.storeq /\ d.ticks = c.ticks /\ d.out = c.out
    /\ d.status = c.status /\ d.expired = c.expired
    /\ \/ d.flush = c.flush
       \/ d.flush = << >> /\ d.conn = "down"

\* From c to g a packet is counted.
Counts(c, packet, g) ==
    \E d, e : /\ IF packet.last # 0
                 THEN \E z : StreamAcked(c, z, packet.last) /\ Notes(z, d) ELSE d = c
              /\ Notes(d, e)
              /\ g = e \/ Submits(e, g, "StreamAck")

LEMMA CountPacketExact ==
    ASSUME NEW c \in Clients, NEW packet \in FromServer
    PROVE  Counts(c, packet, CountPacket(c, packet))
<1> DEFINE d == IF packet.last # 0 THEN HandleStreamAck(c, packet.last) ELSE c
           e == [d EXCEPT !.in = d.in + 1]
           o == Op("addIn", {packet.id}, NoKey, 0)
           u == Append(d.unacked, packet.id)
           f == IF packet.id = 0 THEN e ELSE Store([e EXCEPT !.unacked = u], o)
           g == IF packet.imm \/ (Len(f.unacked) > 0 /\ Len(f.unacked) % AckEvery = 0)
                THEN SendControl(f, "StreamAck") ELSE f
<1>1. /\ IF packet.last # 0 THEN \E z : StreamAcked(c, z, packet.last) /\ Notes(z, d) ELSE d = c
      /\ d \in Clients
  <2>1. CASE packet.last # 0
    <3>1. \E z : StreamAcked(c, z, packet.last) /\ Notes(z, d)
      BY <2>1, StreamAckExact
    <3> HIDE DEF d
    <3>2. QED
      BY <2>1, <3>1 DEF Notes
  <2>2. CASE packet.last = 0
    BY <2>2
  <2>3. QED
    BY <2>1, <2>2
<1>2. CountPacket(c, packet) = g
  <2>1. e.unacked = d.unacked
    <3> HIDE DEF d
    <3>1. QED
      BY <1>1 DEF Clients
  <2>2. QED
    BY <2>1 DEF CountPacket
<1> HIDE DEF d
<1>3. d.in + 1 \in Nat /\ d.unacked \in Seq(ServerIds) /\ d.storeq \in Seq(Ops)
  BY <1>1, SMTT(30) DEF Clients
<1>4. Notes(d, f)
  <2>1. CASE packet.id = 0
    <3> DEFINE z == Op("addIn", {}, NoKey, 0)
    <3>1. f = e
      BY <2>1
    <3>2. /\ e \in Clients /\ e.to_send = d.to_send /\ e.to_resend = d.to_resend
          /\ e.keymap = d.keymap /\ e.storeq = d.storeq /\ e.ticks = d.ticks /\ e.out = d.out
          /\ e.status = d.status /\ e.flush = d.flush /\ e.expired = d.expired
      BY <1>1, <1>3 DEF Clients
    <3>3. z \in InOps /\ d.storeq = Given(d.storeq, z)
      BY DEF InOps, Op, Given
    <3> HIDE DEF e, z
    <3>4. QED
      BY <3>1, <3>2, <3>3 DEF Notes
  <2>2. CASE packet.id # 0
    <3> DEFINE h == [e EXCEPT !.unacked = u]
    <3>1. packet.id \in ServerIds
      BY <2>2 DEF FromServer
    <3>2. u \in Seq(ServerIds)
      BY <1>3, <3>1
    <3>3. o \in InOps /\ o \in Ops
      BY <3>1 DEF InOps, Ops, Op
    <3> HIDE DEF u, o
    <3>4. /\ h \in Clients /\ h.to_send = d.to_send /\ h.to_resend = d.to_resend
          /\ h.keymap = d.keymap /\ h.storeq = d.storeq /\ h.ticks = d.ticks /\ h.out = d.out
          /\ h.status = d.status /\ h.flush = d.flush /\ h.expired = d.expired
      BY <1>1, <1>3, <3>2 DEF Clients
    <3>5. f = Store(h, o)
      BY <2>2
    <3> HIDE DEF h, e, f
    <3> DEFINE q == Given(h.storeq, o)
    <3>6. f = [h EXCEPT !.storeq = q] /\ f \in Clients
      BY <3>3, <3>4, <3>5, GivenLemma
    <3> HIDE DEF q
    <3>7. /\ f.to_send = h.to_send /\ f.to_resend = h.to_resend
          /\ f.keymap = h.keymap /\ f.storeq = q /\ f.ticks = h.ticks /\ f.out = h.out
          /\ f.status = h.status /\ f.flush = h.flush /\ f.expired = h.expired
      BY <3>4, <3>6 DEF Clients
    <3>8. f.storeq = Given(d.storeq, o)
      BY <3>4, <3>7 DEF q
    <3>9. QED
      BY <3>3, <3>4, <3>6, <3>7, <3>8 DEF Notes
  <2>3. QED
    BY <2>1, <2>2
<1> HIDE DEF f
<1>5. g = f \/ Submits(f, g, "StreamAck")
  <2>1. f \in Clients
    BY <1>4 DEF Notes
  <2>2. "StreamAck" \in Messages \cup Control /\ TRUE \in BOOLEAN
    BY DEF Control
  <2>3. Submits(f, SendControl(f, "StreamAck"), "StreamAck")
    BY <2>1, <2>2, SendMessageExact DEF SendControl
  <2>4. QED
    BY <2>3
<1> HIDE DEF g
<1>6. QED
  BY <1>1, <1>2, <1>4, <1>5 DEF Counts

\* From c to h a packet is handled: counted, and then by its type.
Handles(c, packet, h) ==
    \E g \in Clients :
        /\ Counts(c, packet, g)
        /\ \/ Rests(g, h)
           \/ \E body \in Control : Submits(g, h, body)
           \/ packet.tag = "SelectiveAck" /\ Settles(g, h, packet.ids)

LEMMA HandlePacketExact ==
    ASSUME NEW c \in Clients, NEW packet \in FromServer
    PROVE  Handles(c, packet, HandlePacketFromWire(c, packet))
<1> DEFINE g == CountPacket(c, packet)
           h == HandlePacketFromWire(c, packet)
<1>1. Counts(c, packet, g)
  BY CountPacketExact
<1>2. g \in Clients
  BY CountPacketLemma DEF Counted, Sent
<1> HIDE DEF g
<1>3. packet.tag \in Tags
  BY DEF FromServer
<1>4. ASSUME NEW body \in Control PROVE Submits(g, SendControl(g, body), body)
  BY <1>2, SendMessageExact DEF SendControl
<1>5. SUFFICES \/ Rests(g, h)
               \/ \E body \in Control : Submits(g, h, body)
               \/ packet.tag = "SelectiveAck" /\ Settles(g, h, packet.ids)
  BY <1>1, <1>2 DEF Handles
<1>6. ASSUME NEW st \in {"UNINITIALIZED", "LOADED"}
      PROVE  Rests(g, SignalConnectionReset([g EXCEPT !.state = st]))
  <2> DEFINE d == [g EXCEPT !.state = st, !.conn = "down", !.flush = << >>]
  <2>1. SignalConnectionReset([g EXCEPT !.state = st]) = d
    BY DEF SignalConnectionReset
  <2>2. /\ d \in Clients /\ d.to_send = g.to_send /\ d.to_resend = g.to_resend
        /\ d.keymap = g.keymap /\ d.storeq = g.storeq /\ d.ticks = g.ticks /\ d.out = g.out
        /\ d.status = g.status /\ d.flush = << >> /\ d.expired = g.expired
        /\ d.conn = "down"
    BY <1>2 DEF Clients
  <2> HIDE DEF d
  <2>3. QED
    BY <2>1, <2>2 DEF Rests
<1>7. CASE packet.tag = "LoginResponse"
  <2> DEFINE p == IF g.to_send = << >> THEN g.posted ELSE g.posted + 1
             d == [g EXCEPT !.state = "CONNECTED", !.in = 1, !.posted = p]
  <2>1. h = d
    BY <1>7 DEF HandlePacketFromWire, HandleLoginResponse, g
  <2>2. p \in Nat
    BY SMTT(30), <1>2 DEF Clients
  <2> HIDE DEF p
  <2>3. /\ d \in Clients /\ d.to_send = g.to_send /\ d.to_resend = g.to_resend
        /\ d.keymap = g.keymap /\ d.storeq = g.storeq /\ d.ticks = g.ticks /\ d.out = g.out
        /\ d.status = g.status /\ d.flush = g.flush /\ d.expired = g.expired
    BY <1>2, <2>2 DEF Clients
  <2> HIDE DEF d
  <2>4. QED
    BY <2>1, <2>3 DEF Rests
<1>8. CASE packet.tag = "LoginError"
  <2>1. h = SignalConnectionReset([g EXCEPT !.state = "UNINITIALIZED"])
    BY <1>8 DEF HandlePacketFromWire, g
  <2>2. QED
    BY <1>6, <2>1
<1>9. CASE packet.tag = "Close"
  <2>1. h = SignalConnectionReset([g EXCEPT !.state = "LOADED"])
    BY <1>9 DEF HandlePacketFromWire, g
  <2>2. QED
    BY <1>6, <2>1
<1>10. CASE packet.tag = "HeartbeatPing"
  <2>1. h = SendControl(g, "HeartbeatAck") /\ "HeartbeatAck" \in Control
    BY <1>10 DEF HandlePacketFromWire, g, Control
  <2>2. QED
    BY <1>4, <2>1
<1>11. CASE packet.tag = "IdleNotification"
  <2>1. h = SendControl(g, "IdleReply") /\ "IdleReply" \in Control
    BY <1>11 DEF HandlePacketFromWire, g, Control
  <2>2. QED
    BY <1>4, <2>1
<1>12. CASE packet.tag = "SelectiveAck"
  <2>1. h = HandleSelectiveAck(g, packet.ids)
    BY <1>12 DEF HandlePacketFromWire, g
  <2>2. QED
    BY <1>2, <1>12, <2>1, SelectiveAckExact
<1>13. CASE packet.tag = "Data"
  <2> DEFINE v == Append(g.deliver, packet.id)
             d == [g EXCEPT !.deliver = v]
  <2>1. h = d
    BY <1>13 DEF HandlePacketFromWire, g
  <2>2. v \in Seq(ServerIds)
    <3>1. packet.id \in ServerIds
      BY <1>13 DEF FromServer
    <3>2. QED
      BY <1>2, <3>1 DEF Clients
  <2> HIDE DEF v
  <2>3. /\ d \in Clients /\ d.to_send = g.to_send /\ d.to_resend = g.to_resend
        /\ d.keymap = g.keymap /\ d.storeq = g.storeq /\ d.ticks = g.ticks /\ d.out = g.out
        /\ d.status = g.status /\ d.flush = g.flush /\ d.expired = g.expired
    BY <1>2, <2>2 DEF Clients
  <2> HIDE DEF d
  <2>4. QED
    BY <2>1, <2>3 DEF Rests
<1>14. CASE packet.tag \in {"HeartbeatAck", "StreamAck"}
  <2>1. h = g
    BY <1>14 DEF HandlePacketFromWire, g
  <2>2. QED
    BY <1>2, <2>1 DEF Rests
<1>15. QED
  BY <1>3, <1>7, <1>8, <1>9, <1>10, <1>11, <1>12, <1>13, <1>14 DEF Tags

\* d starts with what the store has.
Starts(store, d, ticks, expired, status) ==
    LET entries == Unexpired(store, expired)
        old == store.out \ entries
    IN  /\ d \in Clients
        /\ d.to_send = InOrderOfPid(entries) /\ d.to_resend = << >>
        /\ d.keymap = [k \in Keys |-> NewestWithKey(entries, k)]
        /\ d.storeq = Given(<< >>, RemoveOutgoing({e.pid : e \in old}))
        /\ d.ticks = ticks /\ d.out = 1
        /\ d.status = Reported(status, {e.body : e \in old}, "TTL_EXCEEDED")
        /\ d.flush = << >> /\ d.expired = expired

LEMMA InitializeExact ==
    ASSUME NEW store \in Stores, NEW ticks \in Nat, NEW expired \in SUBSET Messages,
           NEW status \in [Messages -> SUBSET Statuses]
    PROVE  Starts(store, Initialize(store, ticks, expired, status), ticks, expired, status)
<1> DEFINE E == Unexpired(store, expired)
           old == store.out \ E
           s == InOrderOfPid(E)
           m == [k \in Keys |-> NewestWithKey(E, k)]
           c == [state |-> "CONNECTING",
                 to_send |-> s, to_resend |-> << >>, keymap |-> m,
                 out |-> 1, in |-> 0, last_in |-> 0,
                 unacked |-> << >>, acked |-> {}, restored |-> store.in,
                 conn |-> "down", flush |-> << >>,
                 posted |-> 0, deliver |-> << >>, storeq |-> << >>,
                 ticks |-> ticks, expired |-> expired, status |-> status]
           o == RemoveOutgoing({e.pid : e \in old})
           told == {e.body : e \in old}
           n == Notify(c, told, "TTL_EXCEEDED")
           d == Store(n, o)
<1>1. Initialize(store, ticks, expired, status) = d
  BY DEF Initialize, Restore
<1>2. store.out \in SUBSET Entries /\ IsFiniteSet(store.out) /\ store.in \in SUBSET ServerIds
  BY DEF Stores
<1>3. E \in SUBSET store.out
  BY DEF Unexpired
<1> HIDE DEF E
<1>4. E \in SUBSET Entries /\ IsFiniteSet(E)
  BY <1>2, <1>3, FS_Subset
<1>5. s \in Seq(Packets)
  BY <1>4, InOrderLemma
<1>6. m \in [Keys -> Nat]
  BY <1>4, NewestLemma
<1> HIDE DEF s, m
<1>7. /\ c \in Clients /\ c.to_send = s /\ c.to_resend = << >> /\ c.keymap = m
      /\ c.storeq = << >> /\ c.ticks = ticks /\ c.out = 1 /\ c.status = status
      /\ c.flush = << >> /\ c.expired = expired
  BY <1>2, <1>5, <1>6 DEF Clients
<1>8. o \in Ops /\ "TTL_EXCEEDED" \in Statuses
  <2>1. {e.pid : e \in old} \subseteq Nat
    BY <1>2 DEF Entries
  <2>2. QED
    BY <2>1 DEF Ops, OutOps, RemoveOps, RemoveOutgoing, Op, Statuses
<1> HIDE DEF c, o, told
<1> DEFINE x == Reported(c.status, told, "TTL_EXCEEDED")
<1>9. n = [c EXCEPT !.status = x] /\ n \in Clients
  <2>1. c \in Clients
    BY <1>7
  <2>2. QED
    BY <1>8, <2>1, ReportedLemma, Zenon
<1> HIDE DEF n, x
<1>10. /\ n.to_send = c.to_send /\ n.to_resend = c.to_resend
       /\ n.keymap = c.keymap /\ n.storeq = c.storeq /\ n.ticks = c.ticks /\ n.out = c.out
       /\ n.status = x /\ n.flush = c.flush /\ n.expired = c.expired
  BY <1>7, <1>9 DEF Clients
<1> DEFINE g == Given(n.storeq, o)
<1>11. d = [n EXCEPT !.storeq = g] /\ d \in Clients
  BY <1>8, <1>9, GivenLemma
<1> HIDE DEF d, g
<1>12. /\ d.to_send = n.to_send /\ d.to_resend = n.to_resend
       /\ d.keymap = n.keymap /\ d.storeq = g /\ d.ticks = n.ticks /\ d.out = n.out
       /\ d.status = n.status /\ d.flush = n.flush /\ d.expired = n.expired
  BY <1>9, <1>11 DEF Clients
<1>13. d.storeq = Given(<< >>, o) /\ d.status = Reported(status, told, "TTL_EXCEEDED")
  BY <1>7, <1>10, <1>12 DEF g, x
<1>14. /\ d.to_send = s /\ d.to_resend = << >> /\ d.keymap = m /\ d.ticks = ticks
       /\ d.out = 1 /\ d.flush = << >> /\ d.expired = expired
  BY <1>7, <1>10, <1>12
<1>15. Starts(store, d, ticks, expired, status)
  BY <1>11, <1>13, <1>14 DEF Starts, E, s, m, o, told
<1>16. QED
  BY <1>1, <1>15

-----------------------------------------------------------------------------
(***************************************************************************)
(* The invariant is kept                                                   *)
(***************************************************************************)

\* The queue after a restart: the messages, in the order of their ids.
LEMMA RestoredQueue ==
    ASSUME NEW E \in SUBSET Entries, IsFiniteSet(E), \A e, f \in E : e.pid = f.pid => e = f
    PROVE  LET q == InOrderOfPid(E)
           IN  /\ q \in Seq(Packets) /\ Rising(q)
               /\ \A t : (\A e \in E : e.pid <= t) => UpTo(q, t)
               /\ \A p, b : Has(q, p, b) <=> \E e \in E : e.pid = p /\ e.body = b
               /\ \A e \in E : \E i \in 1..Len(q) : q[i].pid = e.pid /\ q[i].body = e.body
<1> DEFINE q == InOrderOfPid(E)
           n == Cardinality(E)
           P(e) == [body |-> e.body, pid |-> e.pid, hdr |-> e.hdr, sid |-> 0]
<1>1. q \in Seq(Packets) /\ \E s : Sorted(s, E) /\ q = [i \in 1..n |-> P(s[i])]
  BY InOrderLemma
<1>2. PICK s : Sorted(s, E) /\ q = [i \in 1..n |-> P(s[i])]
  BY <1>1
<1>3. n \in Nat
  BY FS_CardinalityType
<1> HIDE DEF q, n
<1>4. s \in [1..n -> E] /\ \A i, j \in 1..n : i < j => s[i] # s[j] /\ s[i].pid <= s[j].pid
  BY <1>2 DEF Sorted, n
<1>5. Len(q) = n
  <2>1. DOMAIN q = 1..n
    BY <1>2
  <2>2. QED
    BY <1>1, <1>3, <2>1, LenProperties
<1>6. \A i \in 1..n : q[i].pid = s[i].pid /\ q[i].body = s[i].body /\ s[i] \in E
  BY <1>2, <1>4
<1>7. \A e \in E : \E i \in 1..n : s[i] = e
  <2>1. s \in Injection(1..n, E)
    <3>1. \A i, j \in 1..n : s[i] = s[j] => i = j
      BY <1>3, <1>4
    <3>2. QED
      BY <1>4, <3>1 DEF Injection, IsInjective
  <2>2. Cardinality(1..n) = n
    BY <1>3, FS_Interval
  <2>3. s \in Surjection(1..n, E)
    BY <2>1, <2>2, FS_Injection DEF n
  <2>4. QED
    BY <2>3 DEF Surjection
<1>8. Rising(q)
  <2>1. ASSUME NEW i \in 1..n, NEW j \in 1..n, i < j PROVE q[i].pid < q[j].pid
    <3>1. s[i] # s[j] /\ s[i].pid <= s[j].pid /\ s[i] \in E /\ s[j] \in E
      BY <1>4, <2>1
    <3>2. s[i].pid # s[j].pid /\ s[i].pid \in Nat /\ s[j].pid \in Nat
      BY <3>1 DEF Entries
    <3>3. QED
      BY <1>6, <3>1, <3>2
  <2>2. QED
    BY <1>5, <2>1 DEF Rising
<1>9. \A t : (\A e \in E : e.pid <= t) => UpTo(q, t)
  BY <1>5, <1>6 DEF UpTo
<1>10. \A e \in E : \E i \in 1..Len(q) : q[i].pid = e.pid /\ q[i].body = e.body
  BY <1>5, <1>6, <1>7
<1>11. \A p, b : Has(q, p, b) <=> \E e \in E : e.pid = p /\ e.body = b
  <2>1. ASSUME NEW p, NEW b, Has(q, p, b) PROVE \E e \in E : e.pid = p /\ e.body = b
    BY <1>5, <1>6, <2>1 DEF Has
  <2>2. ASSUME NEW p, NEW b, NEW e \in E, e.pid = p, e.body = b PROVE Has(q, p, b)
    BY <1>10, <2>2 DEF Has
  <2>3. QED
    BY <2>1, <2>2
<1>12. QED
  BY <1>1, <1>8, <1>9, <1>10, <1>11 DEF q

LEMMA EmptyLemma ==
    /\ << >> \in Seq(Packets) /\ Rising(<< >>)
    /\ \A t : UpTo(<< >>, t)
    /\ \A x : Before(<< >>, x) /\ Before(x, << >>)
    /\ \A p, b : ~ Has(<< >>, p, b)
    /\ \A out : Awaiting(<< >>, out)
  BY DEF Rising, UpTo, Before, Has, Awaiting

\* Time goes on.
LEMMA LaterLemma ==
    ASSUME NEW t \in Nat, NEW u \in Nat, t <= u
    PROVE  /\ \A x \in Seq(Packets) : UpTo(x, t) => UpTo(x, u)
           /\ \A s \in Stores, q \in Seq(Ops) : Orderly(s, q, t) => Orderly(s, q, u)
<1>1. ASSUME NEW x \in Seq(Packets), UpTo(x, t) PROVE UpTo(x, u)
  <2>1. ASSUME NEW i \in 1..Len(x) PROVE x[i].pid <= u
    <3>1. x[i].pid \in Nat
      BY DEF Packets
    <3>2. QED
      BY <1>1, <3>1 DEF UpTo
  <2>2. QED
    BY <2>1 DEF UpTo
<1>2. ASSUME NEW s \in Stores, NEW q \in Seq(Ops), Orderly(s, q, t) PROVE Orderly(s, q, u)
  <2>1. ASSUME NEW e \in s.out PROVE e.pid <= u
    <3>1. e.pid \in Nat /\ e.pid <= t
      BY <1>2 DEF Stores, Entries, Orderly, Distinct
    <3>2. QED
      BY <3>1
  <2>2. ASSUME NEW n \in 1..Len(q), Writes(q[n]), NEW p \in q[n].ids PROVE p <= u
    <3>1. q[n] \in Ops
      OBVIOUS
    <3>2. q[n] \in WriteOps
      BY <2>2, <3>1 DEF Writes, Ops, OutOps, RemoveOps, InOps
    <3>3. p \in Nat /\ p <= t
      BY <1>2, <2>2, <3>2 DEF WriteOps, Orderly, Adding
    <3>4. QED
      BY <3>3
  <2>3. QED
    BY <1>2, <2>1, <2>2 DEF Orderly, Distinct, Adding
<1>3. QED
  BY <1>1, <1>2

\* From m to n the keys that leave with the packets of x are cleared.
Clears(n, m, x) ==
    \A k \in Keys : n[k] # 0 => n[k] = m[k] /\ \A i \in 1..Len(x) : Key(x[i].body) # k

\* The keys still point into what is left of a queue, and into a longer one.
LEMMA PointsLemma ==
    ASSUME NEW x \in Seq(Packets), NEW y \in Seq(Packets), NEW m, NEW n
    PROVE  /\ Points(m, x \o y) /\ Clears(n, m, x) => Points(n, y)
           /\ Points(m, x) => Points(m, x \o y)
           /\ Points(m, y) => Points(m, x \o y)
<1> DEFINE j == x \o y
<1>1. /\ \A i \in 1..Len(x) : i \in 1..Len(j) /\ j[i] = x[i]
      /\ \A i \in 1..Len(y) : /\ Len(x) + i \in 1..Len(j)
                              /\ j[Len(x) + i] = y[i]
      /\ \A i \in 1..Len(j) : \/ i \in 1..Len(x) /\ j[i] = x[i]
                              \/ i - Len(x) \in 1..Len(y) /\ j[i] = y[i - Len(x)]
  BY JoinIndex
<1> HIDE DEF j
<1>2. ASSUME Points(m, j), Clears(n, m, x), NEW k \in Keys, n[k] # 0
      PROVE  \E i \in 1..Len(y) : y[i].pid = n[k] /\ Key(y[i].body) = k
  <2>1. PICK i \in 1..Len(j) : j[i].pid = n[k] /\ Key(j[i].body) = k
    BY <1>2 DEF Points, Clears
  <2>2. i - Len(x) \in 1..Len(y) /\ j[i] = y[i - Len(x)]
    BY <1>1, <1>2, <2>1 DEF Clears
  <2>3. QED
    BY <2>1, <2>2
<1>3. Points(m, x) => Points(m, j)
  BY <1>1 DEF Points
<1>4. ASSUME Points(m, y) PROVE Points(m, j)
  <2>1. SUFFICES ASSUME NEW k \in Keys, m[k] # 0
                 PROVE  \E i \in 1..Len(j) : j[i].pid = m[k] /\ Key(j[i].body) = k
    BY DEF Points
  <2>2. PICK i \in 1..Len(y) : y[i].pid = m[k] /\ Key(y[i].body) = k
    BY <1>4, <2>1 DEF Points
  <2>3. Len(x) + i \in 1..Len(j) /\ j[Len(x) + i] = y[i]
    BY <1>1
  <2>4. QED
    BY <2>2, <2>3
<1>5. QED
  BY <1>2, <1>3, <1>4 DEF Points, j

\* The fields of a client the invariant is about have their types.
LEMMA OutTypes ==
    ASSUME NEW c \in Clients, NEW s \in Stores
    PROVE  /\ c.to_resend \in Seq(Packets) /\ c.to_send \in Seq(Packets)
           /\ c.keymap \in [Keys -> Nat] /\ c.storeq \in Seq(Ops)
           /\ c.ticks \in Nat /\ c.out \in Nat /\ After(s, c.storeq) \in Stores
<1>1. /\ c.to_resend \in Seq(Packets) /\ c.to_send \in Seq(Packets)
      /\ c.keymap \in [Keys -> Nat] /\ c.storeq \in Seq(Ops)
      /\ c.ticks \in Nat /\ c.out \in Nat
  BY DEF Clients
<1>2. QED
  BY <1>1, AfterType

\* The queues stay as they are.
LEMMA RestsOut ==
    ASSUME NEW c, NEW d, NEW s, Out(c, s),
           d.to_send = c.to_send, d.to_resend = c.to_resend, d.keymap = c.keymap,
           d.storeq = c.storeq, d.ticks = c.ticks, d.out = c.out
    PROVE  Out(d, s)
  BY DEF Out, Sound

\* An operation on incoming messages does not touch the outgoing ones.
LEMMA NotesStore ==
    ASSUME NEW s \in Stores, NEW q \in Seq(Ops), NEW o \in InOps, NEW t \in Nat
    PROVE  /\ Given(q, o) \in Seq(Ops)
           /\ \A r, z : Synced(After(s, q), r, z) => Synced(After(s, Given(q, o)), r, z)
           /\ Orderly(s, q, t) => Orderly(s, Given(q, o), t)
<1>1. o \in Ops /\ ~ Writes(o) /\ o.kind \notin {"overwrite", "removeOut"}
  BY DEF Ops, InOps, Writes
<1>2. Becomes(After(s, q), After(s, Given(q, o)), o)
  BY <1>1, GivenBecomes
<1>3. \A r, z : Synced(After(s, q), r, z) => Synced(After(s, Given(q, o)), r, z)
  BY <1>1, <1>2 DEF Synced, Becomes
<1>4. Orderly(s, q, t) => Orderly(s, Given(q, o), t)
  BY <1>1, OrderlyGiven
<1>5. Given(q, o) \in Seq(Ops)
  BY <1>1 DEF Given
<1>6. QED
  BY <1>3, <1>4, <1>5

LEMMA NotesOut ==
    ASSUME NEW c \in Clients, NEW d, NEW s \in Stores, Out(c, s), Notes(c, d)
    PROVE  Out(d, s)
<1>1. PICK o \in InOps : d.storeq = Given(c.storeq, o)
  BY DEF Notes
<1>2. /\ d.to_send = c.to_send /\ d.to_resend = c.to_resend /\ d.keymap = c.keymap
      /\ d.ticks = c.ticks /\ d.out = c.out
  BY DEF Notes
<1>3. c.storeq \in Seq(Ops) /\ c.ticks \in Nat
  BY OutTypes
<1>4. Synced(After(s, d.storeq), c.to_resend, c.to_send)
  BY <1>1, <1>3, NotesStore DEF Out
<1>5. Orderly(s, d.storeq, c.ticks)
  BY <1>1, <1>3, NotesStore DEF Out
<1>6. QED
  BY <1>2, <1>4, <1>5 DEF Out, Sound

\* Messages leave the store as they leave the queues.
Shrinks(r, z, r2, z2, D) ==
    \A p \in Nat \ {0}, b \in Reliables :
        Has(r2, p, b) \/ Has(z2, p, b) <=> (Has(r, p, b) \/ Has(z, p, b)) /\ p \notin D

LEMMA RemovedStore ==
    ASSUME NEW s \in Stores, NEW q \in Seq(Ops), NEW t \in Nat, NEW D \in SUBSET Nat,
           NEW r, NEW z, NEW r2, NEW z2, Synced(After(s, q), r, z), Orderly(s, q, t),
           Shrinks(r, z, r2, z2, D)
    PROVE  /\ Synced(After(s, Given(q, RemoveOutgoing(D))), r2, z2)
           /\ Orderly(s, Given(q, RemoveOutgoing(D)), t)
<1> DEFINE o == RemoveOutgoing(D)
<1>1. o \in Ops /\ ~ Writes(o) /\ o.kind = "removeOut" /\ o.ids = D
  BY DEF Ops, OutOps, RemoveOps, Writes, RemoveOutgoing, Op
<1> HIDE DEF o
<1>2. Becomes(After(s, q), After(s, Given(q, o)), o)
  BY <1>1, GivenBecomes
<1>3. Synced(After(s, Given(q, o)), r2, z2)
  BY <1>1, <1>2 DEF Synced, Becomes, Shrinks
<1>4. Orderly(s, Given(q, o), t)
  BY <1>1, OrderlyGiven
<1>5. QED
  BY <1>3, <1>4 DEF o

\* The first packet goes out.
LEMMA TransmitsOut ==
    ASSUME NEW c \in Clients, NEW d \in Clients, NEW s \in Stores, Out(c, s), Transmits(c, d)
    PROVE  Out(d, s)
<1> DEFINE p == Head(c.to_send)
           x == c.to_resend
           z == Tail(c.to_send)
           w == [p EXCEPT !.sid = c.out + 1]
           t == c.ticks
           f == <<p>>
           e == <<w>>
<1>1. /\ x \in Seq(Packets) /\ c.to_send \in Seq(Packets) /\ c.keymap \in [Keys -> Nat]
      /\ t \in Nat /\ c.out \in Nat
  BY OutTypes
<1>2. /\ c.to_send # << >> /\ d.to_send = z
      /\ d.to_resend = (IF p.pid # 0 THEN Append(x, w) ELSE x)
      /\ d.keymap = Popped(c) /\ d.out = c.out + 1
      /\ d.storeq = c.storeq /\ d.ticks = t
  BY DEF Transmits
<1>3. p \in Packets /\ z \in Seq(Packets) /\ c.to_send = f \o z
  BY <1>1, <1>2, HeadTailLemma
<1>4. w \in Packets /\ w.pid = p.pid /\ w.body = p.body /\ w.sid = c.out + 1
  <2> HIDE DEF p
  <2>1. QED
    BY SMTT(30), <1>1, <1>3 DEF Packets
<1>5. Popped(c) = [k \in Keys |-> IF k = Key(p.body) THEN 0 ELSE c.keymap[k]]
  BY DEF Popped
<1> HIDE DEF p, x, z, w, t, f, e
<1>6. /\ Rising(x) /\ Rising(c.to_send) /\ Before(x, c.to_send) /\ UpTo(x, t)
      /\ UpTo(c.to_send, t) /\ Awaiting(x, c.out) /\ Points(c.keymap, c.to_send)
      /\ Synced(After(s, c.storeq), x, c.to_send) /\ Orderly(s, c.storeq, t)
  BY DEF Out, Sound, InOrder, x, t
<1>7. /\ f \in Seq(Packets) /\ e \in Seq(Packets)
      /\ Rising(f \o z) /\ Before(x, f \o z) /\ UpTo(f \o z, t)
  BY <1>3, <1>4, <1>6 DEF f, e
<1>8. /\ Rising(z) /\ Before(f, z) /\ UpTo(f, t) /\ UpTo(z, t)
      /\ Before(x, f) /\ Before(x, z)
  BY <1>1, <1>3, <1>7, JoinLemma
<1>9. /\ Rising(e) /\ Before(e, z) /\ UpTo(e, t) /\ Before(x, e)
      /\ \A q, b : Has(e, q, b) <=> Has(f, q, b)
  BY <1>3, <1>4, <1>8, SingleLemma DEF e, f
<1>10. Points(Popped(c), z)
  <2>1. Clears(Popped(c), c.keymap, f)
    <3>1. Len(f) = 1 /\ f[1] = p /\ 1..1 = {1}
      BY DEF f
    <3>2. QED
      BY <1>5, <3>1 DEF Clears
  <2>2. Points(c.keymap, f \o z)
    BY <1>3, <1>6
  <2> DEFINE n == Popped(c)
  <2> HIDE DEF n
  <2>3. Points(n, z)
    BY <1>3, <1>7, <2>1, <2>2, PointsLemma DEF n
  <2>4. QED
    BY <2>3 DEF n
<1>11. \A q, b : Has(c.to_send, q, b) <=> Has(f, q, b) \/ Has(z, q, b)
  <2>1. \A q, b : Has(f \o z, q, b) <=> Has(f, q, b) \/ Has(z, q, b)
    BY <1>3, <1>7, JoinLemma
  <2>2. QED
    BY <1>3, <2>1
<1>12. CASE p.pid # 0
  <2>1. d.to_resend = x \o e /\ x \o e \in Seq(Packets)
    BY <1>1, <1>2, <1>4, <1>12, AppendLemma DEF e
  <2>2. Rising(x \o e) /\ UpTo(x \o e, t) /\ Before(x \o e, z)
    BY <1>1, <1>3, <1>6, <1>7, <1>8, <1>9, JoinLemma
  <2>3. \A q, b : Has(x \o e, q, b) <=> Has(x, q, b) \/ Has(f, q, b)
    BY <1>1, <1>7, <1>9, JoinLemma
  <2>4. Awaiting(x \o e, c.out + 1)
    <3> DEFINE n == Len(x)
               y == x \o e
    <3>1. /\ n \in Nat /\ Len(y) = n + 1 /\ y[n + 1] = w
          /\ \A i \in 1..(n + 1) : i = n + 1 \/ (i \in 1..n /\ y[i] = x[i])
      BY <1>1, <1>4 DEF e
    <3>6. \A i \in 1..n : x[i].sid \in Nat
      BY <1>1 DEF Packets
    <3> HIDE DEF n, y
    <3>2. /\ \A i \in 1..n : x[i].pid # 0 /\ x[i].sid <= c.out
          /\ \A i, j \in 1..n : i < j => x[i].sid < x[j].sid
      BY <1>6 DEF Awaiting, n
    <3>3. ASSUME NEW i \in 1..(n + 1) PROVE y[i].pid # 0 /\ y[i].sid <= c.out + 1
      BY SMTT(30), <1>1, <1>4, <1>12, <3>1, <3>2, <3>6
    <3>4. ASSUME NEW i \in 1..(n + 1), NEW j \in 1..(n + 1), i < j PROVE y[i].sid < y[j].sid
      <4>1. i \in 1..n /\ y[i] = x[i]
        BY <3>1, <3>4
      <4>2. CASE j = n + 1
        BY <1>1, <1>4, <3>1, <3>2, <3>6, <4>1, <4>2
      <4>3. CASE j \in 1..n
        <5>1. y[j] = x[j]
          BY <3>1, <4>3
        <5>2. QED
          BY <3>2, <3>4, <4>1, <4>3, <5>1
      <4>4. QED
        BY <3>1, <4>2, <4>3
    <3>5. QED
      BY <3>1, <3>3, <3>4 DEF Awaiting, y
  <2> DEFINE y == x \o e
  <2> HIDE DEF y
  <2>5. d.to_resend = y /\ Rising(y) /\ UpTo(y, t) /\ Before(y, z) /\ Awaiting(y, c.out + 1)
    BY <2>1, <2>2, <2>4 DEF y
  <2>6. \A q, b : Has(y, q, b) <=> Has(x, q, b) \/ Has(f, q, b)
    BY <2>3 DEF y
  <2>7. Synced(After(s, c.storeq), y, z)
    BY <1>6, <1>11, <2>6 DEF Synced
  <2>8. QED
    BY <1>2, <1>6, <1>8, <1>10, <2>5, <2>7 DEF Out, Sound, InOrder
<1>13. CASE p.pid = 0
  <2>1. ASSUME NEW q \in Nat \ {0}, NEW b PROVE ~ Has(f, q, b)
    BY <1>3, <1>13, SingleLemma DEF f
  <2>2. Synced(After(s, c.storeq), x, z)
    BY <1>6, <1>11, <2>1 DEF Synced
  <2>3. Awaiting(x, c.out + 1)
    <3>1. ASSUME NEW i \in 1..Len(x) PROVE x[i].pid # 0 /\ x[i].sid <= c.out + 1
      <4>1. x[i].sid \in Nat /\ x[i].sid <= c.out /\ x[i].pid # 0
        BY <1>1, <1>6 DEF Packets, Awaiting
      <4>2. QED
        BY <1>1, <4>1
    <3>2. QED
      BY <1>6, <3>1 DEF Awaiting
  <2>4. d.to_resend = x
    BY <1>2, <1>13
  <2>5. QED
    BY <1>2, <1>6, <1>8, <1>10, <2>2, <2>3, <2>4 DEF Out, Sound, InOrder
<1>14. QED
  BY <1>12, <1>13

\* The first packet is dropped.
LEMMA LapsesOut ==
    ASSUME NEW c \in Clients, NEW d \in Clients, NEW s \in Stores, Out(c, s), Lapses(c, d)
    PROVE  Out(d, s)
<1> DEFINE p == Head(c.to_send)
           x == c.to_resend
           z == Tail(c.to_send)
           t == c.ticks
           f == <<p>>
<1>1. /\ x \in Seq(Packets) /\ c.to_send \in Seq(Packets) /\ c.keymap \in [Keys -> Nat]
      /\ t \in Nat /\ c.out \in Nat /\ c.storeq \in Seq(Ops)
  BY OutTypes
<1>2. /\ c.to_send # << >> /\ d.to_send = z /\ d.to_resend = x
      /\ d.keymap = Popped(c) /\ d.out = c.out
      /\ d.storeq = Given(c.storeq, RemoveOutgoing({p.pid})) /\ d.ticks = t
      /\ IsReliable(p.body)
  BY DEF Lapses, HasTTLExpired
<1>3. p \in Packets /\ z \in Seq(Packets) /\ c.to_send = f \o z
  BY <1>1, <1>2, HeadTailLemma
<1>4. p.pid \in Nat \ {0} /\ p.body \in Reliables
  BY <1>2, <1>3 DEF Packets, IsReliable, Reliables
<1>5. Popped(c) = [k \in Keys |-> IF k = Key(p.body) THEN 0 ELSE c.keymap[k]]
  BY DEF Popped
<1> HIDE DEF p, x, z, t, f
<1>6. /\ Rising(x) /\ Rising(c.to_send) /\ Before(x, c.to_send) /\ UpTo(x, t)
      /\ UpTo(c.to_send, t) /\ Awaiting(x, c.out) /\ Points(c.keymap, c.to_send)
      /\ Synced(After(s, c.storeq), x, c.to_send) /\ Orderly(s, c.storeq, t)
  BY DEF Out, Sound, InOrder, x, t
<1>7. /\ f \in Seq(Packets)
      /\ Rising(f \o z) /\ Before(x, f \o z) /\ UpTo(f \o z, t)
  BY <1>3, <1>6 DEF f
<1>8. /\ Rising(z) /\ Before(f, z) /\ UpTo(z, t) /\ Before(x, f) /\ Before(x, z)
  BY <1>1, <1>3, <1>7, JoinLemma
<1>10. Points(Popped(c), z)
  <2>1. Clears(Popped(c), c.keymap, f)
    <3>1. Len(f) = 1 /\ f[1] = p /\ 1..1 = {1}
      BY DEF f
    <3>2. QED
      BY <1>5, <3>1 DEF Clears
  <2>2. Points(c.keymap, f \o z)
    BY <1>3, <1>6
  <2> DEFINE n == Popped(c)
  <2> HIDE DEF n
  <2>3. Points(n, z)
    BY <1>3, <1>7, <2>1, <2>2, PointsLemma DEF n
  <2>4. QED
    BY <2>3 DEF n
<1>11. \A q, b : Has(c.to_send, q, b) <=> Has(f, q, b) \/ Has(z, q, b)
  <2>1. \A q, b : Has(f \o z, q, b) <=> Has(f, q, b) \/ Has(z, q, b)
    BY <1>3, <1>7, JoinLemma
  <2>2. QED
    BY <1>3, <2>1
<1>12. \A q, b : Has(f, q, b) <=> p.pid = q /\ p.body = b
  BY <1>3, SingleLemma DEF f
<1>13. ASSUME NEW q \in Nat \ {0}, NEW b \in Reliables, Has(x, q, b) \/ Has(z, q, b)
       PROVE  q # p.pid
  <2>1. q \notin Pids(f)
    BY <1>1, <1>3, <1>7, <1>8, <1>13, ApartLemma
  <2>2. QED
    BY <1>4, <1>7, <1>12, <2>1, PidsLemma
<1>14. Shrinks(x, c.to_send, x, z, {p.pid})
  BY <1>11, <1>12, <1>13 DEF Shrinks
<1>15. {p.pid} \in SUBSET Nat
  BY <1>4
<1>16. Synced(After(s, d.storeq), x, z) /\ Orderly(s, d.storeq, t)
  BY <1>1, <1>2, <1>6, <1>14, <1>15, RemovedStore
<1>17. QED
  BY <1>2, <1>6, <1>8, <1>10, <1>16 DEF Out, Sound, InOrder

LEMMA RunsOut ==
    ASSUME NEW c \in Clients, NEW d, NEW s \in Stores, Out(c, s), Runs(c, d)
    PROVE  Out(d, s)
<1>1. CASE SameQueues(c, d)
  BY <1>1, RestsOut DEF SameQueues
<1>2. CASE Transmits(c, d)
  BY <1>2, TransmitsOut DEF Runs
<1>3. CASE Lapses(c, d)
  BY <1>3, LapsesOut DEF Runs
<1>4. QED
  BY <1>1, <1>2, <1>3 DEF Runs

\* A packet joins the end of the queue: an unreliable one, or one with the next
\* persistent id.
LEMMA TailOut ==
    ASSUME NEW c \in Clients, NEW s \in Stores, Out(c, s), NEW p \in Packets,
           NEW u \in Nat, c.ticks <= u,
           p.pid = 0 \/ (c.ticks < p.pid /\ p.pid <= u)
    PROVE  LET q == Append(c.to_send, p)
           IN  /\ q \in Seq(Packets) /\ InOrder(c.to_resend, q, u)
               /\ Points(c.keymap, q)
               /\ \A i, b : Has(q, i, b) <=> Has(c.to_send, i, b) \/ (p.pid = i /\ p.body = b)
               /\ \E i \in 1..Len(q) : q[i] = p
<1> DEFINE x == c.to_resend
           z == c.to_send
           e == <<p>>
           t == c.ticks
<1>1. x \in Seq(Packets) /\ z \in Seq(Packets) /\ t \in Nat /\ e \in Seq(Packets)
  BY OutTypes
<1>2. Append(z, p) \in Seq(Packets) /\ Append(z, p) = z \o e
  BY <1>1, AppendLemma
<1>3. /\ Rising(x) /\ Rising(z) /\ Before(x, z) /\ UpTo(x, t) /\ UpTo(z, t)
      /\ Points(c.keymap, z)
  BY DEF Out, Sound, InOrder
<1>4. \E i \in 1..Len(Append(z, p)) : Append(z, p)[i] = p
  BY SMTT(30), <1>1
<1>5. p.pid \in Nat
  BY DEF Packets
<1>6. UpTo(x, u) /\ UpTo(z, u)
  <2>1. t \in Nat /\ t <= u
    BY <1>1
  <2> HIDE DEF x, z, t
  <2>2. QED
    BY <1>1, <1>3, <2>1, LaterLemma
<1>7. ASSUME NEW y \in Seq(Packets), UpTo(y, t) PROVE Before(y, e)
  <2>1. ASSUME NEW i \in 1..Len(y), p.pid # 0 PROVE y[i].pid < p.pid
    <3>1. y[i].pid \in Nat /\ y[i].pid <= t
      BY <1>7 DEF Packets, UpTo
    <3>2. QED
      BY <1>1, <1>5, <2>1, <3>1
  <2>2. QED
    BY <2>1, SingleLemma
<1>8. Rising(e) /\ UpTo(e, u) /\ \A i, b : Has(e, i, b) <=> p.pid = i /\ p.body = b
  BY <1>5, SingleLemma
<1> HIDE DEF x, z, e, t
<1>9. Before(x, e) /\ Before(z, e)
  BY <1>1, <1>3, <1>7
<1> DEFINE q == z \o e
<1>10. /\ Rising(q) /\ UpTo(q, u) /\ Before(x, q)
       /\ \A i, b : Has(q, i, b) <=> Has(z, i, b) \/ Has(e, i, b)
  BY <1>1, <1>3, <1>6, <1>8, <1>9, JoinLemma
<1>11. Points(c.keymap, q)
  BY <1>1, <1>3, PointsLemma
<1> HIDE DEF q
<1>12. InOrder(x, q, u)
  BY <1>3, <1>6, <1>10 DEF InOrder
<1>13. \A i, b : Has(q, i, b) <=> Has(z, i, b) \/ (p.pid = i /\ p.body = b)
  BY <1>8, <1>10
<1>14. Append(z, p) = q
  BY <1>2 DEF q
<1>15. QED
  BY <1>2, <1>4, <1>11, <1>12, <1>13, <1>14 DEF x, z

LEMMA JoinsOut ==
    ASSUME NEW c \in Clients, NEW d, NEW s \in Stores, Out(c, s),
           NEW body \in Control \cup Messages, body \notin Reliables, Joins(c, d, body, 0)
    PROVE  Out(d, s)
<1> DEFINE p == [body |-> body, pid |-> 0, hdr |-> 0, sid |-> 0]
           q == Append(c.to_send, p)
<1>1. p \in Packets /\ p.pid = 0
  BY DEF Packets
<1>2. c.ticks \in Nat /\ c.ticks <= c.ticks
  BY OutTypes
<1>3. /\ d.to_send = q /\ d.to_resend = c.to_resend /\ d.keymap = c.keymap
      /\ d.storeq = c.storeq /\ d.ticks = c.ticks /\ d.out = c.out
  BY DEF Joins
<1> HIDE DEF p
<1>4. /\ InOrder(c.to_resend, q, c.ticks) /\ Points(c.keymap, q)
      /\ \A i, b : Has(q, i, b) <=> Has(c.to_send, i, b) \/ (p.pid = i /\ p.body = b)
  BY <1>1, <1>2, TailOut
<1> HIDE DEF q
<1>5. Synced(After(s, c.storeq), c.to_resend, q)
  BY <1>1, <1>4 DEF Out, Synced
<1>6. QED
  BY <1>3, <1>4, <1>5 DEF Out, Sound

LEMMA QueuesOut ==
    ASSUME NEW c \in Clients, NEW d, NEW s \in Stores, Out(c, s),
           NEW body \in Reliables, Queues(c, d, body)
    PROVE  Out(d, s)
<1> DEFINE pid == c.ticks + 1
           p == [body |-> body, pid |-> pid, hdr |-> pid, sid |-> 0]
           q == Append(c.to_send, p)
           m == [k \in Keys |-> IF k = Key(body) THEN pid ELSE c.keymap[k]]
           o == Op("addOut", {pid}, body, pid)
<1>1. /\ c.ticks \in Nat /\ pid \in Nat \ {0} /\ c.ticks < pid /\ c.ticks <= pid
      /\ c.storeq \in Seq(Ops)
  BY OutTypes
<1>2. /\ d.to_send = q /\ d.to_resend = c.to_resend /\ d.keymap = m
      /\ d.storeq = Append(c.storeq, o) /\ d.ticks = pid /\ d.out = c.out
  BY DEF Queues
<1> HIDE DEF pid
<1>3. p \in Packets /\ p.pid = pid /\ p.body = body
  BY <1>1 DEF Packets, Reliables
<1>4. o \in Ops /\ o.kind = "addOut" /\ o.ids = {pid} /\ o.body = body
  BY <1>1 DEF WriteOps, OutOps, Ops, Op
<1> HIDE DEF p, o
<1>5. /\ InOrder(c.to_resend, q, pid) /\ Points(c.keymap, q)
      /\ \A i, b : Has(q, i, b) <=> Has(c.to_send, i, b) \/ (p.pid = i /\ p.body = b)
      /\ \E i \in 1..Len(q) : q[i] = p
  <2>1. pid \in Nat /\ pid <= pid
    BY <1>1
  <2>2. QED
    BY <1>1, <1>3, <2>1, TailOut
<1> HIDE DEF q
<1>6. Points(m, q)
  BY <1>3, <1>5 DEF Points
<1>7. Synced(After(s, d.storeq), c.to_resend, q)
  <2>1. Given(c.storeq, o) = d.storeq
    BY <1>2, <1>4 DEF Given
  <2>2. Becomes(After(s, c.storeq), After(s, d.storeq), o)
    BY <1>1, <1>4, <2>1, GivenBecomes
  <2>3. QED
    BY <1>3, <1>4, <1>5, <2>2 DEF Out, Synced, Becomes, Writes
<1>8. Orderly(s, d.storeq, pid)
  <2>1. /\ Writes(o) => \A i \in o.ids : i <= pid
        /\ o.kind = "addOut" => \A i \in o.ids : c.ticks < i
        /\ pid \in Nat /\ Orderly(s, c.storeq, c.ticks)
    BY <1>1, <1>4 DEF Out
  <2>2. QED
    BY <1>1, <1>2, <1>4, <2>1, OrderlyAppend
<1> HIDE DEF m
<1>9. QED
  BY <1>2, <1>5, <1>6, <1>7, <1>8 DEF Out, Sound

LEMMA RefusesOut ==
    ASSUME NEW c \in Clients, NEW d, NEW s \in Stores, Out(c, s), NEW body, Refuses(c, d, body)
    PROVE  Out(d, s)
<1>1. /\ d.to_send = c.to_send /\ d.to_resend = c.to_resend /\ d.keymap = c.keymap
      /\ d.storeq = c.storeq /\ d.ticks \in {c.ticks, c.ticks + 1} /\ d.out = c.out
  BY DEF Refuses
<1>2. /\ c.to_resend \in Seq(Packets) /\ c.to_send \in Seq(Packets) /\ c.storeq \in Seq(Ops)
      /\ c.ticks \in Nat
  BY OutTypes
<1>3. d.ticks \in Nat /\ c.ticks <= d.ticks
  BY <1>1, <1>2
<1>4. UpTo(c.to_resend, c.ticks) /\ UpTo(c.to_send, c.ticks) /\ Orderly(s, c.storeq, c.ticks)
  BY DEF Out, Sound, InOrder
<1>5. UpTo(c.to_resend, d.ticks) /\ UpTo(c.to_send, d.ticks) /\ Orderly(s, c.storeq, d.ticks)
  BY <1>2, <1>3, <1>4, LaterLemma
<1>6. QED
  BY <1>1, <1>5 DEF Out, Sound, InOrder

LEMMA ReplacesOut ==
    ASSUME NEW c \in Clients, NEW d, NEW s \in Stores, Out(c, s),
           NEW body \in Reliables, Replaces(c, d, body)
    PROVE  Out(d, s)
<1> DEFINE key == Key(body)
           pid == c.keymap[key]
           x == c.to_resend
           z == c.to_send
           new(p) == IF p.pid = pid THEN [p EXCEPT !.body = body, !.hdr = pid] ELSE p
           q == [i \in 1..Len(z) |-> new(z[i])]
           o == Op("overwrite", {pid}, body, 0)
           t == c.ticks
<1>1. /\ x \in Seq(Packets) /\ z \in Seq(Packets) /\ c.keymap \in [Keys -> Nat]
      /\ t \in Nat /\ c.storeq \in Seq(Ops)
  BY OutTypes
<1>2. /\ key \in Keys /\ pid # 0 /\ d.to_send = q /\ d.to_resend = x /\ d.keymap = c.keymap
      /\ d.storeq = Append(c.storeq, o) /\ d.ticks = t /\ d.out = c.out /\ d \in Clients
  BY DEF Replaces
<1>3. pid \in Nat \ {0}
  BY <1>1, <1>2
<1>4. /\ Rising(x) /\ Rising(z) /\ Before(x, z) /\ UpTo(x, t) /\ UpTo(z, t)
      /\ Awaiting(x, c.out) /\ Points(c.keymap, z)
      /\ Synced(After(s, c.storeq), x, z) /\ Orderly(s, c.storeq, t)
  BY DEF Out, Sound, InOrder
<1>5. o \in Ops /\ o.kind = "overwrite" /\ o.ids = {pid} /\ o.body = body
  BY <1>3 DEF WriteOps, OutOps, Ops, Op
<1>6. PICK j \in 1..Len(z) : z[j].pid = pid /\ Key(z[j].body) = key
  BY <1>2, <1>4 DEF Points
<1>7. \A i \in 1..Len(z) :
          /\ q[i].pid = z[i].pid
          /\ z[i].pid # pid => q[i].body = z[i].body
          /\ z[i].pid = pid => q[i].body = body
  <2>1. ASSUME NEW p \in Packets
        PROVE  /\ new(p).pid = p.pid /\ (p.pid # pid => new(p).body = p.body)
               /\ p.pid = pid => new(p).body = body
    BY DEF Packets
  <2>2. \A i \in 1..Len(z) : z[i] \in Packets
    BY <1>1
  <2> HIDE DEF new
  <2>3. QED
    BY <2>1, <2>2
<1>8. \A i \in 1..Len(z) : z[i].pid = pid => i = j
  <2>1. SUFFICES ASSUME NEW i \in 1..Len(z), z[i].pid = pid, i # j PROVE FALSE
    OBVIOUS
  <2>2. i < j \/ j < i
    BY <2>1
  <2>3. z[i].pid < z[j].pid \/ z[j].pid < z[i].pid
    BY <1>3, <1>4, <1>6, <2>1, <2>2 DEF Rising
  <2>4. QED
    BY <1>3, <1>6, <2>1, <2>3
<1>9. q \in Seq(Packets) /\ Len(q) = Len(z)
  <2>1. Len(z) \in Nat /\ DOMAIN q = 1..Len(z)
    BY <1>1
  <2> HIDE DEF q
  <2>4. d.to_send \in Seq(Packets)
    BY <1>2, OutTypes
  <2>2. q \in Seq(Packets)
    BY <1>2, <2>4
  <2>3. QED
    BY <2>1, <2>2, LenProperties
<1> HIDE DEF key, pid, x, z, q, o, t
<1>10. Rising(q) /\ Before(x, q) /\ UpTo(q, t)
  BY <1>4, <1>7, <1>9 DEF Rising, Before, UpTo
<1>11. Points(c.keymap, q)
  <2>1. SUFFICES ASSUME NEW k \in Keys, c.keymap[k] # 0
                 PROVE  \E i \in 1..Len(q) : q[i].pid = c.keymap[k] /\ Key(q[i].body) = k
    BY DEF Points
  <2>2. PICK i \in 1..Len(z) : z[i].pid = c.keymap[k] /\ Key(z[i].body) = k
    BY <1>4, <2>1 DEF Points
  <2>3. CASE z[i].pid = pid
    <3>1. i = j /\ k = key
      BY <1>6, <1>8, <2>2, <2>3
    <3>2. Key(q[i].body) = k
      BY <1>7, <2>3, <3>1 DEF key
    <3>3. QED
      BY <1>7, <1>9, <2>2, <3>2
  <2>4. CASE z[i].pid # pid
    BY <1>7, <1>9, <2>2, <2>4
  <2>5. QED
    BY <2>3, <2>4
<1>12. \A i, b : Has(q, i, b) <=> (i # pid /\ Has(z, i, b)) \/ (i = pid /\ b = body)
  <2>1. ASSUME NEW i, NEW b, Has(q, i, b)
        PROVE  (i # pid /\ Has(z, i, b)) \/ (i = pid /\ b = body)
    BY <1>7, <1>9, <2>1 DEF Has
  <2>2. ASSUME NEW i, NEW b, i # pid, Has(z, i, b) PROVE Has(q, i, b)
    BY <1>7, <1>9, <2>2 DEF Has
  <2>3. Has(q, pid, body)
    BY <1>6, <1>7, <1>9 DEF Has
  <2>4. QED
    BY <2>1, <2>2, <2>3
<1>13. \A b : ~ Has(x, pid, b)
  <2>1. Has(z, pid, z[j].body)
    BY <1>6 DEF Has
  <2>2. pid \notin Pids(x)
    BY <1>1, <1>3, <1>4, <2>1, ApartLemma
  <2>3. QED
    BY <1>1, <1>3, <2>2, PidsLemma
<1>14. Synced(After(s, d.storeq), x, q)
  <2>1. Given(c.storeq, o) = d.storeq
    BY <1>2, <1>5 DEF Given
  <2>2. Becomes(After(s, c.storeq), After(s, d.storeq), o)
    BY <1>1, <1>5, <2>1, GivenBecomes
  <2>3. ASSUME NEW i \in Nat \ {0}, NEW b \in Reliables
        PROVE  Holds(After(s, d.storeq), i, b) <=> Has(x, i, b) \/ Has(q, i, b)
    <3>1. Holds(After(s, d.storeq), i, b) <=>
              (Holds(After(s, c.storeq), i, b) /\ i # pid) \/ (i = pid /\ b = body)
      BY <1>5, <2>2 DEF Becomes, Writes
    <3>2. Holds(After(s, c.storeq), i, b) <=> Has(x, i, b) \/ Has(z, i, b)
      BY <1>4 DEF Synced
    <3>3. QED
      BY <1>12, <1>13, <3>1, <3>2
  <2>4. QED
    BY <2>3 DEF Synced
<1>15. Orderly(s, d.storeq, t)
  <2>1. pid <= t
    BY <1>4, <1>6 DEF UpTo
  <2>2. /\ Writes(o) => \A i \in o.ids : i <= t
        /\ o.kind # "addOut" /\ t <= t
    BY <1>1, <1>5, <2>1
  <2>3. QED
    BY <1>1, <1>2, <1>4, <1>5, <2>2, OrderlyAppend
<1>16. QED
  BY <1>2, <1>4, <1>10, <1>11, <1>14, <1>15 DEF Out, Sound, InOrder

LEMMA SubmitsOut ==
    ASSUME NEW c \in Clients, NEW d, NEW s \in Stores, Out(c, s),
           NEW body \in Messages \cup Control, Submits(c, d, body)
    PROVE  Out(d, s)
<1>1. IsReliable(body) <=> body \in Reliables
  BY DEF IsReliable, Reliables
<1>2. CASE IsReliable(body) /\ Replaces(c, d, body)
  BY <1>1, <1>2, ReplacesOut
<1>3. CASE Refuses(c, d, body)
  BY <1>3, RefusesOut
<1>4. CASE IsReliable(body) /\ \E e : Queues(c, e, body) /\ Runs(e, d)
  <2>1. PICK e : Queues(c, e, body) /\ Runs(e, d)
    BY <1>4
  <2>2. e \in Clients
    BY <2>1 DEF Queues
  <2>3. Out(e, s)
    BY <1>1, <1>4, <2>1, QueuesOut
  <2>4. QED
    BY <2>1, <2>2, <2>3, RunsOut
<1>5. CASE ~ IsReliable(body) /\ \E e : Joins(c, e, body, 0) /\ Runs(e, d)
  <2>1. PICK e : Joins(c, e, body, 0) /\ Runs(e, d)
    BY <1>5
  <2>2. e \in Clients
    BY <2>1 DEF Joins
  <2>3. Out(e, s)
    BY <1>1, <1>5, <2>1, JoinsOut
  <2>4. QED
    BY <2>1, <2>2, <2>3, RunsOut
<1>6. QED
  BY <1>2, <1>3, <1>4, <1>5 DEF Submits

\* The packets before a place that leave the queue, and those after it that stay.
LEMMA AcksOut ==
    ASSUME NEW c \in Clients, NEW d, NEW s \in Stores, Out(c, s), NEW last, StreamAcked(c, d, last)
    PROVE  Out(d, s)
<1>1. PICK done, rest \in Seq(Packets) :
          /\ c.to_resend = done \o rest
          /\ d.to_send = c.to_send /\ d.to_resend = rest /\ d.keymap = c.keymap
          /\ d.storeq = Given(c.storeq, RemoveOutgoing(Pids(done)))
          /\ d.ticks = c.ticks /\ d.out = c.out
  BY DEF StreamAcked
<1> DEFINE x == c.to_resend
           z == c.to_send
           t == c.ticks
           y == done \o rest
<1>2. z \in Seq(Packets) /\ t \in Nat /\ c.storeq \in Seq(Ops) /\ y \in Seq(Packets)
  BY OutTypes
<1>3. /\ Rising(y) /\ Rising(z) /\ Before(y, z) /\ UpTo(y, t) /\ UpTo(z, t)
      /\ Awaiting(y, c.out) /\ Points(c.keymap, z)
      /\ Synced(After(s, c.storeq), y, z) /\ Orderly(s, c.storeq, t)
  BY <1>1 DEF Out, Sound, InOrder
<1>4. /\ Rising(rest) /\ Before(done, rest) /\ UpTo(rest, t) /\ Before(done, z) /\ Before(rest, z)
      /\ \A p, b : Has(y, p, b) <=> Has(done, p, b) \/ Has(rest, p, b)
  BY <1>1, <1>2, <1>3, JoinLemma
<1>5. Awaiting(rest, c.out)
  <2>1. \A i \in 1..Len(rest) : Len(done) + i \in 1..Len(y) /\ y[Len(done) + i] = rest[i]
    BY <1>1, JoinIndex
  <2>2. Len(done) \in Nat
    BY <1>1
  <2> HIDE DEF y
  <2>3. ASSUME NEW i \in 1..Len(rest) PROVE rest[i].pid # 0 /\ rest[i].sid <= c.out
    BY <1>3, <2>1 DEF Awaiting
  <2>4. ASSUME NEW i \in 1..Len(rest), NEW j \in 1..Len(rest), i < j
        PROVE  rest[i].sid < rest[j].sid
    <3>1. Len(done) + i < Len(done) + j
      BY <2>2, <2>4
    <3>2. y[Len(done) + i].sid < y[Len(done) + j].sid
      BY <1>3, <2>1, <3>1 DEF Awaiting
    <3>3. QED
      BY <2>1, <3>2
  <2>5. QED
    BY <2>3, <2>4 DEF Awaiting
<1> HIDE DEF z, t, y
<1>6. Shrinks(y, z, rest, z, Pids(done))
  <2>1. ASSUME NEW p \in Nat \ {0}, NEW b \in Reliables, Has(rest, p, b) \/ Has(z, p, b)
        PROVE  p \notin Pids(done)
    BY <1>1, <1>2, <1>4, <2>1, ApartLemma
  <2>2. ASSUME NEW p \in Nat \ {0}, NEW b \in Reliables, Has(done, p, b)
        PROVE  p \in Pids(done)
    BY <1>1, <2>2, PidsLemma
  <2>3. QED
    BY <1>4, <2>1, <2>2 DEF Shrinks
<1>7. Pids(done) \in SUBSET Nat
  BY <1>1 DEF Pids, Packets
<1>8. Synced(After(s, d.storeq), rest, z) /\ Orderly(s, d.storeq, t)
  BY <1>1, <1>2, <1>3, <1>6, <1>7, RemovedStore
<1>9. d.to_send = z /\ d.ticks = t
  BY <1>1 DEF z, t
<1>10. QED
  BY <1>1, <1>3, <1>4, <1>5, <1>8, <1>9 DEF Out, Sound, InOrder

LEMMA SettlesOut ==
    ASSUME NEW c \in Clients, NEW d, NEW s \in Stores, Out(c, s), NEW ids, Settles(c, d, ids)
    PROVE  Out(d, s)
<1>1. PICK first, back, second, left \in Seq(Packets) :
          /\ c.to_resend = first \o back /\ c.to_send = second \o left
          /\ d.to_send = back \o left /\ d.to_resend = << >>
          /\ d.keymap = [key \in Keys |-> IF \E b \in Bodies(second) : Key(b) = key THEN 0
                                          ELSE c.keymap[key]]
          /\ \E o \in InOps :
                 d.storeq = Given(Given(c.storeq, o), RemoveOutgoing(Pids(first \o second)))
          /\ d.ticks = c.ticks /\ d.out = c.out
  BY ZenonT(40) DEF Settles
<1> DEFINE t == c.ticks
           x == first \o back
           z == second \o left
           y == back \o left
           done == first \o second
<1>2. PICK o \in InOps : d.storeq = Given(Given(c.storeq, o), RemoveOutgoing(Pids(done)))
  BY <1>1
<1>3. /\ t \in Nat /\ c.storeq \in Seq(Ops) /\ x \in Seq(Packets) /\ z \in Seq(Packets)
      /\ y \in Seq(Packets) /\ done \in Seq(Packets) /\ c.keymap \in [Keys -> Nat]
  BY <1>1, OutTypes
<1>4. /\ Rising(x) /\ Rising(z) /\ Before(x, z) /\ UpTo(x, t) /\ UpTo(z, t)
      /\ Points(c.keymap, z)
      /\ Synced(After(s, c.storeq), x, z) /\ Orderly(s, c.storeq, t)
  BY <1>1 DEF Out, Sound, InOrder
<1>5. /\ Rising(back) /\ Before(first, back) /\ UpTo(back, t) /\ Before(first, z) /\ Before(back, z)
      /\ \A p, b : Has(x, p, b) <=> Has(first, p, b) \/ Has(back, p, b)
  <2> HIDE DEF z, y, done
  <2>1. QED
    BY <1>3, <1>4, JoinLemma
<1>6. /\ Rising(left) /\ Before(second, left) /\ UpTo(left, t)
      /\ Before(first, second) /\ Before(first, left)
      /\ Before(back, second) /\ Before(back, left)
      /\ \A p, b : Has(z, p, b) <=> Has(second, p, b) \/ Has(left, p, b)
  <2> HIDE DEF x, y, done
  <2>1. QED
    BY <1>3, <1>4, <1>5, JoinLemma
<1>7. /\ Rising(y) /\ UpTo(y, t)
      /\ \A p, b : Has(y, p, b) <=> Has(back, p, b) \/ Has(left, p, b)
  <2> HIDE DEF x, z, done
  <2>1. QED
    BY <1>5, <1>6, JoinLemma
<1>8. \A p, b : Has(done, p, b) <=> Has(first, p, b) \/ Has(second, p, b)
  BY JoinLemma
<1>9. Clears(d.keymap, c.keymap, second)
  BY <1>1 DEF Clears, Bodies
<1>10. Points(d.keymap, left)
  <2>1. Points(c.keymap, second \o left)
    BY <1>4
  <2> HIDE DEF x, z, y, done
  <2>2. QED
    BY <1>9, <2>1, PointsLemma
<1>11. Points(d.keymap, y)
  BY <1>10, PointsLemma
<1> HIDE DEF t, x, y, z, done
<1>12. Shrinks(x, z, << >>, y, Pids(done))
  <2>1. ASSUME NEW p \in Nat \ {0}, NEW b \in Reliables, Has(y, p, b) PROVE p \notin Pids(done)
    <3>1. p \notin Pids(first)
      BY <1>5, <1>6, <1>7, <2>1, ApartLemma
    <3>2. p \notin Pids(second)
      BY <1>6, <1>7, <2>1, ApartLemma
    <3>3. p \in Pids(done) => \E a \in Reliables : Has(done, p, a)
      BY <1>3, PidsLemma
    <3>4. \A a : ~ Has(first, p, a) /\ ~ Has(second, p, a)
      BY <3>1, <3>2, PidsLemma
    <3>5. QED
      BY <1>8, <3>3, <3>4
  <2>2. ASSUME NEW p \in Nat \ {0}, NEW b \in Reliables, Has(first, p, b) \/ Has(second, p, b)
        PROVE  p \in Pids(done)
    BY <1>3, <1>8, <2>2, PidsLemma
  <2>3. QED
    BY <1>5, <1>6, <1>7, <2>1, <2>2, EmptyLemma DEF Shrinks
<1>13. Pids(done) \in SUBSET Nat
  BY SMTT(30), <1>3 DEF Pids, Packets
<1> DEFINE g == Given(c.storeq, o)
<1>14. g \in Seq(Ops) /\ Synced(After(s, g), x, z) /\ Orderly(s, g, t)
  BY <1>3, <1>4, NotesStore
<1> HIDE DEF g
<1>15. Synced(After(s, d.storeq), << >>, y) /\ Orderly(s, d.storeq, t)
  <2>1. d.storeq = Given(g, RemoveOutgoing(Pids(done)))
    BY <1>2 DEF g
  <2>2. QED
    BY <1>3, <1>12, <1>13, <1>14, <2>1, RemovedStore
<1>16. d.to_send = y /\ d.ticks = t /\ d.to_resend = << >>
  BY <1>1 DEF y, t
<1>17. QED
  BY <1>7, <1>11, <1>15, <1>16, EmptyLemma DEF Out, Sound, InOrder

\* In a queue in order a persistent id is in one place.
LEMMA OnePlace ==
    ASSUME NEW q \in Seq(Packets), Rising(q), NEW i \in 1..Len(q), NEW j \in 1..Len(q),
           q[i].pid # 0, q[i].pid = q[j].pid
    PROVE  i = j
<1>1. SUFFICES ASSUME i # j PROVE FALSE
  OBVIOUS
<1>2. i < j \/ j < i
  BY <1>1
<1>3. q[i].pid < q[j].pid \/ q[j].pid < q[i].pid
  BY <1>2 DEF Rising
<1>4. q[i].pid \in Nat /\ q[j].pid \in Nat
  BY DEF Packets
<1>5. QED
  BY <1>3, <1>4

LEMMA StartsOverOut ==
    ASSUME NEW c \in Clients, NEW d, NEW s \in Stores, Out(c, s),
           StartsOver(c, d, c.to_resend \o c.to_send)
    PROVE  Out(d, s)
<1> DEFINE x == c.to_resend
           z == c.to_send
           t == c.ticks
           y == x \o z
           B == Worth(c, y)
           q == WithBody(y, B)
           D == {y[i].pid : i \in Dropped(c, y)} \ {0}
<1>1. /\ x \in Seq(Packets) /\ z \in Seq(Packets) /\ t \in Nat /\ c.storeq \in Seq(Ops)
      /\ y \in Seq(Packets)
  <2>1. /\ x \in Seq(Packets) /\ z \in Seq(Packets) /\ t \in Nat /\ c.storeq \in Seq(Ops)
    BY OutTypes
  <2>2. QED
    BY <2>1
<1>2. /\ d.to_send = q /\ d.to_resend = << >>
      /\ d.keymap = [k \in Keys |-> IF \E b \in Bodies(y) : Key(b) = k THEN 0 ELSE c.keymap[k]]
      /\ d.storeq = Given(c.storeq, RemoveOutgoing(D)) /\ d.ticks = t /\ d.out = 1
  BY DEF StartsOver
<1>3. /\ Rising(x) /\ Rising(z) /\ Before(x, z) /\ UpTo(x, t) /\ UpTo(z, t)
      /\ Points(c.keymap, z)
      /\ Synced(After(s, c.storeq), x, z) /\ Orderly(s, c.storeq, t)
  BY DEF Out, Sound, InOrder
<1>4. \A i \in 1..Len(y) : i \in Dropped(c, y) <=> y[i].body \notin B
  BY DEF Dropped
<1> HIDE DEF x, z, t, B
<1>5. /\ Rising(y) /\ UpTo(y, t) /\ Points(c.keymap, y)
      /\ \A p, b : Has(y, p, b) <=> Has(x, p, b) \/ Has(z, p, b)
  BY <1>1, <1>3, JoinLemma, PointsLemma
<1> HIDE DEF y
<1>6. q \in Seq(Packets) /\ \E h : KeptOf(q, y, B, h)
  BY <1>1, WithBodyLemma
<1>7. PICK h : KeptOf(q, y, B, h)
  BY <1>6
<1>8. D \in SUBSET Nat
  <2>1. \A i \in 1..Len(y) : y[i].pid \in Nat
    BY <1>1 DEF Packets
  <2>2. \A i \in Dropped(c, y) : i \in 1..Len(y)
    BY DEF Dropped
  <2>3. QED
    BY <2>1, <2>2
<1>9. \A p : p \in D <=> p # 0 /\ \E i \in 1..Len(y) : y[i].pid = p /\ y[i].body \notin B
  <2>1. \A i \in Dropped(c, y) : i \in 1..Len(y)
    BY DEF Dropped
  <2>2. QED
    BY <1>4, <2>1
<1> HIDE DEF q, D
<1>10. /\ \A i, j \in 1..Len(q) : i < j => h[i] < h[j]
       /\ \A i \in 1..Len(q) : /\ h[i] \in 1..Len(y) /\ q[i] = y[h[i]] /\ q[i].body \in B
       /\ \A j \in 1..Len(y) : y[j].body \in B => \E i \in 1..Len(q) : q[i] = y[j]
  BY <1>7 DEF KeptOf
<1>11. Rising(q)
  <2>1. SUFFICES ASSUME NEW i \in 1..Len(q), NEW j \in 1..Len(q), i < j,
                        q[i].pid # 0, q[j].pid # 0
                 PROVE  q[i].pid < q[j].pid
    BY DEF Rising
  <2>2. h[i] < h[j] /\ h[i] \in 1..Len(y) /\ h[j] \in 1..Len(y) /\ q[i] = y[h[i]] /\ q[j] = y[h[j]]
    BY <1>10, <2>1
  <2>3. QED
    BY <1>5, <2>1, <2>2 DEF Rising
<1>12. UpTo(q, t)
  BY <1>5, <1>10 DEF UpTo
<1>13. Points(d.keymap, q)
  <2>1. SUFFICES ASSUME NEW k \in Keys, d.keymap[k] # 0 PROVE FALSE
    BY DEF Points
  <2>2. c.keymap[k] # 0 /\ ~ \E b \in Bodies(y) : Key(b) = k
    BY <1>2, <2>1
  <2>3. PICK i \in 1..Len(y) : Key(y[i].body) = k
    BY <1>5, <2>2 DEF Points
  <2>4. y[i].body \in Bodies(y)
    BY DEF Bodies
  <2>5. QED
    BY <2>2, <2>3, <2>4
<1>14. Shrinks(x, z, << >>, q, D)
  <2>1. ASSUME NEW p \in Nat \ {0}, NEW b \in Reliables, Has(q, p, b)
        PROVE  Has(y, p, b) /\ p \notin D
    <3>1. PICK i \in 1..Len(q) : q[i].pid = p /\ q[i].body = b
      BY <2>1 DEF Has
    <3>2. h[i] \in 1..Len(y) /\ y[h[i]].pid = p /\ y[h[i]].body = b /\ b \in B
      BY <1>10, <3>1
    <3>3. ASSUME NEW j \in 1..Len(y), y[j].pid = p PROVE y[j].body \in B
      <4>1. h[i] = j
        BY <1>1, <1>5, <3>2, <3>3, OnePlace
      <4>2. QED
        BY <3>2, <4>1
    <3>4. p \notin D
      BY <1>9, <3>3
    <3>5. Has(y, p, b)
      BY <3>2 DEF Has
    <3>6. QED
      BY <3>4, <3>5
  <2>2. ASSUME NEW p \in Nat \ {0}, NEW b \in Reliables, Has(y, p, b), p \notin D
        PROVE  Has(q, p, b)
    <3>1. PICK j \in 1..Len(y) : y[j].pid = p /\ y[j].body = b
      BY <2>2 DEF Has
    <3>2. y[j].body \in B
      BY <1>9, <2>2, <3>1
    <3>3. PICK i \in 1..Len(q) : q[i] = y[j]
      BY <1>10, <3>2
    <3>4. QED
      BY <3>1, <3>3 DEF Has
  <2>3. QED
    BY <1>5, <2>1, <2>2, EmptyLemma DEF Shrinks
<1>15. Synced(After(s, d.storeq), << >>, q) /\ Orderly(s, d.storeq, t)
  BY <1>1, <1>2, <1>3, <1>8, <1>14, RemovedStore
<1>16. QED
  BY <1>2, <1>11, <1>12, <1>13, <1>15, EmptyLemma DEF Out, Sound, InOrder

\* A new process, with what the store has.
LEMMA StartsOut ==
    ASSUME NEW s \in Stores, NEW d, NEW ticks \in Nat, NEW expired, NEW status,
           Distinct(s, ticks), Starts(s, d, ticks, expired, status)
    PROVE  Out(d, s)
<1> DEFINE E == Unexpired(s, expired)
           D == {e.pid : e \in s.out \ E}
           q == InOrderOfPid(E)
           m == [k \in Keys |-> NewestWithKey(E, k)]
           o == RemoveOutgoing(D)
<1>1. /\ d.to_send = q /\ d.to_resend = << >> /\ d.keymap = m
      /\ d.storeq = Given(<< >>, o) /\ d.ticks = ticks /\ d.out = 1
  BY DEF Starts
<1>2. s.out \in SUBSET Entries /\ IsFiniteSet(s.out)
  BY DEF Stores
<1>3. E \in SUBSET s.out
  BY DEF Unexpired
<1>4. \A p : p \in D <=> \E e \in s.out : e \notin E /\ e.pid = p
  OBVIOUS
<1> HIDE DEF E
<1>5. E \in SUBSET Entries /\ IsFiniteSet(E)
  BY <1>2, <1>3, FS_Subset
<1>6. \A e, f \in s.out : e.pid = f.pid => e = f
  BY DEF Distinct
<1>7. \A e, f \in E : e.pid = f.pid => e = f
  BY <1>3, <1>6
<1>8. /\ q \in Seq(Packets) /\ Rising(q)
      /\ \A t : (\A e \in E : e.pid <= t) => UpTo(q, t)
      /\ \A p, b : Has(q, p, b) <=> \E e \in E : e.pid = p /\ e.body = b
      /\ \A e \in E : \E i \in 1..Len(q) : q[i].pid = e.pid /\ q[i].body = e.body
  BY <1>5, <1>7, RestoredQueue
<1>9. D \in SUBSET Nat
  BY <1>2 DEF Entries
<1>10. o \in Ops /\ ~ Writes(o) /\ o.kind = "removeOut" /\ o.ids = D
  BY <1>9 DEF Ops, OutOps, RemoveOps, Writes, RemoveOutgoing, Op
<1> HIDE DEF q, D, o
<1>11. UpTo(q, ticks)
  BY <1>3, <1>8 DEF Distinct
<1>12. Points(m, q)
  <2>1. SUFFICES ASSUME NEW k \in Keys, m[k] # 0
                 PROVE  \E i \in 1..Len(q) : q[i].pid = m[k] /\ Key(q[i].body) = k
    BY DEF Points
  <2>2. m[k] = NewestWithKey(E, k)
    OBVIOUS
  <2> HIDE DEF m
  <2>3. PICK e \in E : Key(e.body) = k /\ e.pid = m[k]
    BY <1>5, <2>1, <2>2, NewestLemma
  <2>4. QED
    BY <1>8, <2>3
<1>13. << >> \in Seq(Ops) /\ After(s, << >>) = s
  BY AfterNone
<1>14. Synced(After(s, d.storeq), << >>, q)
  <2>1. Becomes(After(s, << >>), After(s, Given(<< >>, o)), o)
    BY <1>10, <1>13, GivenBecomes
  <2>2. Becomes(s, After(s, d.storeq), o)
    BY <1>1, <1>13, <2>1
  <2>3. ASSUME NEW p \in Nat \ {0}, NEW b \in Reliables
        PROVE  Holds(s, p, b) /\ p \notin D <=> Has(q, p, b)
    <3>1. ASSUME Holds(s, p, b), p \notin D PROVE Has(q, p, b)
      BY <1>4, <1>8, <3>1 DEF Holds
    <3>2. ASSUME Has(q, p, b) PROVE Holds(s, p, b) /\ p \notin D
      <4>1. PICK e \in E : e.pid = p /\ e.body = b
        BY <1>8, <3>2
      <4>2. p \notin D
        BY <1>3, <1>4, <1>6, <4>1
      <4>3. QED
        BY <1>3, <4>1, <4>2 DEF Holds
    <3>3. QED
      BY <3>1, <3>2
  <2>4. QED
    BY <1>10, <2>2, <2>3, EmptyLemma DEF Synced, Becomes
<1>15. Orderly(s, d.storeq, ticks)
  <2>1. Orderly(s, << >>, ticks)
    BY DEF Orderly, Adding
  <2>2. QED
    BY <1>1, <1>10, <1>13, <2>1, OrderlyGiven
<1> HIDE DEF m
<1>16. QED
  BY <1>1, <1>8, <1>11, <1>12, <1>14, <1>15, EmptyLemma DEF Out, Sound, InOrder

LEMMA HandlesOut ==
    ASSUME NEW c \in Clients, NEW packet \in FromServer, NEW h, NEW s \in Stores, Out(c, s),
           Handles(c, packet, h)
    PROVE  Out(h, s)
<1>1. PICK g \in Clients :
          /\ Counts(c, packet, g)
          /\ \/ Rests(g, h)
             \/ \E body \in Control : Submits(g, h, body)
             \/ packet.tag = "SelectiveAck" /\ Settles(g, h, packet.ids)
  BY DEF Handles
<1>2. PICK d, e : /\ IF packet.last # 0
                     THEN \E z : StreamAcked(c, z, packet.last) /\ Notes(z, d) ELSE d = c
                  /\ Notes(d, e)
                  /\ g = e \/ Submits(e, g, "StreamAck")
  BY <1>1 DEF Counts
<1>3. d \in Clients /\ Out(d, s)
  <2>1. CASE packet.last # 0
    <3>1. PICK z : StreamAcked(c, z, packet.last) /\ Notes(z, d)
      BY <1>2, <2>1
    <3>2. z \in Clients /\ Out(z, s)
      BY <3>1, AcksOut DEF StreamAcked
    <3>3. QED
      BY <3>1, <3>2, NotesOut DEF Notes
  <2>2. CASE packet.last = 0
    BY <1>2, <2>2
  <2>3. QED
    BY <2>1, <2>2
<1>4. e \in Clients /\ Out(e, s)
  BY <1>2, <1>3, NotesOut DEF Notes
<1>5. "StreamAck" \in Messages \cup Control
  BY DEF Control
<1>6. Out(g, s)
  BY <1>2, <1>4, <1>5, SubmitsOut
<1>7. CASE Rests(g, h)
  BY <1>6, <1>7, RestsOut DEF Rests
<1>8. CASE \E body \in Control : Submits(g, h, body)
  BY <1>6, <1>8, SubmitsOut
<1>9. CASE Settles(g, h, packet.ids)
  BY <1>6, <1>9, SettlesOut
<1>10. QED
  BY <1>1, <1>7, <1>8, <1>9

\* Each action does to the client and the store what its method does.
LEMMA OutInit == Init => Out(mcs, db)
<1> DEFINE st == [m \in Messages |-> {}]
<1>1. SUFFICES ASSUME Init PROVE Out(mcs, db)
  OBVIOUS
<1>2. db = EmptyStore /\ mcs = Initialize(EmptyStore, BaseTicks, {}, st)
  BY <1>1 DEF Init
<1>3. EmptyStore \in Stores
  BY FS_EmptySet DEF EmptyStore, Stores
<1>4. BaseTicks \in Nat /\ {} \in SUBSET Messages /\ st \in [Messages -> SUBSET Statuses]
  BY SystemAssumption
<1> HIDE DEF st
<1>5. Starts(EmptyStore, mcs, BaseTicks, {}, st)
  BY <1>2, <1>3, <1>4, InitializeExact
<1>6. Distinct(EmptyStore, BaseTicks)
  BY DEF Distinct, EmptyStore
<1>7. QED
  BY <1>2, <1>3, <1>4, <1>5, <1>6, StartsOut

\* The queues of two clients are the same.
LEMMA SameOut ==
    ASSUME NEW c \in Clients, NEW s, Out(c, s), NEW flush, NEW conn, NEW posted, NEW deliver,
           NEW expired,
           NEW d \in {[c EXCEPT !.flush = flush], [c EXCEPT !.conn = conn],
                      [c EXCEPT !.posted = posted], [c EXCEPT !.deliver = deliver],
                      [c EXCEPT !.expired = expired], [c EXCEPT !.conn = conn, !.flush = flush]}
    PROVE  Out(d, s)
<1>1. /\ d.to_send = c.to_send /\ d.to_resend = c.to_resend /\ d.keymap = c.keymap
      /\ d.storeq = c.storeq /\ d.ticks = c.ticks /\ d.out = c.out
  BY ZenonT(40) DEF Clients
<1>2. QED
  BY <1>1, RestsOut

LEMMA OutNext ==
    ASSUME Reboots = FALSE \/ MaxRestarts = 0, Typed, Out(mcs, db), [Next]_vars
    PROVE  Out(mcs', db')
<1>1. mcs \in Clients /\ db \in Stores
  BY DEF Typed
<1>2. CASE UNCHANGED <<mcs, db>>
  BY <1>2
<1>3. CASE AppSend
  <2>1. PICK m \in Messages, accepted \in BOOLEAN : mcs' = SendMessage(mcs, m, accepted) /\ db' = db
    BY <1>3 DEF AppSend
  <2>2. m \in Messages \cup Control
    OBVIOUS
  <2>3. Submits(mcs, mcs', m)
    BY <1>1, <2>1, <2>2, SendMessageExact
  <2>4. Out(mcs', db)
    BY <1>1, <2>2, <2>3, SubmitsOut
  <2>5. QED
    BY <2>1, <2>4
<1>4. CASE RunMaybeSend
  <2> DEFINE c == [mcs EXCEPT !.posted = mcs.posted - 1]
  <2>1. mcs' = MaybeSendMessage(c) /\ db' = db /\ mcs.posted > 0
    BY <1>4 DEF RunMaybeSend, Client
  <2>2. mcs.posted - 1 \in Nat
    BY <1>1, <2>1 DEF Clients
  <2>3. c \in Clients /\ Out(c, db)
    BY <1>1, <2>2, SameOut DEF Clients
  <2> HIDE DEF c
  <2>4. Runs(c, mcs')
    BY <2>1, <2>3, MaybeSendExact
  <2>5. Out(mcs', db)
    BY <1>1, <2>3, <2>4, RunsOut
  <2>6. QED
    BY <2>1, <2>5
<1>5. CASE Deliver
  <2>1. mcs' = [mcs EXCEPT !.deliver = Tail(mcs.deliver)] /\ db' = db
    BY <1>5 DEF Deliver
  <2>2. QED
    BY <1>1, <2>1, SameOut
<1>6. CASE FlushDone
  <2> DEFINE c == [mcs EXCEPT !.flush = << >>]
  <2>1. mcs' = MaybeSendMessage(c) /\ db' = db
    BY <1>6 DEF FlushDone
  <2>2. c \in Clients /\ Out(c, db)
    BY <1>1, SameOut DEF Clients
  <2> HIDE DEF c
  <2>3. Runs(c, mcs')
    BY <2>1, <2>2, MaybeSendExact
  <2>4. Out(mcs', db)
    BY <1>1, <2>2, <2>3, RunsOut
  <2>5. QED
    BY <2>1, <2>4
<1>7. CASE SendHeartbeat
  <2>1. mcs' = SendMessage(mcs, "HeartbeatPing", TRUE) /\ db' = db
    BY <1>7 DEF SendHeartbeat, SendControl
  <2>2. "HeartbeatPing" \in Messages \cup Control /\ TRUE \in BOOLEAN
    BY DEF Control
  <2>3. Submits(mcs, mcs', "HeartbeatPing")
    BY <1>1, <2>1, <2>2, SendMessageExact
  <2>4. Out(mcs', db)
    BY <1>1, <2>2, <2>3, SubmitsOut
  <2>5. QED
    BY <2>1, <2>4
<1>8. CASE Expire
  <2>1. PICK m \in Messages : mcs' = [mcs EXCEPT !.expired = mcs.expired \cup {m}] /\ db' = db
    BY <1>8 DEF Expire, Client
  <2>2. QED
    BY <1>1, <2>1, SameOut
<1>9. CASE Disconnect
  <2>1. mcs' = [mcs EXCEPT !.conn = "down", !.flush = << >>] /\ db' = db
    BY <1>9 DEF Disconnect, SignalConnectionReset
  <2>2. QED
    BY <1>1, <2>1, SameOut
<1>10. CASE Reconnect
  <2> DEFINE q == mcs.to_resend \o mcs.to_send
  <2>1. mcs' = StartOver(mcs, q) /\ db' = db
    BY <1>10 DEF Reconnect, ResetStateAndBuildLoginRequest
  <2>2. mcs.to_resend \in Seq(Packets) /\ mcs.to_send \in Seq(Packets)
    BY <1>1, OutTypes
  <2>3. q \in Seq(Packets)
    BY <2>2
  <2>4. StartsOver(mcs, mcs', q)
    BY <1>1, <2>1, <2>3, StartOverExact
  <2>5. Out(mcs', db)
    BY <1>1, <2>4, StartsOverOut
  <2>6. QED
    BY <2>1, <2>5
<1>11. CASE Receive
  <2> DEFINE packet == Head(to_client)
             c == IF packet.tag \in {"LoginResponse", "LoginError"}
                  THEN [mcs EXCEPT !.conn = "open"] ELSE mcs
  <2>1. /\ to_client # << >> /\ to_client \in Seq(FromServer)
        /\ mcs' = HandlePacketFromWire(c, packet) /\ db' = db
    BY <1>11 DEF Receive, Typed
  <2>2. packet \in FromServer
    BY <2>1
  <2>3. c \in Clients /\ Out(c, db)
    <3>1. [mcs EXCEPT !.conn = "open"] \in Clients /\ Out([mcs EXCEPT !.conn = "open"], db)
      BY <1>1, SameOut DEF Clients
    <3>2. QED
      BY <1>1, <3>1
  <2> HIDE DEF packet, c
  <2>4. Handles(c, packet, mcs')
    BY <2>1, <2>2, <2>3, HandlePacketExact
  <2>5. Out(mcs', db)
    BY <1>1, <2>2, <2>3, <2>4, HandlesOut
  <2>6. QED
    BY <2>1, <2>5
<1>12. CASE StoreStep
  <2> DEFINE q == mcs.storeq
  <2>1. /\ q # << >> /\ db' = Applied(db, Head(q))
        /\ mcs' = [mcs EXCEPT !.storeq = Tail(q)]
    BY <1>12 DEF StoreStep
  <2>2. q \in Seq(Ops)
    BY <1>1, OutTypes
  <2> HIDE DEF q
  <2>3. /\ mcs'.to_send = mcs.to_send /\ mcs'.to_resend = mcs.to_resend
        /\ mcs'.keymap = mcs.keymap /\ mcs'.storeq = Tail(q) /\ mcs'.ticks = mcs.ticks
        /\ mcs'.out = mcs.out
    BY <1>1, <2>1 DEF Clients
  <2>4. After(db', Tail(q)) = After(db, q)
    BY <1>1, <2>1, <2>2, AfterHead
  <2>5. Orderly(db', Tail(q), mcs.ticks)
    <3>1. mcs.ticks \in Nat /\ Orderly(db, q, mcs.ticks)
      BY <1>1, OutTypes DEF Out, q
    <3>2. QED
      BY <1>1, <2>1, <2>2, <3>1, OrderlyHead
  <2>6. QED
    BY <2>3, <2>4, <2>5 DEF Out, Sound, q
<1>13. CASE Restart
  <2>1. mcs' = Initialize(db, mcs.ticks, mcs.expired, mcs.status) /\ db' = db
    <3>1. used.restarts \in Nat /\ used.restarts < MaxRestarts
      BY <1>13 DEF Restart, Typed, Uses
    <3>2. Reboots = FALSE
      BY <3>1
    <3>3. QED
      BY <1>13, <3>2 DEF Restart
  <2>2. /\ mcs.ticks \in Nat /\ mcs.expired \in SUBSET Messages
        /\ mcs.status \in [Messages -> SUBSET Statuses]
    BY <1>1 DEF Clients
  <2>3. Starts(db, mcs', mcs.ticks, mcs.expired, mcs.status)
    BY <1>1, <2>1, <2>2, InitializeExact
  <2>4. Distinct(db, mcs.ticks)
    BY DEF Out, Orderly
  <2>5. Out(mcs', db)
    BY <1>1, <2>2, <2>3, <2>4, StartsOut
  <2>6. QED
    BY <2>1, <2>5
<1>14. CASE ServerLogin \/ ServerReceives
  BY <1>2, <1>14, ServerLoginEffect, ServerReceivesEffect
<1>15. CASE \/ ServerSendsData \/ ServerSendsStreamAck
            \/ ServerSendsSelectiveAck \/ ServerSendsControl
  <2>1. PICK p \in FromServer : ServerSends(p)
    BY <1>15, AnySendEffect
  <2>2. QED
    BY <1>2, <2>1, ServerSendsEffect
<1>16. CASE UNCHANGED vars
  BY <1>2, <1>16 DEF vars
<1>17. QED
  BY <1>3, <1>4, <1>5, <1>6, <1>7, <1>8, <1>9, <1>10, <1>11, <1>12, <1>13, <1>14, <1>15,
     <1>16 DEF Next

-----------------------------------------------------------------------------
(***************************************************************************)
(* What follows from the invariant                                         *)
(***************************************************************************)

LEMMA SoundQueues == Typed /\ Out(mcs, db) => QueuesSound
<1> DEFINE r == mcs.to_resend
           s == mcs.to_send
           q == r \o s
<1>1. SUFFICES ASSUME Typed, Out(mcs, db) PROVE QueuesSound
  OBVIOUS
<1>2. mcs \in Clients /\ srv \in Servers /\ delivered \in [ServerIds -> Nat] /\ db \in Stores
  BY <1>1 DEF Typed
<1>3. r \in Seq(Packets) /\ s \in Seq(Packets) /\ q \in Seq(Packets) /\ Queue = q
  <2>1. r \in Seq(Packets) /\ s \in Seq(Packets)
    BY <1>2, OutTypes
  <2>2. QED
    BY <2>1 DEF Queue
<1>4. /\ Rising(r) /\ Rising(s) /\ Before(r, s) /\ Awaiting(r, mcs.out)
      /\ Points(mcs.keymap, s)
  BY <1>1 DEF Out, Sound, InOrder
<1> HIDE DEF r, s, q
<1>5. TypeOK
  <2>1. ASSUME NEW i \in 1..Len(q) PROVE PacketType(q[i])
    <3>1. q[i] \in Packets
      BY <1>3
    <3>2. QED
      BY <3>1 DEF Packets, PacketType, IsReliable, Reliables
  <2>2. TrackedIds(mcs) \subseteq ServerIds
    BY <1>2, TrackedType
  <2>3. /\ mcs.state \in {"UNINITIALIZED", "LOADED", "CONNECTING", "CONNECTED"}
        /\ mcs.keymap \in [Keys -> Nat]
        /\ mcs.out \in Nat /\ mcs.in \in Nat /\ mcs.last_in \in Nat
        /\ mcs.conn \in {"down", "handshake", "open"}
        /\ mcs.flush \in {<< >>} \cup {<<f>> : f \in Frames}
        /\ mcs.status \in [Messages -> SUBSET Statuses]
    BY <1>2 DEF Clients
  <2>4. Len(mcs.flush) <= 1
    <3>1. CASE mcs.flush = << >>
      <4>1. Len(<< >>) = 0
        OBVIOUS
      <4>2. QED
        BY <3>1, <4>1
    <3>2. CASE \E f \in Frames : mcs.flush = <<f>>
      <4>1. PICK f \in Frames : mcs.flush = <<f>>
        BY <3>2
      <4>2. Len(<<f>>) = 1
        OBVIOUS
      <4>3. QED
        BY <4>1, <4>2
    <3>3. QED
      BY <2>3, <3>1, <3>2
  <2>5. srv.got \subseteq Nat /\ srv.bodies \subseteq Messages
    BY <1>2 DEF Servers
  <2>6. QED
    BY <1>2, <1>3, <2>1, <2>2, <2>3, <2>4, <2>5 DEF TypeOK
<1>6. KeyMapPointsIntoQueue
  BY <1>4 DEF KeyMapPointsIntoQueue, Points, s
<1>7. Rising(q)
  BY <1>3, <1>4, JoinLemma DEF q
<1>8. QueuesOrdered
  BY <1>3, <1>4, <1>7 DEF QueuesOrdered, Awaiting, Rising, r
<1>9. QED
  BY <1>5, <1>6, <1>8 DEF QueuesSound

LEMMA StoreFollows == Typed /\ Out(mcs, db) => OutgoingStoreInSync
<1> DEFINE r == mcs.to_resend
           s == mcs.to_send
           q == r \o s
           z == Drained
           held == {<<e.pid, e.body>> : e \in z.out}
           have == {<<q[i].pid, q[i].body>> : i \in {j \in 1..Len(q) : q[j].pid # 0}}
<1>1. SUFFICES ASSUME Typed, Out(mcs, db) PROVE held = have
  BY DEF OutgoingStoreInSync, Queue
<1>2. mcs \in Clients /\ db \in Stores
  BY <1>1 DEF Typed
<1>3. r \in Seq(Packets) /\ s \in Seq(Packets) /\ z \in Stores
  BY <1>2, OutTypes DEF Drained
<1>4. Synced(z, r, s)
  BY <1>1 DEF Out, Drained
<1>5. q \in Seq(Packets) /\ \A p, b : Has(q, p, b) <=> Has(r, p, b) \/ Has(s, p, b)
  <2> HIDE DEF r, s
  <2>1. q \in Seq(Packets)
    BY <1>3
  <2>2. QED
    BY <1>3, <2>1, JoinLemma
<1> HIDE DEF r, s, q, z
<1>6. ASSUME NEW p \in Nat \ {0}, NEW b \in Reliables PROVE <<p, b>> \in held <=> <<p, b>> \in have
  <2>1. <<p, b>> \in held <=> Holds(z, p, b)
    BY DEF Holds
  <2>2. <<p, b>> \in have <=> Has(q, p, b)
    BY DEF Has
  <2>3. QED
    BY <1>4, <1>5, <2>1, <2>2 DEF Synced
<1>7. held \subseteq (Nat \ {0}) \X Reliables
  BY <1>3 DEF Stores, Entries
<1>8. have \subseteq (Nat \ {0}) \X Reliables
  <2>1. ASSUME NEW i \in 1..Len(q), q[i].pid # 0
        PROVE  q[i].pid \in Nat \ {0} /\ q[i].body \in Reliables
    <3>1. q[i] \in Packets
      BY <1>5
    <3>2. QED
      BY <2>1, <3>1 DEF Packets
  <2>2. QED
    BY <2>1
<1> HIDE DEF held, have
<1>9. QED
  BY <1>6, <1>7, <1>8

\* While the machine is not restarted, the invariant holds.
LEMMA OutAlways ==
    ASSUME Reboots = FALSE \/ MaxRestarts = 0
    PROVE  Spec => [](Typed /\ Out(mcs, db))
<1>1. Init => Typed /\ Out(mcs, db)
  BY TypedInit, OutInit
<1>2. (Typed /\ Out(mcs, db)) /\ [Next]_vars => (Typed /\ Out(mcs, db))'
  BY TypedNext, OutNext
<1>3. QED
  BY <1>1, <1>2, PTL DEF Spec

\* The client's queues are sound whatever is sent, collapsed, acknowledged, broken
\* off and restarted: the packets awaiting an acknowledgement are in the order of
\* their stream ids and all reliable packets in the order of their persistent ids,
\* so that popping prefixes in HandleStreamAck and HandleSelectiveAck pops the
\* acknowledged messages, and collapse_key_map_ points to queued packets only.
THEOREM QueuesStaySound ==
    ASSUME Reboots = FALSE \/ MaxRestarts = 0
    PROVE  Spec => []QueuesSound
<1>1. Typed /\ Out(mcs, db) => QueuesSound
  BY SoundQueues
<1>2. QED
  BY <1>1, OutAlways, PTL

\* The store follows the queues: once it has executed what it was handed, it holds
\* exactly the unacknowledged reliable messages with the contents they would be sent
\* with, through collapses, acknowledgements, resets and restarts of the process.
THEOREM OutgoingStoreFollows ==
    ASSUME Reboots = FALSE \/ MaxRestarts = 0
    PROVE  Spec => []OutgoingStoreInSync
<1>1. Typed /\ Out(mcs, db) => OutgoingStoreInSync
  BY StoreFollows
<1>2. QED
  BY <1>1, OutAlways, PTL

-----------------------------------------------------------------------------
(***************************************************************************)
(* What the applications are told, while the process lives                 *)
(***************************************************************************)

\* The client has the message b, under the persistent id p.
Holding(c, p, b) == Has(c.to_resend, p, b) \/ Has(c.to_send, p, b)

HoldsBody(c, b) == \E p \in Nat \ {0} : Holding(c, p, b)

IsAsked(a, b) == \E i \in 1..Len(a) : a[i] = b

\* A later message with its collapse key was sent.
Superseded(a, b) ==
    \E n \in Messages : \E i, j \in 1..Len(a) :
        i < j /\ a[i] = b /\ a[j] = n /\ Key(n) = Key(b) /\ Key(n) # NoKey

Ends == {"SENT", "TTL_EXCEEDED"}

\* Message b is in the queues, once, or its end is known; arr are the messages the
\* server has received.
Account(c, a, arr, b) ==
    /\ ~ IsAsked(a, b) => c.status[b] = {} /\ ~ HoldsBody(c, b)
    /\ HoldsBody(c, b) => c.status[b] \subseteq {"QUEUED"}
    /\ IsAsked(a, b) /\ ~ HoldsBody(c, b) =>
           c.status[b] \cap (Ends \cup Refusals) # {} \/ Superseded(a, b)
    /\ ~ (Ends \subseteq c.status[b])
    /\ "SENT" \in c.status[b] => b \in arr
    /\ \A p, q \in Nat \ {0} : Holding(c, p, b) /\ Holding(c, q, b) => p = q

Accounted(c, a, arr) == \A b \in Reliables : Account(c, a, arr, b)

\* The persistent id is written in the header of a packet.
Marked(s) == \A i \in 1..Len(s) : s[i].hdr = s[i].pid

\* The packets on the way to the server.
Airs(c, back) == {c.flush[i] : i \in 1..Len(c.flush)} \cup {back[i] : i \in 1..Len(back)}

\* No key points to persistent id p, so that its message is not replaced.
Unkeyed(c, p) == \A k \in Keys : c.keymap[k] # p

\* A message that has been on its way under a persistent id keeps the id: what the
\* server has under the id of a packet is that packet's message.
Flies(c, a, f) ==
    /\ f.hdr <= c.ticks
    /\ f.body \in Reliables => IsAsked(a, f.body) /\ c.status[f.body] \cap Refusals = {}
    /\ f.hdr # 0 => Unkeyed(c, f.hdr) /\ \A b \in Reliables : Holding(c, f.hdr, b) => f.body = b

Landed(c, server, p) ==
    /\ p # 0 /\ p <= c.ticks /\ Unkeyed(c, p)
    /\ \A b \in Reliables : Holding(c, p, b) => b \in server.bodies

Tells(c, a, back, server) ==
    /\ Accounted(c, a, server.bodies)
    /\ Marked(c.to_send) /\ Marked(c.to_resend)
    /\ \A f \in Airs(c, back) : Flies(c, a, f)
    /\ \A p \in server.got : Landed(c, server, p)

\* A packet with a stream id the server has come to has arrived; the others are on
\* their way, at the places their stream ids say.
InStream(p, c, back, server) ==
    /\ p.sid <= server.in => p.body \in server.bodies
    /\ \A k \in 1..Len(back) : p.sid = server.in + k => back[k].body = p.body
    /\ \A k \in 1..Len(c.flush) :
           p.sid = server.in + Len(back) + k => c.flush[k].body = p.body

Streams(c, back, server) ==
    /\ c.out = server.in + Len(back) + Len(c.flush)
    /\ \A i \in 1..Len(c.to_resend) : InStream(c.to_resend[i], c, back, server)

\* The server acknowledges what it has.
Honest(wire, server) ==
    \A k \in 1..Len(wire) : wire[k].tag = "SelectiveAck" => wire[k].ids \subseteq server.got

\* Until the server has read the login request nothing has a place on the stream.
Placed(c, wire, back, server) ==
    c.conn # "down" =>
        IF server.up
        THEN /\ Streams(c, back, server)
             /\ \A k \in 1..Len(wire) : wire[k].last <= server.in
        ELSE c.to_resend = << >>

Faithful ==
    /\ Tells(mcs, asked, to_server, srv)
    /\ Honest(to_client, srv)
    /\ Placed(mcs, to_client, to_server, srv)

\* How far message b has come, for client c when a have been sent.
LifeOf(c, a, b) ==
    LET ends == c.status[b] \cap Ends
    IN  IF ~ IsAsked(a, b) THEN "new"
        ELSE IF ends = {"SENT"} THEN "sent"
        ELSE IF ends = {"TTL_EXCEEDED"} THEN "expired"
        ELSE IF ends # {} THEN "contradicted"
        ELSE IF HoldsBody(c, b) THEN "waiting"
        ELSE IF c.status[b] \cap Refusals # {} THEN "refused"
        ELSE IF Superseded(a, b) THEN "replaced"
        ELSE "forgotten"

\* From life x to life y a message has waited enough, or stays where it is.
Ages(x, y, b, arr) ==
    \/ y = x
    \/ x = "waiting" /\ y = "sent" /\ b \in arr
    \/ x = "waiting" /\ y = "expired"

Lived(c, d, a, arr) == \A b \in Reliables : Ages(LifeOf(c, a, b), LifeOf(d, a, b), b, arr)

\* Nothing is forgotten, and each life is told by what the applications were told.
LEMMA LifeLemma ==
    ASSUME NEW c, NEW a, NEW arr, Accounted(c, a, arr), NEW b \in Reliables
    PROVE  /\ ~ IsAsked(a, b) => LifeOf(c, a, b) = "new"
           /\ HoldsBody(c, b) => IsAsked(a, b) /\ LifeOf(c, a, b) = "waiting"
           /\ "SENT" \in c.status[b] => LifeOf(c, a, b) = "sent"
           /\ "TTL_EXCEEDED" \in c.status[b] => LifeOf(c, a, b) = "expired"
           /\ IsAsked(a, b) /\ ~ HoldsBody(c, b) /\ c.status[b] \cap Ends = {} =>
                  LifeOf(c, a, b) = IF c.status[b] \cap Refusals # {} THEN "refused"
                                    ELSE "replaced"
           /\ LifeOf(c, a, b) \in {"new", "refused", "waiting", "sent", "expired", "replaced"}
<1> DEFINE st == c.status[b]
           ends == st \cap Ends
           L == LifeOf(c, a, b)
<1>1. /\ ~ IsAsked(a, b) => st = {} /\ ~ HoldsBody(c, b)
      /\ HoldsBody(c, b) => st \subseteq {"QUEUED"}
      /\ IsAsked(a, b) /\ ~ HoldsBody(c, b) => st \cap (Ends \cup Refusals) # {} \/ Superseded(a, b)
      /\ ~ (Ends \subseteq st)
  BY DEF Accounted, Account
<1>2. L = IF ~ IsAsked(a, b) THEN "new"
          ELSE IF ends = {"SENT"} THEN "sent"
          ELSE IF ends = {"TTL_EXCEEDED"} THEN "expired"
          ELSE IF ends # {} THEN "contradicted"
          ELSE IF HoldsBody(c, b) THEN "waiting"
          ELSE IF st \cap Refusals # {} THEN "refused"
          ELSE IF Superseded(a, b) THEN "replaced"
          ELSE "forgotten"
  BY DEF LifeOf
<1> HIDE DEF L, st
<1>3. /\ ends = {} \/ ends = {"SENT"} \/ ends = {"TTL_EXCEEDED"}
      /\ "SENT" \in st <=> ends = {"SENT"}
      /\ "TTL_EXCEEDED" \in st <=> ends = {"TTL_EXCEEDED"}
  BY <1>1 DEF Ends
<1>4. HoldsBody(c, b) => IsAsked(a, b) /\ ends = {}
  BY <1>1 DEF Ends
<1>5. ends # {} => IsAsked(a, b)
  BY <1>1
<1>6. ends = {} /\ st \cap (Ends \cup Refusals) # {} => st \cap Refusals # {}
  OBVIOUS
<1> HIDE DEF ends
<1>7. IsAsked(a, b) /\ ~ HoldsBody(c, b) /\ ends = {} =>
          L = IF st \cap Refusals # {} THEN "refused" ELSE "replaced"
  BY <1>1, <1>2, <1>6
<1>8. HoldsBody(c, b) => L = "waiting"
  BY <1>2, <1>4
<1>9. /\ ends = {"SENT"} => L = "sent"
      /\ ends = {"TTL_EXCEEDED"} => L = "expired"
  BY <1>2, <1>3, <1>5
<1>10. L \in {"new", "refused", "waiting", "sent", "expired", "replaced"}
  BY <1>2, <1>3, <1>7, <1>8, <1>9
<1>11. QED
  BY <1>2, <1>3, <1>4, <1>7, <1>8, <1>9, <1>10 DEF L, st, ends

\* Messages go on living one after the other.
LEMMA LivedOn ==
    ASSUME NEW c, NEW d, NEW e, NEW a, NEW r, NEW q, NEW arr, r \subseteq arr, q \subseteq arr,
           Lived(c, d, a, r), Lived(d, e, a, q)
    PROVE  Lived(c, e, a, arr)
<1> SUFFICES ASSUME NEW b \in Reliables
             PROVE  Ages(LifeOf(c, a, b), LifeOf(e, a, b), b, arr)
  BY DEF Lived
<1>1. Ages(LifeOf(c, a, b), LifeOf(d, a, b), b, r) /\ Ages(LifeOf(d, a, b), LifeOf(e, a, b), b, q)
  BY DEF Lived
<1>2. QED
  BY <1>1 DEF Ages

LEMMA SameLives ==
    ASSUME NEW c, NEW d, NEW a, NEW arr, d.status = c.status,
           \A b \in Reliables : HoldsBody(d, b) <=> HoldsBody(c, b)
    PROVE  Lived(c, d, a, arr)
  BY DEF Lived, Ages, LifeOf

\* An id has one message.
LEMMA OneBody ==
    ASSUME NEW c \in Clients, Sound(c), NEW p \in Nat \ {0}, NEW b, NEW e,
           Holding(c, p, b), Holding(c, p, e)
    PROVE  b = e /\ p <= c.ticks
<1> DEFINE x == c.to_resend
           y == c.to_send
<1>1. x \in Seq(Packets) /\ y \in Seq(Packets) /\ c.ticks \in Nat
  BY DEF Clients
<1>2. Rising(x) /\ Rising(y) /\ Before(x, y) /\ UpTo(x, c.ticks) /\ UpTo(y, c.ticks)
  BY DEF Sound, InOrder
<1> HIDE DEF x, y
<1>3. /\ Has(x, p, b) \/ Has(y, p, b)
      /\ Has(x, p, e) \/ Has(y, p, e)
  BY DEF Holding, x, y
<1>4. ASSUME NEW u \in Seq(Packets), Rising(u), Has(u, p, b), Has(u, p, e) PROVE b = e
  BY <1>4, OnePlace DEF Has
<1>5. ~ (Has(x, p, b) /\ Has(y, p, e)) /\ ~ (Has(x, p, e) /\ Has(y, p, b))
  BY <1>2 DEF Has, Before
<1>6. p <= c.ticks
  BY <1>2, <1>3 DEF Has, UpTo
<1>7. QED
  BY <1>1, <1>2, <1>3, <1>4, <1>5, <1>6


-----------------------------------------------------------------------------
(***************************************************************************)
(* Messages that end                                                       *)
(***************************************************************************)

\* From c to d nothing else is being flushed, or a packet that was in the queue.
Flushes(c, d) ==
    \A i \in 1..Len(d.flush) :
        LET f == d.flush[i]
        IN  \/ \E j \in 1..Len(c.flush) : f = c.flush[j]
            \/ f.hdr = 0 /\ f.body \notin Reliables
            \/ /\ f.hdr \in Nat \ {0} /\ f.body \in Reliables
               /\ Holding(c, f.hdr, f.body) /\ Unkeyed(d, f.hdr)

\* From c to d the messages under the ids of S leave the queues, and the applications
\* are told st of them.
Leave(c, d, S, st, arr) ==
    /\ \A p \in Nat \ {0}, b \in Reliables : Holding(d, p, b) <=> Holding(c, p, b) /\ p \notin S
    /\ \A b \in Reliables :
           d.status[b] = IF \E p \in Nat \ {0} : p \in S /\ Holding(c, p, b)
                         THEN c.status[b] \cup {st} ELSE c.status[b]
    /\ st = "SENT" =>
           \A p \in Nat \ {0}, b \in Reliables : p \in S /\ Holding(c, p, b) => b \in arr

\* And nothing else that is told of messages changes.
Moves(c, d, S, st, arr) ==
    /\ d \in Clients /\ st \in Ends /\ Leave(c, d, S, st, arr)
    /\ \A k \in Keys : d.keymap[k] \in {c.keymap[k], 0}
    /\ c.ticks <= d.ticks
    /\ Marked(d.to_send) /\ Marked(d.to_resend)
    /\ Flushes(c, d)

LEMMA MovesAccounted ==
    ASSUME NEW c \in Clients, NEW d, NEW S, NEW st, NEW arr, NEW all, arr \subseteq all,
           NEW a, Accounted(c, a, all), Moves(c, d, S, st, arr)
    PROVE  Accounted(d, a, all) /\ Lived(c, d, a, arr)
<1> SUFFICES ASSUME NEW b \in Reliables
             PROVE  /\ ~ IsAsked(a, b) => d.status[b] = {} /\ ~ HoldsBody(d, b)
                    /\ HoldsBody(d, b) => d.status[b] \subseteq {"QUEUED"}
                    /\ IsAsked(a, b) /\ ~ HoldsBody(d, b) =>
                           d.status[b] \cap (Ends \cup Refusals) # {} \/ Superseded(a, b)
                    /\ ~ (Ends \subseteq d.status[b])
                    /\ "SENT" \in d.status[b] => b \in all
                    /\ \A p, q \in Nat \ {0} : Holding(d, p, b) /\ Holding(d, q, b) => p = q
                    /\ Ages(LifeOf(c, a, b), LifeOf(d, a, b), b, arr)
  BY DEF Accounted, Account, Lived
<1> DEFINE Goes == \E p \in Nat \ {0} : p \in S /\ Holding(c, p, b)
           old == c.status[b]
           new == d.status[b]
<1>1. /\ ~ IsAsked(a, b) => old = {} /\ ~ HoldsBody(c, b)
      /\ HoldsBody(c, b) => old \subseteq {"QUEUED"}
      /\ IsAsked(a, b) /\ ~ HoldsBody(c, b) => old \cap (Ends \cup Refusals) # {} \/ Superseded(a, b)
      /\ ~ (Ends \subseteq old)
      /\ "SENT" \in old => b \in all
      /\ \A p, q \in Nat \ {0} : Holding(c, p, b) /\ Holding(c, q, b) => p = q
  BY DEF Accounted, Account
<1>2. /\ st \in Ends
      /\ \A p \in Nat \ {0} : Holding(d, p, b) <=> Holding(c, p, b) /\ p \notin S
      /\ new = IF Goes THEN old \cup {st} ELSE old
      /\ st = "SENT" /\ Goes => b \in arr
  BY DEF Moves, Leave
<1>3. /\ Goes => HoldsBody(c, b) /\ ~ HoldsBody(d, b)
      /\ ~ Goes => (HoldsBody(d, b) <=> HoldsBody(c, b))
  BY <1>1, <1>2 DEF HoldsBody
<1>4. \A p, q \in Nat \ {0} : Holding(d, p, b) /\ Holding(d, q, b) => p = q
  BY <1>1, <1>2
<1> HIDE DEF Goes
<1>5. CASE ~ Goes
  <2>1. new = old /\ (HoldsBody(d, b) <=> HoldsBody(c, b))
    BY <1>2, <1>3, <1>5
  <2>2. LifeOf(d, a, b) = LifeOf(c, a, b)
    BY <2>1 DEF LifeOf
  <2>3. QED
    BY <1>1, <1>4, <2>1, <2>2 DEF Ages
<1>6. CASE Goes
  <2>1. /\ HoldsBody(c, b) /\ ~ HoldsBody(d, b) /\ new = old \cup {st} /\ old \subseteq {"QUEUED"}
        /\ IsAsked(a, b) /\ (st = "SENT" => b \in all)
    BY <1>1, <1>2, <1>3, <1>6
  <2> HIDE DEF new, old
  <2>2. /\ new \cap Ends = {st}
        /\ "SENT" \in new <=> st = "SENT"
        /\ ~ (Ends \subseteq new) /\ new \cap (Ends \cup Refusals) # {}
    <3>1. st = "SENT" \/ st = "TTL_EXCEEDED"
      BY <1>2 DEF Ends
    <3>2. st \in new /\ st \in Ends
      BY <1>2, <2>1
    <3>3. \A x : x \in new /\ x # "QUEUED" => x = st
      BY <2>1
    <3>4. "QUEUED" \notin Ends
      BY DEF Ends
    <3>5. \A x : x \in new /\ x \in Ends => x = st
      BY <3>3, <3>4
    <3>6. new \cap Ends = {st}
      BY <3>2, <3>5
    <3>7. "SENT" \in Ends /\ "TTL_EXCEEDED" \in Ends /\ "SENT" # "TTL_EXCEEDED"
      BY DEF Ends
    <3>8. "SENT" \in new <=> st = "SENT"
      BY <3>1, <3>2, <3>5, <3>7
    <3>9. ~ (Ends \subseteq new)
      BY <3>5, <3>7
    <3>10. new \cap (Ends \cup Refusals) # {}
      BY <3>2
    <3>11. QED
      BY <3>6, <3>8, <3>9, <3>10
  <2>3. LifeOf(c, a, b) = "waiting"
    BY <2>1, LifeLemma
  <2>4. st = "SENT" \/ st = "TTL_EXCEEDED"
    BY <1>2 DEF Ends
  <2>5. LifeOf(d, a, b) = IF st = "SENT" THEN "sent" ELSE "expired"
    <3>1. /\ st = "SENT" => new \cap Ends = {"SENT"}
          /\ st # "SENT" => new \cap Ends = {"TTL_EXCEEDED"} /\ {"TTL_EXCEEDED"} # {"SENT"}
      BY <2>2, <2>4
    <3>2. d.status[b] \cap Ends = new \cap Ends
      BY DEF new
    <3>3. CASE st = "SENT"
      BY <2>1, <3>1, <3>2, <3>3 DEF LifeOf
    <3>4. CASE st # "SENT"
      BY <2>1, <3>1, <3>2, <3>4 DEF LifeOf
    <3>5. QED
      BY <3>3, <3>4
  <2>6. Ages(LifeOf(c, a, b), LifeOf(d, a, b), b, arr)
    BY <1>2, <1>6, <2>3, <2>4, <2>5 DEF Ages
  <2>7. QED
    BY <1>4, <2>1, <2>2, <2>6 DEF new
<1>7. QED
  BY <1>5, <1>6

LEMMA MovesTells ==
    ASSUME NEW c \in Clients, Sound(c), NEW d, NEW S, NEW st, NEW a, NEW back,
           NEW server, NEW arr, arr \subseteq server.bodies,
           \A f \in Airs(c, back) : f.hdr \in Nat, \A p \in server.got : p \in Nat,
           Tells(c, a, back, server), Moves(c, d, S, st, arr)
    PROVE  Tells(d, a, back, server) /\ Lived(c, d, a, arr)
<1>1. Accounted(d, a, server.bodies) /\ Lived(c, d, a, arr)
  BY MovesAccounted DEF Tells
<1>2. /\ d \in Clients /\ st \in Ends /\ c.ticks \in Nat /\ d.ticks \in Nat /\ c.ticks <= d.ticks
      /\ \A p \in Nat \ {0}, b \in Reliables : Holding(d, p, b) => Holding(c, p, b)
      /\ \A b \in Reliables : d.status[b] \in {c.status[b], c.status[b] \cup {st}}
      /\ \A k \in Keys : d.keymap[k] \in {c.keymap[k], 0}
  BY DEF Moves, Leave, Clients
<1>3. \A p \in Nat \ {0} : Unkeyed(c, p) => Unkeyed(d, p)
  BY <1>2 DEF Unkeyed
<1>4. \A b \in Reliables : c.status[b] \cap Refusals = {} => d.status[b] \cap Refusals = {}
  <2>1. st \notin Refusals
    BY <1>2 DEF Ends, Refusals
  <2>2. QED
    BY <1>2, <2>1
<1>5. ASSUME NEW f \in Airs(c, back) PROVE Flies(d, a, f)
  <2>1. Flies(c, a, f) /\ f.hdr \in Nat
    BY <1>5 DEF Tells
  <2>2. f.hdr <= d.ticks
    BY <1>2, <2>1 DEF Flies
  <2>3. f.body \in Reliables => IsAsked(a, f.body) /\ d.status[f.body] \cap Refusals = {}
    BY <1>4, <2>1 DEF Flies
  <2>4. f.hdr # 0 => Unkeyed(d, f.hdr) /\ \A b \in Reliables : Holding(d, f.hdr, b) => f.body = b
    BY <1>2, <1>3, <2>1 DEF Flies
  <2>5. QED
    BY <2>2, <2>3, <2>4 DEF Flies
<1>6. ASSUME NEW f \in Airs(d, back) PROVE Flies(d, a, f)
  <2>1. CASE f \in Airs(c, back)
    BY <1>5, <2>1
  <2>2. CASE f \notin Airs(c, back)
    <3>1. PICK i \in 1..Len(d.flush) : f = d.flush[i]
      BY <2>2 DEF Airs
    <3>2. ~ \E j \in 1..Len(c.flush) : f = c.flush[j]
      BY <2>2 DEF Airs
    <3>3. \/ f.hdr = 0 /\ f.body \notin Reliables
          \/ /\ f.hdr \in Nat \ {0} /\ f.body \in Reliables
             /\ Holding(c, f.hdr, f.body) /\ Unkeyed(d, f.hdr)
      BY <3>1, <3>2 DEF Moves, Leave, Flushes
    <3>4. CASE f.hdr = 0 /\ f.body \notin Reliables
      BY <1>2, <3>4 DEF Flies
    <3>5. CASE /\ f.hdr \in Nat \ {0} /\ f.body \in Reliables
               /\ Holding(c, f.hdr, f.body) /\ Unkeyed(d, f.hdr)
      <4>1. f.hdr <= c.ticks /\ \A b \in Reliables : Holding(c, f.hdr, b) => f.body = b
        BY <3>5, OneBody
      <4>2. HoldsBody(c, f.body)
        BY <3>5 DEF HoldsBody
      <4>3. IsAsked(a, f.body) /\ c.status[f.body] \subseteq {"QUEUED"}
        BY <3>5, <4>2 DEF Tells, Accounted, Account
      <4>4. c.status[f.body] \cap Refusals = {}
        BY <4>3 DEF Refusals
      <4>5. f.hdr <= d.ticks
        BY <1>2, <3>5, <4>1
      <4>6. QED
        BY <1>2, <1>4, <3>5, <4>1, <4>3, <4>4, <4>5 DEF Flies
    <3>6. QED
      BY <3>3, <3>4, <3>5
  <2>3. QED
    BY <2>1, <2>2
<1>7. ASSUME NEW p \in server.got PROVE Landed(d, server, p)
  <2>1. Landed(c, server, p) /\ p \in Nat \ {0}
    BY <1>7 DEF Tells, Landed
  <2>2. p <= d.ticks
    BY <1>2, <2>1 DEF Landed
  <2>3. QED
    BY <1>2, <1>3, <2>1, <2>2 DEF Landed
<1>8. Marked(d.to_send) /\ Marked(d.to_resend)
  BY DEF Moves, Leave
<1>9. QED
  BY <1>1, <1>6, <1>7, <1>8 DEF Tells

-----------------------------------------------------------------------------
(***************************************************************************)
(* What each method keeps                                                  *)
(***************************************************************************)

\* The types of what is under way and of the server.
Wired(back, server) ==
    /\ Len(back) \in Nat /\ \A k \in 1..Len(back) : back[k].hdr \in Nat
    /\ server.in \in Nat /\ server.got \subseteq Nat

\* From c to d what the applications are told stays true, for what is under way and
\* the server, and so do the places of the packets on the stream; arr are the
\* messages reported sent.
Goes(c, d, a, back, server, arr) ==
    /\ d \in Clients /\ Tells(d, a, back, server) /\ Lived(c, d, a, arr)
    /\ c.out <= d.out
    /\ Streams(c, back, server) => Streams(d, back, server)
    /\ c.to_resend = << >> /\ d.out = c.out => d.to_resend = << >>

LEMMA GoesOn ==
    ASSUME NEW c \in Clients, NEW d, NEW e, NEW a, NEW back, NEW server,
           NEW r, NEW q, NEW arr, r \subseteq arr, q \subseteq arr,
           Goes(c, d, a, back, server, r), Goes(d, e, a, back, server, q)
    PROVE  Goes(c, e, a, back, server, arr)
<1>1. c.out \in Nat /\ d.out \in Nat /\ e.out \in Nat
  BY DEF Goes, Clients
<1>2. Lived(c, e, a, arr)
  BY LivedOn DEF Goes
<1>3. c.out <= d.out /\ d.out <= e.out
  BY DEF Goes
<1>4. c.out <= e.out /\ (e.out = c.out => d.out = c.out /\ e.out = d.out)
  BY <1>1, <1>3
<1>5. QED
  BY <1>2, <1>4 DEF Goes

LEMMA FlushLemma ==
    ASSUME NEW c \in Clients
    PROVE  /\ c.flush = << >> \/ Len(c.flush) = 1
           /\ Len(c.flush) \in Nat
           /\ \A i \in 1..Len(c.flush) : c.flush[i] \in Frames
<1>1. c.flush \in {<< >>} \cup {<<f>> : f \in Frames}
  BY DEF Clients
<1>2. CASE c.flush = << >>
  BY <1>2
<1>3. ASSUME NEW f \in Frames, c.flush = <<f>> PROVE Len(c.flush) = 1 /\ c.flush[1] \in Frames
  BY <1>3
<1>4. QED
  BY <1>1, <1>2, <1>3

LEMMA AirTypes ==
    ASSUME NEW c \in Clients, NEW back, NEW server, Wired(back, server)
    PROVE  /\ \A f \in Airs(c, back) : f.hdr \in Nat
           /\ \A p \in server.got : p \in Nat
<1>1. \A i \in 1..Len(c.flush) : c.flush[i].hdr \in Nat
  <2>1. \A i \in 1..Len(c.flush) : c.flush[i] \in Frames
    BY FlushLemma
  <2>2. QED
    BY <2>1 DEF Frames
<1>2. QED
  BY <1>1 DEF Airs, Wired

\* A packet goes out only when nothing is being flushed, and takes the next place on
\* the stream; no other packet gets one.
Carries(c, d) ==
    \/ /\ d.out = c.out /\ d.flush = c.flush
       /\ \A i \in 1..Len(d.to_resend) :
              \E j \in 1..Len(c.to_resend) : d.to_resend[i] = c.to_resend[j]
    \/ /\ d.out = c.out + 1 /\ c.flush = << >> /\ Len(d.flush) = 1
       /\ \A i \in 1..Len(d.to_resend) :
              \/ \E j \in 1..Len(c.to_resend) : d.to_resend[i] = c.to_resend[j]
              \/ d.to_resend[i].sid = c.out + 1 /\ d.to_resend[i].body = d.flush[1].body

LEMMA StreamsOn ==
    ASSUME NEW c \in Clients, NEW d \in Clients, NEW back, NEW server, Wired(back, server),
           Awaiting(c.to_resend, c.out), Carries(c, d), Streams(c, back, server)
    PROVE  Streams(d, back, server)
<1>1. /\ c.out \in Nat /\ d.out \in Nat /\ server.in \in Nat /\ Len(back) \in Nat
      /\ Len(c.flush) \in Nat /\ Len(d.flush) \in Nat
      /\ c.to_resend \in Seq(Packets) /\ d.to_resend \in Seq(Packets)
  BY FlushLemma DEF Clients, Wired
<1>2. /\ c.out = server.in + Len(back) + Len(c.flush)
      /\ \A j \in 1..Len(c.to_resend) : InStream(c.to_resend[j], c, back, server)
  BY DEF Streams
<1>3. \A j \in 1..Len(c.to_resend) : c.to_resend[j].sid <= c.out /\ c.to_resend[j].sid \in Nat
  <2>1. \A j \in 1..Len(c.to_resend) : c.to_resend[j] \in Packets
    BY <1>1
  <2>2. QED
    BY <2>1 DEF Awaiting, Packets
<1>4. CASE /\ d.out = c.out /\ d.flush = c.flush
           /\ \A i \in 1..Len(d.to_resend) :
                  \E j \in 1..Len(c.to_resend) : d.to_resend[i] = c.to_resend[j]
  <2>1. ASSUME NEW i \in 1..Len(d.to_resend) PROVE InStream(d.to_resend[i], d, back, server)
    <3>1. PICK j \in 1..Len(c.to_resend) : d.to_resend[i] = c.to_resend[j]
      BY <1>4
    <3>2. InStream(c.to_resend[j], c, back, server)
      BY <1>2
    <3>3. QED
      BY <1>4, <3>1, <3>2 DEF InStream
  <2>2. QED
    BY <1>2, <1>4, <2>1 DEF Streams
<1>5. CASE /\ d.out = c.out + 1 /\ c.flush = << >> /\ Len(d.flush) = 1
           /\ \A i \in 1..Len(d.to_resend) :
                  \/ \E j \in 1..Len(c.to_resend) : d.to_resend[i] = c.to_resend[j]
                  \/ d.to_resend[i].sid = c.out + 1 /\ d.to_resend[i].body = d.flush[1].body
  <2>1. Len(c.flush) = 0 /\ c.out = server.in + Len(back)
    BY <1>1, <1>2, <1>5
  <2>2. ASSUME NEW i \in 1..Len(d.to_resend) PROVE InStream(d.to_resend[i], d, back, server)
    <3> DEFINE p == d.to_resend[i]
    <3>1. CASE \E j \in 1..Len(c.to_resend) : d.to_resend[i] = c.to_resend[j]
      <4>1. PICK j \in 1..Len(c.to_resend) : d.to_resend[i] = c.to_resend[j]
        BY <3>1
      <4>2. /\ p.sid <= server.in => p.body \in server.bodies
            /\ \A k \in 1..Len(back) : p.sid = server.in + k => back[k].body = p.body
        BY <1>2, <4>1 DEF InStream
      <4>3. p.sid <= server.in + Len(back) /\ p.sid \in Nat
        BY <1>3, <2>1, <4>1
      <4>4. \A k \in 1..Len(d.flush) : p.sid # server.in + Len(back) + k
        BY <1>1, <1>5, <4>3
      <4>5. QED
        BY <4>2, <4>4 DEF InStream
    <3>2. CASE d.to_resend[i].sid = c.out + 1 /\ d.to_resend[i].body = d.flush[1].body
      <4>1. ~ (p.sid <= server.in) /\ \A k \in 1..Len(back) : p.sid # server.in + k
        BY <1>1, <2>1, <3>2
      <4>2. \A k \in 1..Len(d.flush) : d.flush[k].body = p.body
        BY <1>5, <3>2
      <4>3. QED
        BY <4>1, <4>2 DEF InStream
    <3>3. QED
      BY <1>5, <3>1, <3>2
  <2>3. d.out = server.in + Len(back) + Len(d.flush)
    BY <1>1, <1>5, <2>1
  <2>4. QED
    BY <2>2, <2>3 DEF Streams
<1>6. QED
  BY <1>4, <1>5 DEF Carries


LEMMA MarkedLemma ==
    /\ Marked(<< >>)
    /\ \A p : Marked(<<p>>) <=> p.hdr = p.pid
    /\ \A x, y \in Seq(Packets) : Marked(x \o y) <=> Marked(x) /\ Marked(y)
<1>1. Marked(<< >>) /\ \A p : Marked(<<p>>) <=> p.hdr = p.pid
  BY DEF Marked
<1>2. ASSUME NEW x \in Seq(Packets), NEW y \in Seq(Packets)
      PROVE  Marked(x \o y) <=> Marked(x) /\ Marked(y)
  <2> DEFINE s == x \o y
  <2>1. /\ \A i \in 1..Len(x) : i \in 1..Len(s) /\ s[i] = x[i]
        /\ \A i \in 1..Len(y) : Len(x) + i \in 1..Len(s) /\ s[Len(x) + i] = y[i]
        /\ \A i \in 1..Len(s) :
               \/ i \in 1..Len(x) /\ s[i] = x[i]
               \/ i - Len(x) \in 1..Len(y) /\ s[i] = y[i - Len(x)]
    BY JoinIndex
  <2> HIDE DEF s
  <2>2. ASSUME Marked(s) PROVE Marked(x) /\ Marked(y)
    <3>1. \A j \in 1..Len(s) : s[j].hdr = s[j].pid
      BY <2>2 DEF Marked
    <3>2. ASSUME NEW i \in 1..Len(x) PROVE x[i].hdr = x[i].pid
      BY <2>1, <3>1
    <3>3. ASSUME NEW i \in 1..Len(y) PROVE y[i].hdr = y[i].pid
      BY <2>1, <3>1
    <3>4. QED
      BY <3>2, <3>3 DEF Marked
  <2>3. ASSUME Marked(x), Marked(y) PROVE Marked(s)
    <3>1. ASSUME NEW i \in 1..Len(s) PROVE s[i].hdr = s[i].pid
      <4>1. CASE i \in 1..Len(x) /\ s[i] = x[i]
        BY <2>3, <4>1 DEF Marked
      <4>2. CASE i - Len(x) \in 1..Len(y) /\ s[i] = y[i - Len(x)]
        BY <2>3, <4>2 DEF Marked
      <4>3. QED
        BY <2>1, <4>1, <4>2
    <3>2. QED
      BY <3>1 DEF Marked
  <2>4. QED
    BY <2>2, <2>3 DEF s
<1>3. QED
  BY <1>1, <1>2

\* What has moved keeps all that is said of it, given the places on the stream.
LEMMA MovesGo ==
    ASSUME NEW c \in Clients, Sound(c), NEW d, NEW S, NEW st, NEW a, NEW back,
           NEW server, NEW arr, arr \subseteq server.bodies, Wired(back, server),
           Tells(c, a, back, server), Moves(c, d, S, st, arr), Carries(c, d)
    PROVE  Goes(c, d, a, back, server, arr)
<1>1. d \in Clients /\ c.out \in Nat /\ d.out \in Nat
  BY DEF Moves, Leave, Clients
<1>2. Tells(d, a, back, server) /\ Lived(c, d, a, arr)
  BY AirTypes, MovesTells
<1>3. Streams(c, back, server) => Streams(d, back, server)
  BY <1>1, StreamsOn DEF Sound
<1>4. c.out <= d.out
  BY <1>1 DEF Carries
<1>5. c.to_resend = << >> /\ d.out = c.out => d.to_resend = << >>
  <2>1. SUFFICES ASSUME c.to_resend = << >>, d.out = c.out PROVE d.to_resend = << >>
    OBVIOUS
  <2>2. \A i \in 1..Len(d.to_resend) : \E j \in 1..Len(c.to_resend) : d.to_resend[i] = c.to_resend[j]
    BY <1>1, <2>1 DEF Carries
  <2>3. d.to_resend \in Seq(Packets) /\ Len(c.to_resend) = 0
    BY <1>1, <2>1 DEF Clients
  <2>4. ~ \E i \in 1..Len(d.to_resend) : TRUE
    BY <2>2, <2>3
  <2>5. QED
    BY <2>3, <2>4
<1>6. QED
  BY <1>1, <1>2, <1>3, <1>4, <1>5 DEF Goes

\* The first packet of the queue apart from the others.
LEMMA FirstPacket ==
    ASSUME NEW c \in Clients, c.to_send # << >>
    PROVE  LET p == Head(c.to_send)
               z == Tail(c.to_send)
           IN  /\ p \in Packets /\ z \in Seq(Packets) /\ <<p>> \in Seq(Packets)
               /\ c.to_send = <<p>> \o z
               /\ \A q, b : Has(c.to_send, q, b) <=> (p.pid = q /\ p.body = b) \/ Has(z, q, b)
               /\ Marked(c.to_send) => p.hdr = p.pid /\ Marked(z)
               /\ Rising(c.to_send) => Before(<<p>>, z) /\ Rising(z)
<1> DEFINE p == Head(c.to_send)
           z == Tail(c.to_send)
           f == <<p>>
<1>1. c.to_send \in Seq(Packets)
  BY DEF Clients
<1>2. p \in Packets /\ z \in Seq(Packets) /\ c.to_send = f \o z
  BY <1>1, HeadTailLemma
<1>3. f \in Seq(Packets)
  BY <1>2
<1> HIDE DEF p, z
<1>4. \A q, b : Has(f, q, b) <=> p.pid = q /\ p.body = b
  BY <1>2, SingleLemma
<1>5. Marked(f) <=> p.hdr = p.pid
  BY MarkedLemma
<1> HIDE DEF f
<1>6. /\ \A q, b : Has(f \o z, q, b) <=> Has(f, q, b) \/ Has(z, q, b)
      /\ Marked(f \o z) <=> Marked(f) /\ Marked(z)
      /\ Rising(f \o z) => Before(f, z) /\ Rising(z)
  BY <1>2, <1>3, JoinLemma, MarkedLemma
<1>7. QED
  BY <1>2, <1>3, <1>4, <1>5, <1>6 DEF p, z, f


LEMMA RunsMoves ==
    ASSUME NEW c \in Clients, Sound(c), Marked(c.to_send), Marked(c.to_resend),
           NEW d, Sound(d), Runs(c, d)
    PROVE  /\ \E S, st : Moves(c, d, S, st, {})
           /\ Carries(c, d)
<1>1. /\ d \in Clients /\ c.to_resend \in Seq(Packets) /\ c.to_send \in Seq(Packets)
      /\ d.to_resend \in Seq(Packets) /\ d.to_send \in Seq(Packets)
      /\ c.ticks \in Nat /\ c.out \in Nat /\ c.keymap \in [Keys -> Nat]
  BY DEF Runs, Clients
<1>2. CASE SameQueues(c, d)
  <2>1. Moves(c, d, {}, "SENT", {})
    BY <1>1, <1>2 DEF SameQueues, Moves, Leave, Holding, Ends, Flushes
  <2>2. Carries(c, d)
    BY <1>1, <1>2 DEF SameQueues, Carries
  <2>3. QED
    BY <2>1, <2>2
<1> DEFINE p == Head(c.to_send)
           z == Tail(c.to_send)
           x == c.to_resend
<1>3. ASSUME c.to_send # << >>
      PROVE  /\ p \in Packets /\ z \in Seq(Packets)
             /\ \A q, b : Has(c.to_send, q, b) <=> (p.pid = q /\ p.body = b) \/ Has(z, q, b)
             /\ p.hdr = p.pid /\ Marked(z)
             /\ \A i \in 1..Len(z) : p.pid # 0 /\ z[i].pid # 0 => p.pid < z[i].pid
  <2>1. Rising(c.to_send)
    BY DEF Sound, InOrder
  <2>2. Before(<<p>>, z)
    BY <1>3, <2>1, FirstPacket
  <2>3. p \in Packets
    BY <1>3, FirstPacket
  <2>4. \A i \in 1..Len(z) : p.pid # 0 /\ z[i].pid # 0 => p.pid < z[i].pid
    BY <2>2, <2>3, SingleLemma
  <2>5. QED
    BY <1>3, <2>4, FirstPacket
<1>4. \A k \in Keys : Popped(c)[k] \in {c.keymap[k], 0}
  BY DEF Popped
<1>5. CASE Transmits(c, d)
  <2> DEFINE w == [p EXCEPT !.sid = c.out + 1]
             f == [body |-> p.body, hdr |-> p.hdr, last |-> c.in, ids |-> {}]
  <2>1. /\ c.to_send # << >> /\ Reachable(c) /\ d.to_send = z
        /\ d.to_resend = (IF p.pid # 0 THEN Append(x, w) ELSE x)
        /\ d.keymap = Popped(c) /\ d.out = c.out + 1 /\ d.ticks = c.ticks
        /\ d.status = c.status /\ d.flush = <<f>>
    BY <1>5 DEF Transmits
  <2>2. w \in Packets /\ w.pid = p.pid /\ w.body = p.body /\ w.hdr = p.hdr /\ w.sid = c.out + 1
    <3>1. p \in Packets
      BY <1>3, <2>1
    <3> HIDE DEF p
    <3>2. c.out + 1 \in Nat
      BY <1>1
    <3>3. QED
      BY SMTT(30), <3>1, <3>2 DEF Packets
  <2>3. f.body = p.body /\ f.hdr = p.hdr
    OBVIOUS
  <2>4. c.flush = << >>
    BY <2>1 DEF Reachable
  <2> HIDE DEF p, z, x, w, f
  <2>5. p.pid # 0 => Append(x, w) = x \o <<w>> /\ <<w>> \in Seq(Packets)
    <3>1. x \in Seq(Packets) /\ w \in Packets
      BY <1>1, <2>2 DEF x
    <3>2. QED
      BY <3>1
  <2>6. ASSUME NEW q \in Nat \ {0}, NEW b
        PROVE  Has(d.to_resend, q, b) <=> Has(x, q, b) \/ (p.pid = q /\ p.body = b)
    <3>1. CASE p.pid = 0
      BY <2>1, <2>6, <3>1
    <3>2. CASE p.pid # 0
      <4>1. Has(x \o <<w>>, q, b) <=> Has(x, q, b) \/ Has(<<w>>, q, b)
        BY <1>1, <2>5, <3>2, JoinLemma DEF x
      <4>2. Has(<<w>>, q, b) <=> w.pid = q /\ w.body = b
        BY <2>2, SingleLemma
      <4>3. QED
        BY <2>1, <2>2, <2>5, <3>2, <4>1, <4>2
    <3>3. QED
      BY <3>1, <3>2
  <2>7. \A q \in Nat \ {0}, b \in Reliables : Holding(d, q, b) <=> Holding(c, q, b)
    BY <1>3, <2>1, <2>6 DEF Holding, x
  <2>8. Marked(d.to_send) /\ Marked(d.to_resend)
    <3>1. Marked(d.to_send)
      BY <1>3, <2>1
    <3>2. p.pid # 0 => Marked(x \o <<w>>)
      BY <1>1, <1>3, <2>1, <2>2, <2>5, MarkedLemma DEF x
    <3>3. QED
      BY <2>1, <2>5, <3>1, <3>2 DEF x
  <2>9. p.pid # 0 => p.pid \in Nat \ {0} /\ p.body \in Reliables /\ Holding(c, p.pid, p.body)
    BY <1>3, <2>1 DEF Packets, Holding
  <2>10. p.pid = 0 => p.body \notin Reliables
    BY <1>3, <2>1 DEF Packets
  <2>11. p.pid # 0 => Unkeyed(d, p.pid)
    <3>1. SUFFICES ASSUME p.pid # 0, NEW k \in Keys, d.keymap[k] = p.pid PROVE FALSE
      BY DEF Unkeyed
    <3>2. PICK i \in 1..Len(z) : z[i].pid = p.pid
      BY <2>1, <3>1 DEF Sound, Points
    <3>3. p.pid < z[i].pid /\ p.pid \in Nat
      BY <1>3, <2>1, <3>1, <3>2 DEF Packets
    <3>4. QED
      BY <3>2, <3>3
  <2>12. Flushes(c, d)
    <3>1. \A i \in 1..Len(d.flush) : d.flush[i] = f
      BY <2>1
    <3>2. \/ f.hdr = 0 /\ f.body \notin Reliables
          \/ /\ f.hdr \in Nat \ {0} /\ f.body \in Reliables
             /\ Holding(c, f.hdr, f.body) /\ Unkeyed(d, f.hdr)
      BY <1>3, <2>1, <2>3, <2>9, <2>10, <2>11
    <3>3. QED
      BY <3>1, <3>2 DEF Flushes
  <2>13. Moves(c, d, {}, "SENT", {})
    BY <1>1, <1>4, <2>1, <2>7, <2>8, <2>12 DEF Moves, Leave, Ends
  <2>14. Carries(c, d)
    <3>1. Len(d.flush) = 1 /\ d.flush[1] = f
      BY <2>1
    <3>2. ASSUME NEW i \in 1..Len(d.to_resend)
          PROVE  \/ \E j \in 1..Len(x) : d.to_resend[i] = x[j]
                 \/ d.to_resend[i] = w
      <4>1. CASE p.pid = 0
        BY <2>1, <3>2, <4>1
      <4>2. CASE p.pid # 0
        BY <1>1, <2>1, <2>2, <3>2, <4>2 DEF x
      <4>3. QED
        BY <4>1, <4>2
    <3>3. QED
      BY <2>1, <2>2, <2>3, <2>4, <3>1, <3>2 DEF Carries, x
  <2>15. QED
    BY <2>13, <2>14
<1>6. CASE Lapses(c, d)
  <2>1. /\ c.to_send # << >> /\ IsReliable(p.body) /\ d.to_send = z /\ d.to_resend = x
        /\ d.keymap = Popped(c) /\ d.out = c.out /\ d.ticks = c.ticks
        /\ d.status = Reported(c.status, {p.body}, "TTL_EXCEEDED") /\ d.flush = c.flush
    BY <1>6 DEF Lapses, HasTTLExpired
  <2> HIDE DEF p, z
  <2>2. p.pid \in Nat \ {0} /\ p.body \in Reliables /\ Holding(c, p.pid, p.body)
    BY <1>3, <2>1 DEF Packets, Holding, IsReliable, Reliables
  <2>3. ASSUME NEW q \in Nat \ {0}, NEW b \in Reliables
        PROVE  Holding(d, q, b) <=> Holding(c, q, b) /\ q # p.pid
    <3>1. Holding(c, q, b) <=> Has(x, q, b) \/ (p.pid = q /\ p.body = b) \/ Has(z, q, b)
      BY <1>3, <2>1 DEF Holding
    <3>2. Holding(d, q, b) <=> Has(x, q, b) \/ Has(z, q, b)
      BY <2>1 DEF Holding
    <3>3. Has(z, q, b) => q # p.pid
      BY <1>3, <2>1, <2>2 DEF Has
    <3>4. Has(x, q, b) => q # p.pid
      <4>1. Before(x, c.to_send)
        BY DEF Sound, InOrder
      <4>2. Has(c.to_send, p.pid, p.body)
        BY <1>3, <2>1
      <4>3. ASSUME NEW i \in 1..Len(x), x[i].pid = q, NEW j \in 1..Len(c.to_send),
                   c.to_send[j].pid = p.pid
            PROVE  q < p.pid
        BY <2>2, <4>1, <4>3 DEF Before
      <4>4. QED
        BY <2>2, <4>2, <4>3 DEF Has
    <3>5. QED
      BY <3>1, <3>2, <3>3, <3>4
  <2>4. ASSUME NEW b \in Reliables
        PROVE  (\E q \in Nat \ {0} : q \in {p.pid} /\ Holding(c, q, b)) <=> b = p.body
    <3>1. Holding(c, p.pid, b) => b = p.body
      BY <2>2, OneBody
    <3>2. QED
      BY <2>2, <3>1
  <2>5. ASSUME NEW b \in Reliables
        PROVE  d.status[b] = IF b = p.body THEN c.status[b] \cup {"TTL_EXCEEDED"} ELSE c.status[b]
    BY <2>1 DEF Reported, Reliables
  <2>6. Moves(c, d, {p.pid}, "TTL_EXCEEDED", {})
    <3>1. Flushes(c, d)
      BY <2>1 DEF Flushes
    <3>2. \A b \in Reliables :
             d.status[b] = IF \E q \in Nat \ {0} : q \in {p.pid} /\ Holding(c, q, b)
                           THEN c.status[b] \cup {"TTL_EXCEEDED"} ELSE c.status[b]
      BY <2>4, <2>5
    <3>3. "TTL_EXCEEDED" \in Ends /\ "TTL_EXCEEDED" # "SENT"
      BY DEF Ends
    <3>4. c.ticks <= d.ticks /\ Marked(d.to_send) /\ Marked(d.to_resend)
      BY <1>1, <1>3, <2>1
    <3>5. \A k \in Keys : d.keymap[k] \in {c.keymap[k], 0}
      BY <1>4, <2>1
    <3>6. \A q \in Nat \ {0}, b \in Reliables : Holding(d, q, b) <=> Holding(c, q, b) /\ q \notin {p.pid}
      BY <2>3
    <3>7. QED
      BY <1>1, <3>1, <3>2, <3>3, <3>4, <3>5, <3>6 DEF Moves, Leave
  <2>7. Carries(c, d)
    BY <2>1 DEF Carries
  <2>8. QED
    BY <2>6, <2>7
<1>7. QED
  BY <1>2, <1>5, <1>6 DEF Runs

LEMMA RunsGo ==
    ASSUME NEW c \in Clients, Sound(c), NEW d, Sound(d), NEW a, NEW back, NEW server,
           Wired(back, server), Tells(c, a, back, server), Runs(c, d)
    PROVE  Goes(c, d, a, back, server, {})
<1>1. Carries(c, d) /\ \E S, st : Moves(c, d, S, st, {})
  BY RunsMoves DEF Tells
<1>2. PICK S, st : Moves(c, d, S, st, {})
  BY <1>1
<1>3. {} \subseteq server.bodies
  OBVIOUS
<1>4. QED
  BY <1>1, <1>2, <1>3, MovesGo


\* Nothing has moved.
LEMMA StaysMove ==
    ASSUME NEW c \in Clients, Marked(c.to_send), Marked(c.to_resend), NEW d \in Clients,
           d.to_send = c.to_send, d.to_resend = c.to_resend, d.keymap = c.keymap,
           c.ticks <= d.ticks, \A b \in Reliables : d.status[b] = c.status[b],
           d.flush = c.flush \/ d.flush = << >>
    PROVE  Moves(c, d, {}, "SENT", {})
<1>1. Flushes(c, d)
  BY DEF Flushes
<1>2. "SENT" \in Ends
  BY DEF Ends
<1>3. QED
  BY <1>1, <1>2 DEF Moves, Leave, Holding

LEMMA StaysGo ==
    ASSUME NEW c \in Clients, Sound(c), NEW d \in Clients, NEW a, NEW back, NEW server,
           Wired(back, server), Tells(c, a, back, server),
           d.to_send = c.to_send, d.to_resend = c.to_resend, d.keymap = c.keymap,
           c.ticks <= d.ticks, \A b \in Reliables : d.status[b] = c.status[b],
           d.flush = c.flush, d.out = c.out
    PROVE  Goes(c, d, a, back, server, {})
<1>1. Moves(c, d, {}, "SENT", {})
  BY StaysMove DEF Tells
<1>2. Carries(c, d)
  BY DEF Carries
<1>3. {} \subseteq server.bodies
  OBVIOUS
<1>4. QED
  BY <1>1, <1>2, <1>3, MovesGo

LEMMA NotesGo ==
    ASSUME NEW c \in Clients, Sound(c), NEW d, NEW a, NEW back, NEW server,
           Wired(back, server), Tells(c, a, back, server), Notes(c, d)
    PROVE  Goes(c, d, a, back, server, {})
<1>1. d.ticks \in Nat /\ d.ticks = c.ticks
  BY DEF Notes, Clients
<1>2. c.ticks <= d.ticks
  BY <1>1
<1>3. QED
  BY <1>2, StaysGo DEF Notes

\* A message that is not reliable is refused.
LEMMA RefusesGo ==
    ASSUME NEW c \in Clients, Sound(c), NEW d, NEW a, NEW back, NEW server,
           Wired(back, server), Tells(c, a, back, server),
           NEW body, body \notin Reliables, Refuses(c, d, body)
    PROVE  Goes(c, d, a, back, server, {})
<1>1. d \in Clients /\ c.ticks \in Nat /\ d.ticks \in {c.ticks, c.ticks + 1}
  BY DEF Refuses, Clients
<1>2. c.ticks <= d.ticks
  BY <1>1
<1>3. ASSUME NEW b \in Reliables PROVE d.status[b] = c.status[b]
  <2>1. PICK st : d.status = Reported(c.status, {body}, st)
    BY DEF Refuses
  <2>2. b \in Messages /\ b # body
    BY DEF Reliables
  <2>3. QED
    BY <2>1, <2>2 DEF Reported
<1>4. QED
  BY <1>1, <1>2, <1>3, StaysGo DEF Refuses

\* A packet that is not reliable joins the queue.
LEMMA JoinsGo ==
    ASSUME NEW c \in Clients, Sound(c), NEW d, NEW a, NEW back, NEW server,
           Wired(back, server), Tells(c, a, back, server),
           NEW body \in Messages \cup Control, body \notin Reliables, Joins(c, d, body, 0)
    PROVE  Goes(c, d, a, back, server, {})
<1> DEFINE p == [body |-> body, pid |-> 0, hdr |-> 0, sid |-> 0]
           f == <<p>>
<1>1. /\ d \in Clients /\ d.to_send = Append(c.to_send, p) /\ d.to_resend = c.to_resend
      /\ d.keymap = c.keymap /\ d.ticks = c.ticks /\ d.out = c.out /\ d.flush = c.flush
      /\ d.status = Reported(c.status, {body}, "QUEUED")
  BY DEF Joins
<1>2. p \in Packets /\ p.pid = 0 /\ p.hdr = 0
  BY DEF Packets
<1> HIDE DEF p
<1>3. c.to_send \in Seq(Packets) /\ c.ticks \in Nat
  BY DEF Clients
<1>4. d.to_send = c.to_send \o f /\ f \in Seq(Packets)
  BY <1>1, <1>2, <1>3, SMTT(40)
<1>5. \A q \in Nat \ {0} : \A b : ~ Has(f, q, b)
  BY <1>2, SingleLemma
<1>6. Marked(f) /\ Marked(c.to_send) /\ Marked(c.to_resend)
  BY <1>2, MarkedLemma DEF Tells
<1> HIDE DEF f
<1>7. Marked(d.to_send)
  BY <1>3, <1>4, <1>6, MarkedLemma
<1>8. \A q, b : Has(d.to_send, q, b) <=> Has(c.to_send, q, b) \/ Has(f, q, b)
  BY <1>3, <1>4, JoinLemma
<1>9. \A q \in Nat \ {0}, b \in Reliables : Holding(d, q, b) <=> Holding(c, q, b)
  BY <1>1, <1>5, <1>8 DEF Holding
<1>10. \A b \in Reliables : d.status[b] = c.status[b]
  BY <1>1 DEF Reported, Reliables
<1>11. Moves(c, d, {}, "SENT", {})
  <2>1. Flushes(c, d)
    BY <1>1 DEF Flushes
  <2>2. "SENT" \in Ends /\ c.ticks <= d.ticks
    BY <1>1, <1>3 DEF Ends
  <2>3. QED
    BY <1>1, <1>6, <1>7, <1>9, <1>10, <2>1, <2>2 DEF Moves, Leave
<1>12. Carries(c, d)
  BY <1>1 DEF Carries
<1>13. {} \subseteq server.bodies
  OBVIOUS
<1>14. QED
  BY <1>11, <1>12, <1>13, MovesGo

LEMMA SubmitsGo ==
    ASSUME NEW c \in Clients, NEW s \in Stores, Out(c, s), NEW d, NEW a, NEW back, NEW server,
           Wired(back, server), Tells(c, a, back, server),
           NEW body \in Messages \cup Control, body \notin Reliables, Submits(c, d, body)
    PROVE  Goes(c, d, a, back, server, {})
<1>1. ~ IsReliable(body) /\ Sound(c)
  BY DEF IsReliable, Reliables, Out
<1>2. CASE Refuses(c, d, body)
  BY <1>1, <1>2, RefusesGo
<1>3. ASSUME NEW e, Joins(c, e, body, 0), Runs(e, d) PROVE Goes(c, d, a, back, server, {})
  <2>1. e \in Clients /\ Out(e, s) /\ Sound(e)
    BY <1>3, JoinsOut DEF Joins, Out
  <2>2. Sound(d)
    BY <1>3, <2>1, RunsOut DEF Out
  <2>3. Goes(c, e, a, back, server, {})
    BY <1>1, <1>3, JoinsGo
  <2>4. Goes(e, d, a, back, server, {})
    BY <1>3, <2>1, <2>2, <2>3, RunsGo DEF Goes
  <2>5. QED
    BY <2>3, <2>4, GoesOn
<1>4. QED
  BY <1>1, <1>2, <1>3 DEF Submits


\* The packets of D, with the ids S and the bodies B, are to leave the queues with
\* status st.
Leaving(c, d, D, S, B, st, arr) ==
    /\ D \in SUBSET Packets
    /\ \A p : p \in S <=> p # 0 /\ \E e \in D : e.pid = p
    /\ \A b : b \in B <=> \E e \in D : e.body = b
    /\ \A p \in Nat \ {0}, b \in Reliables :
           Holding(c, p, b) <=> Holding(d, p, b) \/ \E e \in D : e.pid = p /\ e.body = b
    /\ \A p \in Nat \ {0}, b \in Reliables : Holding(d, p, b) => p \notin S
    /\ d.status = Reported(c.status, B, st)
    /\ st = "SENT" => \A e \in D : e.pid # 0 => e.body \in arr

LEMMA PacketsLeave ==
    ASSUME NEW c \in Clients, Sound(c), NEW d, NEW D, NEW S, NEW B, NEW st, NEW arr,
           Leaving(c, d, D, S, B, st, arr)
    PROVE  Leave(c, d, S, st, arr)
<1> USE DEF Leaving
<1>1. \A e \in D : e.pid \in Nat /\ (e.pid # 0 <=> e.body \in Reliables)
  BY DEF Packets
<1>2. ASSUME NEW p \in Nat \ {0}, NEW b \in Reliables, p \in S, Holding(c, p, b)
      PROVE  \E e \in D : e.pid = p /\ e.body = b
  <2>1. PICK e \in D : e.pid = p
    BY <1>2
  <2>2. e.body \in Reliables
    BY <1>1, <2>1
  <2>3. Holding(c, p, e.body)
    BY <2>1, <2>2
  <2>4. e.body = b
    BY <1>2, <2>3, OneBody
  <2>5. QED
    BY <2>1, <2>4
<1>3. ASSUME NEW b \in Reliables
      PROVE  (\E p \in Nat \ {0} : p \in S /\ Holding(c, p, b)) <=> b \in B
  <2>1. ASSUME NEW p \in Nat \ {0}, p \in S, Holding(c, p, b) PROVE b \in B
    BY <1>2, <2>1
  <2>2. ASSUME NEW e \in D, e.body = b PROVE \E p \in Nat \ {0} : p \in S /\ Holding(c, p, b)
    <3>1. e.pid \in Nat \ {0}
      BY <1>1, <2>2
    <3>2. Holding(c, e.pid, b) /\ e.pid \in S
      BY <2>2, <3>1
    <3>3. QED
      BY <3>1, <3>2
  <2>3. QED
    BY <2>1, <2>2
<1>4. ASSUME NEW p \in Nat \ {0}, NEW b \in Reliables
      PROVE  Holding(d, p, b) <=> Holding(c, p, b) /\ p \notin S
  OBVIOUS
<1>5. st = "SENT" =>
          \A p \in Nat \ {0}, b \in Reliables : p \in S /\ Holding(c, p, b) => b \in arr
  BY <1>2
<1>6. ASSUME NEW b \in Reliables
      PROVE  d.status[b] = IF \E p \in Nat \ {0} : p \in S /\ Holding(c, p, b)
                           THEN c.status[b] \cup {st} ELSE c.status[b]
  <2>1. b \in Messages
    BY DEF Reliables
  <2>2. d.status[b] = IF b \in B THEN c.status[b] \cup {st} ELSE c.status[b]
    BY <2>1 DEF Reported
  <2>3. QED
    BY <1>3, <2>2
<1>7. QED
  BY <1>4, <1>5, <1>6 DEF Leave

\* The packets of a sequence as a set.
LEMMA PacketSet ==
    ASSUME NEW s \in Seq(Packets)
    PROVE  \E D \in SUBSET Packets :
               /\ \A p : p \in Pids(s) <=> p # 0 /\ \E e \in D : e.pid = p
               /\ \A b : b \in Bodies(s) <=> \E e \in D : e.body = b
               /\ \A p, b : (\E e \in D : e.pid = p /\ e.body = b) <=> Has(s, p, b)
               /\ \A e \in D : \E i \in 1..Len(s) : e = s[i]
<1> DEFINE D == {s[i] : i \in 1..Len(s)}
<1>1. D \in SUBSET Packets
  OBVIOUS
<1>2. /\ \A p : p \in Pids(s) <=> p # 0 /\ \E e \in D : e.pid = p
      /\ \A b : b \in Bodies(s) <=> \E e \in D : e.body = b
      /\ \A p, b : (\E e \in D : e.pid = p /\ e.body = b) <=> Has(s, p, b)
      /\ \A e \in D : \E i \in 1..Len(s) : e = s[i]
  BY DEF Pids, Bodies, Has
<1>3. QED
  BY <1>1, <1>2

\* Packets are acknowledged by their stream ids.
LEMMA AcksGo ==
    ASSUME NEW c \in Clients, Sound(c), NEW d, NEW a, NEW back, NEW server,
           Wired(back, server), Tells(c, a, back, server), NEW last, StreamAcked(c, d, last),
           \A i \in 1..Len(c.to_resend) :
               c.to_resend[i].sid <= last => c.to_resend[i].body \in server.bodies
    PROVE  Goes(c, d, a, back, server, server.bodies)
<1>1. PICK done, rest \in Seq(Packets) :
          /\ c.to_resend = done \o rest
          /\ \A i \in 1..Len(done) : done[i].sid <= last
          /\ d \in Clients
          /\ d.to_send = c.to_send /\ d.to_resend = rest /\ d.keymap = c.keymap
          /\ d.ticks = c.ticks /\ d.out = c.out
          /\ d.status = Reported(c.status, Bodies(done), "SENT")
          /\ d.flush = c.flush
  BY DEF StreamAcked
<1> DEFINE y == done \o rest
           z == c.to_send
<1>2. c.ticks \in Nat /\ z \in Seq(Packets) /\ y \in Seq(Packets)
  BY DEF Clients
<1>3. /\ \A i \in 1..Len(done) : i \in 1..Len(y) /\ y[i] = done[i]
      /\ \A i \in 1..Len(rest) : Len(done) + i \in 1..Len(y) /\ y[Len(done) + i] = rest[i]
  BY JoinIndex
<1>4. Rising(y) /\ Before(y, z)
  BY <1>1 DEF Sound, InOrder
<1>5. /\ Before(done, rest) /\ Before(done, z)
      /\ \A p, b : Has(y, p, b) <=> Has(done, p, b) \/ Has(rest, p, b)
  <2> HIDE DEF z
  <2>1. QED
    BY <1>2, <1>4, JoinLemma
<1>6. Marked(y) /\ Marked(z)
  BY <1>1 DEF Tells
<1>7. Marked(rest)
  BY <1>6, MarkedLemma
<1>8. PICK D \in SUBSET Packets :
          /\ \A p : p \in Pids(done) <=> p # 0 /\ \E e \in D : e.pid = p
          /\ \A b : b \in Bodies(done) <=> \E e \in D : e.body = b
          /\ \A p, b : (\E e \in D : e.pid = p /\ e.body = b) <=> Has(done, p, b)
          /\ \A e \in D : \E i \in 1..Len(done) : e = done[i]
  BY PacketSet
<1> HIDE DEF z, y
<1>9. ASSUME NEW p \in Nat \ {0}, NEW b \in Reliables
      PROVE  /\ Holding(c, p, b) <=> Holding(d, p, b) \/ Has(done, p, b)
             /\ Holding(d, p, b) => p \notin Pids(done)
  <2>1. Holding(c, p, b) <=> Has(y, p, b) \/ Has(z, p, b)
    BY <1>1 DEF Holding, y, z
  <2>2. Holding(d, p, b) <=> Has(rest, p, b) \/ Has(z, p, b)
    BY <1>1 DEF Holding, z
  <2>3. Has(rest, p, b) => p \notin Pids(done)
    BY <1>5, ApartLemma
  <2>4. Has(z, p, b) => p \notin Pids(done)
    BY <1>2, <1>5, ApartLemma
  <2>5. QED
    BY <1>5, <2>1, <2>2, <2>3, <2>4
<1>11. \A e \in D : e.body \in server.bodies
  <2>1. ASSUME NEW i \in 1..Len(done) PROVE done[i].body \in server.bodies
    <3>1. i \in 1..Len(y) /\ y[i] = done[i] /\ done[i].sid <= last
      BY <1>1, <1>3
    <3>2. \A j \in 1..Len(y) : y[j].sid <= last => y[j].body \in server.bodies
      BY <1>1 DEF y
    <3>3. QED
      BY <3>1, <3>2
  <2>2. QED
    BY <1>8, <2>1
<1> DEFINE S == Pids(done)
<1> HIDE DEF S
<1>12. Leave(c, d, S, "SENT", server.bodies)
  <2>1. \A p \in Nat \ {0}, b \in Reliables :
            Holding(c, p, b) <=> Holding(d, p, b) \/ \E e \in D : e.pid = p /\ e.body = b
    BY <1>8, <1>9
  <2>2. \A p \in Nat \ {0}, b \in Reliables : Holding(d, p, b) => p \notin S
    BY <1>9 DEF S
  <2>3. /\ \A p : p \in S <=> p # 0 /\ \E e \in D : e.pid = p
        /\ d.status = Reported(c.status, Bodies(done), "SENT")
    BY <1>1, <1>8 DEF S
  <2>4. Leaving(c, d, D, S, Bodies(done), "SENT", server.bodies)
    BY <1>8, <1>11, <2>1, <2>2, <2>3 DEF Leaving
  <2>5. QED
    BY <2>4, PacketsLeave
<1>13. Moves(c, d, S, "SENT", server.bodies)
  <2>1. Flushes(c, d)
    BY <1>1 DEF Flushes
  <2>2. "SENT" \in Ends /\ c.ticks <= d.ticks
    BY <1>1, <1>2 DEF Ends
  <2>3. d \in Clients /\ Marked(d.to_send) /\ Marked(d.to_resend)
        /\ \A k \in Keys : d.keymap[k] \in {c.keymap[k], 0}
    BY <1>1, <1>6, <1>7 DEF z
  <2>4. QED
    BY <1>12, <2>1, <2>2, <2>3 DEF Moves, Leave
<1>14. Carries(c, d)
  <2>1. \A i \in 1..Len(rest) : \E j \in 1..Len(y) : rest[i] = y[j]
    BY <1>3
  <2>2. QED
    BY <1>1, <2>1 DEF Carries, y
<1>15. QED
  BY <1>13, <1>14, MovesGo


\* Packets are acknowledged by their persistent ids, and the others go back to the queue.
LEMMA SettlesGo ==
    ASSUME NEW c \in Clients, Sound(c), NEW d, NEW a, NEW back, NEW server,
           Wired(back, server), Tells(c, a, back, server), NEW ids, Settles(c, d, ids),
           ids \subseteq server.got
    PROVE  Goes(c, d, a, back, server, server.bodies)
<1>1. PICK first, over, second, left \in Seq(Packets) :
          /\ c.to_resend = first \o over /\ c.to_send = second \o left
          /\ Pids(first) \cup Pids(second) \subseteq ids
          /\ d \in Clients
          /\ d.to_send = over \o left /\ d.to_resend = << >>
          /\ d.keymap = [key \in Keys |-> IF \E b \in Bodies(second) : Key(b) = key THEN 0
                                          ELSE c.keymap[key]]
          /\ d.ticks = c.ticks /\ d.out = c.out
          /\ d.status = Reported(c.status, Bodies(first \o second), "SENT")
          /\ d.flush = c.flush
  BY ZenonT(60) DEF Settles
<1> DEFINE x == first \o over
           z == second \o left
           y == over \o left
           done == first \o second
<1>2. /\ c.ticks \in Nat /\ x \in Seq(Packets) /\ z \in Seq(Packets)
      /\ y \in Seq(Packets) /\ done \in Seq(Packets)
  BY <1>1 DEF Clients
<1>3. Rising(x) /\ Rising(z) /\ Before(x, z)
  BY <1>1 DEF Sound, InOrder
<1>4. /\ Before(first, over) /\ Before(first, z) /\ Before(over, z)
      /\ \A p, b : Has(x, p, b) <=> Has(first, p, b) \/ Has(over, p, b)
  <2> HIDE DEF z, y, done
  <2>1. QED
    BY <1>2, <1>3, JoinLemma
<1>5. /\ Before(second, left) /\ Before(first, second) /\ Before(first, left)
      /\ Before(over, second) /\ Before(over, left)
      /\ \A p, b : Has(z, p, b) <=> Has(second, p, b) \/ Has(left, p, b)
  <2> HIDE DEF x, y, done
  <2>1. QED
    BY <1>2, <1>3, <1>4, JoinLemma
<1>6. \A p, b : Has(y, p, b) <=> Has(over, p, b) \/ Has(left, p, b)
  BY JoinLemma
<1>7. \A p, b : Has(done, p, b) <=> Has(first, p, b) \/ Has(second, p, b)
  BY JoinLemma
<1>8. Marked(y)
  <2>1. Marked(x) /\ Marked(z)
    BY <1>1 DEF Tells
  <2>2. Marked(over) /\ Marked(left)
    BY <2>1, MarkedLemma
  <2>3. QED
    BY <2>2, MarkedLemma
<1>9. ASSUME NEW p \in Nat \ {0}, p \in Pids(done) PROVE p \in Pids(first) \/ p \in Pids(second)
  <2>1. PICK b \in Reliables : Has(done, p, b)
    BY <1>2, <1>9, PidsLemma
  <2>2. QED
    BY <1>7, <2>1, PidsLemma
<1>10. PICK D \in SUBSET Packets :
           /\ \A p : p \in Pids(done) <=> p # 0 /\ \E e \in D : e.pid = p
           /\ \A b : b \in Bodies(done) <=> \E e \in D : e.body = b
           /\ \A p, b : (\E e \in D : e.pid = p /\ e.body = b) <=> Has(done, p, b)
  BY <1>2, PacketSet, ZenonT(60)
<1>11. c.to_resend = x /\ c.to_send = z /\ d.to_send = y /\ d.to_resend = << >>
       /\ d.status = Reported(c.status, Bodies(done), "SENT")
  BY <1>1
<1> HIDE DEF x, y, z, done
<1>12. ASSUME NEW p \in Nat \ {0}, NEW b \in Reliables
       PROVE  /\ Holding(c, p, b) <=> Holding(d, p, b) \/ Has(done, p, b)
              /\ Holding(d, p, b) => p \notin Pids(done)
  <2>1. Holding(c, p, b) <=> Has(x, p, b) \/ Has(z, p, b)
    BY <1>11 DEF Holding
  <2>2. Holding(d, p, b) <=> Has(y, p, b)
    BY <1>11, EmptyLemma DEF Holding
  <2>3. Has(y, p, b) => p \notin Pids(first)
    BY <1>4, <1>5, <1>6, ApartLemma
  <2>4. Has(y, p, b) => p \notin Pids(second)
    BY <1>5, <1>6, ApartLemma
  <2>5. QED
    BY <1>4, <1>5, <1>6, <1>7, <1>9, <2>1, <2>2, <2>3, <2>4
<1>13. \A e \in D : e.pid # 0 => e.body \in server.bodies
  <2>1. SUFFICES ASSUME NEW e \in D, e.pid # 0 PROVE e.body \in server.bodies
    OBVIOUS
  <2>2. e \in Packets
    OBVIOUS
  <2>3. e.pid \in Nat \ {0} /\ e.body \in Reliables
    BY <2>1, <2>2 DEF Packets
  <2>4. Has(done, e.pid, e.body) /\ e.pid \in Pids(done)
    BY <1>10, <2>1
  <2>5. Holding(c, e.pid, e.body)
    BY <1>12, <2>3, <2>4
  <2>6. e.pid \in server.got
    BY <1>1, <1>9, <2>3, <2>4
  <2>7. QED
    BY <2>3, <2>5, <2>6 DEF Tells, Landed
<1>14. Leave(c, d, Pids(done), "SENT", server.bodies)
  <2>1. Leaving(c, d, D, Pids(done), Bodies(done), "SENT", server.bodies)
    BY <1>10, <1>11, <1>12, <1>13 DEF Leaving
  <2>2. QED
    BY <2>1, PacketsLeave
<1>15. Moves(c, d, Pids(done), "SENT", server.bodies)
  <2>1. Flushes(c, d)
    BY <1>1 DEF Flushes
  <2>2. "SENT" \in Ends /\ c.ticks <= d.ticks
    BY <1>1, <1>2 DEF Ends
  <2>3. Marked(d.to_send) /\ Marked(d.to_resend)
    BY <1>8, <1>11, MarkedLemma
  <2>4. d \in Clients /\ \A k \in Keys : d.keymap[k] \in {c.keymap[k], 0}
    BY <1>1
  <2>5. QED
    BY <1>14, <2>1, <2>2, <2>3, <2>4 DEF Moves
<1>16. Carries(c, d)
  <2>1. ~ \E i \in 1..Len(d.to_resend) : TRUE
    BY <1>1
  <2>2. QED
    BY <1>1, <2>1 DEF Carries
<1>17. QED
  BY <1>15, <1>16, MovesGo

\* Expired and unreliable packets are left behind when the stream starts over.
LEMMA StartsOverMoves ==
    ASSUME NEW c \in Clients, Sound(c), Marked(c.to_send), Marked(c.to_resend), NEW d,
           StartsOver(c, d, c.to_resend \o c.to_send)
    PROVE  \E S : Moves(c, d, S, "TTL_EXCEEDED", {})
<1> DEFINE x == c.to_resend
           z == c.to_send
           y == x \o z
           W == Worth(c, y)
           q == WithBody(y, W)
           D == {y[i] : i \in Dropped(c, y)}
           S == {y[i].pid : i \in Dropped(c, y)} \ {0}
           B == {y[i].body : i \in Dropped(c, y)}
<1>1. /\ x \in Seq(Packets) /\ z \in Seq(Packets) /\ c.ticks \in Nat /\ y \in Seq(Packets)
  <2>1. x \in Seq(Packets) /\ z \in Seq(Packets) /\ c.ticks \in Nat
    BY DEF Clients
  <2>2. QED
    BY <2>1
<1>2. /\ d \in Clients /\ d.to_send = q /\ d.to_resend = << >>
      /\ d.keymap = [k \in Keys |-> IF \E b \in Bodies(y) : Key(b) = k THEN 0 ELSE c.keymap[k]]
      /\ d.ticks = c.ticks /\ d.status = Reported(c.status, B, "TTL_EXCEEDED") /\ d.flush = << >>
  BY DEF StartsOver
<1>3. \A i \in 1..Len(y) : i \in Dropped(c, y) <=> y[i].body \notin W
  BY DEF Dropped
<1>4. \A i \in Dropped(c, y) : i \in 1..Len(y)
  BY DEF Dropped
<1>5. /\ \A p, b : Has(y, p, b) <=> Has(x, p, b) \/ Has(z, p, b)
      /\ Marked(y)
  <2> HIDE DEF x, z
  <2>1. Marked(x) /\ Marked(z)
    BY DEF x, z
  <2>2. QED
    BY <1>1, <2>1, JoinLemma, MarkedLemma
<1>6. /\ \A p, b : Holding(c, p, b) <=> Has(y, p, b)
      /\ \A p, b : Holding(d, p, b) <=> Has(q, p, b)
  BY <1>2, <1>5, EmptyLemma DEF Holding
<1> HIDE DEF x, z, y, W
<1>7. q \in Seq(Packets) /\ \E h : KeptOf(q, y, W, h)
  BY <1>1, WithBodyLemma
<1>8. PICK h : KeptOf(q, y, W, h)
  BY <1>7
<1> HIDE DEF q
<1>9. /\ \A i \in 1..Len(q) : /\ h[i] \in 1..Len(y) /\ q[i] = y[h[i]] /\ q[i].body \in W
      /\ \A j \in 1..Len(y) : y[j].body \in W => \E i \in 1..Len(q) : q[i] = y[j]
  BY <1>8 DEF KeptOf
<1>10. \A p, b : Has(q, p, b) <=> Has(y, p, b) /\ b \in W
  BY <1>9 DEF Has
<1>11. D \in SUBSET Packets
  BY <1>1, <1>4
<1>12. /\ \A p : p \in S <=> p # 0 /\ \E e \in D : e.pid = p
       /\ \A b : b \in B <=> \E e \in D : e.body = b
       /\ \A p, b : (\E e \in D : e.pid = p /\ e.body = b) <=> Has(y, p, b) /\ b \notin W
  <2>1. /\ \A p : p \in S <=> p # 0 /\ \E e \in D : e.pid = p
        /\ \A b : b \in B <=> \E e \in D : e.body = b
    OBVIOUS
  <2>2. ASSUME NEW p, NEW b, Has(y, p, b), b \notin W PROVE \E e \in D : e.pid = p /\ e.body = b
    <3>1. PICK i \in 1..Len(y) : y[i].pid = p /\ y[i].body = b
      BY <2>2 DEF Has
    <3>2. i \in Dropped(c, y)
      BY <1>3, <2>2, <3>1
    <3>3. QED
      BY <3>1, <3>2
  <2>3. ASSUME NEW p, NEW b, NEW e \in D, e.pid = p, e.body = b PROVE Has(y, p, b) /\ b \notin W
    <3>1. PICK i \in Dropped(c, y) : e = y[i]
      OBVIOUS
    <3>2. i \in 1..Len(y) /\ y[i].body \notin W
      BY <1>3, <1>4
    <3>3. QED
      BY <2>3, <3>1, <3>2 DEF Has
  <2>4. QED
    BY <2>1, <2>2, <2>3
<1> HIDE DEF D, S, B
<1>13. ASSUME NEW p \in Nat \ {0}, NEW b \in Reliables, Holding(d, p, b) PROVE p \notin S
  <2>1. SUFFICES ASSUME NEW e \in D, e.pid = p PROVE FALSE
    BY <1>12
  <2>2. Has(y, p, e.body) /\ e.body \notin W
    BY <1>12, <2>1
  <2>3. Holding(c, p, e.body) /\ Holding(c, p, b) /\ b \in W
    BY <1>6, <1>10, <1>13, <2>2
  <2>4. e.body = b
    BY <2>3, OneBody
  <2>5. QED
    BY <2>2, <2>3, <2>4
<1>14. \A p \in Nat \ {0}, b \in Reliables :
           Holding(c, p, b) <=> Holding(d, p, b) \/ \E e \in D : e.pid = p /\ e.body = b
  BY <1>6, <1>10, <1>12
<1>15. Leave(c, d, S, "TTL_EXCEEDED", {})
  <2>1. Leaving(c, d, D, S, B, "TTL_EXCEEDED", {})
    BY <1>2, <1>11, <1>12, <1>13, <1>14 DEF Leaving
  <2>2. QED
    BY <2>1, PacketsLeave
<1>16. Marked(d.to_send) /\ Marked(d.to_resend)
  <2>1. Marked(q)
    BY <1>5, <1>9 DEF Marked
  <2>2. QED
    BY <1>2, <2>1, MarkedLemma
<1>17. Moves(c, d, S, "TTL_EXCEEDED", {})
  <2>1. Flushes(c, d)
    BY <1>2 DEF Flushes
  <2>2. "TTL_EXCEEDED" \in Ends /\ c.ticks <= d.ticks
    BY <1>1, <1>2 DEF Ends
  <2>3. \A k \in Keys : d.keymap[k] \in {c.keymap[k], 0}
    BY <1>2
  <2>4. QED
    BY <1>2, <1>15, <1>16, <2>1, <2>2, <2>3 DEF Moves
<1>18. QED
  BY <1>17


LEMMA HandlesGo ==
    ASSUME NEW c \in Clients, NEW s \in Stores, Out(c, s), NEW packet \in FromServer, NEW h,
           Handles(c, packet, h), NEW a, NEW back, NEW server,
           Wired(back, server), Tells(c, a, back, server),
           \A i \in 1..Len(c.to_resend) :
               c.to_resend[i].sid <= packet.last => c.to_resend[i].body \in server.bodies,
           packet.tag = "SelectiveAck" => packet.ids \subseteq server.got
    PROVE  /\ Tells(h, a, back, server) /\ Lived(c, h, a, server.bodies)
           /\ h.conn = "down" \/ Goes(c, h, a, back, server, server.bodies)
<1> DEFINE arr == server.bodies
           G(u, v) == Goes(u, v, a, back, server, arr)
<1>1. PICK g \in Clients :
          /\ Counts(c, packet, g)
          /\ \/ Rests(g, h)
             \/ \E body \in Control : Submits(g, h, body)
             \/ packet.tag = "SelectiveAck" /\ Settles(g, h, packet.ids)
  BY DEF Handles
<1>2. PICK d, e : /\ IF packet.last # 0
                     THEN \E z : StreamAcked(c, z, packet.last) /\ Notes(z, d) ELSE d = c
                  /\ Notes(d, e)
                  /\ g = e \/ Submits(e, g, "StreamAck")
  BY <1>1 DEF Counts
<1>3. {} \subseteq arr /\ arr \subseteq arr
  OBVIOUS
<1> HIDE DEF arr
<1>4. ASSUME NEW u \in Clients, NEW v \in Clients, G(c, u),
             Goes(u, v, a, back, server, {}) \/ Goes(u, v, a, back, server, arr)
      PROVE  G(c, v)
  <2>1. CASE Goes(u, v, a, back, server, {})
    BY <1>3, <1>4, <2>1, GoesOn
  <2>2. CASE Goes(u, v, a, back, server, arr)
    BY <1>3, <1>4, <2>2, GoesOn
  <2>3. QED
    BY <1>4, <2>1, <2>2
<1>5. G(c, c)
  <2>1. c.ticks \in Nat /\ c.ticks <= c.ticks
    BY DEF Clients
  <2>2. Goes(c, c, a, back, server, {})
    BY <2>1, StaysGo DEF Out
  <2>3. QED
    BY <1>3, <2>2, GoesOn
<1>6. d \in Clients /\ Out(d, s) /\ G(c, d)
  <2>1. CASE packet.last # 0
    <3>1. PICK z : StreamAcked(c, z, packet.last) /\ Notes(z, d)
      BY <1>2, <2>1
    <3>2. z \in Clients /\ Out(z, s)
      BY <3>1, AcksOut DEF StreamAcked
    <3>3. G(c, z)
      BY <3>1, AcksGo DEF Out, arr
    <3>4. d \in Clients /\ Out(d, s)
      BY <3>1, <3>2, NotesOut DEF Notes
    <3>5. Goes(z, d, a, back, server, {})
      BY <3>1, <3>2, <3>3, NotesGo DEF Out, Goes
    <3>6. QED
      BY <1>4, <3>2, <3>3, <3>4, <3>5
  <2>2. CASE packet.last = 0
    BY <1>2, <1>5, <2>2
  <2>3. QED
    BY <2>1, <2>2
<1>7. e \in Clients /\ Out(e, s) /\ G(c, e)
  <2>1. e \in Clients /\ Out(e, s)
    BY <1>2, <1>6, NotesOut DEF Notes
  <2>2. Goes(d, e, a, back, server, {})
    BY <1>2, <1>6, NotesGo DEF Out, Goes
  <2>3. QED
    BY <1>4, <1>6, <2>1, <2>2
<1>8. ASSUME NEW body \in Control PROVE body \in Messages \cup Control /\ body \notin Reliables
  BY ClientAssumption DEF Reliables
<1>9. Out(g, s) /\ G(c, g)
  <2>1. CASE g = e
    BY <1>7, <2>1
  <2>2. CASE Submits(e, g, "StreamAck")
    <3>1. "StreamAck" \in Control
      BY DEF Control
    <3>2. Out(g, s)
      BY <1>7, <1>8, <2>2, <3>1, SubmitsOut
    <3>3. Tells(e, a, back, server)
      BY <1>7 DEF Goes
    <3>4. Goes(e, g, a, back, server, {})
      BY <1>7, <1>8, <2>2, <3>1, <3>3, SubmitsGo
    <3>5. QED
      BY <1>4, <1>7, <3>2, <3>4
  <2>3. QED
    BY <1>2, <2>1, <2>2
<1>10. Tells(g, a, back, server) /\ Sound(g) /\ Lived(c, g, a, arr)
  BY <1>9 DEF Goes, Out
<1>11. ASSUME h \in Clients, G(c, h)
       PROVE  Tells(h, a, back, server) /\ Lived(c, h, a, arr) /\ G(c, h)
  BY <1>11 DEF Goes
<1>12. CASE Rests(g, h)
  <2>1. /\ h \in Clients /\ h.ticks \in Nat /\ h.ticks = g.ticks
        /\ h.to_send = g.to_send /\ h.to_resend = g.to_resend /\ h.keymap = g.keymap
        /\ h.status = g.status /\ h.out = g.out
        /\ h.flush = g.flush \/ (h.flush = << >> /\ h.conn = "down")
    BY <1>12 DEF Rests, Clients
  <2>2. g.ticks <= h.ticks
    BY <2>1
  <2>3. CASE h.flush = g.flush
    <3>1. Goes(g, h, a, back, server, {})
      BY <1>10, <2>1, <2>2, <2>3, StaysGo
    <3>2. G(c, h)
      BY <1>4, <1>9, <2>1, <3>1
    <3>3. QED
      BY <1>11, <2>1, <3>2 DEF arr
  <2>4. CASE h.flush = << >> /\ h.conn = "down"
    <3>1. Moves(g, h, {}, "SENT", {})
      BY <1>10, <2>1, <2>2, <2>4, StaysMove DEF Tells
    <3>2. {} \subseteq server.bodies
      OBVIOUS
    <3>3. Tells(h, a, back, server) /\ Lived(g, h, a, {})
      BY <1>10, <3>1, <3>2, AirTypes, MovesTells
    <3>4. Lived(c, h, a, arr)
      BY <1>3, <1>10, <3>3, LivedOn
    <3>5. QED
      BY <2>4, <3>3, <3>4 DEF arr
  <2>5. QED
    BY <2>1, <2>3, <2>4
<1>13. CASE \E body \in Control : Submits(g, h, body)
  <2>1. PICK body \in Control : Submits(g, h, body)
    BY <1>13
  <2>2. Goes(g, h, a, back, server, {})
    BY <1>8, <1>9, <1>10, <2>1, SubmitsGo
  <2>3. h \in Clients
    BY <2>2 DEF Goes
  <2>4. G(c, h)
    BY <1>4, <1>9, <2>2, <2>3
  <2>5. QED
    BY <1>11, <2>3, <2>4 DEF arr
<1>14. CASE packet.tag = "SelectiveAck" /\ Settles(g, h, packet.ids)
  <2>1. Goes(g, h, a, back, server, arr)
    BY <1>10, <1>14, SettlesGo DEF arr
  <2>2. h \in Clients
    BY <2>1 DEF Goes
  <2>3. G(c, h)
    BY <1>4, <1>9, <2>1, <2>2
  <2>4. QED
    BY <1>11, <2>2, <2>3 DEF arr
<1>15. QED
  BY <1>1, <1>12, <1>13, <1>14


-----------------------------------------------------------------------------
(***************************************************************************)
(* Messages that are sent                                                  *)
(***************************************************************************)

\* One more message is sent.
LEMMA AskedMore ==
    ASSUME NEW a \in Seq(Messages), NEW m \in Messages, ~ IsAsked(a, m)
    PROVE  LET x == Append(a, m)
           IN  /\ \A b : IsAsked(x, b) <=> IsAsked(a, b) \/ b = m
               /\ \A b : Superseded(a, b) => Superseded(x, b)
               /\ \A b : IsAsked(a, b) /\ Key(b) = Key(m) /\ Key(m) # NoKey => Superseded(x, b)
<1> DEFINE x == Append(a, m)
           n == Len(a)
<1>1. /\ n \in Nat /\ Len(x) = n + 1 /\ x[n + 1] = m
      /\ \A i \in 1..n : i \in 1..(n + 1) /\ x[i] = a[i]
      /\ \A i \in 1..(n + 1) : i = n + 1 \/ i \in 1..n
  OBVIOUS
<1>2. \A b : IsAsked(a, b) <=> \E i \in 1..n : a[i] = b
  BY DEF IsAsked
<1>3. \A b : IsAsked(x, b) <=> \E i \in 1..(n + 1) : x[i] = b
  BY <1>1 DEF IsAsked
<1>4. \A b : IsAsked(x, b) <=> IsAsked(a, b) \/ b = m
  <2> HIDE DEF x, n
  <2>1. n + 1 \in 1..(n + 1)
    BY <1>1
  <2>2. QED
    BY <1>1, <1>2, <1>3, <2>1
<1>5. ASSUME NEW b, Superseded(a, b) PROVE Superseded(x, b)
  <2>1. PICK y \in Messages : \E i, j \in 1..n :
            i < j /\ a[i] = b /\ a[j] = y /\ Key(y) = Key(b) /\ Key(y) # NoKey
    BY <1>5 DEF Superseded
  <2> HIDE DEF x, n
  <2>2. \E i, j \in 1..(n + 1) :
            i < j /\ x[i] = b /\ x[j] = y /\ Key(y) = Key(b) /\ Key(y) # NoKey
    BY <1>1, <2>1
  <2>3. QED
    BY <1>1, <2>2 DEF Superseded
<1>6. ASSUME NEW b, IsAsked(a, b), Key(b) = Key(m), Key(m) # NoKey PROVE Superseded(x, b)
  <2>1. PICK i \in 1..n : a[i] = b
    BY <1>2, <1>6
  <2> HIDE DEF x, n
  <2>2. i \in 1..(n + 1) /\ n + 1 \in 1..(n + 1) /\ i < n + 1 /\ x[i] = b
    BY <1>1, <2>1
  <2>3. QED
    BY <1>1, <1>6, <2>2 DEF Superseded
<1>7. QED
  BY <1>4, <1>5, <1>6

\* It changes nothing for the others.
LEMMA AskedLives ==
    ASSUME NEW a \in Seq(Messages), NEW m \in Messages, ~ IsAsked(a, m),
           NEW c, NEW arr, NEW b \in Reliables, b # m, Account(c, a, arr, b)
    PROVE  /\ Account(c, Append(a, m), arr, b)
           /\ LifeOf(c, Append(a, m), b) = LifeOf(c, a, b)
<1> DEFINE x == Append(a, m)
<1>1. (IsAsked(x, b) <=> IsAsked(a, b)) /\ (Superseded(a, b) => Superseded(x, b))
  BY AskedMore
<1> HIDE DEF x
<1>2. Account(c, x, arr, b)
  BY <1>1 DEF Account
<1>3. Superseded(x, b) /\ ~ Superseded(a, b) =>
          \/ ~ IsAsked(a, b)
          \/ HoldsBody(c, b)
          \/ c.status[b] \cap Ends # {}
          \/ c.status[b] \cap Refusals # {}
  BY DEF Account
<1>4. LifeOf(c, x, b) = LifeOf(c, a, b)
  <2>1. CASE Superseded(x, b) <=> Superseded(a, b)
    BY <1>1, <2>1 DEF LifeOf
  <2>2. CASE ~ IsAsked(a, b)
    BY <1>1, <2>2 DEF LifeOf
  <2>3. CASE HoldsBody(c, b)
    BY <1>1, <2>3 DEF LifeOf
  <2>4. CASE c.status[b] \cap Ends # {}
    BY <1>1, <2>4 DEF LifeOf
  <2>5. CASE c.status[b] \cap Refusals # {}
    BY <1>1, <2>5 DEF LifeOf
  <2>6. QED
    BY <1>1, <1>3, <2>1, <2>2, <2>3, <2>4, <2>5
<1>5. QED
  BY <1>2, <1>4 DEF x

\* What is told after another message was sent.
LEMMA AskedTells ==
    ASSUME NEW a \in Seq(Messages), NEW m \in Messages, ~ IsAsked(a, m),
           NEW c \in Clients, NEW d \in Clients, NEW back, NEW server,
           Wired(back, server), Tells(c, a, back, server),
           Accounted(d, Append(a, m), server.bodies), Marked(d.to_send), Marked(d.to_resend),
           d.flush = c.flush, c.ticks <= d.ticks,
           \A b \in Reliables : b # m => d.status[b] = c.status[b],
           \A p \in Nat \ {0} : p <= c.ticks /\ Unkeyed(c, p) =>
               Unkeyed(d, p) /\ \A b \in Reliables : Holding(d, p, b) => Holding(c, p, b)
    PROVE  Tells(d, Append(a, m), back, server)
<1> DEFINE x == Append(a, m)
<1>1. \A b : IsAsked(x, b) <=> IsAsked(a, b) \/ b = m
  BY AskedMore
<1> HIDE DEF x
<1>2. c.ticks \in Nat /\ d.ticks \in Nat
  BY DEF Clients
<1>3. ASSUME NEW f \in Airs(d, back) PROVE Flies(d, x, f)
  <2>1. f \in Airs(c, back)
    BY <1>3 DEF Airs
  <2>2. Flies(c, a, f) /\ f.hdr \in Nat
    BY <2>1, AirTypes DEF Tells
  <2>3. f.hdr <= d.ticks
    BY <1>2, <2>2 DEF Flies
  <2>4. f.body \in Reliables => IsAsked(x, f.body) /\ d.status[f.body] \cap Refusals = {}
    BY <1>1, <2>2 DEF Flies
  <2>5. f.hdr # 0 => Unkeyed(d, f.hdr) /\ \A b \in Reliables : Holding(d, f.hdr, b) => f.body = b
    BY <2>2 DEF Flies
  <2>6. QED
    BY <2>3, <2>4, <2>5 DEF Flies
<1>4. ASSUME NEW p \in server.got PROVE Landed(d, server, p)
  <2>1. Landed(c, server, p) /\ p \in Nat
    BY <1>4, AirTypes DEF Tells
  <2>2. p \in Nat \ {0} /\ p <= d.ticks
    BY <1>2, <2>1 DEF Landed
  <2>3. QED
    BY <2>1, <2>2 DEF Landed
<1>5. QED
  BY <1>3, <1>4 DEF Tells, x


\* A message that is not reliable is sent.
LEMMA AskedUnreliable ==
    ASSUME NEW a \in Seq(Messages), NEW m \in Messages, ~ IsAsked(a, m), m \notin Reliables,
           NEW c \in Clients, NEW back, NEW server,
           Wired(back, server), Tells(c, a, back, server)
    PROVE  /\ Tells(c, Append(a, m), back, server)
           /\ \A b \in Reliables : LifeOf(c, Append(a, m), b) = LifeOf(c, a, b)
<1>1. ASSUME NEW b \in Reliables
      PROVE  /\ Account(c, Append(a, m), server.bodies, b)
             /\ LifeOf(c, Append(a, m), b) = LifeOf(c, a, b)
  <2>1. Account(c, a, server.bodies, b)
    BY DEF Tells, Accounted
  <2>2. b # m
    OBVIOUS
  <2>3. QED
    BY <2>1, <2>2, AskedLives
<1>2. Accounted(c, Append(a, m), server.bodies)
  BY <1>1 DEF Accounted
<1>3. Marked(c.to_send) /\ Marked(c.to_resend)
  BY DEF Tells
<1>4. c.ticks <= c.ticks
  BY DEF Clients
<1>5. Tells(c, Append(a, m), back, server)
  BY <1>2, <1>3, <1>4, AskedTells
<1>6. QED
  BY <1>1, <1>5

\* What of a message its life depends on.
LEMMA SameLife ==
    ASSUME NEW c, NEW d, NEW a, NEW arr, NEW b, d.status[b] = c.status[b],
           \A p \in Nat \ {0} : Holding(d, p, b) <=> Holding(c, p, b)
    PROVE  /\ Account(c, a, arr, b) => Account(d, a, arr, b)
           /\ LifeOf(d, a, b) = LifeOf(c, a, b)
<1>1. HoldsBody(d, b) <=> HoldsBody(c, b)
  BY DEF HoldsBody
<1>2. LifeOf(d, a, b) = LifeOf(c, a, b)
  BY <1>1 DEF LifeOf
<1>3. Account(c, a, arr, b) => Account(d, a, arr, b)
  BY <1>1 DEF Account
<1>4. QED
  BY <1>2, <1>3

\* Message m has life l now, and the others live as before.
Comes(c, a, d, x, m, l) ==
    /\ LifeOf(d, x, m) = l
    /\ \A b \in Reliables : b # m => LifeOf(d, x, b) = LifeOf(c, a, b)

\* Message m takes the place of a waiting one.
Supplants(c, a, d, x, m) ==
    /\ LifeOf(d, x, m) = "waiting"
    /\ \E old \in Reliables :
           /\ old # m /\ Key(m) = Key(old) /\ Key(m) # NoKey
           /\ LifeOf(c, a, old) = "waiting" /\ LifeOf(d, x, old) = "replaced"
           /\ \A b \in Reliables : b # m /\ b # old => LifeOf(d, x, b) = LifeOf(c, a, b)

\* A reliable message is refused.
LEMMA RefusesTells ==
    ASSUME NEW a \in Seq(Messages), NEW m \in Reliables, ~ IsAsked(a, m),
           NEW c \in Clients, NEW d, NEW back, NEW server,
           Wired(back, server), Tells(c, a, back, server), Refuses(c, d, m)
    PROVE  Tells(d, Append(a, m), back, server) /\ Comes(c, a, d, Append(a, m), m, "refused")
<1> DEFINE x == Append(a, m)
           arr == server.bodies
<1>1. m \in Messages
  BY DEF Reliables
<1>2. /\ d \in Clients /\ d.to_send = c.to_send /\ d.to_resend = c.to_resend
      /\ d.keymap = c.keymap /\ d.flush = c.flush
      /\ d.ticks \in {c.ticks, c.ticks + 1} /\ c.ticks \in Nat
  BY DEF Refuses, Clients
<1>3. PICK st \in Refusals : d.status = Reported(c.status, {m}, st)
  BY DEF Refuses, IsReliable, Reliables
<1>4. \A p, b : Holding(d, p, b) <=> Holding(c, p, b)
  BY <1>2 DEF Holding
<1>5. Account(c, a, arr, m) /\ \A b \in Reliables : Account(c, a, arr, b)
  BY DEF Tells, Accounted
<1>6. c.status[m] = {} /\ ~ HoldsBody(c, m) /\ ~ HoldsBody(d, m)
  <2>1. c.status[m] = {} /\ ~ HoldsBody(c, m)
    BY <1>5 DEF Account
  <2>2. QED
    BY <1>4, <2>1 DEF HoldsBody
<1>7. /\ d.status[m] = {st}
      /\ \A b \in Reliables : b # m => d.status[b] = c.status[b]
  BY <1>1, <1>3, <1>6 DEF Reported, Reliables
<1>8. st \notin Ends /\ st # "SENT" /\ "SENT" \in Ends
  BY DEF Ends, Refusals
<1>9. IsAsked(x, m)
  BY <1>1, AskedMore
<1> HIDE DEF x, arr
<1>10. Account(d, x, arr, m)
  <2>1. \A p, q \in Nat \ {0} : Holding(d, p, m) /\ Holding(d, q, m) => p = q
    BY <1>6 DEF HoldsBody
  <2>2. d.status[m] \cap (Ends \cup Refusals) # {}
    BY <1>3, <1>7
  <2>3. ~ (Ends \subseteq d.status[m]) /\ "SENT" \notin d.status[m]
    BY <1>7, <1>8
  <2>4. QED
    BY <1>6, <1>9, <2>1, <2>2, <2>3 DEF Account
<1>11. LifeOf(d, x, m) = "refused"
  <2>1. d.status[m] \cap Ends = {} /\ d.status[m] \cap Refusals # {}
    BY <1>3, <1>7, <1>8
  <2>2. QED
    BY <1>6, <1>9, <2>1 DEF LifeOf
<1>12. ASSUME NEW b \in Reliables, b # m
       PROVE  Account(d, x, arr, b) /\ LifeOf(d, x, b) = LifeOf(c, a, b)
  <2>1. Account(c, x, arr, b) /\ LifeOf(c, x, b) = LifeOf(c, a, b)
    BY <1>1, <1>5, <1>12, AskedLives DEF x
  <2>2. Account(d, x, arr, b) /\ LifeOf(d, x, b) = LifeOf(c, x, b)
    BY <1>4, <1>7, <1>12, <2>1, SameLife
  <2>3. QED
    BY <2>1, <2>2
<1>13. Tells(d, x, back, server)
  <2>1. Accounted(d, x, arr)
    BY <1>10, <1>12 DEF Accounted
  <2>2. Marked(d.to_send) /\ Marked(d.to_resend)
    BY <1>2 DEF Tells
  <2>3. c.ticks <= d.ticks
    BY <1>2
  <2>4. \A p \in Nat \ {0} : p <= c.ticks /\ Unkeyed(c, p) =>
            Unkeyed(d, p) /\ \A b \in Reliables : Holding(d, p, b) => Holding(c, p, b)
    BY <1>2, <1>4 DEF Unkeyed
  <2>5. QED
    BY <1>1, <1>2, <1>7, <2>1, <2>2, <2>3, <2>4, AskedTells DEF x, arr
<1>14. QED
  BY <1>11, <1>12, <1>13 DEF Comes, x

\* A reliable message is queued.
LEMMA QueuesTells ==
    ASSUME NEW a \in Seq(Messages), NEW m \in Reliables, ~ IsAsked(a, m),
           NEW c \in Clients, Sound(c), NEW d, NEW back, NEW server,
           Wired(back, server), Tells(c, a, back, server), Queues(c, d, m)
    PROVE  Tells(d, Append(a, m), back, server) /\ Comes(c, a, d, Append(a, m), m, "waiting")
<1> DEFINE x == Append(a, m)
           arr == server.bodies
           n == c.ticks + 1
           p == [body |-> m, pid |-> n, hdr |-> n, sid |-> 0]
           f == <<p>>
<1>1. m \in Messages /\ c.ticks \in Nat /\ n \in Nat \ {0} /\ c.to_send \in Seq(Packets)
  BY DEF Reliables, Clients
<1>2. /\ d \in Clients /\ d.to_send = Append(c.to_send, p) /\ d.to_resend = c.to_resend
      /\ d.keymap = [k \in Keys |-> IF k = Key(m) THEN n ELSE c.keymap[k]]
      /\ d.ticks = n /\ d.flush = c.flush
      /\ d.status = Reported(c.status, {m}, "QUEUED")
  BY DEF Queues
<1>3. p \in Packets /\ p.pid = n /\ p.hdr = n /\ p.body = m
  <2> HIDE DEF n
  <2>1. QED
    BY <1>1 DEF Packets
<1> HIDE DEF p
<1>4. d.to_send = c.to_send \o f /\ f \in Seq(Packets)
  <2> HIDE DEF x, arr, n
  <2>1. Append(c.to_send, p) = c.to_send \o f
    BY <1>1, <1>3, SMTT(40)
  <2>2. f \in Seq(Packets)
    BY <1>3
  <2>3. QED
    BY <1>2, <2>1, <2>2
<1>5. \A q, b : Has(f, q, b) <=> q = n /\ b = m
  BY <1>3, SingleLemma
<1>6. Marked(f) /\ Marked(c.to_send) /\ Marked(c.to_resend)
  BY <1>3, MarkedLemma DEF Tells
<1> HIDE DEF f
<1>7. Marked(d.to_send) /\ Marked(d.to_resend)
  BY <1>1, <1>2, <1>4, <1>6, MarkedLemma
<1>8. \A q, b : Holding(d, q, b) <=> Holding(c, q, b) \/ (q = n /\ b = m)
  <2>1. \A q, b : Has(c.to_send \o f, q, b) <=> Has(c.to_send, q, b) \/ Has(f, q, b)
    BY <1>1, <1>4, JoinLemma
  <2>2. QED
    BY <1>2, <1>4, <1>5, <2>1 DEF Holding
<1>9. Account(c, a, arr, m) /\ \A b \in Reliables : Account(c, a, arr, b)
  BY DEF Tells, Accounted
<1>10. c.status[m] = {} /\ (\A q \in Nat \ {0} : ~ Holding(c, q, m)) /\ HoldsBody(d, m)
  <2>1. c.status[m] = {} /\ ~ HoldsBody(c, m)
    BY <1>9 DEF Account
  <2>2. QED
    BY <1>1, <1>8, <2>1 DEF HoldsBody
<1>11. /\ d.status[m] = {"QUEUED"}
       /\ \A b \in Reliables : b # m => d.status[b] = c.status[b]
  <2>1. m \in {m}
    OBVIOUS
  <2>2. d.status[m] = c.status[m] \cup {"QUEUED"}
    BY <1>1, <1>2, <2>1 DEF Reported
  <2>3. \A b \in Reliables : b # m => d.status[b] = c.status[b]
    BY <1>2 DEF Reported, Reliables
  <2>4. QED
    BY <1>10, <2>2, <2>3
<1>12. "QUEUED" \notin Ends /\ "QUEUED" # "SENT" /\ "SENT" \in Ends
  BY DEF Ends
<1>13. IsAsked(x, m)
  BY <1>1, AskedMore
<1> HIDE DEF x, arr, n
<1>14. Account(d, x, arr, m)
  <2>1. \A q, r \in Nat \ {0} : Holding(d, q, m) /\ Holding(d, r, m) => q = r
    BY <1>8, <1>10
  <2>2. ~ (Ends \subseteq d.status[m]) /\ "SENT" \notin d.status[m]
    BY <1>11, <1>12
  <2>3. QED
    BY <1>10, <1>11, <1>13, <2>1, <2>2 DEF Account
<1>15. LifeOf(d, x, m) = "waiting"
  <2>1. d.status[m] \cap Ends = {}
    BY <1>11, <1>12
  <2>2. QED
    BY <1>10, <1>13, <2>1 DEF LifeOf
<1>16. ASSUME NEW b \in Reliables, b # m
       PROVE  Account(d, x, arr, b) /\ LifeOf(d, x, b) = LifeOf(c, a, b)
  <2>1. Account(c, x, arr, b) /\ LifeOf(c, x, b) = LifeOf(c, a, b)
    <3>1. Account(c, a, arr, b) /\ m \in Messages
      BY <1>1, <1>9, <1>16
    <3>2. QED
      BY <1>16, <3>1, AskedLives DEF x
  <2>2. \A q \in Nat \ {0} : Holding(d, q, b) <=> Holding(c, q, b)
    BY <1>8, <1>16
  <2>3. d.status[b] = c.status[b]
    BY <1>11, <1>16
  <2>4. Account(d, x, arr, b) /\ LifeOf(d, x, b) = LifeOf(c, x, b)
    BY <2>1, <2>2, <2>3, SameLife
  <2>5. QED
    BY <2>1, <2>4
<1>17. Tells(d, x, back, server)
  <2>1. Accounted(d, x, arr)
    BY <1>14, <1>16 DEF Accounted
  <2>2. c.ticks <= d.ticks
    <3>1. c.ticks <= c.ticks + 1
      BY <1>1
    <3>2. QED
      BY <1>2, <3>1 DEF n
  <2>3. ASSUME NEW q \in Nat \ {0}, q <= c.ticks, Unkeyed(c, q)
        PROVE  Unkeyed(d, q) /\ \A b \in Reliables : Holding(d, q, b) => Holding(c, q, b)
    <3>1. q # n
      BY <1>1, <2>3 DEF n
    <3>2. Unkeyed(d, q)
      BY <1>2, <2>3, <3>1 DEF Unkeyed
    <3>3. QED
      BY <1>8, <3>1, <3>2
  <2>4. QED
    BY <1>1, <1>2, <1>7, <1>11, <2>1, <2>2, <2>3, AskedTells DEF x, arr
<1>18. QED
  BY <1>15, <1>16, <1>17 DEF Comes, x


\* What it means for the queues that m takes the place of message old, under its id.
TakesPlace(c, d, m, old, pid) ==
    /\ Key(m) \in Keys /\ pid = c.keymap[Key(m)] /\ pid \in Nat \ {0}
    /\ Holding(c, pid, old) /\ Key(old) = Key(m)
    /\ \A q, b : Holding(d, q, b) <=> (q # pid /\ Holding(c, q, b)) \/ (q = pid /\ b = m)
    /\ Marked(c.to_send) => Marked(d.to_send)

LEMMA ReplacedQueue ==
    ASSUME NEW c \in Clients, Sound(c), NEW d, NEW m \in Reliables, Replaces(c, d, m)
    PROVE  \E old \in Reliables, pid \in Nat \ {0} : TakesPlace(c, d, m, old, pid)
<1> DEFINE key == Key(m)
           pid == c.keymap[key]
           x == c.to_resend
           z == c.to_send
           new(p) == IF p.pid = pid THEN [p EXCEPT !.body = m, !.hdr = pid] ELSE p
           q == [i \in 1..Len(z) |-> new(z[i])]
<1>1. x \in Seq(Packets) /\ z \in Seq(Packets) /\ c.keymap \in [Keys -> Nat]
  BY DEF Clients
<1>2. key \in Keys /\ pid # 0 /\ d.to_send = q /\ d.to_resend = x /\ d \in Clients
  BY DEF Replaces
<1>3. pid \in Nat \ {0}
  BY <1>1, <1>2
<1>4. Rising(x) /\ Rising(z) /\ Before(x, z) /\ Points(c.keymap, z)
  BY DEF Sound, InOrder
<1>5. PICK j \in 1..Len(z) : z[j].pid = pid /\ Key(z[j].body) = key
  BY <1>2, <1>4 DEF Points
<1>6. \A i \in 1..Len(z) :
          /\ q[i].pid = z[i].pid
          /\ z[i].pid # pid => q[i].body = z[i].body /\ q[i].hdr = z[i].hdr
          /\ z[i].pid = pid => q[i].body = m /\ q[i].hdr = pid
  <2>1. ASSUME NEW p \in Packets
        PROVE  /\ new(p).pid = p.pid
               /\ p.pid # pid => new(p).body = p.body /\ new(p).hdr = p.hdr
               /\ p.pid = pid => new(p).body = m /\ new(p).hdr = pid
    BY DEF Packets
  <2>2. \A i \in 1..Len(z) : z[i] \in Packets
    BY <1>1
  <2> HIDE DEF new
  <2>3. QED
    BY <2>1, <2>2
<1>7. q \in Seq(Packets) /\ Len(q) = Len(z)
  <2>1. Len(z) \in Nat /\ DOMAIN q = 1..Len(z)
    BY <1>1
  <2> HIDE DEF q
  <2>2. q \in Seq(Packets)
    BY <1>2 DEF Clients
  <2>3. QED
    BY <2>1, <2>2, LenProperties
<1>8. z[j] \in Packets
  BY <1>1
<1> DEFINE old == z[j].body
<1>9. old \in Reliables
  BY <1>3, <1>5, <1>8 DEF Packets
<1> HIDE DEF key, pid, x, z, q
<1>10. Has(z, pid, old)
  BY <1>5 DEF Has
<1>11. \A b : ~ Has(x, pid, b)
  <2>1. pid \notin Pids(x)
    BY <1>1, <1>3, <1>4, <1>10, ApartLemma
  <2>2. QED
    BY <1>1, <1>3, <2>1, PidsLemma
<1>12. \A i, b : Has(q, i, b) <=> (i # pid /\ Has(z, i, b)) \/ (i = pid /\ b = m)
  <2>1. ASSUME NEW i, NEW b, Has(q, i, b)
        PROVE  (i # pid /\ Has(z, i, b)) \/ (i = pid /\ b = m)
    BY <1>6, <1>7, <2>1 DEF Has
  <2>2. ASSUME NEW i, NEW b, i # pid, Has(z, i, b) PROVE Has(q, i, b)
    BY <1>6, <1>7, <2>2 DEF Has
  <2>3. Has(q, pid, m)
    BY <1>5, <1>6, <1>7 DEF Has
  <2>4. QED
    BY <2>1, <2>2, <2>3
<1>13. \A i, b : Holding(d, i, b) <=> (i # pid /\ Holding(c, i, b)) \/ (i = pid /\ b = m)
  BY <1>2, <1>11, <1>12 DEF Holding, x, z
<1>14. Holding(c, pid, old)
  BY <1>10 DEF Holding, z
<1>15. Marked(z) => Marked(q)
  BY <1>6, <1>7 DEF Marked
<1>16. TakesPlace(c, d, m, old, pid)
  BY <1>2, <1>3, <1>5, <1>13, <1>14, <1>15 DEF TakesPlace, key, pid, z
<1>17. QED
  BY <1>3, <1>9, <1>16

\* A reliable message takes the place of another.
LEMMA ReplacesTells ==
    ASSUME NEW a \in Seq(Messages), NEW m \in Reliables, ~ IsAsked(a, m),
           NEW c \in Clients, Sound(c), NEW d, NEW back, NEW server,
           Wired(back, server), Tells(c, a, back, server), Replaces(c, d, m)
    PROVE  Tells(d, Append(a, m), back, server) /\ Supplants(c, a, d, Append(a, m), m)
<1> DEFINE x == Append(a, m)
           arr == server.bodies
<1>1. m \in Messages
  BY DEF Reliables
<1>2. /\ d \in Clients /\ d.to_resend = c.to_resend /\ d.keymap = c.keymap
      /\ d.ticks = c.ticks /\ d.flush = c.flush /\ d.status = c.status /\ c.ticks \in Nat
  BY DEF Replaces, Clients
<1>3. PICK old \in Reliables, pid \in Nat \ {0} : TakesPlace(c, d, m, old, pid)
  BY ReplacedQueue
<1>4. /\ Key(m) \in Keys /\ pid = c.keymap[Key(m)] /\ Holding(c, pid, old) /\ Key(old) = Key(m)
      /\ \A q, b : Holding(d, q, b) <=> (q # pid /\ Holding(c, q, b)) \/ (q = pid /\ b = m)
      /\ Marked(c.to_send) => Marked(d.to_send)
  BY <1>3 DEF TakesPlace
<1>5. Accounted(c, a, arr) /\ \A b \in Reliables : Account(c, a, arr, b)
  BY DEF Tells, Accounted
<1>6. /\ c.status[m] = {} /\ ~ HoldsBody(c, m)
      /\ \A q \in Nat \ {0} : ~ Holding(c, q, m)
  <2>1. c.status[m] = {} /\ ~ HoldsBody(c, m)
    BY <1>5 DEF Account
  <2>2. QED
    BY <2>1 DEF HoldsBody
<1>7. HoldsBody(c, old) /\ old # m /\ Key(m) # NoKey
  <2>1. HoldsBody(c, old)
    BY <1>4 DEF HoldsBody
  <2>2. QED
    BY <1>4, <1>6, <2>1, ClientAssumption
<1>8. /\ IsAsked(a, old) /\ LifeOf(c, a, old) = "waiting"
      /\ c.status[old] \subseteq {"QUEUED"}
      /\ \A p, q \in Nat \ {0} : Holding(c, p, old) /\ Holding(c, q, old) => p = q
  <2>1. Account(c, a, arr, old)
    BY <1>5
  <2>2. IsAsked(a, old) /\ LifeOf(c, a, old) = "waiting"
    BY <1>5, <1>7, LifeLemma
  <2>3. QED
    BY <1>7, <2>1, <2>2 DEF Account
<1>9. IsAsked(x, m) /\ IsAsked(x, old) /\ Superseded(x, old)
  BY <1>1, <1>4, <1>7, <1>8, AskedMore
<1> HIDE DEF x, arr
<1>10. HoldsBody(d, m) /\ ~ HoldsBody(d, old)
  <2>1. HoldsBody(d, m)
    BY <1>4 DEF HoldsBody
  <2>2. \A q \in Nat \ {0} : ~ Holding(d, q, old)
    BY <1>4, <1>7, <1>8
  <2>3. QED
    BY <2>1, <2>2 DEF HoldsBody
<1>11. "QUEUED" \notin Ends /\ "QUEUED" \notin Refusals /\ "SENT" \in Ends
  BY DEF Ends, Refusals
<1>12. Account(d, x, arr, m) /\ LifeOf(d, x, m) = "waiting"
  <2>1. \A p, q \in Nat \ {0} : Holding(d, p, m) /\ Holding(d, q, m) => p = q
    BY <1>4, <1>6
  <2>2. d.status[m] = {}
    BY <1>2, <1>6
  <2>3. ~ (Ends \subseteq d.status[m]) /\ "SENT" \notin d.status[m] /\ d.status[m] \cap Ends = {}
    BY <1>11, <2>2
  <2>4. Account(d, x, arr, m)
    BY <1>9, <1>10, <2>1, <2>2, <2>3 DEF Account
  <2>5. LifeOf(d, x, m) = "waiting"
    BY <1>9, <1>10, <2>3 DEF LifeOf
  <2>6. QED
    BY <2>4, <2>5
<1>13. Account(d, x, arr, old) /\ LifeOf(d, x, old) = "replaced"
  <2>1. \A p, q \in Nat \ {0} : Holding(d, p, old) /\ Holding(d, q, old) => p = q
    BY <1>10 DEF HoldsBody
  <2>2. d.status[old] \subseteq {"QUEUED"}
    BY <1>2, <1>8
  <2>3. /\ ~ (Ends \subseteq d.status[old]) /\ "SENT" \notin d.status[old]
        /\ d.status[old] \cap Ends = {} /\ d.status[old] \cap Refusals = {}
    BY <1>11, <2>2
  <2>4. Account(d, x, arr, old)
    BY <1>9, <1>10, <2>1, <2>3 DEF Account
  <2>5. LifeOf(d, x, old) = "replaced"
    BY <1>9, <1>10, <2>3 DEF LifeOf
  <2>6. QED
    BY <2>4, <2>5
<1>14. ASSUME NEW b \in Reliables, b # m, b # old
       PROVE  Account(d, x, arr, b) /\ LifeOf(d, x, b) = LifeOf(c, a, b)
  <2>1. Account(c, x, arr, b) /\ LifeOf(c, x, b) = LifeOf(c, a, b)
    <3>1. Account(c, a, arr, b)
      BY <1>5
    <3>2. QED
      BY <1>1, <1>14, <3>1, AskedLives DEF x
  <2>2. ~ Holding(c, pid, b)
    BY <1>4, <1>14, OneBody
  <2>3. \A q \in Nat \ {0} : Holding(d, q, b) <=> Holding(c, q, b)
    BY <1>4, <1>14, <2>2
  <2>4. d.status[b] = c.status[b]
    BY <1>2
  <2>5. Account(d, x, arr, b) /\ LifeOf(d, x, b) = LifeOf(c, x, b)
    BY <2>1, <2>3, <2>4, SameLife
  <2>6. QED
    BY <2>1, <2>5
<1>15. Tells(d, x, back, server)
  <2>1. Accounted(d, x, arr)
    BY <1>12, <1>13, <1>14 DEF Accounted
  <2>2. Marked(d.to_send) /\ Marked(d.to_resend)
    BY <1>2, <1>4 DEF Tells
  <2>3. c.ticks <= d.ticks
    BY <1>2
  <2>4. ASSUME NEW q \in Nat \ {0}, Unkeyed(c, q)
        PROVE  Unkeyed(d, q) /\ \A b \in Reliables : Holding(d, q, b) => Holding(c, q, b)
    <3>1. q # pid
      BY <1>4, <2>4 DEF Unkeyed
    <3>2. QED
      BY <1>2, <1>4, <2>4, <3>1 DEF Unkeyed
  <2>5. QED
    BY <1>1, <1>2, <2>1, <2>2, <2>3, <2>4, AskedTells DEF x, arr
<1>16. Supplants(c, a, d, x, m)
  BY <1>4, <1>7, <1>8, <1>12, <1>13, <1>14 DEF Supplants
<1>17. QED
  BY <1>15, <1>16 DEF x


\* From c to d the places of the packets on the stream are kept.
Keeps(c, d, back, server) ==
    /\ d \in Clients /\ c.out <= d.out
    /\ Streams(c, back, server) => Streams(d, back, server)
    /\ c.to_resend = << >> /\ d.out = c.out => d.to_resend = << >>

LEMMA KeepsLemma ==
    ASSUME NEW c \in Clients, NEW d \in Clients, NEW back, NEW server, Wired(back, server)
    PROVE  /\ \A a, arr : Goes(c, d, a, back, server, arr) => Keeps(c, d, back, server)
           /\ Sound(c) /\ d.out = c.out /\ d.flush = c.flush /\ d.to_resend = c.to_resend =>
                  Keeps(c, d, back, server)
           /\ \A e : Keeps(c, d, back, server) /\ Keeps(d, e, back, server) =>
                  Keeps(c, e, back, server)
<1>1. \A a, arr : Goes(c, d, a, back, server, arr) => Keeps(c, d, back, server)
  BY DEF Goes, Keeps
<1>2. ASSUME Sound(c), d.out = c.out, d.flush = c.flush, d.to_resend = c.to_resend
      PROVE  Keeps(c, d, back, server)
  <2>1. Carries(c, d)
    BY <1>2 DEF Carries
  <2>2. Streams(c, back, server) => Streams(d, back, server)
    BY <1>2, <2>1, StreamsOn DEF Sound
  <2>3. c.out <= d.out
    BY <1>2 DEF Clients
  <2>4. QED
    BY <1>2, <2>2, <2>3 DEF Keeps
<1>3. ASSUME NEW e, Keeps(c, d, back, server), Keeps(d, e, back, server)
      PROVE  Keeps(c, e, back, server)
  <2>1. c.out \in Nat /\ d.out \in Nat /\ e.out \in Nat
    BY <1>3 DEF Keeps, Clients
  <2>2. c.out <= d.out /\ d.out <= e.out
    BY <1>3 DEF Keeps
  <2>3. c.out <= e.out /\ (e.out = c.out => d.out = c.out /\ e.out = d.out)
    BY <2>1, <2>2
  <2>4. QED
    BY <1>3, <2>3 DEF Keeps
<1>4. QED
  BY <1>1, <1>2, <1>3

\* Message m is new and is refused, waits or has run out of time at once.
Enters(c, a, d, x, m) ==
    /\ m \in Reliables
    /\ LifeOf(c, a, m) = "new" /\ LifeOf(d, x, m) \in {"refused", "waiting", "expired"}
    /\ \A b \in Reliables : b # m => Ages(LifeOf(c, a, b), LifeOf(d, x, b), b, {})

\* What sending m does to the lives of messages.
Grows(c, a, d, x, m) ==
    \/ Enters(c, a, d, x, m)
    \/ m \in Reliables /\ LifeOf(c, a, m) = "new" /\ Supplants(c, a, d, x, m)
    \/ \A b \in Reliables : Ages(LifeOf(c, a, b), LifeOf(d, x, b), b, {})

\* What an application's message changes, whatever it is.
LEMMA SubmitsTells ==
    ASSUME NEW a \in Seq(Messages), NEW m \in Messages, ~ IsAsked(a, m),
           NEW c \in Clients, NEW s \in Stores, Out(c, s), NEW d, NEW back, NEW server,
           Wired(back, server), Tells(c, a, back, server), Submits(c, d, m)
    PROVE  Tells(d, Append(a, m), back, server) /\ Keeps(c, d, back, server)
           /\ Grows(c, a, d, Append(a, m), m)
<1> DEFINE x == Append(a, m)
<1>1. Sound(c) /\ (IsReliable(m) <=> m \in Reliables) /\ x \in Seq(Messages)
  BY DEF Out, IsReliable, Reliables
<1>2. m \in Reliables => LifeOf(c, a, m) = "new"
  BY LifeLemma DEF Tells
<1>3. CASE m \notin Reliables
  <2>1. /\ Tells(c, x, back, server)
        /\ \A b \in Reliables : LifeOf(c, x, b) = LifeOf(c, a, b)
    BY <1>3, AskedUnreliable
  <2> HIDE DEF x
  <2>2. Goes(c, d, x, back, server, {})
    BY <1>3, <2>1, SubmitsGo
  <2>3. d \in Clients
    BY <2>2 DEF Goes
  <2>4. Keeps(c, d, back, server)
    BY <2>2, <2>3, KeepsLemma
  <2>5. Grows(c, a, d, x, m)
    BY <2>1, <2>2 DEF Goes, Lived, Grows
  <2>6. QED
    BY <2>2, <2>4, <2>5 DEF Goes, x
<1>4. CASE m \in Reliables /\ Replaces(c, d, m)
  <2>1. Tells(d, x, back, server) /\ Supplants(c, a, d, x, m)
    BY <1>1, <1>4, ReplacesTells
  <2> HIDE DEF x
  <2>2. Grows(c, a, d, x, m)
    BY <1>2, <1>4, <2>1 DEF Grows
  <2>3. d \in Clients /\ d.out = c.out /\ d.flush = c.flush /\ d.to_resend = c.to_resend
    BY <1>4 DEF Replaces
  <2>4. Keeps(c, d, back, server)
    BY <1>1, <2>3, KeepsLemma
  <2>5. QED
    BY <2>1, <2>2, <2>4 DEF x
<1>5. CASE m \in Reliables /\ Refuses(c, d, m)
  <2>1. /\ Tells(d, x, back, server)
        /\ Comes(c, a, d, x, m, "refused")
    BY <1>5, RefusesTells
  <2> HIDE DEF x
  <2>2. Grows(c, a, d, x, m)
    BY <1>2, <1>5, <2>1 DEF Enters, Ages, Comes, Grows
  <2>3. d \in Clients /\ d.out = c.out /\ d.flush = c.flush /\ d.to_resend = c.to_resend
    BY <1>5 DEF Refuses
  <2>4. Keeps(c, d, back, server)
    BY <1>1, <2>3, KeepsLemma
  <2>5. QED
    BY <2>1, <2>2, <2>4 DEF x
<1>6. ASSUME m \in Reliables, NEW e, Queues(c, e, m), Runs(e, d)
      PROVE  Tells(d, x, back, server) /\ Keeps(c, d, back, server) /\ Grows(c, a, d, x, m)
  <2>1. e \in Clients /\ e.out = c.out /\ e.flush = c.flush /\ e.to_resend = c.to_resend
    BY <1>6 DEF Queues
  <2>2. Out(e, s)
    BY <1>6, <2>1, QueuesOut
  <2>3. d \in Clients /\ Sound(e) /\ Sound(d)
    BY <1>6, <2>1, <2>2, RunsOut DEF Out, Runs
  <2>4. /\ Tells(e, x, back, server)
        /\ Comes(c, a, e, x, m, "waiting")
    BY <1>1, <1>6, QueuesTells
  <2> HIDE DEF x
  <2>5. Goes(e, d, x, back, server, {})
    BY <1>6, <2>1, <2>3, <2>4, RunsGo
  <2>6. Keeps(c, d, back, server)
    <3>1. Keeps(c, e, back, server)
      BY <1>1, <2>1, KeepsLemma
    <3>2. Keeps(e, d, back, server)
      BY <2>1, <2>3, <2>5, KeepsLemma
    <3>3. QED
      BY <2>1, <3>1, <3>2, KeepsLemma
  <2>7. \A b \in Reliables : Ages(LifeOf(e, x, b), LifeOf(d, x, b), b, {})
    BY <2>5 DEF Goes, Lived
  <2>8. LifeOf(d, x, m) \in {"waiting", "expired"}
    BY <1>6, <2>4, <2>7 DEF Ages, Comes
  <2>9. \A b \in Reliables : b # m => Ages(LifeOf(c, a, b), LifeOf(d, x, b), b, {})
    BY <2>4, <2>7 DEF Comes
  <2>10. Enters(c, a, d, x, m)
    BY <1>2, <1>6, <2>8, <2>9 DEF Enters
  <2>11. QED
    BY <2>5, <2>6, <2>10 DEF Goes, Grows
<1>7. QED
  BY <1>1, <1>3, <1>4, <1>5, <1>6 DEF Submits


-----------------------------------------------------------------------------
(***************************************************************************)
(* The promise is kept                                                     *)
(***************************************************************************)
LEMMA WiredTyped == Typed => Wired(to_server, srv)
<1>1. SUFFICES ASSUME Typed PROVE Wired(to_server, srv)
  OBVIOUS
<1>2. to_server \in Seq(Frames \cup Logins) /\ srv \in Servers
  BY <1>1 DEF Typed
<1>3. \A k \in 1..Len(to_server) : to_server[k] \in Frames \cup Logins
  BY <1>2
<1>4. \A f \in Frames \cup Logins : f.hdr \in Nat
  BY DEF Frames, Logins
<1>5. Len(to_server) \in Nat /\ srv.in \in Nat /\ srv.got \subseteq Nat
  BY <1>2 DEF Servers
<1>6. QED
  BY <1>3, <1>4, <1>5 DEF Wired

\* The client's messages are where they were; packets may have left the wire, and the
\* server may have received more.
StaysPut(c, d, back, server, later, after) ==
    /\ d.to_send = c.to_send /\ d.to_resend = c.to_resend /\ d.keymap = c.keymap
    /\ d.ticks = c.ticks /\ d.status = c.status
    /\ server.bodies \subseteq after.bodies
    /\ \A f \in Airs(d, later) : f \in Airs(c, back) \/ (f.hdr = 0 /\ f.body \notin Reliables)
    /\ 0 <= c.ticks
    /\ \A p \in after.got : p \in server.got \/ Landed(d, after, p)

LEMMA StaysTells ==
    ASSUME NEW c, NEW d, NEW a, NEW back, NEW server, NEW later, NEW after,
           Tells(c, a, back, server), StaysPut(c, d, back, server, later, after)
    PROVE  /\ Tells(d, a, later, after)
           /\ \A b \in Reliables : LifeOf(d, a, b) = LifeOf(c, a, b)
<1>1. \A p, b : Holding(d, p, b) <=> Holding(c, p, b)
  BY DEF Holding, StaysPut
<1>2. ASSUME NEW b \in Reliables
      PROVE  Account(d, a, after.bodies, b) /\ LifeOf(d, a, b) = LifeOf(c, a, b)
  <2>1. Account(c, a, server.bodies, b)
    BY DEF Tells, Accounted
  <2>2. Account(c, a, after.bodies, b)
    BY <2>1 DEF Account, StaysPut
  <2>3. \A p \in Nat \ {0} : Holding(d, p, b) <=> Holding(c, p, b)
    BY <1>1
  <2>4. QED
    BY <2>2, <2>3, SameLife DEF StaysPut
<1>3. ASSUME NEW f \in Airs(d, later) PROVE Flies(d, a, f)
  <2>1. CASE f \in Airs(c, back)
    <3>1. Flies(c, a, f)
      BY <2>1 DEF Tells
    <3>2. QED
      BY <1>1, <3>1 DEF Flies, Unkeyed, StaysPut
  <2>2. CASE f.hdr = 0 /\ f.body \notin Reliables
    BY <2>2 DEF Flies, StaysPut
  <2>3. QED
    BY <2>1, <2>2 DEF StaysPut
<1>4. ASSUME NEW p \in after.got PROVE Landed(d, after, p)
  <2>1. CASE p \in server.got
    <3>1. Landed(c, server, p)
      BY <2>1 DEF Tells
    <3>2. QED
      BY <1>1, <3>1 DEF Landed, Unkeyed, StaysPut
  <2>2. QED
    BY <2>1 DEF StaysPut
<1>5. Accounted(d, a, after.bodies) /\ Marked(d.to_send) /\ Marked(d.to_resend)
  BY <1>2 DEF Accounted, Tells, StaysPut
<1>6. QED
  BY <1>2, <1>3, <1>4, <1>5 DEF Tells

\* The packet that was being flushed is on the wire, at its end.
LEMMA FlushStreams ==
    ASSUME NEW c, NEW d, NEW f, c.flush = <<f>>, d.flush = << >>, d.out = c.out,
           d.to_resend = c.to_resend,
           NEW P, NEW back \in Seq(P), f \in P, NEW server, server.in \in Nat,
           Streams(c, back, server)
    PROVE  Streams(d, Append(back, f), server)
<1> DEFINE longer == Append(back, f)
<1>1. /\ Len(back) \in Nat /\ Len(longer) = Len(back) + 1 /\ longer[Len(back) + 1] = f
      /\ \A k \in 1..Len(back) : longer[k] = back[k]
      /\ \A k \in 1..Len(longer) : k \in 1..Len(back) \/ k = Len(back) + 1
  OBVIOUS
<1>2. Len(c.flush) = 1 /\ c.flush[1] = f /\ 1 \in 1..Len(c.flush) /\ Len(d.flush) = 0
  OBVIOUS
<1> HIDE DEF longer
<1>3. d.out = server.in + Len(longer) + Len(d.flush)
  <2>1. c.out = server.in + Len(back) + Len(c.flush)
    BY DEF Streams
  <2>2. \A m \in Nat : server.in + m + 1 = server.in + (m + 1) + 0
    OBVIOUS
  <2>3. c.out = server.in + (Len(back) + 1) + 0
    BY <1>1, <1>2, <2>1, <2>2, Zenon
  <2>4. QED
    BY <1>1, <1>2, <2>3, Zenon
<1>4. ASSUME NEW p, InStream(p, c, back, server) PROVE InStream(p, d, longer, server)
  <2>1. ASSUME NEW k \in 1..Len(longer), p.sid = server.in + k PROVE longer[k].body = p.body
    <3>1. CASE k \in 1..Len(back)
      BY <1>1, <1>4, <2>1, <3>1 DEF InStream
    <3>2. CASE k = Len(back) + 1
      <4>1. p.sid = server.in + Len(back) + 1
        <5>1. Len(back) \in Nat
          OBVIOUS
        <5>2. \A n \in Nat : server.in + (n + 1) = server.in + n + 1
          OBVIOUS
        <5>3. QED
          BY <2>1, <3>2, <5>1, <5>2
      <4>2. c.flush[1].body = p.body
        BY <1>2, <1>4, <4>1 DEF InStream
      <4>3. f.body = p.body
        BY <1>2, <4>2, Zenon
      <4>4. longer[k] = f
        BY <1>1, <3>2, Zenon
      <4>5. QED
        BY <4>3, <4>4, Zenon
    <3>3. QED
      BY <1>1, <3>1, <3>2
  <2>2. QED
    BY <1>2, <1>4, <2>1 DEF InStream
<1>5. QED
  BY <1>3, <1>4 DEF Streams, longer

\* The server has read the first packet on the wire.
LEMMA ReadStreams ==
    ASSUME NEW c, NEW P, NEW back \in Seq(P), back # << >>, NEW server, NEW after,
           server.in \in Nat, after.in = server.in + 1, server.bodies \subseteq after.bodies,
           NEW B, Head(back).body \in B => Head(back).body \in after.bodies,
           \A i \in 1..Len(c.to_resend) :
               c.to_resend[i].sid \in Nat /\ c.to_resend[i].body \in B,
           Len(c.flush) \in Nat, Streams(c, back, server)
    PROVE  Streams(c, Tail(back), after)
<1> DEFINE rest == Tail(back)
<1>1. /\ Len(back) \in Nat /\ Len(rest) = Len(back) - 1 /\ 1 \in 1..Len(back)
      /\ Head(back) = back[1]
      /\ \A k \in 1..Len(rest) : rest[k] = back[k + 1] /\ k + 1 \in 1..Len(back)
  OBVIOUS
<1> HIDE DEF rest
<1>2. c.out = after.in + Len(rest) + Len(c.flush)
  BY <1>1 DEF Streams
<1>3. ASSUME NEW i \in 1..Len(c.to_resend) PROVE InStream(c.to_resend[i], c, rest, after)
  <2> DEFINE p == c.to_resend[i]
  <2>1. InStream(p, c, back, server) /\ p.sid \in Nat /\ p.body \in B
    BY DEF Streams
  <2> HIDE DEF p
  <2>2. p.sid <= after.in => p.body \in after.bodies
    <3>1. CASE p.sid <= server.in
      BY <2>1, <3>1 DEF InStream
    <3>2. CASE p.sid = server.in + 1
      <4>1. back[1].body = p.body
        BY <1>1, <2>1, <3>2 DEF InStream
      <4>2. Head(back).body = p.body
        BY <1>1, <4>1, Zenon
      <4>3. QED
        BY <2>1, <4>2, Zenon
    <3>3. QED
      BY <2>1, <3>1, <3>2
  <2>3. ASSUME NEW k \in 1..Len(rest), p.sid = after.in + k PROVE rest[k].body = p.body
    <3>1. p.sid = server.in + (k + 1)
      BY <2>3
    <3>2. back[k + 1].body = p.body
      <4>1. k + 1 \in 1..Len(back)
        BY <1>1
      <4>2. \A j \in 1..Len(back) : p.sid = server.in + j => back[j].body = p.body
        BY <2>1 DEF InStream
      <4>3. QED
        BY <3>1, <4>1, <4>2, Zenon
    <3>3. QED
      BY <1>1, <3>2
  <2>4. ASSUME NEW k \in 1..Len(c.flush), p.sid = after.in + Len(rest) + k
        PROVE  c.flush[k].body = p.body
    <3>1. p.sid = server.in + Len(back) + k
      <4>1. Len(back) \in Nat /\ Len(rest) = Len(back) - 1 /\ k \in Nat
        BY <1>1
      <4>2. \A n \in Nat : server.in + 1 + (n - 1) + k = server.in + n + k
        BY <4>1, SMTT(40)
      <4>3. QED
        BY <2>4, <4>1, <4>2
    <3>2. QED
      BY <2>1, <3>1 DEF InStream
  <2>5. QED
    BY <2>2, <2>3, <2>4 DEF InStream, p
<1>4. QED
  BY <1>2, <1>3 DEF Streams, rest


\* What a step may mean for the lives of messages: they age, one more is sent, or one
\* arrives at the server.
Promises ==
    \/ /\ srv'.bodies = srv.bodies
       /\ \/ asked' = asked /\ Lived(mcs, mcs', asked, srv.bodies)
          \/ \E m : Grows(mcs, asked, mcs', asked', m)
    \/ /\ \A b \in Reliables : LifeOf(mcs', asked', b) = LifeOf(mcs, asked, b)
       /\ \E m : /\ srv'.bodies = srv.bodies \cup ({m} \cap Messages)
                 /\ m \in Reliables => LifeOf(mcs, asked, m) \notin {"new", "refused"}

LEMMA NoneSent ==
    ASSUME NEW c, NEW d, NEW a, NEW arr, Lived(c, d, a, {})
    PROVE  Lived(c, d, a, arr)
  BY DEF Lived, Ages

\* A step of the client alone; a packet goes out only on an open connection, which the
\* server has accepted.
LEMMA ClientAlone ==
    ASSUME Agree, Faithful, UNCHANGED <<to_server, to_client, srv>>,
           Tells(mcs', asked', to_server, srv), Keeps(mcs, mcs', to_server, srv),
           mcs'.conn = mcs.conn, Reachable(mcs) \/ mcs'.out = mcs.out
    PROVE  Faithful'
<1>1. Tells(mcs', asked', to_server', srv') /\ Honest(to_client', srv')
  BY DEF Faithful
<1>2. ASSUME mcs.conn # "down", srv.up
      PROVE  /\ Streams(mcs', to_server', srv')
             /\ \A k \in 1..Len(to_client') : to_client'[k].last <= srv'.in
  BY <1>2 DEF Faithful, Placed, Keeps
<1>3. ASSUME mcs.conn # "down", ~ srv.up PROVE mcs'.to_resend = << >>
  <2>1. mcs.conn = "handshake" /\ mcs.to_resend = << >>
    BY <1>3 DEF Agree, NewLink, Faithful, Placed
  <2>2. ~ Reachable(mcs)
    BY <2>1 DEF Reachable
  <2>3. QED
    BY <2>1, <2>2 DEF Keeps
<1>4. Placed(mcs', to_client', to_server', srv')
  BY <1>2, <1>3 DEF Placed
<1>5. QED
  BY <1>1, <1>4 DEF Faithful

\* A step of the client that does not touch its messages.
LEMMA ClientIdle ==
    ASSUME Typed, Out(mcs, db), Agree, Faithful,
           UNCHANGED <<asked, to_server, to_client, srv>>, mcs' \in Clients,
           mcs'.to_send = mcs.to_send, mcs'.to_resend = mcs.to_resend,
           mcs'.keymap = mcs.keymap, mcs'.ticks = mcs.ticks, mcs'.status = mcs.status,
           mcs'.flush = mcs.flush, mcs'.out = mcs.out, mcs'.conn = mcs.conn
    PROVE  Faithful' /\ Promises
<1>1. mcs \in Clients /\ Sound(mcs) /\ Wired(to_server, srv) /\ mcs.ticks <= mcs'.ticks
  <2>1. mcs \in Clients /\ mcs.ticks \in Nat
    BY DEF Typed, Clients
  <2>2. QED
    BY <2>1, WiredTyped DEF Out
<1>2. Tells(mcs, asked, to_server, srv)
  BY DEF Faithful
<1>3. Goes(mcs, mcs', asked, to_server, srv, {})
  BY <1>1, <1>2, StaysGo
<1>4. Keeps(mcs, mcs', to_server, srv)
  BY <1>1, <1>3, KeepsLemma
<1>5. Tells(mcs', asked', to_server, srv)
  BY <1>3 DEF Goes
<1>6. Faithful'
  BY <1>4, <1>5, ClientAlone
<1>7. Lived(mcs, mcs', asked, srv.bodies)
  BY <1>3, NoneSent DEF Goes
<1>8. QED
  BY <1>6, <1>7 DEF Promises

LEMMA AppSendFaithful ==
    ASSUME Typed, Out(mcs, db), Agree, Faithful, AppSend
    PROVE  Faithful' /\ Promises
<1>1. PICK m \in Messages, accepted \in BOOLEAN :
          /\ ~ IsAsked(asked, m) /\ asked' = Append(asked, m)
          /\ mcs' = SendMessage(mcs, m, accepted)
          /\ UNCHANGED <<to_server, to_client, srv>>
  BY DEF AppSend, IsAsked
<1>2. /\ mcs \in Clients /\ db \in Stores /\ asked \in Seq(Messages)
      /\ Wired(to_server, srv) /\ Tells(mcs, asked, to_server, srv)
  BY WiredTyped DEF Typed, Faithful
<1>3. m \in Messages \cup Control
  OBVIOUS
<1>4. Submits(mcs, mcs', m)
  BY <1>1, <1>2, <1>3, SendMessageExact
<1>5. /\ Tells(mcs', Append(asked, m), to_server, srv) /\ Keeps(mcs, mcs', to_server, srv)
      /\ Grows(mcs, asked, mcs', Append(asked, m), m)
  BY <1>1, <1>2, <1>4, SubmitsTells
<1>6. mcs'.conn = mcs.conn /\ (Reachable(mcs) \/ mcs'.out = mcs.out)
  BY AppSendEffect DEF Sent
<1>7. Faithful'
  BY <1>1, <1>5, <1>6, ClientAlone
<1>8. Promises
  BY <1>1, <1>5 DEF Promises
<1>9. QED
  BY <1>7, <1>8

LEMMA RunMaybeSendFaithful ==
    ASSUME Typed, Out(mcs, db), Agree, Faithful, RunMaybeSend
    PROVE  Faithful' /\ Promises
<1> DEFINE c == [mcs EXCEPT !.posted = mcs.posted - 1]
<1>1. /\ mcs' = MaybeSendMessage(c) /\ mcs.posted > 0
      /\ UNCHANGED <<asked, to_server, to_client, srv>>
  BY DEF RunMaybeSend, Client
<1>2. /\ mcs \in Clients /\ db \in Stores
      /\ Wired(to_server, srv) /\ Tells(mcs, asked, to_server, srv)
  BY WiredTyped DEF Typed, Faithful
<1>3. mcs.posted - 1 \in Nat
  BY <1>1, <1>2 DEF Clients
<1>4. /\ c \in Clients /\ Out(c, db)
      /\ c.to_send = mcs.to_send /\ c.to_resend = mcs.to_resend /\ c.keymap = mcs.keymap
      /\ c.ticks = mcs.ticks /\ c.status = mcs.status /\ c.flush = mcs.flush
      /\ c.out = mcs.out
  <2>1. Out(c, db)
    BY <1>2, SameOut
  <2>2. QED
    BY <1>2, <1>3, <2>1 DEF Clients
<1> HIDE DEF c
<1>5. Sound(mcs) /\ Sound(c) /\ mcs.ticks <= c.ticks
  <2>1. mcs.ticks \in Nat
    BY <1>2 DEF Clients
  <2>2. QED
    BY <1>4, <2>1 DEF Out
<1>6. Runs(c, mcs')
  BY <1>1, <1>4, MaybeSendExact
<1>7. mcs' \in Clients /\ Sound(mcs')
  BY <1>2, <1>4, <1>6, RunsOut DEF Out, Runs
<1>8. Goes(mcs, c, asked, to_server, srv, {})
  BY <1>2, <1>4, <1>5, StaysGo
<1>9. Goes(c, mcs', asked, to_server, srv, {})
  BY <1>2, <1>4, <1>5, <1>6, <1>7, <1>8, RunsGo DEF Goes
<1>10. Goes(mcs, mcs', asked, to_server, srv, {})
  BY <1>2, <1>8, <1>9, GoesOn
<1>11. Keeps(mcs, mcs', to_server, srv) /\ Tells(mcs', asked', to_server, srv)
  BY <1>1, <1>2, <1>7, <1>10, KeepsLemma DEF Goes
<1>12. mcs'.conn = mcs.conn /\ (Reachable(mcs) \/ mcs'.out = mcs.out)
  BY RunMaybeSendEffect DEF Sent
<1>13. Faithful'
  BY <1>1, <1>11, <1>12, ClientAlone
<1>14. Lived(mcs, mcs', asked, srv.bodies)
  BY <1>10, NoneSent DEF Goes
<1>15. QED
  BY <1>1, <1>13, <1>14 DEF Promises

LEMMA SendHeartbeatFaithful ==
    ASSUME Typed, Out(mcs, db), Agree, Faithful, SendHeartbeat
    PROVE  Faithful' /\ Promises
<1>1. /\ mcs' = SendMessage(mcs, "HeartbeatPing", TRUE)
      /\ UNCHANGED <<asked, to_server, to_client, srv>>
  BY DEF SendHeartbeat, SendControl
<1>2. /\ mcs \in Clients /\ db \in Stores
      /\ Wired(to_server, srv) /\ Tells(mcs, asked, to_server, srv)
  BY WiredTyped DEF Typed, Faithful
<1>3. "HeartbeatPing" \in Messages \cup Control /\ "HeartbeatPing" \notin Reliables
  BY ClientAssumption DEF Control, Reliables
<1>4. Submits(mcs, mcs', "HeartbeatPing")
  BY <1>1, <1>2, <1>3, SendMessageExact
<1>5. Goes(mcs, mcs', asked, to_server, srv, {})
  BY <1>2, <1>3, <1>4, SubmitsGo
<1>6. Keeps(mcs, mcs', to_server, srv) /\ Tells(mcs', asked', to_server, srv)
  <2>1. mcs' \in Clients
    BY <1>5 DEF Goes
  <2>2. QED
    BY <1>1, <1>2, <1>5, <2>1, KeepsLemma DEF Goes
<1>7. mcs'.conn = mcs.conn /\ (Reachable(mcs) \/ mcs'.out = mcs.out)
  BY SendHeartbeatEffect DEF Sent
<1>8. Faithful'
  BY <1>1, <1>6, <1>7, ClientAlone
<1>9. Lived(mcs, mcs', asked, srv.bodies)
  BY <1>5, NoneSent DEF Goes
<1>10. QED
  BY <1>1, <1>8, <1>9 DEF Promises


\* Steps that only touch what the client keeps beside its messages.
LEMMA IdleFaithful ==
    ASSUME Typed, Out(mcs, db), Agree, Faithful, Deliver \/ Expire \/ StoreStep
    PROVE  Faithful' /\ Promises
<1>1. mcs \in Clients
  BY DEF Typed
<1>2. CASE Deliver
  <2>1. /\ mcs' = [mcs EXCEPT !.deliver = Tail(mcs.deliver)]
        /\ UNCHANGED <<asked, to_server, to_client, srv>>
    BY <1>2 DEF Deliver
  <2>2. mcs' \in Clients
    BY <1>2, DeliverEffect DEF Ticked
  <2>3. /\ mcs'.to_send = mcs.to_send /\ mcs'.to_resend = mcs.to_resend
        /\ mcs'.keymap = mcs.keymap /\ mcs'.ticks = mcs.ticks /\ mcs'.status = mcs.status
        /\ mcs'.flush = mcs.flush /\ mcs'.out = mcs.out /\ mcs'.conn = mcs.conn
    BY <1>1, <2>1 DEF Clients
  <2>4. QED
    BY <2>1, <2>2, <2>3, ClientIdle
<1>3. CASE Expire
  <2>1. PICK m \in Messages \ ZeroTtl :
            /\ mcs' = [mcs EXCEPT !.expired = mcs.expired \cup {m}]
            /\ UNCHANGED <<asked, to_server, to_client, srv>>
    BY <1>3 DEF Expire, Client
  <2>2. mcs' \in Clients
    BY <1>3, ExpireEffect DEF Ticked
  <2>3. /\ mcs'.to_send = mcs.to_send /\ mcs'.to_resend = mcs.to_resend
        /\ mcs'.keymap = mcs.keymap /\ mcs'.ticks = mcs.ticks /\ mcs'.status = mcs.status
        /\ mcs'.flush = mcs.flush /\ mcs'.out = mcs.out /\ mcs'.conn = mcs.conn
    BY <1>1, <2>1 DEF Clients
  <2>4. QED
    BY <2>1, <2>2, <2>3, ClientIdle
<1>4. CASE StoreStep
  <2>1. /\ mcs' = [mcs EXCEPT !.storeq = Tail(mcs.storeq)]
        /\ UNCHANGED <<asked, to_server, to_client, srv>>
    BY <1>4 DEF StoreStep
  <2>2. mcs' \in Clients
    BY <1>4, StoreStepEffect
  <2>3. /\ mcs'.to_send = mcs.to_send /\ mcs'.to_resend = mcs.to_resend
        /\ mcs'.keymap = mcs.keymap /\ mcs'.ticks = mcs.ticks /\ mcs'.status = mcs.status
        /\ mcs'.flush = mcs.flush /\ mcs'.out = mcs.out /\ mcs'.conn = mcs.conn
    BY <1>1, <2>1 DEF Clients
  <2>4. QED
    BY <2>1, <2>2, <2>3, ClientIdle
<1>5. QED
  BY <1>2, <1>3, <1>4

LEMMA FlushDoneFaithful ==
    ASSUME Typed, Typed', Out(mcs, db), Agree, Faithful, FlushDone
    PROVE  Faithful' /\ Promises
<1> DEFINE c == [mcs EXCEPT !.flush = << >>]
<1>1. mcs' = MaybeSendMessage(c) /\ UNCHANGED <<asked, to_client, srv>>
  BY DEF FlushDone
<1>2. PICK f \in Frames : mcs.flush = <<f>> /\ to_server' = Append(to_server, f)
  BY FlushDoneEffect
<1>3. mcs'.conn = mcs.conn
  BY FlushDoneEffect DEF Sent
<1>4. /\ mcs \in Clients /\ db \in Stores /\ to_server \in Seq(Frames \cup Logins)
      /\ srv.in \in Nat /\ mcs.ticks \in Nat
      /\ Wired(to_server', srv) /\ Tells(mcs, asked, to_server, srv)
  <2>1. Wired(to_server', srv')
    <3>1. to_server' \in Seq(Frames \cup Logins) /\ srv' \in Servers
      BY DEF Typed
    <3>2. \A k \in 1..Len(to_server') : to_server'[k] \in Frames \cup Logins
      BY <3>1
    <3>3. \A e \in Frames \cup Logins : e.hdr \in Nat
      BY DEF Frames, Logins
    <3>4. Len(to_server') \in Nat /\ srv'.in \in Nat /\ srv'.got \subseteq Nat
      BY <3>1 DEF Servers
    <3>5. QED
      BY <3>2, <3>3, <3>4 DEF Wired
  <2>2. QED
    BY <1>1, <2>1 DEF Typed, Faithful, Clients, Servers
<1>5. /\ c \in Clients /\ Out(c, db)
      /\ c.to_send = mcs.to_send /\ c.to_resend = mcs.to_resend /\ c.keymap = mcs.keymap
      /\ c.ticks = mcs.ticks /\ c.status = mcs.status /\ c.flush = << >>
      /\ c.out = mcs.out
  <2>1. Out(c, db)
    BY <1>4, SameOut
  <2>2. QED
    BY <1>4, <2>1 DEF Clients
<1> HIDE DEF c
<1>6. \A e \in Airs(c, to_server') : e \in Airs(mcs, to_server)
  <2>1. Len(c.flush) = 0 /\ 1 \in 1..Len(mcs.flush) /\ mcs.flush[1] = f
    BY <1>2, <1>5
  <2>2. \A k \in 1..Len(to_server') :
            to_server'[k] = f \/ (k \in 1..Len(to_server) /\ to_server'[k] = to_server[k])
    BY <1>2, <1>4
  <2>3. QED
    BY <2>1, <2>2 DEF Airs
<1>7. /\ Tells(c, asked, to_server', srv)
      /\ \A b \in Reliables : LifeOf(c, asked, b) = LifeOf(mcs, asked, b)
  <2>1. 0 <= mcs.ticks
    BY <1>4
  <2>2. StaysPut(mcs, c, to_server, srv, to_server', srv)
    BY <1>5, <1>6, <2>1 DEF StaysPut
  <2>3. QED
    BY <1>4, <2>2, StaysTells, ZenonT(60)
<1>8. Runs(c, mcs')
  BY <1>1, <1>5, MaybeSendExact
<1>9. mcs' \in Clients /\ Sound(c) /\ Sound(mcs')
  BY <1>4, <1>5, <1>8, RunsOut DEF Out, Runs
<1>10. Goes(c, mcs', asked, to_server', srv, {})
  BY <1>4, <1>5, <1>7, <1>8, <1>9, RunsGo
<1>11. ASSUME mcs.conn # "down" PROVE srv.up /\ Streams(mcs', to_server', srv)
  <2>1. mcs.flush # << >>
    BY <1>2
  <2>2. srv.up /\ Streams(mcs, to_server, srv)
    BY <1>11, <2>1 DEF Agree, NewLink, Faithful, Placed
  <2>3. f \in Frames \cup Logins
    OBVIOUS
  <2>4. Streams(c, Append(to_server, f), srv)
    BY <1>2, <1>4, <1>5, <2>2, <2>3, FlushStreams
  <2>5. QED
    BY <1>2, <1>10, <2>2, <2>4 DEF Goes
<1>12. Placed(mcs', to_client', to_server', srv')
  BY <1>1, <1>3, <1>11 DEF Placed, Faithful
<1>13. Faithful'
  BY <1>1, <1>10, <1>12 DEF Faithful, Goes
<1>14. Lived(mcs, mcs', asked, srv.bodies)
  BY <1>7, <1>10 DEF Goes, Lived, Ages
<1>15. QED
  BY <1>1, <1>13, <1>14 DEF Promises

LEMMA DisconnectFaithful ==
    ASSUME Typed, Faithful, Disconnect
    PROVE  Faithful' /\ Promises
<1>1. /\ mcs' = [mcs EXCEPT !.conn = "down", !.flush = << >>]
      /\ UNCHANGED <<asked, to_server, srv>> /\ Len(to_client') = 0
  BY DEF Disconnect, SignalConnectionReset
<1>2. mcs \in Clients /\ mcs.ticks \in Nat /\ Tells(mcs, asked, to_server, srv)
  BY DEF Typed, Faithful, Clients
<1>3. /\ mcs'.to_send = mcs.to_send /\ mcs'.to_resend = mcs.to_resend
      /\ mcs'.keymap = mcs.keymap /\ mcs'.ticks = mcs.ticks /\ mcs'.status = mcs.status
      /\ mcs'.flush = << >> /\ mcs'.conn = "down"
  BY <1>1, <1>2 DEF Clients
<1>4. \A e \in Airs(mcs', to_server) : e \in Airs(mcs, to_server)
  BY <1>3 DEF Airs
<1>5. /\ Tells(mcs', asked, to_server, srv)
      /\ \A b \in Reliables : LifeOf(mcs', asked, b) = LifeOf(mcs, asked, b)
  <2>1. 0 <= mcs.ticks
    BY <1>2
  <2>2. StaysPut(mcs, mcs', to_server, srv, to_server, srv)
    BY <1>3, <1>4, <2>1 DEF StaysPut
  <2>3. QED
    BY <1>2, <2>2, StaysTells, ZenonT(60)
<1>6. Faithful'
  BY <1>1, <1>3, <1>5 DEF Faithful, Honest, Placed
<1>7. Lived(mcs, mcs', asked, srv.bodies)
  BY <1>5 DEF Lived, Ages
<1>8. QED
  BY <1>1, <1>6, <1>7 DEF Promises

LEMMA ReconnectFaithful ==
    ASSUME Typed, Out(mcs, db), Faithful, Reconnect
    PROVE  Faithful' /\ Promises
<1> DEFINE q == mcs.to_resend \o mcs.to_send
<1>1. /\ mcs' = StartOver(mcs, q) /\ asked' = asked /\ to_server' = <<LoginRequest(mcs)>>
      /\ Len(to_client') = 0 /\ srv' = [srv EXCEPT !.up = FALSE]
  BY DEF Reconnect, ResetStateAndBuildLoginRequest
<1>2. /\ mcs \in Clients /\ Sound(mcs) /\ srv \in Servers
      /\ Wired(to_server, srv) /\ Tells(mcs, asked, to_server, srv)
      /\ Marked(mcs.to_send) /\ Marked(mcs.to_resend)
  <2>1. mcs \in Clients /\ srv \in Servers /\ Tells(mcs, asked, to_server, srv)
    BY DEF Typed, Faithful
  <2>2. Sound(mcs)
    BY DEF Out
  <2>3. QED
    BY <2>1, <2>2, WiredTyped DEF Tells
<1>3. q \in Seq(Packets)
  <2>1. mcs.to_resend \in Seq(Packets) /\ mcs.to_send \in Seq(Packets)
    BY <1>2 DEF Clients
  <2>2. QED
    BY <2>1
<1>4. StartsOver(mcs, mcs', q)
  BY <1>1, <1>2, <1>3, StartOverExact
<1>5. PICK S : Moves(mcs, mcs', S, "TTL_EXCEEDED", {})
  BY <1>2, <1>4, StartsOverMoves
<1>6. mcs'.to_resend = << >> /\ mcs'.flush = << >> /\ mcs'.ticks \in Nat
  BY <1>4 DEF StartsOver, Clients
<1> HIDE DEF q
<1>7. Tells(mcs', asked, to_server, srv) /\ Lived(mcs, mcs', asked, {})
  <2>1. {} \subseteq srv.bodies
    OBVIOUS
  <2>2. QED
    BY <1>2, <1>5, <2>1, AirTypes, MovesTells
<1>8. srv'.up = FALSE /\ srv'.bodies = srv.bodies /\ srv'.got = srv.got
  BY <1>1, <1>2 DEF Servers
<1>9. \A f \in Airs(mcs', to_server') : f.hdr = 0 /\ f.body \notin Reliables
  <2>1. LoginRequest(mcs).hdr = 0 /\ LoginRequest(mcs).body = "Login"
    BY DEF LoginRequest
  <2>2. "Login" \notin Reliables
    BY ClientAssumption DEF Reliables
  <2>3. Len(mcs'.flush) = 0
    BY <1>6
  <2>4. \A k \in 1..Len(to_server') : to_server'[k] = LoginRequest(mcs)
    BY <1>1
  <2>5. QED
    BY <2>1, <2>2, <2>3, <2>4 DEF Airs
<1>10. Tells(mcs', asked, to_server', srv')
  <2>1. 0 <= mcs'.ticks
    BY <1>6
  <2>2. StaysPut(mcs', mcs', to_server, srv, to_server', srv')
    BY <1>8, <1>9, <2>1 DEF StaysPut
  <2>3. QED
    BY <1>7, <2>2, StaysTells, Zenon
<1>11. Faithful'
  BY <1>1, <1>6, <1>8, <1>10 DEF Faithful, Honest, Placed
<1>12. Lived(mcs, mcs', asked, srv.bodies)
  BY <1>7, NoneSent
<1>13. QED
  BY <1>1, <1>8, <1>11, <1>12 DEF Promises



\* The server reads a packet: what is left on the wire was on it.
LEMMA RestAirs ==
    ASSUME NEW c, NEW P, NEW back \in Seq(P), back # << >>
    PROVE  /\ \A f \in Airs(c, Tail(back)) : f \in Airs(c, back)
           /\ Head(back) \in Airs(c, back)
<1> DEFINE rest == Tail(back)
<1>1. /\ 1 \in 1..Len(back) /\ Head(back) = back[1]
      /\ \A k \in 1..Len(rest) : rest[k] = back[k + 1] /\ k + 1 \in 1..Len(back)
  OBVIOUS
<1> HIDE DEF rest
<1>2. \A f \in Airs(c, rest) : f \in Airs(c, back)
  BY <1>1 DEF Airs
<1>3. Head(back) \in Airs(c, back)
  BY <1>1 DEF Airs
<1>4. QED
  BY <1>2, <1>3 DEF rest

LEMMA ServerLoginFaithful ==
    ASSUME Typed, InSync, Agree, Faithful, ServerLogin
    PROVE  Faithful' /\ Promises
<1>1. /\ to_server # << >> /\ Head(to_server) \in Logins
      /\ to_server' = Tail(to_server) /\ UNCHANGED <<mcs, asked>>
  BY ServerLoginEffect
<1>2. PICK p \in FromServer :
          /\ to_client' = <<p>>
          /\ \/ p.tag = "LoginResponse" /\ p.last = 1 /\ srv'.up /\ srv'.in = 1
             \/ p.tag = "LoginError" /\ p.last = 0 /\ srv' = srv
  BY ServerLoginEffect
<1>3. /\ mcs \in Clients /\ mcs.ticks \in Nat /\ srv \in Servers
      /\ to_server \in Seq(Frames \cup Logins) /\ Tells(mcs, asked, to_server, srv)
  BY DEF Typed, Faithful, Clients
<1>4. srv'.bodies = srv.bodies /\ srv'.got = srv.got
  BY <1>3 DEF ServerLogin, Servers
<1>5. \A f \in Airs(mcs', to_server') : f \in Airs(mcs, to_server)
  BY <1>1, <1>3, RestAirs
<1>6. Tells(mcs', asked', to_server', srv')
  <2>1. 0 <= mcs.ticks
    BY <1>3
  <2>2. StaysPut(mcs, mcs', to_server, srv, to_server', srv')
    BY <1>1, <1>4, <1>5, <2>1 DEF StaysPut
  <2>3. Tells(mcs', asked, to_server', srv')
    BY <1>3, <2>2, StaysTells, Zenon
  <2>4. QED
    BY <1>1, <2>3
<1>7. Len(to_client') = 1 /\ \A k \in 1..Len(to_client') : to_client'[k] = p
  BY <1>2
<1>8. Honest(to_client', srv')
  BY <1>2, <1>7 DEF Honest
<1>9. /\ 1 \in 1..Len(to_server) /\ Head(to_server) = to_server[1]
      /\ Len(to_server) \in Nat /\ Len(to_server') = Len(to_server) - 1
  BY <1>1, <1>3
<1>10. ASSUME mcs.conn # "down"
       PROVE  ~ srv.up /\ NewLink(mcs, to_server) /\ mcs.to_resend = << >>
  <2>1. to_server[1].body = "Login"
    BY <1>1, <1>9 DEF Logins
  <2>2. ~ srv.up
    BY <1>9, <1>10, <2>1 DEF InSync, Linked, Link, LinkUp
  <2>3. QED
    BY <1>10, <2>2 DEF Agree, Faithful, Placed
<1>11. ASSUME mcs.conn # "down", srv'.up
       PROVE  /\ Streams(mcs, to_server', srv')
              /\ \A k \in 1..Len(to_client') : to_client'[k].last <= srv'.in
  <2>1. p.last = 1 /\ srv'.in = 1
    BY <1>2, <1>10, <1>11
  <2>2. mcs.out = 1 /\ Len(mcs.flush) = 0 /\ Len(to_server') = 0 /\ Len(mcs.to_resend) = 0
    BY <1>9, <1>10, <1>11 DEF NewLink
  <2>3. mcs.out = srv'.in + Len(to_server') + Len(mcs.flush)
    BY <2>1, <2>2
  <2>4. Streams(mcs, to_server', srv')
    BY <2>2, <2>3 DEF Streams
  <2>5. QED
    BY <1>7, <2>1, <2>4
<1>12. Placed(mcs', to_client', to_server', srv')
  BY <1>1, <1>10, <1>11 DEF Placed
<1>13. Faithful'
  BY <1>6, <1>8, <1>12 DEF Faithful
<1>14. Promises
  BY <1>1, <1>4 DEF Promises, Lived, Ages
<1>15. QED
  BY <1>13, <1>14

LEMMA ServerReceivesFaithful ==
    ASSUME Typed, Out(mcs, db), Faithful, ServerReceives
    PROVE  Faithful' /\ Promises
<1> DEFINE h == Head(to_server)
<1>1. /\ to_server # << >> /\ h \in Frames \cup Logins /\ srv.up /\ srv'.up
      /\ to_server' = Tail(to_server) /\ UNCHANGED <<mcs, to_client, asked>>
      /\ srv'.in = srv.in + 1
  BY ServerReceivesEffect
<1>2. /\ mcs \in Clients /\ mcs.ticks \in Nat /\ srv \in Servers /\ srv.in \in Nat
      /\ to_server \in Seq(Frames \cup Logins) /\ Tells(mcs, asked, to_server, srv)
      /\ Awaiting(mcs.to_resend, mcs.out)
  BY DEF Typed, Faithful, Clients, Servers, Out, Sound
<1>3. /\ srv'.got = srv.got \cup ({h.hdr} \ {0})
      /\ srv'.bodies = srv.bodies \cup ({h.body} \cap Messages)
  BY <1>2 DEF ServerReceives, Servers
<1>4. /\ \A f \in Airs(mcs, to_server') : f \in Airs(mcs, to_server)
      /\ h \in Airs(mcs, to_server)
  BY <1>1, <1>2, RestAirs
<1> HIDE DEF h
<1>5. Flies(mcs, asked, h)
  BY <1>2, <1>4 DEF Tells
<1>6. h.hdr # 0 => Landed(mcs, srv', h.hdr)
  <2>1. SUFFICES ASSUME h.hdr # 0, NEW b \in Reliables, Holding(mcs, h.hdr, b)
                 PROVE  b \in srv'.bodies
    BY <1>5 DEF Flies, Landed
  <2>2. h.body = b
    BY <1>5, <2>1 DEF Flies
  <2>3. QED
    BY <1>3, <2>2 DEF Reliables
<1>7. /\ Tells(mcs', asked', to_server', srv')
      /\ \A b \in Reliables : LifeOf(mcs', asked', b) = LifeOf(mcs, asked, b)
  <2>1. 0 <= mcs.ticks /\ srv.bodies \subseteq srv'.bodies
    BY <1>2, <1>3
  <2>2. \A p \in srv'.got : p \in srv.got \/ Landed(mcs, srv', p)
    BY <1>3, <1>6
  <2>3. StaysPut(mcs, mcs', to_server, srv, to_server', srv')
    BY <1>1, <1>4, <2>1, <2>2 DEF StaysPut
  <2>4. /\ Tells(mcs', asked, to_server', srv')
        /\ \A b \in Reliables : LifeOf(mcs', asked, b) = LifeOf(mcs, asked, b)
    BY <1>2, <2>3, StaysTells, ZenonT(60)
  <2>5. QED
    BY <1>1, <2>4
<1>8. Honest(to_client', srv')
  BY <1>1, <1>3 DEF Faithful, Honest
<1>9. ASSUME mcs.conn # "down"
      PROVE  /\ Streams(mcs, to_server', srv')
             /\ \A k \in 1..Len(to_client') : to_client'[k].last <= srv'.in
  <2>1. /\ Streams(mcs, to_server, srv)
        /\ \A k \in 1..Len(to_client) : to_client[k].last <= srv.in
    BY <1>1, <1>9 DEF Faithful, Placed
  <2>2. \A k \in 1..Len(to_client) : to_client[k].last \in Nat
    <3>1. to_client \in Seq(FromServer)
      BY DEF Typed
    <3>2. \A k \in 1..Len(to_client) : to_client[k] \in FromServer
      BY <3>1
    <3>3. QED
      BY <3>2 DEF FromServer
  <2>3. \A k \in 1..Len(to_client') : to_client'[k].last <= srv'.in
    BY <1>1, <1>2, <2>1, <2>2
  <2>4. /\ h.body \in Reliables => h.body \in srv'.bodies
        /\ srv.bodies \subseteq srv'.bodies
    BY <1>3 DEF Reliables
  <2>5. \A i \in 1..Len(mcs.to_resend) :
            mcs.to_resend[i].sid \in Nat /\ mcs.to_resend[i].body \in Reliables
    <3>1. mcs.to_resend \in Seq(Packets)
      BY <1>2 DEF Clients
    <3>2. \A i \in 1..Len(mcs.to_resend) : mcs.to_resend[i] \in Packets
      BY <3>1
    <3>3. QED
      BY <1>2, <3>2 DEF Awaiting, Packets
  <2>6. Len(mcs.flush) \in Nat
    BY <1>2, FlushLemma
  <2>7. Streams(mcs, Tail(to_server), srv')
    BY <1>1, <1>2, <2>1, <2>4, <2>5, <2>6, ReadStreams DEF h
  <2>8. QED
    BY <1>1, <2>3, <2>7
<1>10. Placed(mcs', to_client', to_server', srv')
  BY <1>1, <1>9 DEF Placed
<1>11. Faithful'
  BY <1>7, <1>8, <1>10 DEF Faithful
<1>12. h.body \in Reliables => LifeOf(mcs, asked, h.body) \notin {"new", "refused"}
  BY <1>5 DEF Flies, LifeOf
<1>13. Promises
  BY <1>3, <1>7, <1>12 DEF Promises
<1>14. QED
  BY <1>11, <1>13


\* What the server says of persistent ids is true.
LEMMA HonestSend ==
    ASSUME Typed,
           \/ ServerSendsData \/ ServerSendsStreamAck
           \/ ServerSendsSelectiveAck \/ ServerSendsControl
    PROVE  \E p : /\ ServerSends(p) /\ p \in FromServer /\ p.last = srv.in
                  /\ p.tag = "SelectiveAck" => p.ids \subseteq srv.got
<1>1. srv.got \in SUBSET Nat /\ 0 \notin ServerIds
  BY SystemAssumption DEF Typed, Servers
<1>2. ASSUME NEW tag \in Tags, NEW id \in ServerIds \cup {0}, tag = "Data" <=> id # 0,
             NEW imm \in BOOLEAN, NEW ids \in SUBSET Nat, ServerSends(Packet(tag, id, imm, ids)),
             tag = "SelectiveAck" => ids \subseteq srv.got
      PROVE  \E p : /\ ServerSends(p) /\ p \in FromServer /\ p.last = srv.in
                    /\ p.tag = "SelectiveAck" => p.ids \subseteq srv.got
  <2>1. /\ Packet(tag, id, imm, ids) \in FromServer /\ Packet(tag, id, imm, ids).tag = tag
        /\ Packet(tag, id, imm, ids).last = srv.in
    BY <1>2, PacketLemma
  <2>2. Packet(tag, id, imm, ids).ids = ids
    BY DEF Packet
  <2>3. QED
    BY <1>2, <2>1, <2>2
<1>3. CASE ServerSendsData
  <2>1. PICK id \in ServerIds, imm \in BOOLEAN : ServerSends(Packet("Data", id, imm, {}))
    BY <1>3 DEF ServerSendsData
  <2>2. /\ "Data" \in Tags /\ id # 0 /\ {} \in SUBSET Nat /\ id \in ServerIds \cup {0}
        /\ "Data" # "SelectiveAck"
    BY <1>1 DEF Tags
  <2>3. QED
    BY <1>2, <2>1, <2>2
<1>4. ASSUME NEW tag \in Tags, tag # "Data", NEW ids \in SUBSET Nat,
             ServerSends(Packet(tag, 0, FALSE, ids)),
             tag = "SelectiveAck" => ids \subseteq srv.got
      PROVE  \E p : /\ ServerSends(p) /\ p \in FromServer /\ p.last = srv.in
                    /\ p.tag = "SelectiveAck" => p.ids \subseteq srv.got
  <2> DEFINE id == 0
             imm == FALSE
  <2>1. id \in ServerIds \cup {0} /\ (tag = "Data" <=> id # 0) /\ imm \in BOOLEAN
    BY <1>4
  <2>2. ServerSends(Packet(tag, id, imm, ids))
    BY <1>4
  <2> HIDE DEF id, imm
  <2>3. QED
    BY <1>2, <1>4, <2>1, <2>2
<1>5. CASE ServerSendsStreamAck
  <2>1. ServerSends(Packet("StreamAck", 0, FALSE, {}))
    BY <1>5 DEF ServerSendsStreamAck
  <2>2. /\ "StreamAck" \in Tags /\ "StreamAck" \notin {"Data", "SelectiveAck"}
        /\ {} \in SUBSET Nat
    BY DEF Tags
  <2>3. QED
    BY <1>4, <2>1, <2>2
<1>6. CASE ServerSendsSelectiveAck
  <2>1. ServerSends(Packet("SelectiveAck", 0, FALSE, srv.got))
    BY <1>6 DEF ServerSendsSelectiveAck
  <2>2. "SelectiveAck" \in Tags /\ "SelectiveAck" # "Data" /\ srv.got \subseteq srv.got
    BY DEF Tags
  <2>3. QED
    BY <1>1, <1>4, <2>1, <2>2
<1>7. CASE ServerSendsControl
  <2>1. PICK tag \in {"HeartbeatPing", "IdleNotification", "Close"} :
            ServerSends(Packet(tag, 0, FALSE, {}))
    BY <1>7 DEF ServerSendsControl
  <2>2. tag \in Tags /\ tag \notin {"Data", "SelectiveAck"} /\ {} \in SUBSET Nat
    BY DEF Tags
  <2>3. QED
    BY <1>4, <2>1, <2>2
<1>8. QED
  BY <1>3, <1>5, <1>6, <1>7

LEMMA ServerSendsFaithful ==
    ASSUME Typed, Faithful,
           \/ ServerSendsData \/ ServerSendsStreamAck
           \/ ServerSendsSelectiveAck \/ ServerSendsControl
    PROVE  Faithful' /\ Promises
<1>1. PICK p : /\ ServerSends(p) /\ p \in FromServer /\ p.last = srv.in
               /\ p.tag = "SelectiveAck" => p.ids \subseteq srv.got
  BY HonestSend
<1>2. /\ srv.up /\ srv'.up /\ to_client' = Append(to_client, p) /\ srv'.in = srv.in
      /\ UNCHANGED <<mcs, to_server, asked>>
  BY <1>1, ServerSendsEffect
<1>3. /\ mcs \in Clients /\ mcs.ticks \in Nat /\ srv \in Servers /\ srv.in \in Nat
      /\ to_client \in Seq(FromServer) /\ Tells(mcs, asked, to_server, srv)
  BY DEF Typed, Faithful, Clients, Servers
<1>4. srv'.bodies = srv.bodies /\ srv'.got = srv.got
  BY <1>1, <1>3 DEF ServerSends, Servers
<1>5. \A k \in 1..Len(to_client') :
          to_client'[k] = p \/ (k \in 1..Len(to_client) /\ to_client'[k] = to_client[k])
  BY <1>2, <1>3
<1>6. Tells(mcs', asked', to_server', srv')
  <2>1. 0 <= mcs.ticks
    BY <1>3
  <2>2. StaysPut(mcs, mcs', to_server, srv, to_server', srv')
    BY <1>2, <1>4, <2>1 DEF StaysPut
  <2>3. Tells(mcs', asked, to_server', srv')
    BY <1>3, <2>2, StaysTells, Zenon
  <2>4. QED
    BY <1>2, <2>3
<1>7. Honest(to_client', srv')
  BY <1>1, <1>4, <1>5 DEF Faithful, Honest
<1>8. Placed(mcs', to_client', to_server', srv')
  <2>1. ASSUME mcs.conn # "down"
        PROVE  /\ Streams(mcs, to_server, srv')
               /\ \A k \in 1..Len(to_client') : to_client'[k].last <= srv'.in
    <3>1. /\ Streams(mcs, to_server, srv)
          /\ \A k \in 1..Len(to_client) : to_client[k].last <= srv.in
      BY <1>2, <2>1 DEF Faithful, Placed
    <3>2. Streams(mcs, to_server, srv')
      BY <1>2, <1>4, <3>1 DEF Streams, InStream
    <3>3. p.last <= srv.in
      BY <1>1, <1>3
    <3>4. QED
      BY <1>2, <1>5, <3>1, <3>2, <3>3
  <2>2. QED
    BY <1>2, <2>1 DEF Placed
<1>9. Faithful'
  BY <1>6, <1>7, <1>8 DEF Faithful
<1>10. Promises
  BY <1>2, <1>4 DEF Promises, Lived, Ages
<1>11. QED
  BY <1>9, <1>10

LEMMA ReceiveFaithful ==
    ASSUME Typed, InSync, Agree, Out(mcs, db), Faithful, Receive
    PROVE  Faithful' /\ Promises
<1> DEFINE packet == Head(to_client)
           c == IF packet.tag \in {"LoginResponse", "LoginError"}
                THEN [mcs EXCEPT !.conn = "open"] ELSE mcs
<1>1. /\ mcs.conn # "down" /\ to_client # << >> /\ to_client \in Seq(FromServer)
      /\ mcs' = HandlePacketFromWire(c, packet)
      /\ to_client' = IF mcs'.conn = "down" THEN << >> ELSE Tail(to_client)
      /\ UNCHANGED <<asked, to_server, srv>>
  BY DEF Receive, Typed
<1>2. /\ mcs \in Clients /\ mcs.ticks \in Nat /\ db \in Stores
      /\ Wired(to_server, srv) /\ Tells(mcs, asked, to_server, srv)
  BY WiredTyped DEF Typed, Faithful, Clients
<1>3. /\ packet \in FromServer /\ packet = to_client[1] /\ 1 \in 1..Len(to_client)
      /\ \A k \in 1..Len(Tail(to_client)) :
             Tail(to_client)[k] = to_client[k + 1] /\ k + 1 \in 1..Len(to_client)
  BY <1>1
<1>4. /\ c \in Clients /\ Out(c, db)
      /\ c.to_send = mcs.to_send /\ c.to_resend = mcs.to_resend /\ c.keymap = mcs.keymap
      /\ c.ticks = mcs.ticks /\ c.status = mcs.status /\ c.flush = mcs.flush
      /\ c.out = mcs.out
  <2>1. [mcs EXCEPT !.conn = "open"] \in Clients /\ Out([mcs EXCEPT !.conn = "open"], db)
    BY <1>2, SameOut DEF Clients
  <2>2. QED
    BY <1>2, <2>1, ZenonT(60) DEF Clients
<1> HIDE DEF packet, c
<1>5. /\ Tells(c, asked, to_server, srv)
      /\ \A b \in Reliables : LifeOf(c, asked, b) = LifeOf(mcs, asked, b)
  <2>1. 0 <= mcs.ticks
    BY <1>2
  <2>2. Airs(c, to_server) = Airs(mcs, to_server)
    BY <1>4 DEF Airs
  <2>3. StaysPut(mcs, c, to_server, srv, to_server, srv)
    BY <1>4, <2>1, <2>2 DEF StaysPut
  <2>4. QED
    BY <1>2, <2>3, StaysTells, ZenonT(60)
<1>6. Handles(c, packet, mcs')
  BY <1>1, <1>3, <1>4, HandlePacketExact
<1>7. \A i \in 1..Len(c.to_resend) :
          c.to_resend[i].sid <= packet.last => c.to_resend[i].body \in srv.bodies
  <2>1. CASE srv.up
    <3>1. Streams(mcs, to_server, srv) /\ packet.last <= srv.in
      BY <1>1, <1>3, <2>1 DEF Faithful, Placed
    <3>2. \A i \in 1..Len(mcs.to_resend) : mcs.to_resend[i].sid \in Nat
      <4>1. mcs.to_resend \in Seq(Packets)
        BY <1>2 DEF Clients
      <4>2. \A i \in 1..Len(mcs.to_resend) : mcs.to_resend[i] \in Packets
        BY <4>1
      <4>3. QED
        BY <4>2 DEF Packets
    <3>3. packet.last \in Nat /\ srv.in \in Nat
      BY <1>2, <1>3 DEF FromServer, Wired
    <3>4. \A i \in 1..Len(mcs.to_resend) :
              mcs.to_resend[i].sid <= packet.last => mcs.to_resend[i].sid <= srv.in
      BY <3>1, <3>2, <3>3
    <3>5. \A i \in 1..Len(mcs.to_resend) :
              mcs.to_resend[i].sid <= packet.last => mcs.to_resend[i].body \in srv.bodies
      BY <3>1, <3>4 DEF Streams, InStream
    <3>6. QED
      BY <1>4, <3>5
  <2>2. CASE ~ srv.up
    <3>1. mcs.to_resend = << >>
      BY <1>1, <2>2 DEF Faithful, Placed
    <3>2. Len(c.to_resend) = 0
      BY <1>4, <3>1
    <3>3. QED
      BY <3>2
  <2>3. QED
    BY <2>1, <2>2
<1>8. packet.tag = "SelectiveAck" => packet.ids \subseteq srv.got
  BY <1>3 DEF Faithful, Honest
<1>9. /\ Tells(mcs', asked, to_server, srv) /\ Lived(c, mcs', asked, srv.bodies)
      /\ mcs'.conn = "down" \/ Goes(c, mcs', asked, to_server, srv, srv.bodies)
  BY <1>2, <1>3, <1>4, <1>5, <1>6, <1>7, <1>8, HandlesGo
<1>10. Honest(to_client', srv')
  <2>1. CASE mcs'.conn = "down"
    <3>1. Len(to_client') = 0
      BY <1>1, <2>1
    <3>2. QED
      BY <3>1 DEF Honest
  <2>2. CASE mcs'.conn # "down"
    BY <1>1, <1>3, <2>2 DEF Faithful, Honest
  <2>3. QED
    BY <2>1, <2>2
<1>11. ~ srv.up => mcs'.conn = "down"
  <2>1. \E x, y, d, e, g : Follows(x, y, d, e, g)
    BY ReceiveEffect DEF Follows
  <2>2. QED
    BY <1>1, <2>1, ReceiveAgree
<1>12. ASSUME mcs'.conn # "down"
       PROVE  /\ srv.up /\ Streams(mcs', to_server, srv)
              /\ \A k \in 1..Len(to_client') : to_client'[k].last <= srv.in
  <2>1. /\ srv.up /\ Streams(mcs, to_server, srv)
        /\ \A k \in 1..Len(to_client) : to_client[k].last <= srv.in
    BY <1>1, <1>11, <1>12 DEF Faithful, Placed
  <2>2. Streams(c, to_server, srv)
    BY <1>4, <2>1 DEF Streams, InStream
  <2>3. Streams(mcs', to_server, srv)
    BY <1>9, <1>12, <2>2 DEF Goes
  <2>4. \A k \in 1..Len(to_client') : to_client'[k].last <= srv.in
    BY <1>1, <1>3, <1>12, <2>1
  <2>5. QED
    BY <2>1, <2>3, <2>4
<1>13. Placed(mcs', to_client', to_server', srv')
  BY <1>1, <1>12 DEF Placed
<1>14. Faithful'
  BY <1>1, <1>9, <1>10, <1>13 DEF Faithful
<1>15. Lived(mcs, mcs', asked, srv.bodies)
  BY <1>5, <1>9 DEF Lived, Ages
<1>16. QED
  BY <1>1, <1>14, <1>15 DEF Promises

LEMMA FaithfulInit == Init => Faithful
<1> DEFINE st == [m \in Messages |-> {}]
<1>1. SUFFICES ASSUME Init PROVE Faithful
  OBVIOUS
<1>2. mcs.conn = "down" /\ Len(mcs.flush) = 0
  BY <1>1, TypedInit DEF Started
<1>3. /\ Len(asked) = 0 /\ Len(to_server) = 0 /\ Len(to_client) = 0 /\ srv.got = {}
      /\ srv.bodies = {} /\ mcs = Initialize(EmptyStore, BaseTicks, {}, st)
  BY <1>1 DEF Init
<1>4. EmptyStore \in Stores /\ EmptyStore.out = {} /\ IsFiniteSet({})
  BY FS_EmptySet DEF EmptyStore, Stores
<1>5. BaseTicks \in Nat /\ {} \in SUBSET Messages /\ st \in [Messages -> SUBSET Statuses]
  BY SystemAssumption
<1>6. /\ \A b \in Messages : mcs.status[b] = {}
      /\ mcs.to_send = InOrderOfPid({}) /\ mcs.to_resend = << >>
  <2> HIDE DEF st
  <2>1. Starts(EmptyStore, mcs, BaseTicks, {}, st)
    BY <1>3, <1>4, <1>5, InitializeExact
  <2>2. Unexpired(EmptyStore, {}) = {}
    BY <1>4 DEF Unexpired
  <2>3. mcs.status = Reported(st, {}, "TTL_EXCEEDED")
    BY <1>4, <2>1, <2>2 DEF Starts
  <2>4. \A b \in Messages : mcs.status[b] = {}
    BY <2>3 DEF Reported, st
  <2>5. QED
    BY <2>1, <2>2, <2>4 DEF Starts
<1>7. /\ \A p, b : ~ Holding(mcs, p, b)
      /\ Marked(mcs.to_send) /\ Marked(mcs.to_resend)
  <2> DEFINE q == InOrderOfPid({})
  <2>1. \A p, b : ~ Has(q, p, b)
    <3>1. {} \in SUBSET Entries /\ \A e, f \in {} : e.pid = f.pid => e = f
      OBVIOUS
    <3>2. \A p, b : Has(q, p, b) <=> \E e \in {} : e.pid = p /\ e.body = b
      BY <1>4, <3>1, RestoredQueue
    <3>3. QED
      BY <3>2
  <2> HIDE DEF q
  <2>2. \A i \in 1..Len(q) : FALSE
    BY <2>1 DEF Has
  <2>3. mcs.to_send = q /\ Len(mcs.to_resend) = 0
    BY <1>6 DEF q
  <2>4. QED
    BY <2>1, <2>2, <2>3 DEF Holding, Has, Marked
<1>8. Accounted(mcs, asked, srv.bodies)
  <2>1. SUFFICES ASSUME NEW b \in Reliables PROVE Account(mcs, asked, srv.bodies, b)
    BY DEF Accounted
  <2>2. mcs.status[b] = {} /\ ~ HoldsBody(mcs, b)
    BY <1>6, <1>7 DEF Reliables, HoldsBody
  <2>3. ~ IsAsked(asked, b)
    BY <1>3 DEF IsAsked
  <2>4. ~ (Ends \subseteq {})
    BY DEF Ends
  <2>5. QED
    BY <1>7, <2>2, <2>3, <2>4 DEF Account
<1>9. Airs(mcs, to_server) = {}
  BY <1>2, <1>3 DEF Airs
<1>10. Tells(mcs, asked, to_server, srv)
  BY <1>3, <1>7, <1>8, <1>9 DEF Tells
<1>11. QED
  BY <1>2, <1>3, <1>10 DEF Faithful, Honest, Placed

LEMMA FaithfulNext ==
    ASSUME MaxRestarts = 0, Typed, InSync, Agree, Out(mcs, db), Faithful, [Next]_vars
    PROVE  Faithful' /\ Promises
<1>1. Typed'
  BY TypedNext
<1>2. CASE UNCHANGED vars
  <2>1. UNCHANGED <<mcs, asked, srv, to_server, to_client>>
    BY <1>2 DEF vars
  <2>2. Faithful'
    BY <2>1 DEF Faithful
  <2>3. Promises
    BY <2>1 DEF Promises, Lived, Ages
  <2>4. QED
    BY <2>2, <2>3
<1>3. CASE Restart
  <2>1. used.restarts < MaxRestarts /\ used.restarts \in Nat
    BY <1>3 DEF Restart, Typed, Uses
  <2>2. QED
    BY <2>1
<1>4. CASE \/ AppSend \/ RunMaybeSend \/ Deliver \/ FlushDone \/ SendHeartbeat \/ Expire
  BY <1>1, <1>4, AppSendFaithful, RunMaybeSendFaithful, IdleFaithful, FlushDoneFaithful,
     SendHeartbeatFaithful
<1>5. CASE \/ Disconnect \/ Reconnect \/ Receive \/ StoreStep
  BY <1>5, DisconnectFaithful, ReconnectFaithful, ReceiveFaithful, IdleFaithful
<1>6. CASE \/ ServerLogin \/ ServerReceives
  BY <1>6, ServerLoginFaithful, ServerReceivesFaithful
<1>7. CASE \/ ServerSendsData \/ ServerSendsStreamAck
           \/ ServerSendsSelectiveAck \/ ServerSendsControl
  BY <1>7, ServerSendsFaithful
<1>8. QED
  BY <1>2, <1>3, <1>4, <1>5, <1>6, <1>7 DEF Next

-----------------------------------------------------------------------------
(***************************************************************************)
(* The client implements ReliableQueue, while the process lives            *)
(***************************************************************************)

\* A reliable message is in one of the queues under a persistent id.
LEMMA QueuedBodies ==
    ASSUME NEW c \in Clients, NEW m \in Reliables
    PROVE  m \in Bodies(c.to_resend \o c.to_send) <=> HoldsBody(c, m)
<1> DEFINE x == c.to_resend
           y == c.to_send
           q == x \o y
<1>1. x \in Seq(Packets) /\ y \in Seq(Packets)
  BY DEF Clients
<1> HIDE DEF x, y
<1>2. /\ \A i \in 1..Len(x) : i \in 1..Len(q) /\ q[i] = x[i]
      /\ \A i \in 1..Len(y) : Len(x) + i \in 1..Len(q) /\ q[Len(x) + i] = y[i]
      /\ \A i \in 1..Len(q) : \/ i \in 1..Len(x) /\ q[i] = x[i]
                              \/ i - Len(x) \in 1..Len(y) /\ q[i] = y[i - Len(x)]
  BY <1>1, JoinIndex
<1>3. /\ \A i \in 1..Len(x) : x[i] \in Packets
      /\ \A i \in 1..Len(y) : y[i] \in Packets
  BY <1>1
<1> HIDE DEF q
<1>4. ASSUME m \in Bodies(q) PROVE HoldsBody(c, m)
  <2>1. PICK i \in 1..Len(q) : q[i].body = m
    BY <1>4 DEF Bodies
  <2>2. q[i] \in Packets
    BY <1>2, <1>3
  <2>3. q[i].pid \in Nat \ {0}
    BY <2>1, <2>2 DEF Packets
  <2>4. Has(x, q[i].pid, m) \/ Has(y, q[i].pid, m)
    BY <1>2, <2>1 DEF Has
  <2>5. QED
    BY <2>3, <2>4 DEF HoldsBody, Holding, x, y
<1>5. ASSUME HoldsBody(c, m) PROVE m \in Bodies(q)
  <2>1. PICK p : Has(x, p, m) \/ Has(y, p, m)
    BY <1>5 DEF HoldsBody, Holding, x, y
  <2>2. CASE Has(x, p, m)
    BY <1>2, <2>2 DEF Has, Bodies
  <2>3. CASE Has(y, p, m)
    BY <1>2, <2>3 DEF Has, Bodies
  <2>4. QED
    BY <2>1, <2>2, <2>3
<1>6. QED
  BY <1>4, <1>5 DEF q, x, y

\* The lives the refinement mapping gives are those told of.
LEMMA LifeIs ==
    /\ Typed => \A m \in Reliables : Life(m) = LifeOf(mcs, asked, m)
    /\ Typed' => \A m \in Reliables : Life(m)' = LifeOf(mcs', asked', m)
<1>1. ASSUME Typed, NEW m \in Reliables PROVE Life(m) = LifeOf(mcs, asked, m)
  <2>1. m \in Bodies(Queue) <=> HoldsBody(mcs, m)
    BY <1>1, QueuedBodies DEF Typed, Queue
  <2>2. (\A i \in 1..Len(asked) : asked[i] # m) <=> ~ IsAsked(asked, m)
    BY DEF IsAsked
  <2>3. (\E n \in Messages : Supersedes(n, m)) <=> Superseded(asked, m)
    BY DEF Supersedes, Superseded
  <2>4. QED
    BY <2>1, <2>2, <2>3, Zenon DEF Life, LifeOf, Ends
<1>2. ASSUME Typed', NEW m \in Reliables PROVE Life(m)' = LifeOf(mcs', asked', m)
  <2>1. m \in Bodies(Queue') <=> HoldsBody(mcs', m)
    BY <1>2, QueuedBodies DEF Typed, Queue
  <2>2. (\A i \in 1..Len(asked') : asked'[i] # m) <=> ~ IsAsked(asked', m)
    BY DEF IsAsked
  <2>3. (\E n \in Messages : Supersedes(n, m)') <=> Superseded(asked', m)
    BY DEF Supersedes, Superseded
  <2>4. QED
    BY <2>1, <2>2, <2>3, Zenon DEF Life, LifeOf, Ends
<1>3. QED
  BY <1>1, <1>2

LEMMA PromiseInit == Init => Promised!Init
<1>1. SUFFICES ASSUME Init PROVE Promised!Init
  OBVIOUS
<1>2. /\ \A m \in Messages : Life(m) = "new"
      /\ srv.bodies = {}
  <2>1. Len(asked) = 0 /\ srv.bodies = {}
    BY <1>1 DEF Init
  <2>2. QED
    BY <2>1 DEF Life
<1>3. QED
  BY <1>2 DEF Promised!Init

\* Each step of the client and the server is a step of the promise.
LEMMA PromiseNext ==
    ASSUME Typed, Typed', Faithful, Faithful', Promises
    PROVE  [Promised!Next]_(Promised!vars)
<1> DEFINE L == [m \in Messages \ ZeroTtl |-> Life(m)]
           K == [m \in Messages \ ZeroTtl |-> Life(m)']
           A == srv.bodies \ ZeroTtl
           B == srv'.bodies \ ZeroTtl
           x(m) == LifeOf(mcs, asked, m)
           y(m) == LifeOf(mcs', asked', m)
<1>1. /\ \A m \in Reliables : L[m] = x(m) /\ K[m] = y(m)
      /\ L = [m \in Reliables |-> L[m]] /\ K = [m \in Reliables |-> K[m]]
  BY LifeIs DEF Reliables
<1>2. /\ \A m \in Reliables : y(m) \in Promised!Lives
      /\ K \in [Reliables -> Promised!Lives]
  <2>1. Accounted(mcs', asked', srv'.bodies)
    BY DEF Faithful, Tells
  <2>2. \A m \in Reliables : y(m) \in Promised!Lives
    BY <2>1, LifeLemma DEF Promised!Lives
  <2>3. QED
    BY <1>1, <2>2
<1> HIDE DEF L, K, x, y
<1>3. ASSUME \A m \in Reliables : Ages(x(m), y(m), m, A), B = A
      PROVE  Promised!Resolve
  <2>1. \A m \in Reliables : \/ K[m] = L[m]
                             \/ L[m] = "waiting" /\ K[m] = "sent" /\ m \in A
                             \/ L[m] = "waiting" /\ K[m] = "expired"
    BY <1>1, <1>3 DEF Ages
  <2>2. QED
    BY <1>2, <1>3, <2>1 DEF Promised!Resolve, Promised!Resolved, Reliables, L, K
<1>4. ASSUME srv'.bodies = srv.bodies, Lived(mcs, mcs', asked, srv.bodies), asked' = asked
      PROVE  Promised!Resolve
  <2>1. \A m \in Reliables : Ages(x(m), y(m), m, A)
    BY <1>4 DEF Lived, Ages, Reliables, x, y, A
  <2>2. QED
    BY <1>3, <1>4, <2>1
<1>5. ASSUME srv'.bodies = srv.bodies, NEW m, Grows(mcs, asked, mcs', asked', m)
      PROVE  Promised!Next
  <2>1. CASE Enters(mcs, asked, mcs', asked', m)
    <3>1. /\ m \in Reliables /\ x(m) = "new" /\ y(m) \in {"refused", "waiting", "expired"}
          /\ \A b \in Reliables : b # m => Ages(x(b), y(b), b, {})
      BY <2>1 DEF Enters, x, y
    <3>2. L[m] = "new" /\ K[m] \in {"refused", "waiting", "expired"}
      BY <1>1, <3>1
    <3>3. \A b \in Reliables : LET gone == [K EXCEPT ![m] = "new"]
                               IN  \/ gone[b] = L[b]
                                   \/ L[b] = "waiting" /\ gone[b] = "sent" /\ b \in A
                                   \/ L[b] = "waiting" /\ gone[b] = "expired"
      BY <1>1, <3>1, <3>2 DEF Ages
    <3>4. Promised!Send(m)
      BY <1>2, <1>5, <3>2, <3>3 DEF Promised!Send, Promised!Resolved, Reliables, L, K
    <3>5. QED
      BY <3>1, <3>4 DEF Promised!Next, Reliables
  <2>2. CASE m \in Reliables /\ LifeOf(mcs, asked, m) = "new" /\ Supplants(mcs, asked, mcs', asked', m)
    <3>1. PICK old \in Reliables :
              /\ old # m /\ Key(m) = Key(old) /\ Key(m) # NoKey
              /\ x(old) = "waiting" /\ y(old) = "replaced"
              /\ \A b \in Reliables : b # m /\ b # old => y(b) = x(b)
      BY <2>2 DEF Supplants, x, y
    <3>2. x(m) = "new" /\ y(m) = "waiting"
      BY <2>2 DEF Supplants, x, y
    <3>3. /\ L[m] = "new" /\ L[old] = "waiting"
          /\ K[m] = "waiting" /\ K[old] = "replaced"
          /\ \A b \in Reliables : b # m /\ b # old => K[b] = L[b]
      BY <1>1, <2>2, <3>1, <3>2
    <3>4. K = [L EXCEPT ![m] = "waiting", ![old] = "replaced"]
      <4> DEFINE M == [L EXCEPT ![m] = "waiting", ![old] = "replaced"]
      <4>1. DOMAIN L = Reliables /\ M = [b \in Reliables |-> M[b]]
        BY <1>1
      <4>2. \A b \in Reliables : M[b] = K[b]
        BY <2>2, <3>1, <3>3, <4>1
      <4> HIDE DEF M
      <4>3. QED
        BY <1>1, <4>1, <4>2 DEF M
    <3>5. SharesKey(m, old)
      BY <3>1 DEF SharesKey
    <3>6. Promised!Replace(m, old)
      BY <1>5, <3>3, <3>4, <3>5 DEF Promised!Replace, L, K
    <3>7. QED
      BY <2>2, <3>6 DEF Promised!Next, Reliables
  <2>3. CASE \A b \in Reliables : Ages(LifeOf(mcs, asked, b), LifeOf(mcs', asked', b), b, {})
    <3>1. \A b \in Reliables : Ages(x(b), y(b), b, A)
      BY <2>3 DEF Ages, x, y
    <3>2. QED
      BY <1>3, <1>5, <3>1 DEF Promised!Next, A, B
  <2>4. QED
    BY <1>5, <2>1, <2>2, <2>3 DEF Grows
<1>6. ASSUME \A b \in Reliables : LifeOf(mcs', asked', b) = LifeOf(mcs, asked, b), NEW m,
             srv'.bodies = srv.bodies \cup ({m} \cap Messages),
             m \in Reliables => LifeOf(mcs, asked, m) \notin {"new", "refused"}
      PROVE  [Promised!Next]_(Promised!vars)
  <2>1. K = L
    <3>1. \A b \in Reliables : K[b] = L[b]
      BY <1>1, <1>6 DEF x, y
    <3>2. QED
      BY <1>1, <3>1
  <2>2. CASE m \in Reliables
    <3>1. B = A \cup {m} /\ L[m] \notin {"new", "refused"}
      BY <1>1, <1>6, <2>2 DEF Reliables, A, B, x
    <3>2. Promised!Arrive(m)
      BY <2>1, <3>1 DEF Promised!Arrive, L, K
    <3>3. QED
      BY <2>2, <3>2 DEF Promised!Next, Reliables
  <2>3. CASE m \notin Reliables
    <3>1. B = A
      BY <1>6, <2>3 DEF Reliables, A, B
    <3>2. QED
      BY <2>1, <3>1 DEF Promised!vars, L, K
  <2>4. QED
    BY <2>2, <2>3
<1>7. QED
  BY <1>4, <1>5, <1>6 DEF Promises, Promised!Next

\* While the process lives, every reliable message is refused at once, or waits
\* until the server has it and it is reported sent, until its TTL is over, or until
\* a later message with its collapse key takes its place: no order of flushes,
\* breaks, acknowledgements, collapses and resends in SendMessage, SendPacketToWire,
\* HandleStreamAck, HandleSelectiveAck and ResetStateAndBuildLoginRequest makes one
\* vanish, end twice, or be reported sent before it has arrived.
THEOREM PromiseKept ==
    ASSUME MaxRestarts = 0
    PROVE  Spec => ImplementsReliableQueue
<1> DEFINE I == Typed /\ InSync /\ Agree /\ Out(mcs, db) /\ Faithful
<1>1. Init => I /\ Promised!Init
  BY TypedInit, InSyncInit, AgreeInit, OutInit, FaithfulInit, PromiseInit
<1>2. I /\ [Next]_vars => I' /\ [Promised!Next]_(Promised!vars)
  <2>1. SUFFICES ASSUME I, [Next]_vars PROVE I' /\ [Promised!Next]_(Promised!vars)
    OBVIOUS
  <2>2. Typed' /\ InSync' /\ Agree' /\ Out(mcs', db')
    BY <2>1, TypedNext, InSyncNext, AgreeNext, OutNext
  <2>3. Faithful' /\ Promises
    BY <2>1, FaithfulNext
  <2>4. QED
    BY <2>1, <2>2, <2>3, PromiseNext
<1> HIDE DEF I
<1>3. QED
  BY <1>1, <1>2, PTL DEF Spec, ImplementsReliableQueue, Promised!Spec


-----------------------------------------------------------------------------
(***************************************************************************)
(* What is reported sent has arrived, while the process lives              *)
(***************************************************************************)

\* Only a reliable message is ever reported sent.
SentReliable(c) == \A m \in Messages \ Reliables : "SENT" \notin c.status[m]

LEMMA ReportedReliable ==
    ASSUME NEW c, SentReliable(c), NEW d, NEW bodies, NEW st,
           st = "SENT" => bodies \subseteq Reliables,
           d.status = Reported(c.status, bodies, st) \/ d.status = c.status
    PROVE  SentReliable(d)
  BY DEF SentReliable, Reported

LEMMA RunsReliable ==
    ASSUME NEW c, NEW d, Runs(c, d), SentReliable(c)
    PROVE  SentReliable(d)
<1>1. \/ d.status = c.status
      \/ d.status = Reported(c.status, {Head(c.to_send).body}, "TTL_EXCEEDED")
  BY DEF Runs, SameQueues, Transmits, Lapses
<1>2. QED
  BY <1>1, ReportedReliable

LEMMA SubmitsReliable ==
    ASSUME NEW c, NEW d, NEW body, Submits(c, d, body), SentReliable(c)
    PROVE  SentReliable(d)
<1>1. CASE Replaces(c, d, body)
  BY <1>1 DEF Replaces, SentReliable
<1>2. CASE Refuses(c, d, body)
  <2>1. PICK st : st # "SENT" /\ d.status = Reported(c.status, {body}, st)
    BY <1>2 DEF Refuses, Refusals
  <2>2. QED
    BY <2>1, ReportedReliable
<1>3. ASSUME NEW e, Queues(c, e, body) \/ Joins(c, e, body, 0), Runs(e, d)
      PROVE  SentReliable(d)
  <2>1. e.status = Reported(c.status, {body}, "QUEUED")
    BY <1>3 DEF Queues, Joins
  <2>2. SentReliable(e)
    BY <2>1, ReportedReliable
  <2>3. QED
    BY <1>3, <2>2, RunsReliable
<1>4. QED
  BY <1>1, <1>2, <1>3 DEF Submits

\* A packet with a persistent id is that of a reliable message.
LEMMA NamedReliable ==
    ASSUME NEW s \in Seq(Packets), \A i \in 1..Len(s) : s[i].pid # 0
    PROVE  Bodies(s) \subseteq Reliables
<1>1. \A i \in 1..Len(s) : s[i] \in Packets
  OBVIOUS
<1>2. QED
  BY <1>1 DEF Bodies, Packets

LEMMA HandlesReliable ==
    ASSUME NEW c \in Clients, Sound(c), NEW packet, NEW h, Handles(c, packet, h),
           packet.tag = "SelectiveAck" => 0 \notin packet.ids, SentReliable(c)
    PROVE  SentReliable(h)
<1>1. PICK g \in Clients :
          /\ Counts(c, packet, g)
          /\ \/ Rests(g, h)
             \/ \E body \in Control : Submits(g, h, body)
             \/ packet.tag = "SelectiveAck" /\ Settles(g, h, packet.ids)
  BY DEF Handles
<1>2. PICK d, e : /\ IF packet.last # 0
                     THEN \E z : StreamAcked(c, z, packet.last) /\ Notes(z, d) ELSE d = c
                  /\ Notes(d, e)
                  /\ g = e \/ Submits(e, g, "StreamAck")
  BY <1>1 DEF Counts
<1>3. ASSUME NEW z, StreamAcked(c, z, packet.last) PROVE SentReliable(z)
  <2>1. PICK done, rest \in Seq(Packets) :
            /\ c.to_resend = done \o rest
            /\ z.status = Reported(c.status, Bodies(done), "SENT")
    BY <1>3 DEF StreamAcked
  <2>2. \A i \in 1..Len(done) : done[i].pid # 0
    <3>1. \A i \in 1..Len(done) : i \in 1..Len(c.to_resend) /\ c.to_resend[i] = done[i]
      BY <2>1, JoinIndex
    <3>2. QED
      BY <3>1 DEF Sound, Awaiting
  <2>3. Bodies(done) \subseteq Reliables
    BY <2>2, NamedReliable
  <2>4. QED
    BY <2>1, <2>3, ReportedReliable
<1>4. SentReliable(d)
  BY <1>2, <1>3 DEF Notes, SentReliable
<1>5. SentReliable(e)
  BY <1>2, <1>4 DEF Notes, SentReliable
<1>6. SentReliable(g)
  BY <1>2, <1>5, SubmitsReliable
<1>7. CASE packet.tag = "SelectiveAck" /\ Settles(g, h, packet.ids)
  <2>1. PICK first, second \in Seq(Packets) :
            /\ Among(first, packet.ids) /\ Among(second, packet.ids)
            /\ h.status = Reported(g.status, Bodies(first \o second), "SENT")
    BY <1>7 DEF Settles
  <2> DEFINE s == first \o second
  <2>2. s \in Seq(Packets) /\ \A i \in 1..Len(s) : \/ i \in 1..Len(first) /\ s[i] = first[i]
                                                   \/ /\ i - Len(first) \in 1..Len(second)
                                                      /\ s[i] = second[i - Len(first)]
    BY JoinIndex
  <2> HIDE DEF s
  <2>3. \A i \in 1..Len(s) : s[i].pid # 0
    <3>1. /\ \A i \in 1..Len(first) : first[i].pid # 0
          /\ \A i \in 1..Len(second) : second[i].pid # 0
      BY <1>7, <2>1 DEF Among
    <3>2. QED
      BY <2>2, <3>1
  <2>4. Bodies(s) \subseteq Reliables
    BY <2>2, <2>3, NamedReliable
  <2>5. QED
    BY <1>6, <2>1, <2>4, ReportedReliable DEF s
<1>8. CASE Rests(g, h)
  BY <1>6, <1>8 DEF Rests, SentReliable
<1>9. CASE \E body \in Control : Submits(g, h, body)
  BY <1>6, <1>9, SubmitsReliable
<1>10. QED
  BY <1>1, <1>7, <1>8, <1>9

LEMMA SentReliableInit == Init => SentReliable(mcs)
<1> DEFINE st == [m \in Messages |-> {}]
<1>1. SUFFICES ASSUME Init PROVE SentReliable(mcs)
  OBVIOUS
<1>2. mcs = Initialize(EmptyStore, BaseTicks, {}, st)
  BY <1>1 DEF Init
<1>3. EmptyStore \in Stores /\ EmptyStore.out = {}
  BY FS_EmptySet DEF EmptyStore, Stores
<1>4. BaseTicks \in Nat /\ {} \in SUBSET Messages /\ st \in [Messages -> SUBSET Statuses]
  BY SystemAssumption
<1> HIDE DEF st
<1>5. Starts(EmptyStore, mcs, BaseTicks, {}, st)
  BY <1>2, <1>3, <1>4, InitializeExact
<1>6. \E bodies : mcs.status = Reported(st, bodies, "TTL_EXCEEDED")
  BY <1>5 DEF Starts
<1>7. \A m \in Messages : "SENT" \notin mcs.status[m]
  BY <1>6 DEF Reported, st
<1>8. QED
  BY <1>7 DEF SentReliable

LEMMA SentReliableNext ==
    ASSUME MaxRestarts = 0, Typed, Out(mcs, db), Faithful, SentReliable(mcs), [Next]_vars
    PROVE  SentReliable(mcs')
<1>1. mcs \in Clients /\ db \in Stores /\ Sound(mcs)
  BY DEF Typed, Out
<1>2. ASSUME mcs'.status = mcs.status PROVE SentReliable(mcs')
  BY <1>2 DEF SentReliable
<1>3. CASE UNCHANGED mcs
  BY <1>2, <1>3
<1>4. CASE AppSend
  <2>1. PICK m \in Messages, accepted \in BOOLEAN : mcs' = SendMessage(mcs, m, accepted)
    BY <1>4 DEF AppSend
  <2>2. m \in Messages \cup Control
    OBVIOUS
  <2>3. Submits(mcs, mcs', m)
    BY <1>1, <2>1, <2>2, SendMessageExact
  <2>4. QED
    BY <2>3, SubmitsReliable
<1>5. CASE RunMaybeSend
  <2> DEFINE c == [mcs EXCEPT !.posted = mcs.posted - 1]
  <2>1. mcs' = MaybeSendMessage(c) /\ mcs.posted > 0
    BY <1>5 DEF RunMaybeSend, Client
  <2>2. mcs.posted - 1 \in Nat
    BY <1>1, <2>1 DEF Clients
  <2>3. c \in Clients /\ c.status = mcs.status
    BY <1>1, <2>2 DEF Clients
  <2> HIDE DEF c
  <2>4. Runs(c, mcs')
    BY <2>1, <2>3, MaybeSendExact
  <2>5. QED
    BY <2>3, <2>4, RunsReliable DEF SentReliable
<1>6. CASE Deliver
  BY <1>1, <1>2, <1>6 DEF Deliver, Clients
<1>7. CASE FlushDone
  <2> DEFINE c == [mcs EXCEPT !.flush = << >>]
  <2>1. mcs' = MaybeSendMessage(c)
    BY <1>7 DEF FlushDone
  <2>2. c \in Clients /\ c.status = mcs.status
    BY <1>1 DEF Clients
  <2> HIDE DEF c
  <2>3. Runs(c, mcs')
    BY <2>1, <2>2, MaybeSendExact
  <2>4. QED
    BY <2>2, <2>3, RunsReliable DEF SentReliable
<1>8. CASE SendHeartbeat
  <2>1. mcs' = SendMessage(mcs, "HeartbeatPing", TRUE)
    BY <1>8 DEF SendHeartbeat, SendControl
  <2>2. "HeartbeatPing" \in Messages \cup Control /\ TRUE \in BOOLEAN
    BY DEF Control
  <2>3. Submits(mcs, mcs', "HeartbeatPing")
    BY <1>1, <2>1, <2>2, SendMessageExact
  <2>4. QED
    BY <2>3, SubmitsReliable
<1>9. CASE Expire
  <2>1. PICK m : mcs' = [mcs EXCEPT !.expired = mcs.expired \cup {m}]
    BY <1>9 DEF Expire, Client
  <2>2. QED
    BY <1>1, <1>2, <2>1 DEF Clients
<1>10. CASE Disconnect
  BY <1>1, <1>2, <1>10 DEF Disconnect, SignalConnectionReset, Clients
<1>11. CASE Reconnect
  <2> DEFINE q == mcs.to_resend \o mcs.to_send
  <2>1. mcs' = StartOver(mcs, q)
    BY <1>11 DEF Reconnect, ResetStateAndBuildLoginRequest
  <2>2. mcs.to_resend \in Seq(Packets) /\ mcs.to_send \in Seq(Packets)
    BY <1>1 DEF Clients
  <2>3. q \in Seq(Packets)
    BY <2>2
  <2>4. StartsOver(mcs, mcs', q)
    BY <1>1, <2>1, <2>3, StartOverExact
  <2> HIDE DEF q
  <2>5. \E bodies : mcs'.status = Reported(mcs.status, bodies, "TTL_EXCEEDED")
    BY <2>4 DEF StartsOver
  <2>6. QED
    BY <2>5, ReportedReliable
<1>12. CASE Receive
  <2> DEFINE packet == Head(to_client)
             c == IF packet.tag \in {"LoginResponse", "LoginError"}
                  THEN [mcs EXCEPT !.conn = "open"] ELSE mcs
  <2>1. /\ to_client # << >> /\ to_client \in Seq(FromServer)
        /\ mcs' = HandlePacketFromWire(c, packet)
    BY <1>12 DEF Receive, Typed
  <2>2. packet \in FromServer /\ 1 \in 1..Len(to_client) /\ packet = to_client[1]
    BY <2>1
  <2>3. /\ c \in Clients /\ Out(c, db) /\ c.status = mcs.status
    <3>1. /\ [mcs EXCEPT !.conn = "open"] \in Clients /\ Out([mcs EXCEPT !.conn = "open"], db)
          /\ [mcs EXCEPT !.conn = "open"].status = mcs.status
      BY <1>1, SameOut DEF Clients
    <3>2. QED
      BY <1>1, <3>1
  <2> HIDE DEF packet, c
  <2>4. packet.tag = "SelectiveAck" => 0 \notin packet.ids
    BY <2>2 DEF Faithful, Honest, Tells, Landed
  <2>5. Handles(c, packet, mcs')
    BY <2>1, <2>2, <2>3, HandlePacketExact
  <2>6. Sound(c) /\ SentReliable(c)
    BY <2>3 DEF Out, SentReliable
  <2>7. QED
    BY <2>3, <2>4, <2>5, <2>6, HandlesReliable
<1>13. CASE StoreStep
  BY <1>1, <1>2, <1>13 DEF StoreStep, Clients
<1>14. CASE Restart
  <2>1. used.restarts < MaxRestarts /\ used.restarts \in Nat
    BY <1>14 DEF Restart, Typed, Uses
  <2>2. QED
    BY <2>1
<1>15. CASE ServerLogin \/ ServerReceives
  BY <1>3, <1>15, ServerLoginEffect, ServerReceivesEffect
<1>16. CASE \/ ServerSendsData \/ ServerSendsStreamAck
            \/ ServerSendsSelectiveAck \/ ServerSendsControl
  <2>1. PICK p \in FromServer : ServerSends(p)
    BY <1>16, AnySendEffect
  <2>2. QED
    BY <1>3, <2>1, ServerSendsEffect
<1>17. CASE UNCHANGED vars
  BY <1>3, <1>17 DEF vars
<1>18. QED
  BY <1>4, <1>5, <1>6, <1>7, <1>8, <1>9, <1>10, <1>11, <1>12, <1>13, <1>14, <1>15, <1>16,
     <1>17 DEF Next

\* While the process lives, no message is reported SENT before the server has it:
\* neither the stream ids HandleStreamAck compares with nor the persistent ids
\* HandleSelectiveAck matches are ever those of another message. (It takes a restart
\* for a message to be reported in the place of one whose id it was given.)
THEOREM SentOnlyIfReceived ==
    ASSUME MaxRestarts = 0
    PROVE  Spec => []SentMeansReceived
<1> DEFINE I == /\ Typed /\ InSync /\ Agree /\ Out(mcs, db) /\ Faithful
                /\ SentReliable(mcs)
<1>1. Init => I
  BY TypedInit, InSyncInit, AgreeInit, OutInit, FaithfulInit, SentReliableInit
<1>2. I /\ [Next]_vars => I'
  <2>1. SUFFICES ASSUME I, [Next]_vars PROVE I'
    OBVIOUS
  <2>2. Typed' /\ InSync' /\ Agree' /\ Out(mcs', db')
    BY <2>1, TypedNext, InSyncNext, AgreeNext, OutNext
  <2>3. Faithful' /\ SentReliable(mcs')
    BY <2>1, FaithfulNext, SentReliableNext
  <2>4. QED
    BY <2>2, <2>3
<1>3. I => SentMeansReceived
  <2>1. SUFFICES ASSUME I, NEW m \in Messages, "SENT" \in mcs.status[m]
                 PROVE  m \in srv.bodies
    BY DEF SentMeansReceived
  <2>2. m \in Reliables
    BY <2>1 DEF SentReliable
  <2>3. Account(mcs, asked, srv.bodies, m)
    BY <2>1, <2>2 DEF Faithful, Tells, Accounted
  <2>4. QED
    BY <2>1, <2>3 DEF Account
<1> HIDE DEF I
<1>4. QED
  BY <1>1, <1>2, <1>3, PTL DEF Spec

===============================================================================
