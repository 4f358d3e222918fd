--------------------------- MODULE MCSSystem_proofs ---------------------------
(***************************************************************************)
(* Proofs about MCSSystem, for any number of messages, keys, server        *)
(* messages, connections, restarts and acknowledgements. First the types   *)
(* of the state, and that sending never stalls. Then the server's          *)
(* messages: the store follows what the client tracks, and, while the      *)
(* process lives, the server forgets only what was received, nothing is    *)
(* handed to the application twice, and an id stays tracked until the      *)
(* server has confirmed its acknowledgement.                               *)
(*                                                                         *)
(* The methods of MCSClient are operators from one client record to the    *)
(* next; each has a lemma with the type of its result and the fields it    *)
(* leaves alone. The invariants about the server's messages are predicates *)
(* of the client's record and of what is around it, so that the calls one  *)
(* packet leads to can be followed one by one: Confirms, Took, Sent and    *)
(* Dispatched.                                                             *)
(***************************************************************************)
EXTENDS MCSSystem, Recursions, FiniteSetTheorems, TLAPS

-----------------------------------------------------------------------------
(***************************************************************************)
(* Prefixes and selections of queues                                       *)
(***************************************************************************)

\* What Acknowledged counts.
LEMMA AcknowledgedLemma ==
    ASSUME NEW P, NEW s \in Seq(P), NEW last
    PROVE  LET n == Acknowledged(s, last)
           IN  /\ n \in 0..Len(s)
               /\ \A i \in 1..n : s[i].sid <= last
               /\ n < Len(s) => ~ (s[n + 1].sid <= last)
<1> DEFINE Bad == {i \in 1..Len(s) : ~ (s[i].sid <= last)}
           Q(n) == /\ \A i \in 1..n : s[i].sid <= last
                   /\ n < Len(s) => ~ (s[n + 1].sid <= last)
<1>1. Len(s) \in Nat
  OBVIOUS
<1>2. PICK n \in 0..Len(s) : (\A i \in 1..n : i \notin Bad) /\ (n < Len(s) => n + 1 \in Bad)
  <2> HIDE DEF Bad
  <2>1. QED
    BY <1>1, Prefix
<1>3. \A i \in 1..n : i \in 1..Len(s)
  BY <1>1
<1>4. Q(n)
  BY <1>2, <1>3
<1>5. Acknowledged(s, last) = CHOOSE m \in 0..Len(s) : Q(m)
  BY DEF Acknowledged, PrefixLength
<1> HIDE DEF Q
<1>6. Acknowledged(s, last) \in 0..Len(s) /\ Q(Acknowledged(s, last))
  BY <1>4, <1>5
<1>7. QED
  BY <1>6 DEF Q

\* What Named counts.
LEMMA NamedLemma ==
    ASSUME NEW P, NEW s \in Seq(P), NEW ids
    PROVE  LET n == Named(s, ids)
           IN  /\ n \in 0..Len(s)
               /\ \A i \in 1..n : s[i].pid \in ids
               /\ n < Len(s) => s[n + 1].pid \notin ids
<1> DEFINE Bad == {i \in 1..Len(s) : s[i].pid \notin ids}
           Q(n) == /\ \A i \in 1..n : s[i].pid \in ids
                   /\ n < Len(s) => ~ (s[n + 1].pid \in ids)
<1>1. Len(s) \in Nat
  OBVIOUS
<1>2. PICK n \in 0..Len(s) : (\A i \in 1..n : i \notin Bad) /\ (n < Len(s) => n + 1 \in Bad)
  <2> HIDE DEF Bad
  <2>1. QED
    BY <1>1, Prefix
<1>3. \A i \in 1..n : i \in 1..Len(s)
  BY <1>1
<1>4. Q(n)
  BY <1>2, <1>3
<1>5. Named(s, ids) = CHOOSE m \in 0..Len(s) : Q(m)
  BY DEF Named, PrefixLength
<1> HIDE DEF Q
<1>6. Named(s, ids) \in 0..Len(s) /\ Q(Named(s, ids))
  BY <1>4, <1>5
<1>7. QED
  BY <1>6 DEF Q

Selects(f, s, B) ==
    /\ f[0] = << >>
    /\ \A n \in 1..Len(s) :
           f[n] = IF s[n].body \in B THEN Append(f[n - 1], s[n]) ELSE f[n - 1]

\* How WithBody goes through the packets.
LEMMA WithBodySteps ==
    ASSUME NEW P, NEW s \in Seq(P), NEW B
    PROVE  \E f \in [0..Len(s) -> Seq(P)] : Selects(f, s, B) /\ WithBody(s, B) = f[Len(s)]
<1> DEFINE G == [n \in 1..Len(s) |-> [y \in Seq(P) |->
                    IF s[n].body \in B THEN Append(y, s[n]) ELSE y]]
           F(f) == [n \in 0..Len(s) |->
                      IF n = 0 THEN << >>
                      ELSE IF s[n].body \in B THEN Append(f[n - 1], s[n]) ELSE f[n - 1]]
<1>1. Len(s) \in Nat /\ << >> \in Seq(P) /\ \A n \in 1..Len(s) : s[n] \in P
  OBVIOUS
<1>2. \A n \in 1..Len(s) : \A y \in Seq(P) :
          /\ G[n][y] \in Seq(P)
          /\ G[n][y] = IF s[n].body \in B THEN Append(y, s[n]) ELSE y
  BY <1>1
<1> HIDE DEF G
<1>3. PICK f \in [0..Len(s) -> Seq(P)] :
          f[0] = << >> /\ \A n \in 1..Len(s) : f[n] = G[n][f[n - 1]]
  <2>1. \A n \in 1..Len(s) : \A y \in Seq(P) : G[n][y] \in Seq(P)
    BY <1>2
  <2>2. StaysIn(G, Seq(P), Len(s))
    BY <2>1 DEF StaysIn
  <2>3. \E f \in [0..Len(s) -> Seq(P)] : Solution(f, << >>, G, Len(s))
    BY <1>1, <2>2, Recursion
  <2>4. QED
    BY <2>3 DEF Solution
<1>4. ASSUME NEW n \in 1..Len(s)
      PROVE  f[n] = IF s[n].body \in B THEN Append(f[n - 1], s[n]) ELSE f[n - 1]
  <2>1. n - 1 \in 0..Len(s)
    BY <1>1
  <2>2. f[n - 1] \in Seq(P) /\ f[n] = G[n][f[n - 1]]
    BY <1>3, <2>1
  <2>3. QED
    BY <1>2, <2>2
<1>5. f = F(f)
  <2>1. ASSUME NEW n \in 0..Len(s) PROVE f[n] = F(f)[n]
    <3>1. CASE n = 0
      BY <1>3, <3>1
    <3>2. CASE n # 0
      <4>1. n \in 1..Len(s)
        BY <1>1, <3>2
      <4>2. QED
        BY <1>4, <3>2, <4>1
    <3>3. QED
      BY <3>1, <3>2
  <2>2. f = [n \in 0..Len(s) |-> f[n]]
    BY <1>3
  <2>3. QED
    BY <2>1, <2>2
<1> DEFINE select == CHOOSE g : g = F(g)
<1>6. select = F(select)
  BY <1>5
<1>7. WithBody(s, B) = select[Len(s)]
  BY DEF WithBody
<1> HIDE DEF select
<1>8. /\ select[0] = << >>
      /\ \A n \in 1..Len(s) :
             select[n] = IF s[n].body \in B THEN Append(select[n - 1], s[n]) ELSE select[n - 1]
  <2>1. \A n \in 0..Len(s) : F(select)[n] =
            IF n = 0 THEN << >>
            ELSE IF s[n].body \in B THEN Append(select[n - 1], s[n]) ELSE select[n - 1]
    OBVIOUS
  <2>2. 0 \in 0..Len(s) /\ \A n \in 1..Len(s) : n \in 0..Len(s) /\ n # 0
    BY <1>1
  <2> HIDE DEF F
  <2>3. QED
    BY <1>6, <2>1, <2>2
<1> HIDE DEF F
<1> DEFINE H == [n \in 1..Len(s) |-> [y \in Seq(P) \cup {select[m] : m \in 0..Len(s)} |->
                    IF s[n].body \in B THEN Append(y, s[n]) ELSE y]]
<1>9. /\ \A n \in 1..Len(s) : f[n] = H[n][f[n - 1]]
      /\ \A n \in 1..Len(s) : select[n] = H[n][select[n - 1]]
  <2>1. \A n \in 1..Len(s) : n - 1 \in 0..Len(s)
    BY <1>1
  <2>2. QED
    BY <1>3, <1>4, <1>8, <2>1
<1> HIDE DEF H
<1>10. \A n \in 0..Len(s) : f[n] = select[n]
  <2>1. Len(s) \in Nat /\ f[0] = select[0]
    BY <1>1, <1>3, <1>8
  <2>2. Solution(f, << >>, H, Len(s)) /\ Solution(select, << >>, H, Len(s))
    BY <1>3, <1>8, <1>9 DEF Solution
  <2>3. QED
    BY <2>1, <2>2, OneSolution
<1>11. QED
  <2>1. Selects(f, s, B)
    BY <1>3, <1>4 DEF Selects
  <2>2. WithBody(s, B) = f[Len(s)]
    BY <1>1, <1>7, <1>10
  <2>3. QED
    BY <1>3, <2>1, <2>2

\* r has the packets of s that have one of the bodies, in their order; h is where
\* they come from.
KeptOf(r, s, B, h) ==
    /\ h \in [1..Len(r) -> 1..Len(s)]
    /\ \A i, j \in 1..Len(r) : i < j => h[i] < h[j]
    /\ \A i \in 1..Len(r) : r[i] = s[h[i]] /\ s[h[i]].body \in B
    /\ \A j \in 1..Len(s) : s[j].body \in B => \E i \in 1..Len(r) : h[i] = j

\* WithBody keeps the order of the packets and all those with one of the bodies.
LEMMA WithBodyLemma ==
    ASSUME NEW P, NEW s \in Seq(P), NEW B
    PROVE  /\ WithBody(s, B) \in Seq(P)
           /\ \E h : KeptOf(WithBody(s, B), s, B, h)
<1>1. PICK f \in [0..Len(s) -> Seq(P)] : Selects(f, s, B) /\ WithBody(s, B) = f[Len(s)]
  BY WithBodySteps
<1>2. Len(s) \in Nat
  OBVIOUS
<1> DEFINE C(n, h) == /\ \A i, j \in 1..Len(f[n]) : i < j => h[i] < h[j]
                      /\ \A i \in 1..Len(f[n]) : f[n][i] = s[h[i]] /\ s[h[i]].body \in B
                      /\ \A j \in 1..n : s[j].body \in B => \E i \in 1..Len(f[n]) : h[i] = j
           S == {n \in Nat : n <= Len(s) => \E h \in [1..Len(f[n]) -> 1..n] : C(n, h)}
<1>3. 0 \in S
  <2>1. 1..Len(f[0]) = {} /\ 1..0 = {}
    BY <1>1 DEF Selects
  <2>2. [i \in {} |-> 0] \in [1..Len(f[0]) -> 1..0]
    BY <2>1
  <2>3. C(0, [i \in {} |-> 0])
    BY <2>1
  <2> HIDE DEF C
  <2>4. QED
    BY <2>2, <2>3
<1>4. ASSUME NEW n \in Nat, n \in S
      PROVE  n + 1 \in S
  <2>1. SUFFICES ASSUME n + 1 <= Len(s)
                 PROVE  \E h \in [1..Len(f[n + 1]) -> 1..(n + 1)] : C(n + 1, h)
    <3> HIDE DEF C
    <3>1. n + 1 \in Nat
      OBVIOUS
    <3>2. QED
      BY <3>1
  <2>2. PICK h \in [1..Len(f[n]) -> 1..n] : C(n, h)
    <3> HIDE DEF C
    <3>1. QED
      BY <1>2, <1>4, <2>1
  <2>3. /\ f[n] \in Seq(P) /\ Len(f[n]) \in Nat
        /\ f[n + 1] = IF s[n + 1].body \in B THEN Append(f[n], s[n + 1]) ELSE f[n]
    <3>1. n \in 0..Len(s) /\ n + 1 \in 1..Len(s) /\ (n + 1) - 1 = n
      BY <1>2, <2>1
    <3>2. QED
      BY <1>1, <3>1 DEF Selects
  <2>4. CASE s[n + 1].body \notin B
    <3>1. f[n + 1] = f[n]
      BY <2>3, <2>4
    <3>2. h \in [1..Len(f[n + 1]) -> 1..(n + 1)]
      BY <2>2, <3>1
    <3>3. \A j \in 1..(n + 1) : j \in 1..n \/ j = n + 1
      OBVIOUS
    <3>4. C(n + 1, h)
      BY <2>2, <2>4, <3>1, <3>3
    <3> HIDE DEF C
    <3>5. QED
      BY <3>2, <3>4
  <2>5. CASE s[n + 1].body \in B
    <3> DEFINE k == Len(f[n]) + 1
               g == [i \in 1..k |-> IF i = k THEN n + 1 ELSE h[i]]
    <3>1. s[n + 1] \in P
      BY <1>2, <2>1
    <3>2. /\ f[n + 1] = Append(f[n], s[n + 1]) /\ Len(f[n + 1]) = k /\ k \in Nat
          /\ f[n + 1][k] = s[n + 1] /\ \A i \in 1..Len(f[n]) : f[n + 1][i] = f[n][i]
      BY <2>3, <2>5, <3>1
    <3>3. /\ \A i \in 1..k : i = k \/ i \in 1..Len(f[n])
          /\ k \in 1..k /\ \A i \in 1..Len(f[n]) : i # k /\ i \in 1..k /\ i < k
      BY <2>3
    <3>4. g[k] = n + 1 /\ \A i \in 1..Len(f[n]) : g[i] = h[i] /\ g[i] \in 1..n
      BY <2>2, <3>3
    <3>5. g \in [1..k -> 1..(n + 1)]
      BY <2>2, <3>3
    <3> HIDE DEF g, k
    <3>6. \A i, j \in 1..k : i < j => g[i] < g[j]
      <4>1. SUFFICES ASSUME NEW i \in 1..k, NEW j \in 1..k, i < j PROVE g[i] < g[j]
        OBVIOUS
      <4>2. i \in 1..Len(f[n])
        BY <3>2, <3>3, <4>1
      <4>3. CASE j = k
        BY <3>4, <4>2, <4>3
      <4>4. CASE j \in 1..Len(f[n])
        BY <2>2, <3>4, <4>1, <4>2, <4>4
      <4>5. QED
        BY <3>3, <4>3, <4>4
    <3>7. \A i \in 1..k : f[n + 1][i] = s[g[i]] /\ s[g[i]].body \in B
      BY <2>2, <2>5, <3>2, <3>3, <3>4
    <3>8. \A j \in 1..(n + 1) : s[j].body \in B => \E i \in 1..k : g[i] = j
      <4>1. \A j \in 1..(n + 1) : j \in 1..n \/ j = n + 1
        OBVIOUS
      <4>2. QED
        BY <2>2, <3>3, <3>4, <4>1
    <3>9. C(n + 1, g)
      BY <3>2, <3>6, <3>7, <3>8
    <3> HIDE DEF C
    <3>10. QED
      BY <3>2, <3>5, <3>9
  <2>6. QED
    BY <2>4, <2>5
<1>5. Len(s) \in S
  <2> HIDE DEF S
  <2>1. QED
    BY <1>2, <1>3, <1>4, Induct
<1>6. Len(s) \in 0..Len(s)
  BY <1>2
<1>7. f[Len(s)] \in Seq(P)
  BY <1>6
<1>8. PICK h \in [1..Len(f[Len(s)]) -> 1..Len(s)] : C(Len(s), h)
  <2> HIDE DEF C
  <2>1. QED
    BY <1>2, <1>5
<1>9. KeptOf(f[Len(s)], s, B, h)
  BY <1>8 DEF KeptOf
<1>10. QED
  BY <1>1, <1>7, <1>9

-----------------------------------------------------------------------------
(***************************************************************************)
(* Types                                                                   *)
(***************************************************************************)
Reliables == Messages \ ZeroTtl

Packets ==
    {p \in [body : Messages \cup Control, pid : Nat, hdr : Nat, sid : Nat] :
        p.pid # 0 <=> p.body \in Reliables}

\* What the client writes, apart from the login request.
Frames == [body : Messages \cup Control, hdr : Nat, last : Nat, ids : {{}}]

Logins == [body : {"Login"}, hdr : {0}, last : {0}, ids : SUBSET ServerIds]

Tags == {"LoginResponse", "LoginError", "HeartbeatPing", "HeartbeatAck", "StreamAck",
         "Close", "SelectiveAck", "IdleNotification", "Data"}

FromServer ==
    {p \in [tag : Tags, id : ServerIds \cup {0}, imm : BOOLEAN, ids : SUBSET Nat, last : Nat] :
        p.tag = "Data" <=> p.id # 0}

Entries == [pid : Nat \ {0}, body : Reliables, hdr : Nat]

WriteOps ==
    [kind : {"addOut", "overwrite"}, ids : {{p} : p \in Nat \ {0}}, body : Reliables, hdr : Nat]

RemoveOps == [kind : {"removeOut"}, ids : SUBSET Nat, body : {NoKey}, hdr : {0}]

OutOps == WriteOps \cup RemoveOps

InOps == [kind : {"addIn", "removeIn"}, ids : SUBSET ServerIds, body : {NoKey}, hdr : {0}]

Ops == OutOps \cup InOps

Stores == {s \in [out : SUBSET Entries, in : SUBSET ServerIds] : IsFiniteSet(s.out)}

Clients ==
    [state : {"UNINITIALIZED", "LOADED", "CONNECTING", "CONNECTED"},
     to_send : Seq(Packets), to_resend : Seq(Packets), keymap : [Keys -> Nat],
     out : Nat, in : Nat, last_in : Nat,
     unacked : Seq(ServerIds), acked : SUBSET [sid : Nat, id : ServerIds],
     restored : SUBSET ServerIds,
     conn : {"down", "handshake", "open"}, flush : {<< >>} \cup {<<f>> : f \in Frames},
     posted : Nat, deliver : Seq(ServerIds), storeq : Seq(Ops),
     ticks : Nat, expired : SUBSET Messages, status : [Messages -> SUBSET Statuses]]

Servers ==
    [up : BOOLEAN, in : Nat, told : Nat, log : Seq(ServerIds \cup {0}),
     got : SUBSET Nat, bodies : SUBSET Messages, forgotten : SUBSET ServerIds]

Uses == [connections : Nat, restarts : Nat, selective : Nat, control : Nat, heartbeats : Nat]

Typed ==
    /\ mcs \in Clients
    /\ db \in Stores
    /\ to_server \in Seq(Frames \cup Logins)
    /\ to_client \in Seq(FromServer)
    /\ srv \in Servers
    /\ delivered \in [ServerIds -> Nat]
    /\ asked \in Seq(Messages)
    /\ used \in Uses

-----------------------------------------------------------------------------
(***************************************************************************)
(* The store                                                               *)
(***************************************************************************)

\* An operation keeps the store's type; an operation on outgoing messages leaves
\* the incoming ids alone, and the other way round.
LEMMA AppliedLemma ==
    ASSUME NEW s \in Stores, NEW o \in Ops
    PROVE  /\ Applied(s, o) \in Stores
           /\ o \in OutOps => Applied(s, o).in = s.in
           /\ o \in InOps => /\ Applied(s, o).out = s.out
                             /\ o.kind = "addIn" => Applied(s, o).in = s.in \cup o.ids
                             /\ o.kind = "removeIn" => Applied(s, o).in = s.in \ o.ids
<1>1. s.out \in SUBSET Entries /\ s.in \in SUBSET ServerIds /\ IsFiniteSet(s.out)
  BY DEF Stores
<1>2. CASE o \in WriteOps
  <2> DEFINE new == {[pid |-> p, body |-> o.body, hdr |-> o.hdr] : p \in o.ids}
  <2>1. PICK p \in Nat \ {0} : o.ids = {p}
    BY <1>2 DEF WriteOps
  <2>2. new = {[pid |-> p, body |-> o.body, hdr |-> o.hdr]}
    BY <2>1
  <2>3. new \subseteq Entries
    BY <1>2, <2>2 DEF WriteOps, Entries
  <2>4. IsFiniteSet(new)
    <3>1. \A x : IsFiniteSet({x})
      BY FS_Singleton
    <3> HIDE DEF new
    <3>2. QED
      BY <2>2, <3>1
  <2> HIDE DEF new
  <2>5. CASE o.kind = "addOut"
    <3>1. Applied(s, o) = [s EXCEPT !.out = s.out \cup new]
      BY <2>5 DEF Applied, new
    <3>2. IsFiniteSet(s.out \cup new)
      BY <1>1, <2>4, FS_Union
    <3>3. QED
      BY <1>1, <1>2, <2>3, <3>1, <3>2 DEF Stores, WriteOps, InOps
  <2>6. CASE o.kind = "overwrite"
    <3> DEFINE old == {e \in s.out : e.pid \notin o.ids}
    <3>1. Applied(s, o) = [s EXCEPT !.out = old \cup new]
      BY <2>6 DEF Applied, new
    <3>2. old \in SUBSET s.out
      OBVIOUS
    <3> HIDE DEF old
    <3>3. IsFiniteSet(old)
      BY <1>1, <3>2, FS_Subset
    <3>4. IsFiniteSet(old \cup new)
      BY <2>4, <3>3, FS_Union
    <3>5. QED
      BY <1>1, <1>2, <2>3, <3>1, <3>2, <3>4 DEF Stores, WriteOps, InOps
  <2>7. QED
    BY <1>2, <2>5, <2>6 DEF WriteOps
<1>3. CASE o \in RemoveOps
  <2> DEFINE old == {e \in s.out : e.pid \notin o.ids}
  <2>1. Applied(s, o) = [s EXCEPT !.out = old]
    BY <1>3 DEF Applied, RemoveOps
  <2>2. old \in SUBSET s.out
    OBVIOUS
  <2> HIDE DEF old
  <2>3. IsFiniteSet(old)
    BY <1>1, <2>2, FS_Subset
  <2>4. QED
    BY <1>1, <1>3, <2>1, <2>2, <2>3 DEF Stores, RemoveOps, InOps
<1>4. CASE o \in InOps
  <2>1. CASE o.kind = "addIn"
    <3>1. Applied(s, o) = [s EXCEPT !.in = s.in \cup o.ids]
      BY <2>1 DEF Applied
    <3>2. QED
      BY <1>1, <1>4, <2>1, <3>1 DEF Stores, InOps, OutOps, WriteOps, RemoveOps
  <2>2. CASE o.kind = "removeIn"
    <3>1. Applied(s, o) = [s EXCEPT !.in = s.in \ o.ids]
      BY <2>2 DEF Applied
    <3>2. QED
      BY <1>1, <1>4, <2>2, <3>1 DEF Stores, InOps, OutOps, WriteOps, RemoveOps
  <2>3. QED
    BY <1>4, <2>1, <2>2 DEF InOps
<1>5. QED
  BY <1>2, <1>3, <1>4 DEF Ops, OutOps

\* f goes through the stores from s on as the operations are executed.
Executes(f, s, ops) ==
    /\ f \in [0..Len(ops) -> Stores]
    /\ f[0] = s
    /\ \A n \in 1..Len(ops) : f[n] = Applied(f[n - 1], ops[n])

\* Two runs of the same operations from the same store agree.
LEMMA SameExecution ==
    ASSUME NEW s, NEW ops \in Seq(Ops), NEW f, NEW g, Executes(f, s, ops), Executes(g, s, ops)
    PROVE  \A n \in 0..Len(ops) : f[n] = g[n]
<1> DEFINE H == [n \in 1..Len(ops) |-> [y \in Stores |-> Applied(y, ops[n])]]
<1>1. Len(ops) \in Nat /\ \A n \in 1..Len(ops) : n - 1 \in 0..Len(ops)
  OBVIOUS
<1>2. ASSUME NEW h, Executes(h, s, ops)
      PROVE  Solution(h, s, H, Len(ops))
  <2>1. \A n \in 1..Len(ops) : h[n - 1] \in Stores
    BY <1>1, <1>2 DEF Executes
  <2>2. \A n \in 1..Len(ops) : H[n][h[n - 1]] = Applied(h[n - 1], ops[n])
    BY <2>1
  <2> HIDE DEF H
  <2>3. QED
    BY <1>2, <2>2 DEF Executes, Solution
<1> HIDE DEF H
<1>3. Solution(f, s, H, Len(ops)) /\ Solution(g, s, H, Len(ops))
  BY <1>2
<1>4. QED
  BY <1>1, <1>3, OneSolution

\* After is what the last step of a run leaves.
LEMMA AfterSteps ==
    ASSUME NEW s \in Stores, NEW ops \in Seq(Ops)
    PROVE  \E f : Executes(f, s, ops) /\ After(s, ops) = f[Len(ops)]
<1> DEFINE G == [n \in 1..Len(ops) |-> [y \in Stores |-> Applied(y, ops[n])]]
           F(f) == [n \in 0..Len(ops) |-> IF n = 0 THEN s ELSE Applied(f[n - 1], ops[n])]
<1>1. /\ Len(ops) \in Nat /\ \A n \in 1..Len(ops) : ops[n] \in Ops /\ n - 1 \in 0..Len(ops)
      /\ 0 \in 0..Len(ops) /\ \A n \in 1..Len(ops) : n \in 0..Len(ops) /\ n # 0
      /\ \A n \in 0..Len(ops) : n = 0 \/ n \in 1..Len(ops)
  OBVIOUS
<1>2. \A n \in 1..Len(ops) : \A y \in Stores :
          G[n][y] = Applied(y, ops[n]) /\ G[n][y] \in Stores
  BY <1>1, AppliedLemma
<1> HIDE DEF G
<1>3. PICK f \in [0..Len(ops) -> Stores] : Solution(f, s, G, Len(ops))
  <2>1. StaysIn(G, Stores, Len(ops))
    BY <1>2 DEF StaysIn
  <2>2. QED
    BY <1>1, <2>1, Recursion
<1>4. f[0] = s /\ \A n \in 1..Len(ops) : f[n] = Applied(f[n - 1], ops[n])
  BY <1>1, <1>2, <1>3 DEF Solution
<1>5. f = F(f)
  <2>1. \A n \in 0..Len(ops) : f[n] = F(f)[n]
    BY <1>1, <1>4
  <2>2. f = [n \in 0..Len(ops) |-> f[n]]
    BY <1>3
  <2>3. QED
    BY <2>1, <2>2
<1> DEFINE after == CHOOSE g : g = F(g)
<1>6. after = F(after)
  BY <1>5
<1>7. After(s, ops) = after[Len(ops)]
  BY DEF After
<1> HIDE DEF after
<1>8. after[0] = s /\ \A n \in 1..Len(ops) : after[n] = Applied(after[n - 1], ops[n])
  <2>1. \A n \in 0..Len(ops) :
            F(after)[n] = IF n = 0 THEN s ELSE Applied(after[n - 1], ops[n])
    OBVIOUS
  <2> HIDE DEF F
  <2>2. QED
    BY <1>1, <1>6, <2>1
<1> DEFINE S == {n \in Nat : n <= Len(ops) => after[n] = f[n]}
<1>9. Len(ops) \in S
  <2>1. 0 \in S
    BY <1>4, <1>8
  <2>2. ASSUME NEW n \in Nat, n \in S PROVE n + 1 \in S
    <3>1. SUFFICES ASSUME n + 1 <= Len(ops) PROVE after[n + 1] = f[n + 1]
      OBVIOUS
    <3>2. n + 1 \in 1..Len(ops) /\ (n + 1) - 1 = n /\ after[n] = f[n]
      BY <1>1, <2>2, <3>1
    <3>3. after[n + 1] = Applied(after[n], ops[n + 1]) /\ f[n + 1] = Applied(f[n], ops[n + 1])
      BY <1>4, <1>8, <3>2
    <3>4. QED
      BY <3>2, <3>3
  <2> HIDE DEF S
  <2>3. QED
    BY <1>1, <2>1, <2>2, Induct
<1>10. Executes(f, s, ops)
  BY <1>3, <1>4 DEF Executes
<1>11. QED
  BY <1>1, <1>7, <1>9, <1>10

\* No operation, one more, or one taken off.
LEMMA AfterNone ==
    ASSUME NEW s \in Stores
    PROVE  After(s, << >>) = s
<1>1. << >> \in Seq(Ops) /\ Len(<< >>) = 0
  OBVIOUS
<1>2. PICK f : Executes(f, s, << >>) /\ After(s, << >>) = f[Len(<< >>)]
  BY <1>1, AfterSteps
<1>3. QED
  BY <1>1, <1>2 DEF Executes

LEMMA AfterType ==
    ASSUME NEW s \in Stores, NEW ops \in Seq(Ops)
    PROVE  After(s, ops) \in Stores
<1>1. PICK f : Executes(f, s, ops) /\ After(s, ops) = f[Len(ops)]
  BY AfterSteps
<1>2. Len(ops) \in 0..Len(ops)
  OBVIOUS
<1>3. QED
  BY <1>1, <1>2 DEF Executes

LEMMA AfterAppend ==
    ASSUME NEW s \in Stores, NEW ops \in Seq(Ops), NEW o \in Ops
    PROVE  After(s, Append(ops, o)) = Applied(After(s, ops), o)
<1> DEFINE more == Append(ops, o)
<1>1. /\ more \in Seq(Ops) /\ Len(more) = Len(ops) + 1 /\ Len(ops) \in Nat
      /\ more[Len(more)] = o /\ \A n \in 1..Len(ops) : more[n] = ops[n]
  OBVIOUS
<1> HIDE DEF more
<1>2. /\ \A n \in 0..Len(ops) : n \in 0..Len(more)
      /\ \A n \in 1..Len(ops) : n \in 1..Len(more) /\ n \in 0..Len(ops) /\ n - 1 \in 0..Len(ops)
      /\ Len(more) \in 1..Len(more) /\ Len(more) - 1 = Len(ops)
      /\ 0 \in 0..Len(ops) /\ Len(ops) \in 0..Len(ops)
  BY <1>1
<1>3. PICK f : Executes(f, s, ops) /\ After(s, ops) = f[Len(ops)]
  BY AfterSteps
<1>4. PICK g : Executes(g, s, more) /\ After(s, more) = g[Len(more)]
  BY <1>1, AfterSteps
<1> DEFINE h == [n \in 0..Len(ops) |-> g[n]]
<1>5. Executes(h, s, ops)
  <2>1. \A n \in 0..Len(ops) : h[n] = g[n] /\ g[n] \in Stores
    BY <1>2, <1>4 DEF Executes
  <2>2. h \in [0..Len(ops) -> Stores]
    BY <2>1
  <2> HIDE DEF h
  <2>3. \A n \in 1..Len(ops) : g[n] = Applied(g[n - 1], ops[n])
    BY <1>1, <1>2, <1>4 DEF Executes
  <2>4. \A n \in 1..Len(ops) : h[n] = Applied(h[n - 1], ops[n])
    BY <1>2, <2>1, <2>3
  <2>5. h[0] = s
    BY <1>2, <1>4, <2>1 DEF Executes
  <2>6. QED
    BY <2>2, <2>4, <2>5 DEF Executes
<1>6. f[Len(ops)] = g[Len(ops)]
  <2>1. h[Len(ops)] = g[Len(ops)]
    BY <1>2
  <2> HIDE DEF h
  <2>2. QED
    BY <1>2, <1>3, <1>5, <2>1, SameExecution
<1>7. g[Len(more)] = Applied(g[Len(ops)], o)
  BY <1>1, <1>2, <1>4 DEF Executes
<1>8. QED
  BY <1>3, <1>4, <1>6, <1>7 DEF more

LEMMA AfterHead ==
    ASSUME NEW s \in Stores, NEW ops \in Seq(Ops), ops # << >>
    PROVE  After(Applied(s, Head(ops)), Tail(ops)) = After(s, ops)
<1> DEFINE rest == Tail(ops)
           t == Applied(s, Head(ops))
<1>1. /\ rest \in Seq(Ops) /\ Len(rest) = Len(ops) - 1 /\ Len(ops) \in Nat /\ Len(ops) > 0
      /\ Head(ops) = ops[1] /\ Head(ops) \in Ops
      /\ \A n \in 1..Len(rest) : rest[n] = ops[n + 1]
  OBVIOUS
<1>2. t \in Stores
  BY <1>1, AppliedLemma
<1> HIDE DEF rest
<1>3. /\ \A n \in 0..Len(rest) : n + 1 \in 0..Len(ops)
      /\ \A n \in 1..Len(rest) : /\ n + 1 \in 1..Len(ops) /\ n \in 0..Len(rest)
                                 /\ n - 1 \in 0..Len(rest)
                                 /\ (n - 1) + 1 = n /\ (n + 1) - 1 = n
      /\ 1 \in 1..Len(ops) /\ 0 \in 0..Len(rest) /\ 0 + 1 = 1 /\ 1 - 1 = 0
      /\ Len(rest) \in 0..Len(rest) /\ Len(rest) + 1 = Len(ops)
  BY <1>1
<1>4. PICK f : Executes(f, s, ops) /\ After(s, ops) = f[Len(ops)]
  BY AfterSteps
<1>5. PICK g : Executes(g, t, rest) /\ After(t, rest) = g[Len(rest)]
  BY <1>1, <1>2, AfterSteps
<1> DEFINE h == [n \in 0..Len(rest) |-> f[n + 1]]
<1>6. Executes(h, t, rest)
  <2>1. \A n \in 0..Len(rest) : h[n] = f[n + 1] /\ f[n + 1] \in Stores
    BY <1>3, <1>4 DEF Executes
  <2>2. h \in [0..Len(rest) -> Stores]
    BY <2>1
  <2> HIDE DEF h
  <2>3. \A n \in 1..Len(rest) : f[n + 1] = Applied(f[n], rest[n])
    BY <1>1, <1>3, <1>4 DEF Executes
  <2>4. \A n \in 1..Len(rest) : h[n] = Applied(h[n - 1], rest[n])
    BY <1>3, <2>1, <2>3
  <2>5. h[0] = t
    BY <1>1, <1>3, <1>4, <2>1 DEF Executes
  <2>6. QED
    BY <2>2, <2>4, <2>5 DEF Executes
<1>7. f[Len(ops)] = g[Len(rest)]
  <2>1. h[Len(rest)] = f[Len(ops)]
    BY <1>3
  <2> HIDE DEF h, t
  <2>2. QED
    BY <1>1, <1>3, <1>5, <1>6, <2>1, SameExecution
<1>8. QED
  BY <1>4, <1>5, <1>7 DEF rest

-----------------------------------------------------------------------------

Sorted(s, E) ==
    /\ s \in [1..Cardinality(E) -> E]
    /\ \A i, j \in DOMAIN s : i < j => s[i] # s[j] /\ s[i].pid <= s[j].pid

\* A finite set of stored messages can be sorted.
LEMMA SortExists ==
    ASSUME NEW E \in SUBSET Entries, IsFiniteSet(E)
    PROVE  \E s : Sorted(s, E)
<1> DEFINE S == {n \in Nat : \A D \in SUBSET Entries :
                     IsFiniteSet(D) /\ Cardinality(D) = n => \E s : Sorted(s, D)}
<1>1. 0 \in S
  <2>1. SUFFICES ASSUME NEW D \in SUBSET Entries, IsFiniteSet(D), Cardinality(D) = 0
                 PROVE  \E s : Sorted(s, D)
    OBVIOUS
  <2>2. 1..Cardinality(D) = {}
    BY <2>1
  <2>3. Sorted([i \in {} |-> 0], D)
    BY <2>2 DEF Sorted
  <2>4. QED
    BY <2>3
<1>2. ASSUME NEW n \in Nat, n \in S PROVE n + 1 \in S
  <2>1. SUFFICES ASSUME NEW D \in SUBSET Entries, IsFiniteSet(D), Cardinality(D) = n + 1
                 PROVE  \E s : Sorted(s, D)
    OBVIOUS
  <2>2. D # {}
    BY <2>1, FS_EmptySet
  <2>3. PICK m \in D : \A e \in D : m.pid <= e.pid
    <3> DEFINE T == {e.pid : e \in D}
    <3>1. T \subseteq Nat /\ T # {}
      BY <2>2 DEF Entries
    <3>2. PICK x \in T : \A y \in T : x <= y
      <4> HIDE DEF T
      <4>1. QED
        BY <3>1, Least
    <3>3. QED
      BY <3>2
  <2>4. IsFiniteSet(D \ {m}) /\ Cardinality(D \ {m}) = n
    <3>1. /\ IsFiniteSet(D \ {m})
          /\ Cardinality(D \ {m}) = IF m \in D THEN Cardinality(D) - 1 ELSE Cardinality(D)
      BY <2>1, FS_RemoveElement
    <3>2. m \in D /\ (n + 1) - 1 = n
      BY <2>3
    <3>3. QED
      BY <2>1, <3>1, <3>2
  <2>5. PICK r : Sorted(r, D \ {m})
    BY <1>2, <2>4
  <2> DEFINE s == [i \in 1..(n + 1) |-> IF i = 1 THEN m ELSE r[i - 1]]
  <2>6. /\ r \in [1..n -> D \ {m}]
        /\ \A i, j \in 1..n : i < j => r[i] # r[j] /\ r[i].pid <= r[j].pid
    BY <2>4, <2>5 DEF Sorted
  <2>7. \A i \in 1..(n + 1) : i = 1 \/ i - 1 \in 1..n
    OBVIOUS
  <2>8. s \in [1..(n + 1) -> D]
    BY <2>3, <2>6, <2>7
  <2>9. \A i \in 1..(n + 1) : s[i] = IF i = 1 THEN m ELSE r[i - 1]
    OBVIOUS
  <2> HIDE DEF s
  <2>10. ASSUME NEW i \in 1..(n + 1), NEW j \in 1..(n + 1), i < j
         PROVE  s[i] # s[j] /\ s[i].pid <= s[j].pid
    <3>1. j # 1 /\ j - 1 \in 1..n /\ s[j] = r[j - 1] /\ r[j - 1] \in D \ {m}
      BY <2>6, <2>7, <2>9, <2>10
    <3>2. CASE i = 1
      <4>1. s[i] = m
        BY <2>9, <3>2
      <4>2. QED
        BY <2>3, <3>1, <4>1
    <3>3. CASE i # 1
      <4>1. i - 1 \in 1..n /\ s[i] = r[i - 1] /\ i - 1 < j - 1
        BY <2>7, <2>9, <2>10, <3>3
      <4>2. QED
        BY <2>6, <3>1, <4>1
    <3>4. QED
      BY <3>2, <3>3
  <2>11. Sorted(s, D)
    <3>1. DOMAIN s = 1..(n + 1)
      BY <2>8
    <3>2. QED
      BY <2>1, <2>8, <2>10, <3>1 DEF Sorted
  <2>12. QED
    BY <2>11
<1>3. Cardinality(E) \in Nat
  BY FS_CardinalityType
<1>4. Cardinality(E) \in S
  <2> HIDE DEF S
  <2>1. QED
    BY <1>1, <1>2, <1>3, Induct
<1>5. QED
  BY <1>4

\* The restored queue has the stored messages, each once.
LEMMA InOrderLemma ==
    ASSUME NEW E \in SUBSET Entries, IsFiniteSet(E)
    PROVE  /\ InOrderOfPid(E) \in Seq(Packets)
           /\ \E s : /\ Sorted(s, E)
                     /\ InOrderOfPid(E) = [i \in 1..Cardinality(E) |->
                            [body |-> s[i].body, pid |-> s[i].pid, hdr |-> s[i].hdr, sid |-> 0]]
<1> DEFINE Q(r) == \A i, j \in DOMAIN r : i < j => r[i] # r[j] /\ r[i].pid <= r[j].pid
           s == CHOOSE r \in [1..Cardinality(E) -> E] : Q(r)
           q == [i \in 1..Cardinality(E) |->
                    [body |-> s[i].body, pid |-> s[i].pid, hdr |-> s[i].hdr, sid |-> 0]]
<1>1. Cardinality(E) \in Nat
  BY FS_CardinalityType
<1>2. Sorted(s, E)
  <2>1. \E r \in [1..Cardinality(E) -> E] : Q(r)
    BY SortExists DEF Sorted
  <2> HIDE DEF Q
  <2>2. s \in [1..Cardinality(E) -> E] /\ Q(s)
    BY <2>1
  <2> HIDE DEF s
  <2>3. QED
    BY <2>2 DEF Sorted, Q
<1>3. InOrderOfPid(E) = [i \in DOMAIN s |->
          [body |-> s[i].body, pid |-> s[i].pid, hdr |-> s[i].hdr, sid |-> 0]]
  BY DEF InOrderOfPid
<1> HIDE DEF s
<1>4. s \in [1..Cardinality(E) -> E] /\ DOMAIN s = 1..Cardinality(E)
  BY <1>2 DEF Sorted
<1>5. InOrderOfPid(E) = q
  BY <1>3, <1>4
<1>6. \A i \in 1..Cardinality(E) :
          [body |-> s[i].body, pid |-> s[i].pid, hdr |-> s[i].hdr, sid |-> 0] \in Packets
  <2>1. ASSUME NEW e \in Entries
        PROVE  [body |-> e.body, pid |-> e.pid, hdr |-> e.hdr, sid |-> 0] \in Packets
    BY DEF Entries, Packets, Reliables
  <2>2. QED
    BY <1>4, <2>1
<1>7. q \in Seq(Packets)
  BY <1>1, <1>6
<1>8. QED
  BY <1>2, <1>5, <1>7

-----------------------------------------------------------------------------
(***************************************************************************)
(* Sending                                                                 *)
(***************************************************************************)

\* Nothing in what was handed to the store from c to d is about incoming ids.
SameIncoming(c, d) == \A s \in Stores : After(s, d.storeq).in = After(s, c.storeq).in

\* From c to d only the application is told something.
Told(c, d) == \E x \in [Messages -> SUBSET Statuses] : d = [c EXCEPT !.status = x]

LEMMA NotifyLemma ==
    ASSUME NEW c \in Clients, NEW bodies, NEW st \in Statuses
    PROVE  Told(c, Notify(c, bodies, st))
<1> DEFINE x == [m \in Messages |-> IF m \in bodies THEN c.status[m] \cup {st} ELSE c.status[m]]
<1>1. c.status \in [Messages -> SUBSET Statuses]
  BY DEF Clients
<1>2. x \in [Messages -> SUBSET Statuses]
  BY <1>1
<1>3. Notify(c, bodies, st) = [c EXCEPT !.status = x]
  BY DEF Notify
<1>4. QED
  BY <1>2, <1>3 DEF Told

LEMMA StoreLemma ==
    ASSUME NEW c \in Clients, NEW o \in Ops
    PROVE  \E q \in Seq(Ops) :
               /\ Store(c, o) = [c EXCEPT !.storeq = q]
               /\ q = IF o.ids = {} THEN c.storeq ELSE Append(c.storeq, o)
<1>1. c.storeq \in Seq(Ops) /\ c = [c EXCEPT !.storeq = c.storeq]
  BY DEF Clients
<1>2. CASE o.ids = {}
  BY <1>1, <1>2 DEF Store
<1>3. CASE o.ids # {}
  <2>1. Append(c.storeq, o) \in Seq(Ops)
    BY <1>1
  <2>2. QED
    BY <1>3, <2>1 DEF Store
<1>4. QED
  BY <1>2, <1>3

\* Telling the application and handing an outgoing operation to the store.
LEMMA ReportLemma ==
    ASSUME NEW c \in Clients, NEW bodies, NEW st \in Statuses, NEW o \in OutOps
    PROVE  /\ \E x \in [Messages -> SUBSET Statuses], q \in Seq(Ops) :
                  Store(Notify(c, bodies, st), o) = [c EXCEPT !.status = x, !.storeq = q]
           /\ SameIncoming(c, Store(Notify(c, bodies, st), o))
<1> DEFINE n == Notify(c, bodies, st)
<1>1. PICK x \in [Messages -> SUBSET Statuses] : n = [c EXCEPT !.status = x]
  BY NotifyLemma DEF Told
<1>2. n \in Clients /\ n.storeq = c.storeq /\ c.storeq \in Seq(Ops)
  BY <1>1 DEF Clients
<1> HIDE DEF n
<1>3. o \in Ops
  BY DEF Ops
<1>4. PICK q \in Seq(Ops) : /\ Store(n, o) = [n EXCEPT !.storeq = q]
                            /\ q = IF o.ids = {} THEN n.storeq ELSE Append(n.storeq, o)
  BY <1>2, <1>3, StoreLemma
<1>5. Store(n, o) = [c EXCEPT !.status = x, !.storeq = q] /\ Store(n, o).storeq = q
  BY <1>1, <1>2, <1>4 DEF Clients
<1>6. SameIncoming(c, Store(n, o))
  <2>1. SUFFICES ASSUME NEW s \in Stores PROVE After(s, q).in = After(s, c.storeq).in
    BY <1>5 DEF SameIncoming
  <2>2. CASE o.ids = {}
    BY <1>2, <1>4, <2>2
  <2>3. CASE o.ids # {}
    <3>1. q = Append(c.storeq, o)
      BY <1>2, <1>4, <2>3
    <3>2. After(s, c.storeq) \in Stores /\ After(s, q) = Applied(After(s, c.storeq), o)
      BY <1>2, <1>3, <3>1, AfterType, AfterAppend
    <3>3. QED
      BY <1>3, <3>2, AppliedLemma
  <2>4. QED
    BY <2>2, <2>3
<1>7. QED
  BY <1>5, <1>6 DEF n

\* Whether a packet that can be sent is about to be.
Awake(c) == Reachable(c) /\ c.state = "CONNECTED" /\ c.to_send # << >> => c.posted > 0

\* What sending leaves alone, and what it does when a packet goes out.
Sent(c, d) ==
    /\ d \in Clients
    /\ d.state = c.state /\ d.conn = c.conn /\ d.in = c.in /\ d.restored = c.restored
    /\ d.deliver = c.deliver /\ d.expired = c.expired
    /\ SameIncoming(c, d)
    /\ \/ /\ d.out = c.out /\ d.last_in = c.last_in /\ d.unacked = c.unacked
          /\ d.acked = c.acked /\ d.flush = c.flush
       \/ /\ Reachable(c)
          /\ d.out = c.out + 1 /\ d.last_in = c.in
          /\ d.unacked = IF c.in = c.last_in THEN c.unacked ELSE << >>
          /\ d.acked = IF c.in = c.last_in THEN c.acked
                       ELSE c.acked \cup {[sid |-> c.out + 1, id |-> i] : i \in UnackedIds(c)}
          /\ \E f \in Frames : d.flush = <<f>> /\ f.last = c.in

LEMMA SendPacketLemma ==
    ASSUME NEW c \in Clients, NEW p \in Packets, Reachable(c)
    PROVE  /\ Sent(c, SendPacketToWire(c, p))
           /\ SendPacketToWire(c, p).flush # << >>
<1> DEFINE a == IF c.in = c.last_in THEN c.acked
                ELSE c.acked \cup {[sid |-> c.out + 1, id |-> i] : i \in UnackedIds(c)}
           u == IF c.in = c.last_in THEN c.unacked ELSE << >>
           f == [body |-> p.body, hdr |-> p.hdr, last |-> c.in, ids |-> {}]
           d == [c EXCEPT !.out = c.out + 1, !.last_in = c.in, !.unacked = u, !.acked = a]
           r == IF p.pid # 0 THEN Append(c.to_resend, [p EXCEPT !.sid = c.out + 1])
                ELSE c.to_resend
           e == [d EXCEPT !.to_resend = r, !.flush = <<f>>]
<1>1. /\ c.out \in Nat /\ c.in \in Nat /\ c.unacked \in Seq(ServerIds)
      /\ c.acked \in SUBSET [sid : Nat, id : ServerIds] /\ c.to_resend \in Seq(Packets)
      /\ c.out + 1 \in Nat
  BY DEF Clients
<1>2. a \in SUBSET [sid : Nat, id : ServerIds] /\ u \in Seq(ServerIds)
  BY <1>1 DEF UnackedIds
<1>3. f \in Frames
  BY <1>1 DEF Frames, Packets
<1>4. r \in Seq(Packets)
  <2>1. [p EXCEPT !.sid = c.out + 1] \in Packets
    BY <1>1 DEF Packets
  <2>2. QED
    BY <1>1, <2>1
<1>5. MarkAcknowledged([c EXCEPT !.out = c.out + 1]) = d
  <2>1. CASE c.in = c.last_in
    BY <2>1 DEF MarkAcknowledged, Clients
  <2>2. CASE c.in # c.last_in
    BY <2>2 DEF MarkAcknowledged, Clients, UnackedIds
  <2>3. QED
    BY <2>1, <2>2
<1>6. SendPacketToWire(c, p) = e
  <2>1. d.out = c.out + 1 /\ d.to_resend = c.to_resend
    BY DEF Clients
  <2>2. QED
    BY <1>5, <2>1 DEF SendPacketToWire
<1> HIDE DEF a, u, f, r
<1>7. /\ e \in Clients
      /\ e.state = c.state /\ e.conn = c.conn /\ e.in = c.in /\ e.restored = c.restored
      /\ e.deliver = c.deliver /\ e.expired = c.expired /\ e.storeq = c.storeq
      /\ e.out = c.out + 1 /\ e.last_in = c.in /\ e.unacked = u /\ e.acked = a /\ e.flush = <<f>>
  BY <1>1, <1>2, <1>3, <1>4 DEF Clients
<1>8. SameIncoming(c, e)
  BY <1>7 DEF SameIncoming
<1> HIDE DEF e, d
<1>9. f.last = c.in
  BY DEF f
<1>10. Sent(c, e)
  BY <1>3, <1>7, <1>8, <1>9 DEF Sent, a, u
<1>11. QED
  BY <1>6, <1>7, <1>10

\* The head of the queue leaves it.
LEMMA PopLemma ==
    ASSUME NEW c \in Clients, c.to_send # << >>
    PROVE  /\ Head(c.to_send) \in Packets
           /\ \E m \in [Keys -> Nat] : /\ Tail(c.to_send) \in Seq(Packets)
                                      /\ PopMessageForSend(c) = [c EXCEPT !.to_send = Tail(c.to_send),
                                                                          !.keymap = m]
<1>1. c.to_send \in Seq(Packets) /\ c.keymap \in [Keys -> Nat]
  BY DEF Clients
<1>2. Head(c.to_send) \in Packets /\ Tail(c.to_send) \in Seq(Packets)
  BY <1>1
<1> DEFINE key == Key(Head(c.to_send).body)
           m == [k \in Keys |-> IF k = key THEN 0 ELSE c.keymap[k]]
<1>3. m \in [Keys -> Nat]
  BY <1>1
<1>4. PopMessageForSend(c) = [c EXCEPT !.to_send = Tail(c.to_send), !.keymap = m]
  BY DEF PopMessageForSend
<1>5. QED
  BY <1>2, <1>3, <1>4

\* MaybeSendMessage leaves the connection busy, the queue empty, or another
\* MaybeSendMessage posted.
LEMMA MaybeSendLemma ==
    ASSUME NEW c \in Clients
    PROVE  Sent(c, MaybeSendMessage(c)) /\ Awake(MaybeSendMessage(c))
<1> DEFINE d == PopMessageForSend(c)
           p == Head(c.to_send)
<1>1. CASE c.to_send = << >> \/ ~ Reachable(c)
  <2>1. MaybeSendMessage(c) = c
    BY <1>1 DEF MaybeSendMessage
  <2>2. QED
    BY <1>1, <2>1 DEF Sent, Awake, SameIncoming
<1>2. CASE c.to_send # << >> /\ Reachable(c)
  <2>1. PICK m \in [Keys -> Nat] : /\ Tail(c.to_send) \in Seq(Packets)
                                  /\ d = [c EXCEPT !.to_send = Tail(c.to_send), !.keymap = m]
    BY <1>2, PopLemma
  <2>2. p \in Packets
    BY <1>2, PopLemma
  <2>3. /\ d \in Clients /\ d.state = c.state /\ d.conn = c.conn /\ d.in = c.in
        /\ d.restored = c.restored /\ d.deliver = c.deliver /\ d.expired = c.expired
        /\ d.storeq = c.storeq /\ d.out = c.out /\ d.last_in = c.last_in
        /\ d.unacked = c.unacked /\ d.acked = c.acked /\ d.flush = c.flush /\ d.posted = c.posted
    BY <2>1, ZenonT(40) DEF Clients
  <2> HIDE DEF d, p
  <2>4. Reachable(d)
    BY <1>2, <2>3 DEF Reachable
  <2>5. CASE ~ HasTTLExpired(c, p.body)
    <3>1. MaybeSendMessage(c) = SendPacketToWire(d, p)
      BY <1>2, <2>5 DEF MaybeSendMessage, d, p
    <3>2. Sent(d, SendPacketToWire(d, p)) /\ SendPacketToWire(d, p).flush # << >>
      BY <2>2, <2>3, <2>4, SendPacketLemma
    <3>3. Sent(c, SendPacketToWire(d, p))
      BY <2>3, <3>2 DEF Sent, SameIncoming, UnackedIds, Reachable
    <3>4. QED
      BY <3>1, <3>2, <3>3 DEF Awake, Reachable
  <2>6. CASE HasTTLExpired(c, p.body)
    <3> DEFINE o == RemoveOutgoing({p.pid})
               e == Store(Notify(d, {p.body}, "TTL_EXCEEDED"), o)
    <3>1. o \in OutOps /\ "TTL_EXCEEDED" \in Statuses
      BY <2>2 DEF OutOps, RemoveOps, RemoveOutgoing, Op, Statuses, Packets
    <3>2. /\ \E x \in [Messages -> SUBSET Statuses], q \in Seq(Ops) :
                 e = [d EXCEPT !.status = x, !.storeq = q]
          /\ SameIncoming(d, e)
      <4> HIDE DEF o
      <4>1. QED
        BY <2>3, <3>1, ReportLemma
    <3>3. PICK x \in [Messages -> SUBSET Statuses], q \in Seq(Ops) :
              e = [d EXCEPT !.status = x, !.storeq = q]
      BY <3>2
    <3>4. MaybeSendMessage(c) = [e EXCEPT !.posted = e.posted + 1]
      BY <1>2, <2>6 DEF MaybeSendMessage, d, p
    <3> HIDE DEF e
    <3> DEFINE r == [e EXCEPT !.posted = e.posted + 1]
    <3>5. /\ e \in Clients /\ e.posted \in Nat
          /\ e.state = d.state /\ e.conn = d.conn /\ e.in = d.in
          /\ e.restored = d.restored /\ e.deliver = d.deliver /\ e.expired = d.expired
          /\ e.out = d.out /\ e.last_in = d.last_in
          /\ e.unacked = d.unacked /\ e.acked = d.acked /\ e.flush = d.flush
      BY <2>3, <3>3 DEF Clients
    <3>6. e.posted + 1 \in Nat /\ e.posted + 1 > 0
      BY <3>5
    <3>7. /\ r \in Clients /\ r.posted > 0 /\ r.storeq = e.storeq
          /\ r.state = d.state /\ r.conn = d.conn /\ r.in = d.in
          /\ r.restored = d.restored /\ r.deliver = d.deliver /\ r.expired = d.expired
          /\ r.out = d.out /\ r.last_in = d.last_in
          /\ r.unacked = d.unacked /\ r.acked = d.acked /\ r.flush = d.flush
      BY <3>5, <3>6 DEF Clients
    <3>8. SameIncoming(c, r)
      BY <2>3, <3>2, <3>7 DEF SameIncoming
    <3> HIDE DEF r
    <3>9. Sent(c, r) /\ Awake(r)
      BY <2>3, <3>7, <3>8 DEF Sent, Awake
    <3>10. QED
      BY <3>4, <3>9 DEF r
  <2>7. QED
    BY <2>5, <2>6
<1>3. QED
  BY <1>1, <1>2

\* A packet joins the queue.
LEMMA EnqueueLemma ==
    ASSUME NEW c \in Clients, NEW body \in Messages \cup Control, NEW pid \in Nat,
           pid # 0 <=> body \in Reliables
    PROVE  Sent(c, Enqueue(c, body, pid)) /\ Awake(Enqueue(c, body, pid))
<1> DEFINE p == [body |-> body, pid |-> pid, hdr |-> pid, sid |-> 0]
           q == Append(c.to_send, p)
           d == [c EXCEPT !.to_send = q]
           n == Notify(d, {body}, "QUEUED")
<1>1. p \in Packets
  BY DEF Packets
<1>2. q \in Seq(Packets)
  BY <1>1 DEF Clients
<1> HIDE DEF q
<1>3. d \in Clients
  BY <1>2 DEF Clients
<1>4. Enqueue(c, body, pid) = MaybeSendMessage(n)
  BY DEF Enqueue, q
<1>5. PICK x \in [Messages -> SUBSET Statuses] : n = [d EXCEPT !.status = x]
  <2>1. "QUEUED" \in Statuses
    BY DEF Statuses
  <2> HIDE DEF d
  <2>2. Told(d, n)
    BY <1>3, <2>1, NotifyLemma
  <2> HIDE DEF n
  <2>3. QED
    BY <2>2 DEF Told
<1> HIDE DEF n
<1>6. /\ n \in Clients /\ n.state = c.state /\ n.conn = c.conn /\ n.in = c.in
      /\ n.restored = c.restored /\ n.deliver = c.deliver /\ n.expired = c.expired
      /\ n.storeq = c.storeq /\ n.out = c.out /\ n.last_in = c.last_in
      /\ n.unacked = c.unacked /\ n.acked = c.acked /\ n.flush = c.flush
  BY <1>2, <1>3, <1>5 DEF Clients
<1>7. Sent(n, MaybeSendMessage(n)) /\ Awake(MaybeSendMessage(n))
  BY <1>6, MaybeSendLemma
<1>8. Sent(c, MaybeSendMessage(n))
  BY <1>6, <1>7 DEF Sent, SameIncoming, UnackedIds, Reachable
<1>9. QED
  BY <1>4, <1>7, <1>8

\* A message takes the place of a queued one.
LEMMA CollapseLemma ==
    ASSUME NEW c \in Clients, NEW body \in Reliables, Key(body) \in Keys, c.keymap[Key(body)] # 0
    PROVE  Sent(c, Collapse(c, body)) /\ (Awake(c) => Awake(Collapse(c, body)))
<1> DEFINE pid == c.keymap[Key(body)]
           new(p) == IF p.pid = pid THEN [p EXCEPT !.body = body, !.hdr = pid] ELSE p
           q == [i \in 1..Len(c.to_send) |-> new(c.to_send[i])]
           d == [c EXCEPT !.to_send = q]
           o == Op("overwrite", {pid}, body, 0)
<1>1. c.to_send \in Seq(Packets) /\ pid \in Nat \ {0} /\ c.storeq \in Seq(Ops)
  BY DEF Clients
<1> HIDE DEF pid
<1>2. \A p \in Packets : new(p) \in Packets
  BY <1>1 DEF Packets, Reliables
<1>3. q \in Seq(Packets) /\ Len(q) = Len(c.to_send)
  <2>1. \A i \in 1..Len(c.to_send) : c.to_send[i] \in Packets
    BY <1>1
  <2> HIDE DEF new
  <2>2. QED
    BY <1>1, <1>2, <2>1
<1>4. c.to_send = << >> <=> q = << >>
  <2> HIDE DEF q
  <2>1. Len(<< >>) = 0
    OBVIOUS
  <2>2. QED
    BY <1>1, <1>3, <2>1
<1> HIDE DEF q, new
<1>5. d \in Clients
  BY <1>3 DEF Clients
<1>6. o \in WriteOps /\ o \in OutOps /\ o \in Ops
  BY <1>1 DEF WriteOps, OutOps, Ops, Op
<1>7. o.ids # {}
  BY DEF Op
<1>8. Collapse(c, body) = Store(d, o)
  BY DEF Collapse, q, new, pid
<1> HIDE DEF o
<1>9. Store(d, o) = [d EXCEPT !.storeq = Append(d.storeq, o)]
  BY <1>7 DEF Store
<1> DEFINE e == [c EXCEPT !.to_send = q, !.storeq = Append(c.storeq, o)]
<1>10. Collapse(c, body) = e
  BY <1>8, <1>9 DEF Clients
<1>11. Append(c.storeq, o) \in Seq(Ops)
  BY <1>1, <1>6
<1>12. /\ e \in Clients /\ e.state = c.state /\ e.conn = c.conn /\ e.in = c.in
       /\ e.restored = c.restored /\ e.deliver = c.deliver /\ e.expired = c.expired
       /\ e.storeq = Append(c.storeq, o) /\ e.out = c.out /\ e.last_in = c.last_in
       /\ e.unacked = c.unacked /\ e.acked = c.acked /\ e.flush = c.flush
       /\ e.posted = c.posted /\ e.to_send = q
  BY <1>3, <1>11 DEF Clients
<1> HIDE DEF e, d
<1>13. SameIncoming(c, e)
  <2>1. SUFFICES ASSUME NEW s \in Stores PROVE After(s, Append(c.storeq, o)).in = After(s, c.storeq).in
    BY <1>12 DEF SameIncoming
  <2>2. After(s, Append(c.storeq, o)) = Applied(After(s, c.storeq), o) /\ After(s, c.storeq) \in Stores
    BY <1>1, <1>6, AfterAppend, AfterType
  <2>3. QED
    BY <1>6, <2>2, AppliedLemma
<1>14. QED
  BY <1>4, <1>10, <1>12, <1>13 DEF Sent, Awake, Reachable

\* A message with a lifetime.
LEMMA SendReliableLemma ==
    ASSUME NEW c \in Clients, NEW body \in Reliables, NEW accepted \in BOOLEAN
    PROVE  /\ Sent(c, SendReliable(c, body, accepted))
           /\ Awake(c) => Awake(SendReliable(c, body, accepted))
<1> DEFINE key == Key(body)
           pid == c.ticks + 1
           d == [c EXCEPT !.ticks = pid]
<1>1. c.ticks \in Nat /\ pid \in Nat \ {0} /\ body \in Messages /\ key \in Keys \cup {NoKey}
  BY ClientAssumption DEF Clients, Reliables, Key
<1>2. /\ d \in Clients /\ d.state = c.state /\ d.conn = c.conn /\ d.in = c.in
      /\ d.restored = c.restored /\ d.deliver = c.deliver /\ d.expired = c.expired
      /\ d.storeq = c.storeq /\ d.out = c.out /\ d.last_in = c.last_in
      /\ d.unacked = c.unacked /\ d.acked = c.acked /\ d.flush = c.flush
      /\ d.posted = c.posted /\ d.to_send = c.to_send /\ d.keymap = c.keymap
  BY <1>1 DEF Clients
<1>3. CASE key # NoKey /\ c.keymap[key] # 0
  <2>1. SendReliable(c, body, accepted) = Collapse(c, body)
    BY <1>3 DEF SendReliable
  <2>2. QED
    BY <1>1, <1>3, <2>1, CollapseLemma
<1>4. CASE ~ (key # NoKey /\ c.keymap[key] # 0) /\ ~ accepted
  <2> DEFINE n == Notify(d, {body}, "APP_QUEUE_SIZE_LIMIT_REACHED")
  <2>1. SendReliable(c, body, accepted) = n
    BY <1>4 DEF SendReliable
  <2> HIDE DEF d
  <2>2. PICK x \in [Messages -> SUBSET Statuses] : n = [d EXCEPT !.status = x]
    <3>1. "APP_QUEUE_SIZE_LIMIT_REACHED" \in Statuses
      BY DEF Statuses
    <3>2. QED
      BY <1>2, <3>1, NotifyLemma DEF Told
  <2> HIDE DEF n
  <2>3. /\ n \in Clients /\ n.state = c.state /\ n.conn = c.conn /\ n.in = c.in
        /\ n.restored = c.restored /\ n.deliver = c.deliver /\ n.expired = c.expired
        /\ n.storeq = c.storeq /\ n.out = c.out /\ n.last_in = c.last_in
        /\ n.unacked = c.unacked /\ n.acked = c.acked /\ n.flush = c.flush
        /\ n.posted = c.posted /\ n.to_send = c.to_send
    BY <1>2, <2>2 DEF Clients
  <2>4. QED
    BY <2>1, <2>3 DEF Sent, SameIncoming, Awake, Reachable
<1>5. CASE ~ (key # NoKey /\ c.keymap[key] # 0) /\ accepted
  <2> DEFINE o == Op("addOut", {pid}, body, pid)
             e == Store(d, o)
             m == [k \in Keys |-> IF k = key THEN pid ELSE e.keymap[k]]
             g == [e EXCEPT !.keymap = m]
  <2>1. SendReliable(c, body, accepted) = Enqueue(g, body, pid)
    BY <1>5 DEF SendReliable
  <2>2. o \in WriteOps /\ o \in OutOps /\ o \in Ops /\ o.ids # {}
    BY <1>1 DEF WriteOps, OutOps, Ops, Op
  <2> HIDE DEF d, o
  <2>3. e = [d EXCEPT !.storeq = Append(d.storeq, o)] /\ Append(d.storeq, o) \in Seq(Ops)
    BY <1>2, <2>2 DEF Store, Clients
  <2> HIDE DEF e
  <2>4. e \in Clients /\ e.keymap = d.keymap /\ d.keymap \in [Keys -> Nat]
    BY <1>2, <2>3 DEF Clients
  <2>5. m \in [Keys -> Nat]
    BY <1>1, <2>4
  <2> HIDE DEF m, pid
  <2>6. /\ g \in Clients /\ g.state = c.state /\ g.conn = c.conn /\ g.in = c.in
        /\ g.restored = c.restored /\ g.deliver = c.deliver /\ g.expired = c.expired
        /\ g.storeq = Append(c.storeq, o) /\ g.out = c.out /\ g.last_in = c.last_in
        /\ g.unacked = c.unacked /\ g.acked = c.acked /\ g.flush = c.flush
    BY <1>2, <2>3, <2>4, <2>5, ZenonT(30) DEF Clients
  <2> HIDE DEF g
  <2>7. SameIncoming(c, g)
    <3>1. SUFFICES ASSUME NEW s \in Stores
                   PROVE  After(s, Append(c.storeq, o)).in = After(s, c.storeq).in
      BY <2>6 DEF SameIncoming
    <3>2. c.storeq \in Seq(Ops)
      BY DEF Clients
    <3>3. /\ After(s, Append(c.storeq, o)) = Applied(After(s, c.storeq), o)
          /\ After(s, c.storeq) \in Stores
      BY <2>2, <3>2, AfterAppend, AfterType
    <3>4. QED
      BY <2>2, <3>3, AppliedLemma
  <2>8. Sent(g, Enqueue(g, body, pid)) /\ Awake(Enqueue(g, body, pid))
    BY <1>1, <2>6, EnqueueLemma
  <2>9. Sent(c, Enqueue(g, body, pid))
    BY <2>6, <2>7, <2>8 DEF Sent, SameIncoming, UnackedIds, Reachable
  <2>10. QED
    BY <2>1, <2>8, <2>9
<1>6. QED
  BY <1>3, <1>4, <1>5

LEMMA SendMessageLemma ==
    ASSUME NEW c \in Clients, NEW body \in Messages \cup Control, NEW accepted \in BOOLEAN
    PROVE  /\ Sent(c, SendMessage(c, body, accepted))
           /\ Awake(c) => Awake(SendMessage(c, body, accepted))
<1>1. ASSUME NEW st \in Statuses
      PROVE  /\ Sent(c, Notify(c, {body}, st))
             /\ Awake(c) => Awake(Notify(c, {body}, st))
  <2> DEFINE n == Notify(c, {body}, st)
  <2>1. PICK x \in [Messages -> SUBSET Statuses] : n = [c EXCEPT !.status = x]
    BY NotifyLemma DEF Told
  <2> HIDE DEF n
  <2>2. /\ n \in Clients /\ n.state = c.state /\ n.conn = c.conn /\ n.in = c.in
        /\ n.restored = c.restored /\ n.deliver = c.deliver /\ n.expired = c.expired
        /\ n.storeq = c.storeq /\ n.out = c.out /\ n.last_in = c.last_in
        /\ n.unacked = c.unacked /\ n.acked = c.acked /\ n.flush = c.flush
        /\ n.posted = c.posted /\ n.to_send = c.to_send
    BY <2>1 DEF Clients
  <2>3. Sent(c, n) /\ (Awake(c) => Awake(n))
    BY <2>2 DEF Sent, SameIncoming, Awake, Reachable
  <2>4. QED
    BY <2>3 DEF n
<1>2. /\ "QUEUE_SIZE_LIMIT_REACHED" \in Statuses /\ "MESSAGE_TOO_LARGE" \in Statuses
      /\ "NO_CONNECTION_ON_ZERO_TTL" \in Statuses
  BY DEF Statuses
<1>3. CASE Len(c.to_send) > MaxSendQueue
  BY <1>1, <1>2, <1>3 DEF SendMessage
<1>4. CASE ~ (Len(c.to_send) > MaxSendQueue) /\ body \in Oversized
  BY <1>1, <1>2, <1>4 DEF SendMessage
<1>5. CASE ~ (Len(c.to_send) > MaxSendQueue) /\ body \notin Oversized /\ IsReliable(body)
  <2>1. SendMessage(c, body, accepted) = SendReliable(c, body, accepted)
    BY <1>5 DEF SendMessage
  <2>2. body \in Reliables
    BY <1>5 DEF IsReliable, Reliables
  <2>3. QED
    BY <2>1, <2>2, SendReliableLemma
<1>6. CASE /\ ~ (Len(c.to_send) > MaxSendQueue) /\ body \notin Oversized
           /\ ~ IsReliable(body) /\ ~ Reachable(c)
  BY <1>1, <1>2, <1>6 DEF SendMessage
<1>7. CASE /\ ~ (Len(c.to_send) > MaxSendQueue) /\ body \notin Oversized
           /\ ~ IsReliable(body) /\ Reachable(c)
  <2>1. SendMessage(c, body, accepted) = Enqueue(c, body, 0)
    BY <1>7 DEF SendMessage
  <2>2. body \notin Reliables
    BY <1>7 DEF IsReliable, Reliables
  <2>3. QED
    BY <2>1, <2>2, EnqueueLemma
<1>8. QED
  BY <1>3, <1>4, <1>5, <1>6, <1>7

-----------------------------------------------------------------------------
(***************************************************************************)
(* Connecting                                                              *)
(***************************************************************************)

\* What starting over leaves: a new stream, and everything that was tracked
\* acknowledged by the login request.
Restarted(c, d) ==
    /\ d \in Clients
    /\ d.state = "CONNECTING" /\ d.conn = "handshake" /\ d.flush = << >>
    /\ d.in = 0 /\ d.out = 1 /\ d.last_in = 0 /\ d.unacked = << >> /\ d.restored = {}
    /\ d.acked = {[sid |-> 1, id |-> i] : i \in TrackedIds(c)}
    /\ d.deliver = c.deliver /\ d.expired = c.expired
    /\ SameIncoming(c, d)

\* The ids a client tracks are ids of server messages.
LEMMA TrackedType ==
    ASSUME NEW c \in Clients
    PROVE  TrackedIds(c) \subseteq ServerIds
<1>1. /\ c.unacked \in Seq(ServerIds) /\ c.acked \in SUBSET [sid : Nat, id : ServerIds]
      /\ c.restored \in SUBSET ServerIds
  BY DEF Clients
<1>2. UnackedIds(c) \subseteq ServerIds
  BY <1>1 DEF UnackedIds
<1>3. AckedIds(c) \subseteq ServerIds
  BY <1>1 DEF AckedIds
<1>4. QED
  BY <1>1, <1>2, <1>3 DEF TrackedIds

LEMMA StartOverLemma ==
    ASSUME NEW c \in Clients, NEW queue \in Seq(Packets)
    PROVE  Restarted(c, StartOver(c, queue))
<1> DEFINE worth == {b \in Bodies(queue) : IsReliable(b) /\ ~ HasTTLExpired(c, b)}
           dropped == {i \in 1..Len(queue) : queue[i].body \notin worth}
           kept == WithBody(queue, worth)
           m == [k \in Keys |-> IF \E b \in Bodies(queue) : Key(b) = k THEN 0 ELSE c.keymap[k]]
           a == {[sid |-> 1, id |-> i] : i \in TrackedIds(c)}
           d == [c EXCEPT !.in = 0, !.out = 1, !.last_in = 0, !.unacked = << >>, !.acked = a,
                          !.restored = {}, !.to_resend = << >>, !.to_send = kept, !.keymap = m,
                          !.state = "CONNECTING", !.conn = "handshake", !.flush = << >>]
           told == {queue[i].body : i \in dropped}
           o == RemoveOutgoing({queue[i].pid : i \in dropped} \ {0})
           e == Store(Notify(d, told, "TTL_EXCEEDED"), o)
<1>1. StartOver(c, queue) = e
  BY DEF StartOver
<1>2. kept \in Seq(Packets)
  BY WithBodyLemma
<1>3. m \in [Keys -> Nat]
  BY DEF Clients
<1>4. a \in SUBSET [sid : Nat, id : ServerIds]
  BY TrackedType
<1>5. o \in OutOps /\ "TTL_EXCEEDED" \in Statuses
  <2>1. \A i \in 1..Len(queue) : queue[i].pid \in Nat
    BY DEF Packets
  <2>2. QED
    BY <2>1 DEF OutOps, RemoveOps, RemoveOutgoing, Op, Statuses
<1> HIDE DEF kept, m, a, o, told, dropped, worth
<1>6. /\ d \in Clients /\ d.storeq = c.storeq /\ d.deliver = c.deliver /\ d.expired = c.expired
      /\ d.in = 0 /\ d.out = 1 /\ d.last_in = 0 /\ d.unacked = << >> /\ d.acked = a
      /\ d.restored = {} /\ d.state = "CONNECTING" /\ d.conn = "handshake" /\ d.flush = << >>
  <2> DEFINE d1 == [c EXCEPT !.in = 0, !.out = 1, !.last_in = 0, !.unacked = << >>, !.acked = a,
                             !.restored = {}]
             d2 == [d1 EXCEPT !.to_resend = << >>, !.to_send = kept, !.keymap = m,
                              !.state = "CONNECTING", !.conn = "handshake", !.flush = << >>]
  <2>1. << >> \in Seq(ServerIds) /\ << >> \in Seq(Packets)
    OBVIOUS
  <2>2. /\ d1 \in Clients /\ d1.storeq = c.storeq /\ d1.deliver = c.deliver
        /\ d1.expired = c.expired /\ d1.in = 0 /\ d1.out = 1 /\ d1.last_in = 0
        /\ d1.unacked = << >> /\ d1.acked = a /\ d1.restored = {}
    BY <1>4, <2>1 DEF Clients
  <2>3. d = d2
    BY DEF Clients
  <2> HIDE DEF d, d1
  <2>4. /\ d2 \in Clients /\ d2.storeq = d1.storeq /\ d2.deliver = d1.deliver
        /\ d2.expired = d1.expired /\ d2.in = d1.in /\ d2.out = d1.out /\ d2.last_in = d1.last_in
        /\ d2.unacked = d1.unacked /\ d2.acked = d1.acked /\ d2.restored = d1.restored
        /\ d2.state = "CONNECTING" /\ d2.conn = "handshake" /\ d2.flush = << >>
    BY <1>2, <1>3, <2>1, <2>2 DEF Clients
  <2>5. QED
    BY <2>2, <2>3, <2>4
<1> HIDE DEF d
<1>7. /\ \E x \in [Messages -> SUBSET Statuses], q \in Seq(Ops) :
             e = [d EXCEPT !.status = x, !.storeq = q]
      /\ SameIncoming(d, e)
  BY <1>5, <1>6, ReportLemma
<1>8. PICK x \in [Messages -> SUBSET Statuses], q \in Seq(Ops) :
          e = [d EXCEPT !.status = x, !.storeq = q]
  BY <1>7
<1> HIDE DEF e
<1>9. /\ e \in Clients /\ e.deliver = d.deliver /\ e.expired = d.expired
      /\ e.in = d.in /\ e.out = d.out /\ e.last_in = d.last_in /\ e.unacked = d.unacked
      /\ e.acked = d.acked /\ e.restored = d.restored /\ e.state = d.state
      /\ e.conn = d.conn /\ e.flush = d.flush
  BY <1>6, <1>8 DEF Clients
<1>10. SameIncoming(c, e)
  BY <1>6, <1>7 DEF SameIncoming
<1>11. Restarted(c, e)
  BY <1>6, <1>9, <1>10 DEF Restarted, a
<1>12. QED
  BY <1>1, <1>11

\* Of finitely many stored messages one has the greatest persistent id.
LEMMA NewestExists ==
    ASSUME NEW E \in SUBSET Entries, IsFiniteSet(E), E # {}
    PROVE  \E x \in E : \A y \in E : y.pid <= x.pid
<1> DEFINE Q(D) == D # {} => \E x \in D : \A y \in D : y.pid <= x.pid
           S == {n \in Nat : \A D \in SUBSET Entries :
                     IsFiniteSet(D) /\ Cardinality(D) = n => Q(D)}
<1>1. 0 \in S
  <2>1. \A D \in SUBSET Entries : IsFiniteSet(D) /\ Cardinality(D) = 0 => D = {}
    BY FS_EmptySet
  <2>2. QED
    BY <2>1
<1>2. ASSUME NEW n \in Nat, n \in S PROVE n + 1 \in S
  <2>1. SUFFICES ASSUME NEW D \in SUBSET Entries, IsFiniteSet(D), Cardinality(D) = n + 1, D # {}
                 PROVE  \E x \in D : \A y \in D : y.pid <= x.pid
    OBVIOUS
  <2>2. PICK m \in D : TRUE
    BY <2>1
  <2>3. /\ IsFiniteSet(D \ {m})
        /\ Cardinality(D \ {m}) = IF m \in D THEN Cardinality(D) - 1 ELSE Cardinality(D)
    BY <2>1, FS_RemoveElement
  <2>4. Cardinality(D \ {m}) = n
    BY <2>1, <2>2, <2>3
  <2>5. Q(D \ {m})
    <3> HIDE DEF Q
    <3>1. QED
      BY <1>2, <2>3, <2>4
  <2>6. \A y \in D : y.pid \in Nat
    BY DEF Entries
  <2>7. CASE D \ {m} = {}
    <3>1. \A y \in D : y = m
      BY <2>7
    <3>2. QED
      BY <2>2, <2>6, <3>1
  <2>8. CASE D \ {m} # {}
    <3>1. PICK x \in D \ {m} : \A y \in D \ {m} : y.pid <= x.pid
      BY <2>5, <2>8
    <3>2. CASE x.pid <= m.pid
      <4>1. \A y \in D : y.pid <= m.pid
        BY <2>2, <2>6, <3>1, <3>2
      <4>2. QED
        BY <2>2, <4>1
    <3>3. CASE ~ (x.pid <= m.pid)
      <4>1. \A y \in D : y.pid <= x.pid
        BY <2>2, <2>6, <3>1, <3>3
      <4>2. QED
        BY <3>1, <4>1
    <3>4. QED
      BY <3>2, <3>3
  <2>9. QED
    BY <2>7, <2>8
<1>3. Cardinality(E) \in Nat
  BY FS_CardinalityType
<1>4. Cardinality(E) \in S
  <2> HIDE DEF S
  <2>1. QED
    BY <1>1, <1>2, <1>3, Induct
<1>5. QED
  BY <1>4

\* The packet that collapse_key_map_ has for a key after a restart.
LEMMA NewestLemma ==
    ASSUME NEW E \in SUBSET Entries, IsFiniteSet(E), NEW key
    PROVE  /\ NewestWithKey(E, key) \in Nat
           /\ NewestWithKey(E, key) # 0 =>
                  \E e \in E : Key(e.body) = key /\ e.pid = NewestWithKey(E, key)
<1> DEFINE D == {x \in E : Key(x.body) = key}
           same == {e.pid : e \in D}
<1>1. D \in SUBSET E
  OBVIOUS
<1>2. IsFiniteSet(D)
  <2> HIDE DEF D
  <2>1. QED
    BY <1>1, FS_Subset
<1>3. CASE same = {}
  <2>1. NewestWithKey(E, key) = 0
    BY <1>3 DEF NewestWithKey
  <2>2. QED
    BY <2>1
<1>4. CASE same # {}
  <2>1. D # {} /\ D \in SUBSET Entries
    BY <1>1, <1>4
  <2>2. PICK x \in D : \A y \in D : y.pid <= x.pid
    <3> HIDE DEF D
    <3>1. QED
      BY <1>2, <2>1, NewestExists
  <2>3. \E p \in same : \A q \in same : q <= p
    BY <2>2
  <2>4. NewestWithKey(E, key) = CHOOSE p \in same : \A q \in same : q <= p
    BY <1>4 DEF NewestWithKey
  <2> HIDE DEF same
  <2>5. NewestWithKey(E, key) \in same
    BY <2>3, <2>4
  <2>6. PICK e \in D : e.pid = NewestWithKey(E, key)
    BY <2>5 DEF same
  <2>7. e \in E /\ Key(e.body) = key /\ e.pid \in Nat
    BY DEF Entries
  <2>8. QED
    BY <2>6, <2>7
<1>5. QED
  BY <1>3, <1>4

\* A new process: nothing is connected, and the stored ids are tracked.
Started(store, d) ==
    /\ d \in Clients /\ d.conn = "down" /\ d.flush = << >> /\ d.deliver = << >>
    /\ d.in = 0 /\ d.unacked = << >> /\ d.acked = {} /\ d.restored = store.in
    /\ \A s \in Stores : After(s, d.storeq).in = s.in

LEMMA InitializeLemma ==
    ASSUME NEW store \in Stores, NEW ticks \in Nat, NEW expired \in SUBSET Messages,
           NEW status \in [Messages -> SUBSET Statuses]
    PROVE  Started(store, Initialize(store, ticks, expired, status))
<1> DEFINE E == Unexpired(store, expired)
           old == store.out \ E
           c == [state |-> "CONNECTING",
                 to_send |-> InOrderOfPid(E), to_resend |-> << >>,
                 keymap |-> [k \in Keys |-> NewestWithKey(E, k)],
                 out |-> 1, in |-> 0, last_in |-> 0,
                 unacked |-> << >>, acked |-> {}, restored |-> store.in,
                 conn |-> "down", flush |-> << >>,
                 posted |-> 0, deliver |-> << >>, storeq |-> << >>,
                 ticks |-> ticks, expired |-> expired, status |-> status]
           o == RemoveOutgoing({e.pid : e \in old})
           d == Store(Notify(c, {e.body : e \in old}, "TTL_EXCEEDED"), o)
<1>1. Initialize(store, ticks, expired, status) = d
  BY DEF Initialize, Restore
<1>2. store.out \in SUBSET Entries /\ IsFiniteSet(store.out) /\ store.in \in SUBSET ServerIds
  BY DEF Stores
<1>3. E \in SUBSET store.out
  BY DEF Unexpired
<1> HIDE DEF E
<1>4. E \in SUBSET Entries /\ IsFiniteSet(E)
  BY <1>2, <1>3, FS_Subset
<1>5. InOrderOfPid(E) \in Seq(Packets)
  BY <1>4, InOrderLemma
<1>6. [k \in Keys |-> NewestWithKey(E, k)] \in [Keys -> Nat]
  BY <1>4, NewestLemma
<1>7. /\ c \in Clients /\ c.conn = "down" /\ c.flush = << >> /\ c.unacked = << >>
      /\ c.acked = {} /\ c.restored = store.in /\ c.storeq = << >> /\ c.deliver = << >>
      /\ c.in = 0
  BY <1>2, <1>5, <1>6 DEF Clients
<1>8. o \in OutOps /\ "TTL_EXCEEDED" \in Statuses
  <2>1. {e.pid : e \in old} \subseteq Nat
    BY <1>2 DEF Entries
  <2>2. QED
    BY <2>1 DEF OutOps, RemoveOps, RemoveOutgoing, Op, Statuses
<1> HIDE DEF c, o, old
<1>9. /\ \E x \in [Messages -> SUBSET Statuses], q \in Seq(Ops) :
             d = [c EXCEPT !.status = x, !.storeq = q]
      /\ SameIncoming(c, d)
  BY <1>7, <1>8, ReportLemma
<1>10. PICK x \in [Messages -> SUBSET Statuses], q \in Seq(Ops) :
          d = [c EXCEPT !.status = x, !.storeq = q]
  BY <1>9
<1> HIDE DEF d
<1>11. /\ d \in Clients /\ d.conn = c.conn /\ d.flush = c.flush /\ d.unacked = c.unacked
       /\ d.acked = c.acked /\ d.restored = c.restored /\ d.deliver = c.deliver
       /\ d.in = c.in
  BY <1>7, <1>10 DEF Clients
<1>12. \A s \in Stores : After(s, d.storeq).in = s.in
  BY <1>7, <1>9, AfterNone DEF SameIncoming
<1>13. QED
  BY <1>1, <1>7, <1>11, <1>12 DEF Started

-----------------------------------------------------------------------------
(***************************************************************************)
(* Receiving                                                               *)
(***************************************************************************)

\* A part of a sequence, and two parts put together.
LEMMA PartLemma ==
    ASSUME NEW P, NEW s \in Seq(P), NEW n \in 0..Len(s)
    PROVE  SubSeq(s, 1, n) \in Seq(P) /\ SubSeq(s, n + 1, Len(s)) \in Seq(P)
<1>1. SubSeq(s, 1, n) = [i \in 1..n |-> s[i]]
  BY DEF SubSeq
<1>2. SubSeq(s, n + 1, Len(s)) = [i \in 1..(Len(s) - n) |-> s[i + n]]
  BY DEF SubSeq
<1>3. \A i \in 1..n : s[i] \in P
  OBVIOUS
<1>4. \A i \in 1..(Len(s) - n) : s[i + n] \in P
  OBVIOUS
<1>5. n \in Nat /\ Len(s) - n \in Nat
  OBVIOUS
<1>6. QED
  BY <1>1, <1>2, <1>3, <1>4, <1>5

\* The ids whose acknowledgement has a stream id up to last.
ConfirmedIds(c, last) == {a.id : a \in {x \in c.acked : x.sid <= last}}

\* From c to d these ids are confirmed, in the client and in the store.
Confirms(c, d, last) ==
    /\ d \in Clients
    /\ d.state = c.state /\ d.conn = c.conn /\ d.in = c.in /\ d.out = c.out
    /\ d.last_in = c.last_in /\ d.restored = c.restored /\ d.deliver = c.deliver
    /\ d.expired = c.expired /\ d.flush = c.flush /\ d.unacked = c.unacked
    /\ d.acked = {a \in c.acked : ~ (a.sid <= last)}
    /\ \A s \in Stores :
           After(s, d.storeq).in = After(s, c.storeq).in \ ConfirmedIds(c, last)

LEMMA ConfirmLemma ==
    ASSUME NEW c \in Clients, NEW last
    PROVE  LET d == HandleServerConfirmedReceipt(c, last)
           IN  Confirms(c, d, last) /\ d.posted = c.posted /\ d.to_send = c.to_send
<1> DEFINE confirmed == {x \in c.acked : x.sid <= last}
           a == c.acked \ confirmed
           o == Op("removeIn", ConfirmedIds(c, last), NoKey, 0)
           d == [c EXCEPT !.acked = a]
           e == Store(d, o)
<1>1. HandleServerConfirmedReceipt(c, last) = e
  BY DEF HandleServerConfirmedReceipt, ConfirmedIds
<1>2. /\ c.acked \in SUBSET [sid : Nat, id : ServerIds] /\ c.storeq \in Seq(Ops)
      /\ a \in SUBSET [sid : Nat, id : ServerIds]
      /\ a = {x \in c.acked : ~ (x.sid <= last)}
  BY DEF Clients
<1>3. ConfirmedIds(c, last) \subseteq ServerIds
  BY <1>2 DEF ConfirmedIds
<1>4. /\ o \in InOps /\ o \in Ops /\ o.kind = "removeIn" /\ o.ids = ConfirmedIds(c, last)
  BY <1>3 DEF InOps, Ops, Op
<1> HIDE DEF a, o
<1>5. /\ d \in Clients /\ d.state = c.state /\ d.conn = c.conn /\ d.in = c.in /\ d.out = c.out
      /\ d.last_in = c.last_in /\ d.restored = c.restored /\ d.deliver = c.deliver
      /\ d.expired = c.expired /\ d.flush = c.flush /\ d.unacked = c.unacked
      /\ d.acked = a /\ d.storeq = c.storeq /\ d.posted = c.posted /\ d.to_send = c.to_send
  BY <1>2 DEF Clients
<1> HIDE DEF d
<1>6. PICK q \in Seq(Ops) : /\ e = [d EXCEPT !.storeq = q]
                            /\ q = IF o.ids = {} THEN d.storeq ELSE Append(d.storeq, o)
  BY <1>4, <1>5, StoreLemma
<1> HIDE DEF e
<1>7. /\ e \in Clients /\ e.state = c.state /\ e.conn = c.conn /\ e.in = c.in /\ e.out = c.out
      /\ e.last_in = c.last_in /\ e.restored = c.restored /\ e.deliver = c.deliver
      /\ e.expired = c.expired /\ e.flush = c.flush /\ e.unacked = c.unacked
      /\ e.acked = a /\ e.storeq = q /\ e.posted = c.posted /\ e.to_send = c.to_send
  BY <1>5, <1>6 DEF Clients
<1>8. ASSUME NEW s \in Stores
      PROVE  After(s, q).in = After(s, c.storeq).in \ ConfirmedIds(c, last)
  <2>1. CASE o.ids = {}
    BY <1>4, <1>5, <1>6, <2>1
  <2>2. CASE o.ids # {}
    <3>1. q = Append(c.storeq, o)
      BY <1>5, <1>6, <2>2
    <3>2. After(s, c.storeq) \in Stores /\ After(s, q) = Applied(After(s, c.storeq), o)
      BY <1>2, <1>4, <3>1, AfterType, AfterAppend
    <3>3. QED
      BY <1>4, <3>2, AppliedLemma
  <2>3. QED
    BY <2>1, <2>2
<1>9. Confirms(c, e, last)
  BY <1>2, <1>7, <1>8 DEF Confirms
<1>10. QED
  BY <1>1, <1>7, <1>9

LEMMA StreamAckLemma ==
    ASSUME NEW c \in Clients, NEW last
    PROVE  LET d == HandleStreamAck(c, last)
           IN  Confirms(c, d, last) /\ d.posted = c.posted /\ d.to_send = c.to_send
<1> DEFINE n == Acknowledged(c.to_resend, last)
           done == SubSeq(c.to_resend, 1, n)
           r == SubSeq(c.to_resend, n + 1, Len(c.to_resend))
           d == [c EXCEPT !.to_resend = r]
           o == RemoveOutgoing(Pids(done))
           e == Store(Notify(d, Bodies(done), "SENT"), o)
           g == HandleServerConfirmedReceipt(e, last)
<1>1. HandleStreamAck(c, last) = g
  BY DEF HandleStreamAck
<1>2. c.to_resend \in Seq(Packets)
  BY DEF Clients
<1>3. n \in 0..Len(c.to_resend)
  BY <1>2, AcknowledgedLemma
<1> HIDE DEF n
<1>4. done \in Seq(Packets) /\ r \in Seq(Packets)
  BY <1>2, <1>3, PartLemma
<1> HIDE DEF done, r
<1>5. o \in OutOps /\ "SENT" \in Statuses
  <2>1. Pids(done) \subseteq Nat
    BY <1>4 DEF Pids, Packets
  <2>2. QED
    BY <2>1 DEF OutOps, RemoveOps, RemoveOutgoing, Op, Statuses
<1> HIDE DEF o
<1>6. /\ d \in Clients /\ d.state = c.state /\ d.conn = c.conn /\ d.in = c.in /\ d.out = c.out
      /\ d.last_in = c.last_in /\ d.restored = c.restored /\ d.deliver = c.deliver
      /\ d.expired = c.expired /\ d.flush = c.flush /\ d.unacked = c.unacked
      /\ d.acked = c.acked /\ d.storeq = c.storeq /\ d.posted = c.posted /\ d.to_send = c.to_send
  BY <1>4 DEF Clients
<1> HIDE DEF d
<1>7. /\ \E x \in [Messages -> SUBSET Statuses], q \in Seq(Ops) :
             e = [d EXCEPT !.status = x, !.storeq = q]
      /\ SameIncoming(d, e)
  BY <1>5, <1>6, ReportLemma
<1>8. PICK x \in [Messages -> SUBSET Statuses], q \in Seq(Ops) :
          e = [d EXCEPT !.status = x, !.storeq = q]
  BY <1>7
<1> HIDE DEF e
<1>9. /\ e \in Clients /\ e.state = d.state /\ e.conn = d.conn /\ e.in = d.in /\ e.out = d.out
      /\ e.last_in = d.last_in /\ e.restored = d.restored /\ e.deliver = d.deliver
      /\ e.expired = d.expired /\ e.flush = d.flush /\ e.unacked = d.unacked
      /\ e.acked = d.acked /\ e.posted = d.posted /\ e.to_send = d.to_send
  BY <1>6, <1>8 DEF Clients
<1>10. Confirms(e, g, last) /\ g.posted = e.posted /\ g.to_send = e.to_send
  BY <1>9, ConfirmLemma
<1> HIDE DEF g
<1>11. ConfirmedIds(e, last) = ConfirmedIds(c, last)
  BY <1>6, <1>9 DEF ConfirmedIds
<1>12. \A s \in Stores : After(s, e.storeq).in = After(s, c.storeq).in
  BY <1>6, <1>7 DEF SameIncoming
<1>13. Confirms(c, g, last)
  BY <1>6, <1>9, <1>10, <1>11, <1>12 DEF Confirms
<1>14. QED
  BY <1>1, <1>6, <1>9, <1>10, <1>13

LEMMA SelectiveAckLemma ==
    ASSUME NEW c \in Clients, NEW ids
    PROVE  \E last : /\ Confirms(c, HandleSelectiveAck(c, ids), last)
                     /\ HandleSelectiveAck(c, ids).posted > 0
<1> DEFINE n == Named(c.to_resend, ids)
           first == SubSeq(c.to_resend, 1, n)
           back == SubSeq(c.to_resend, n + 1, Len(c.to_resend))
           rest == ids \ Pids(first)
           k == Named(c.to_send, rest)
           second == SubSeq(c.to_send, 1, k)
           left == SubSeq(c.to_send, k + 1, Len(c.to_send))
           done == first \o second
           m == [key \in Keys |-> IF \E b \in Bodies(second) : Key(b) = key THEN 0
                                  ELSE c.keymap[key]]
           last == LastStreamId(done)
           d == [c EXCEPT !.to_resend = << >>, !.to_send = back \o left, !.keymap = m,
                          !.posted = c.posted + 1]
           e == Notify(d, Bodies(done), "SENT")
           g == HandleServerConfirmedReceipt(e, last)
           o == RemoveOutgoing(Pids(done))
           h == Store(g, o)
<1>1. HandleSelectiveAck(c, ids) = h
  BY DEF HandleSelectiveAck
<1>2. /\ c.to_resend \in Seq(Packets) /\ c.to_send \in Seq(Packets) /\ c.posted \in Nat
      /\ c.keymap \in [Keys -> Nat] /\ c.posted + 1 \in Nat /\ c.posted + 1 > 0
  BY DEF Clients
<1>3. n \in 0..Len(c.to_resend)
  BY <1>2, NamedLemma
<1> HIDE DEF n
<1>4. first \in Seq(Packets) /\ back \in Seq(Packets)
  BY <1>2, <1>3, PartLemma
<1> HIDE DEF first, back
<1>5. k \in 0..Len(c.to_send)
  <2> HIDE DEF rest
  <2>1. QED
    BY <1>2, NamedLemma
<1> HIDE DEF k
<1>6. second \in Seq(Packets) /\ left \in Seq(Packets)
  BY <1>2, <1>5, PartLemma
<1>7. m \in [Keys -> Nat]
  BY <1>2
<1> HIDE DEF second, left, m
<1>8. done \in Seq(Packets) /\ back \o left \in Seq(Packets) /\ << >> \in Seq(Packets)
  BY <1>4, <1>6
<1> HIDE DEF done, last
<1>9. o \in OutOps /\ o \in Ops /\ "SENT" \in Statuses
  <2>1. Pids(done) \subseteq Nat
    BY <1>8 DEF Pids, Packets
  <2>2. QED
    BY <2>1 DEF Ops, OutOps, RemoveOps, RemoveOutgoing, Op, Statuses
<1> HIDE DEF o
<1>10. /\ d \in Clients /\ d.state = c.state /\ d.conn = c.conn /\ d.in = c.in /\ d.out = c.out
       /\ d.last_in = c.last_in /\ d.restored = c.restored /\ d.deliver = c.deliver
       /\ d.expired = c.expired /\ d.flush = c.flush /\ d.unacked = c.unacked
       /\ d.acked = c.acked /\ d.storeq = c.storeq /\ d.posted > 0
  BY <1>2, <1>7, <1>8 DEF Clients
<1> HIDE DEF d
<1>11. PICK x \in [Messages -> SUBSET Statuses] : e = [d EXCEPT !.status = x]
  BY <1>9, <1>10, NotifyLemma DEF Told
<1> HIDE DEF e
<1>12. /\ e \in Clients /\ e.state = d.state /\ e.conn = d.conn /\ e.in = d.in /\ e.out = d.out
       /\ e.last_in = d.last_in /\ e.restored = d.restored /\ e.deliver = d.deliver
       /\ e.expired = d.expired /\ e.flush = d.flush /\ e.unacked = d.unacked
       /\ e.acked = d.acked /\ e.storeq = d.storeq /\ e.posted = d.posted
  BY <1>10, <1>11 DEF Clients
<1>13. Confirms(e, g, last) /\ g.posted = e.posted
  BY <1>12, ConfirmLemma
<1> HIDE DEF g
<1>14. g \in Clients
  BY <1>13 DEF Confirms
<1>15. PICK q \in Seq(Ops) : /\ h = [g EXCEPT !.storeq = q]
                             /\ q = IF o.ids = {} THEN g.storeq ELSE Append(g.storeq, o)
  BY <1>9, <1>14, StoreLemma
<1> HIDE DEF h
<1>16. /\ h \in Clients /\ h.state = g.state /\ h.conn = g.conn /\ h.in = g.in /\ h.out = g.out
       /\ h.last_in = g.last_in /\ h.restored = g.restored /\ h.deliver = g.deliver
       /\ h.expired = g.expired /\ h.flush = g.flush /\ h.unacked = g.unacked
       /\ h.acked = g.acked /\ h.storeq = q /\ h.posted = g.posted
  BY <1>14, <1>15 DEF Clients
<1>17. ASSUME NEW s \in Stores PROVE After(s, q).in = After(s, g.storeq).in
  <2>1. CASE o.ids = {}
    BY <1>15, <2>1
  <2>2. CASE o.ids # {}
    <3>1. q = Append(g.storeq, o) /\ g.storeq \in Seq(Ops)
      BY <1>14, <1>15, <2>2 DEF Clients
    <3>2. After(s, g.storeq) \in Stores /\ After(s, q) = Applied(After(s, g.storeq), o)
      BY <1>9, <3>1, AfterType, AfterAppend
    <3>3. QED
      BY <1>9, <3>2, AppliedLemma
  <2>3. QED
    BY <2>1, <2>2
<1>18. ConfirmedIds(e, last) = ConfirmedIds(c, last) /\ e.storeq = c.storeq
  BY <1>10, <1>12 DEF ConfirmedIds
<1>19. Confirms(c, h, last)
  BY <1>10, <1>12, <1>13, <1>16, <1>17, <1>18 DEF Confirms
<1>20. QED
  BY <1>1, <1>10, <1>12, <1>13, <1>16, <1>19

\* From c to d a packet is counted, and its id tracked and stored.
Took(c, packet, d) ==
    /\ d \in Clients
    /\ d.state = c.state /\ d.conn = c.conn /\ d.in = c.in + 1 /\ d.out = c.out
    /\ d.last_in = c.last_in /\ d.restored = c.restored /\ d.deliver = c.deliver
    /\ d.expired = c.expired /\ d.flush = c.flush /\ d.acked = c.acked
    /\ d.unacked = IF packet.id = 0 THEN c.unacked ELSE Append(c.unacked, packet.id)
    /\ \A s \in Stores : After(s, d.storeq).in = After(s, c.storeq).in \cup ({packet.id} \ {0})

\* The three things every packet does: what the server says it has received is
\* confirmed, the packet is counted, and an acknowledgement may be sent.
Counted(c, packet, d, e, g) ==
    /\ IF packet.last # 0 THEN Confirms(c, d, packet.last) ELSE d = c
    /\ Took(d, packet, e)
    /\ Sent(e, g)

LEMMA CountPacketLemma ==
    ASSUME NEW c \in Clients, NEW packet \in FromServer
    PROVE  \E d, e : /\ Counted(c, packet, d, e, CountPacket(c, packet))
                     /\ Awake(c) => Awake(CountPacket(c, packet))
<1> DEFINE d == IF packet.last # 0 THEN HandleStreamAck(c, packet.last) ELSE c
           e == [d EXCEPT !.in = d.in + 1]
           o == Op("addIn", {packet.id}, NoKey, 0)
           u == Append(d.unacked, packet.id)
           f == IF packet.id = 0 THEN e ELSE Store([e EXCEPT !.unacked = u], o)
           g == IF packet.imm \/ (Len(f.unacked) > 0 /\ Len(f.unacked) % AckEvery = 0)
                THEN SendControl(f, "StreamAck") ELSE f
<1>1. /\ IF packet.last # 0 THEN Confirms(c, d, packet.last) ELSE d = c
      /\ d \in Clients /\ (Awake(c) => Awake(d))
  <2>1. CASE packet.last # 0
    <3>1. Confirms(c, d, packet.last) /\ d.posted = c.posted /\ d.to_send = c.to_send
      BY <2>1, StreamAckLemma
    <3> HIDE DEF d
    <3>2. QED
      BY <2>1, <3>1 DEF Confirms, Awake, Reachable
  <2>2. CASE packet.last = 0
    BY <2>2
  <2>3. QED
    BY <2>1, <2>2
<1>2. CountPacket(c, packet) = g
  <2>1. e.unacked = d.unacked
    <3> HIDE DEF d
    <3>1. QED
      BY <1>1 DEF Clients
  <2>2. QED
    BY <2>1 DEF CountPacket
<1> HIDE DEF d
<1>3. d.in + 1 \in Nat /\ d.unacked \in Seq(ServerIds) /\ d.storeq \in Seq(Ops)
  BY <1>1, SMTT(30) DEF Clients
<1>4. Took(d, packet, f) /\ (Awake(d) => Awake(f))
  <2>1. CASE packet.id = 0
    <3>1. f = e
      BY <2>1
    <3>2. /\ e \in Clients /\ e.state = d.state /\ e.conn = d.conn /\ e.in = d.in + 1
          /\ e.out = d.out /\ e.last_in = d.last_in /\ e.restored = d.restored
          /\ e.deliver = d.deliver /\ e.expired = d.expired /\ e.flush = d.flush
          /\ e.acked = d.acked /\ e.unacked = d.unacked /\ e.storeq = d.storeq
          /\ e.posted = d.posted /\ e.to_send = d.to_send
      BY <1>1, <1>3 DEF Clients
    <3> HIDE DEF e
    <3>3. QED
      BY <2>1, <3>1, <3>2 DEF Took, Awake, Reachable
  <2>2. CASE packet.id # 0
    <3> DEFINE h == [e EXCEPT !.unacked = u]
    <3>1. packet.id \in ServerIds
      BY <2>2 DEF FromServer
    <3>2. u \in Seq(ServerIds)
      BY <1>3, <3>1
    <3>3. o \in InOps /\ o \in Ops /\ o.kind = "addIn" /\ o.ids = {packet.id}
      BY <3>1 DEF InOps, Ops, Op
    <3> HIDE DEF u, o
    <3>4. /\ h \in Clients /\ h.state = d.state /\ h.conn = d.conn /\ h.in = d.in + 1
          /\ h.out = d.out /\ h.last_in = d.last_in /\ h.restored = d.restored
          /\ h.deliver = d.deliver /\ h.expired = d.expired /\ h.flush = d.flush
          /\ h.acked = d.acked /\ h.unacked = u /\ h.storeq = d.storeq
          /\ h.posted = d.posted /\ h.to_send = d.to_send
      BY <1>1, <1>3, <3>2 DEF Clients
    <3>5. f = Store(h, o)
      BY <2>2
    <3> HIDE DEF h, e, f
    <3>6. PICK q \in Seq(Ops) : /\ f = [h EXCEPT !.storeq = q]
                                /\ q = IF o.ids = {} THEN h.storeq ELSE Append(h.storeq, o)
      BY <3>3, <3>4, <3>5, StoreLemma
    <3>7. q = Append(d.storeq, o)
      BY <3>3, <3>4, <3>6
    <3>8. /\ f \in Clients /\ f.state = d.state /\ f.conn = d.conn /\ f.in = d.in + 1
          /\ f.out = d.out /\ f.last_in = d.last_in /\ f.restored = d.restored
          /\ f.deliver = d.deliver /\ f.expired = d.expired /\ f.flush = d.flush
          /\ f.acked = d.acked /\ f.unacked = u /\ f.storeq = q
          /\ f.posted = d.posted /\ f.to_send = d.to_send
      BY <3>4, <3>6 DEF Clients
    <3>9. ASSUME NEW s \in Stores
          PROVE  After(s, q).in = After(s, d.storeq).in \cup ({packet.id} \ {0})
      <4>1. After(s, d.storeq) \in Stores /\ After(s, q) = Applied(After(s, d.storeq), o)
        BY <1>3, <3>3, <3>7, AfterType, AfterAppend
      <4>2. After(s, q).in = After(s, d.storeq).in \cup {packet.id}
        BY <3>3, <4>1, AppliedLemma
      <4>3. QED
        BY <2>2, <4>2
    <3>10. QED
      BY <2>2, <3>8, <3>9 DEF Took, Awake, Reachable, u
  <2>3. QED
    BY <2>1, <2>2
<1> HIDE DEF f
<1>5. Sent(f, g) /\ (Awake(f) => Awake(g))
  <2>1. f \in Clients
    BY <1>4 DEF Took
  <2>2. Sent(f, f)
    BY <2>1 DEF Sent, SameIncoming
  <2>3. /\ Sent(f, SendControl(f, "StreamAck"))
        /\ Awake(f) => Awake(SendControl(f, "StreamAck"))
    <3>1. "StreamAck" \in Messages \cup Control /\ TRUE \in BOOLEAN
      BY DEF Control
    <3>2. QED
      BY <2>1, <3>1, SendMessageLemma DEF SendControl
  <2>4. QED
    BY <2>2, <2>3
<1> HIDE DEF g
<1>6. QED
  BY <1>1, <1>2, <1>4, <1>5 DEF Counted

\* What the rest of HandlePacketFromWire does, by the packet's type.
SameTracking(c, d) ==
    /\ d \in Clients
    /\ d.out = c.out /\ d.last_in = c.last_in /\ d.restored = c.restored
    /\ d.unacked = c.unacked /\ d.acked = c.acked /\ d.expired = c.expired
    /\ d.storeq = c.storeq

Opened(c, d) ==
    /\ SameTracking(c, d)
    /\ d.state = "CONNECTED" /\ d.in = 1
    /\ d.conn = c.conn /\ d.flush = c.flush /\ d.deliver = c.deliver

Reset(c, d) ==
    /\ SameTracking(c, d)
    /\ d.conn = "down" /\ d.flush = << >>
    /\ d.in = c.in /\ d.deliver = c.deliver

Handed(c, packet, d) ==
    /\ SameTracking(c, d)
    /\ d.deliver = Append(c.deliver, packet.id)
    /\ d.state = c.state /\ d.conn = c.conn /\ d.flush = c.flush /\ d.in = c.in

Dispatched(c, packet, d) ==
    /\ packet.tag = "LoginResponse" => Opened(c, d)
    /\ packet.tag \in {"LoginError", "Close"} => Reset(c, d)
    /\ packet.tag \in {"HeartbeatPing", "IdleNotification"} => Sent(c, d)
    /\ packet.tag = "SelectiveAck" => \E last : Confirms(c, d, last)
    /\ packet.tag = "Data" => Handed(c, packet, d)
    /\ packet.tag \in {"HeartbeatAck", "StreamAck"} => d = c

LEMMA ResetLemma ==
    ASSUME NEW c \in Clients, NEW st \in {"UNINITIALIZED", "LOADED", "CONNECTING", "CONNECTED"}
    PROVE  Reset(c, SignalConnectionReset([c EXCEPT !.state = st]))
<1> DEFINE d == [c EXCEPT !.state = st, !.conn = "down", !.flush = << >>]
<1>1. SignalConnectionReset([c EXCEPT !.state = st]) = d
  BY DEF SignalConnectionReset
<1>2. /\ d \in Clients /\ d.conn = "down" /\ d.flush = << >> /\ d.in = c.in
      /\ d.deliver = c.deliver /\ d.out = c.out /\ d.last_in = c.last_in
      /\ d.restored = c.restored /\ d.unacked = c.unacked /\ d.acked = c.acked
      /\ d.expired = c.expired /\ d.storeq = c.storeq
  BY DEF Clients
<1> HIDE DEF d
<1>3. QED
  BY <1>1, <1>2 DEF Reset, SameTracking

LEMMA OpenedLemma ==
    ASSUME NEW c \in Clients
    PROVE  Opened(c, HandleLoginResponse(c)) /\ Awake(HandleLoginResponse(c))
<1> DEFINE p == IF c.to_send = << >> THEN c.posted ELSE c.posted + 1
           d == [c EXCEPT !.state = "CONNECTED", !.in = 1, !.posted = p]
<1>1. HandleLoginResponse(c) = d
  BY DEF HandleLoginResponse
<1>2. p \in Nat /\ (c.to_send = << >> \/ p > 0)
  BY DEF Clients
<1> HIDE DEF p
<1>3. /\ d \in Clients /\ d.state = "CONNECTED" /\ d.in = 1 /\ d.conn = c.conn
      /\ d.flush = c.flush /\ d.deliver = c.deliver /\ d.out = c.out /\ d.last_in = c.last_in
      /\ d.restored = c.restored /\ d.unacked = c.unacked /\ d.acked = c.acked
      /\ d.expired = c.expired /\ d.storeq = c.storeq
      /\ d.posted = p /\ d.to_send = c.to_send
  BY <1>2 DEF Clients
<1> HIDE DEF d
<1>4. QED
  BY <1>1, <1>2, <1>3 DEF Opened, SameTracking, Awake

LEMMA HandedLemma ==
    ASSUME NEW c \in Clients, NEW packet \in FromServer, packet.tag = "Data"
    PROVE  LET d == [c EXCEPT !.deliver = Append(c.deliver, packet.id)]
           IN  Handed(c, packet, d) /\ (Awake(c) => Awake(d))
<1> DEFINE v == Append(c.deliver, packet.id)
           d == [c EXCEPT !.deliver = v]
<1>1. v \in Seq(ServerIds)
  <2>1. packet.id \in ServerIds
    BY DEF FromServer
  <2>2. QED
    BY <2>1 DEF Clients
<1> HIDE DEF v
<1>2. /\ d \in Clients /\ d.state = c.state /\ d.in = c.in /\ d.conn = c.conn
      /\ d.flush = c.flush /\ d.deliver = v /\ d.out = c.out /\ d.last_in = c.last_in
      /\ d.restored = c.restored /\ d.unacked = c.unacked /\ d.acked = c.acked
      /\ d.expired = c.expired /\ d.storeq = c.storeq
      /\ d.posted = c.posted /\ d.to_send = c.to_send
  BY <1>1 DEF Clients
<1> HIDE DEF d
<1>3. Handed(c, packet, d) /\ (Awake(c) => Awake(d))
  BY <1>2 DEF Handed, SameTracking, Awake, Reachable, v
<1>4. QED
  BY <1>3 DEF d, v

\* A packet that opens or ends the connection needs no posted task before it.
LEMMA HandlePacketLemma ==
    ASSUME NEW c \in Clients, NEW packet \in FromServer
    PROVE  \E d, e, g :
               /\ Counted(c, packet, d, e, g)
               /\ Dispatched(g, packet, HandlePacketFromWire(c, packet))
               /\ Awake(c) \/ packet.tag \in {"LoginResponse", "LoginError"} =>
                      Awake(HandlePacketFromWire(c, packet))
<1> DEFINE g == CountPacket(c, packet)
           h == HandlePacketFromWire(c, packet)
<1>1. PICK d, e : Counted(c, packet, d, e, g) /\ (Awake(c) => Awake(g))
  BY CountPacketLemma
<1> HIDE DEF g
<1>2. g \in Clients
  BY <1>1 DEF Counted, Sent
<1>3. packet.tag \in Tags
  BY DEF FromServer
<1>4. ASSUME NEW body \in Control
      PROVE  Sent(g, SendControl(g, body)) /\ (Awake(g) => Awake(SendControl(g, body)))
  BY <1>2, SendMessageLemma DEF SendControl
<1>5. SUFFICES /\ Dispatched(g, packet, h)
               /\ Awake(g) \/ packet.tag \in {"LoginResponse", "LoginError"} => Awake(h)
  BY <1>1
<1>6. CASE packet.tag = "LoginResponse"
  <2>1. h = HandleLoginResponse(g)
    BY <1>6 DEF HandlePacketFromWire, g
  <2>2. QED
    BY <1>2, <1>6, <2>1, OpenedLemma DEF Dispatched
<1>7. CASE packet.tag = "LoginError"
  <2>1. h = SignalConnectionReset([g EXCEPT !.state = "UNINITIALIZED"])
    BY <1>7 DEF HandlePacketFromWire, g
  <2>2. Reset(g, h)
    BY <1>2, <2>1, ResetLemma
  <2>3. QED
    BY <1>7, <2>2 DEF Dispatched, Reset, Awake, Reachable
<1>8. CASE packet.tag = "Close"
  <2>1. h = SignalConnectionReset([g EXCEPT !.state = "LOADED"])
    BY <1>8 DEF HandlePacketFromWire, g
  <2>2. Reset(g, h)
    BY <1>2, <2>1, ResetLemma
  <2>3. QED
    BY <1>8, <2>2 DEF Dispatched, Reset, Awake, Reachable
<1>9. CASE packet.tag = "HeartbeatPing"
  <2>1. h = SendControl(g, "HeartbeatAck") /\ "HeartbeatAck" \in Control
    BY <1>9 DEF HandlePacketFromWire, g, Control
  <2>2. QED
    BY <1>4, <1>9, <2>1 DEF Dispatched
<1>10. CASE packet.tag = "IdleNotification"
  <2>1. h = SendControl(g, "IdleReply") /\ "IdleReply" \in Control
    BY <1>10 DEF HandlePacketFromWire, g, Control
  <2>2. QED
    BY <1>4, <1>10, <2>1 DEF Dispatched
<1>11. CASE packet.tag = "SelectiveAck"
  <2>1. h = HandleSelectiveAck(g, packet.ids)
    BY <1>11 DEF HandlePacketFromWire, g
  <2>2. \E last : Confirms(g, h, last) /\ h.posted > 0
    BY <1>2, <2>1, SelectiveAckLemma
  <2>3. QED
    BY <1>11, <2>2 DEF Dispatched, Awake
<1>12. CASE packet.tag = "Data"
  <2>1. h = [g EXCEPT !.deliver = Append(g.deliver, packet.id)]
    BY <1>12 DEF HandlePacketFromWire, g
  <2>2. QED
    BY <1>2, <1>12, <2>1, HandedLemma DEF Dispatched
<1>13. CASE packet.tag \in {"HeartbeatAck", "StreamAck"}
  <2>1. h = g
    BY <1>13 DEF HandlePacketFromWire, g
  <2>2. QED
    BY <1>13, <2>1 DEF Dispatched
<1>14. QED
  BY <1>3, <1>6, <1>7, <1>8, <1>9, <1>10, <1>11, <1>12, <1>13 DEF Tags

-----------------------------------------------------------------------------
(***************************************************************************)
(* What each action does to the client                                     *)
(***************************************************************************)

\* Only the lists of posted tasks and the TTLs change.
Ticked(c, d) ==
    /\ d \in Clients
    /\ d.state = c.state /\ d.conn = c.conn /\ d.in = c.in /\ d.flush = c.flush
    /\ d.out = c.out /\ d.last_in = c.last_in /\ d.restored = c.restored
    /\ d.unacked = c.unacked /\ d.acked = c.acked /\ d.storeq = c.storeq
    /\ d.posted = c.posted /\ d.to_send = c.to_send

LEMMA AppSendEffect ==
    ASSUME Typed, AppSend
    PROVE  /\ Sent(mcs, mcs') /\ (Awake(mcs) => Awake(mcs'))
           /\ asked' \in Seq(Messages)
<1>1. PICK m \in Messages, accepted \in BOOLEAN :
          asked' = Append(asked, m) /\ mcs' = SendMessage(mcs, m, accepted)
  BY DEF AppSend
<1>2. mcs \in Clients /\ asked \in Seq(Messages)
  BY DEF Typed
<1>3. Sent(mcs, mcs') /\ (Awake(mcs) => Awake(mcs'))
  BY <1>1, <1>2, SendMessageLemma
<1>4. QED
  BY <1>1, <1>2, <1>3

LEMMA RunMaybeSendEffect ==
    ASSUME Typed, RunMaybeSend
    PROVE  Sent(mcs, mcs') /\ Awake(mcs')
<1> DEFINE n == mcs.posted - 1
           c == [mcs EXCEPT !.posted = n]
<1>1. mcs \in Clients /\ mcs' = MaybeSendMessage(c)
  BY DEF Typed, RunMaybeSend, Client
<1>2. n \in Nat
  BY <1>1 DEF RunMaybeSend, Clients
<1> HIDE DEF n
<1>3. /\ c \in Clients /\ c.state = mcs.state /\ c.conn = mcs.conn /\ c.in = mcs.in
      /\ c.restored = mcs.restored /\ c.deliver = mcs.deliver /\ c.expired = mcs.expired
      /\ c.storeq = mcs.storeq /\ c.out = mcs.out /\ c.last_in = mcs.last_in
      /\ c.unacked = mcs.unacked /\ c.acked = mcs.acked /\ c.flush = mcs.flush
  BY <1>1, <1>2 DEF Clients
<1> HIDE DEF c
<1>4. Sent(c, mcs') /\ Awake(mcs')
  BY <1>1, <1>3, MaybeSendLemma
<1>5. QED
  BY <1>3, <1>4 DEF Sent, SameIncoming, UnackedIds, Reachable

LEMMA DeliverEffect ==
    ASSUME Typed, Deliver
    PROVE  /\ Ticked(mcs, mcs')
           /\ mcs.deliver # << >> /\ mcs'.deliver = Tail(mcs.deliver)
           /\ Head(mcs.deliver) \in ServerIds
           /\ delivered' \in [ServerIds -> Nat]
           /\ delivered' = [delivered EXCEPT ![Head(mcs.deliver)] = delivered[Head(mcs.deliver)] + 1]
<1> DEFINE v == Tail(mcs.deliver)
           d == [mcs EXCEPT !.deliver = v]
<1>1. /\ mcs \in Clients /\ mcs' = d /\ mcs.deliver # << >>
      /\ delivered' = [delivered EXCEPT ![Head(mcs.deliver)] = delivered[Head(mcs.deliver)] + 1]
  BY DEF Typed, Deliver
<1>2. mcs.deliver \in Seq(ServerIds)
  BY <1>1 DEF Clients
<1>3. v \in Seq(ServerIds) /\ Head(mcs.deliver) \in ServerIds
  BY <1>1, <1>2
<1>4. delivered' \in [ServerIds -> Nat]
  BY <1>1, <1>3 DEF Typed
<1> HIDE DEF v
<1>5. /\ d \in Clients /\ d.deliver = v
      /\ d.state = mcs.state /\ d.conn = mcs.conn /\ d.in = mcs.in /\ d.flush = mcs.flush
      /\ d.out = mcs.out /\ d.last_in = mcs.last_in /\ d.restored = mcs.restored
      /\ d.unacked = mcs.unacked /\ d.acked = mcs.acked /\ d.storeq = mcs.storeq
      /\ d.posted = mcs.posted /\ d.to_send = mcs.to_send
  BY <1>1, <1>3 DEF Clients
<1> HIDE DEF d
<1>6. QED
  BY <1>1, <1>3, <1>4, <1>5 DEF Ticked, v

\* The packet that was being flushed is on the wire and the next one may be in
\* its place.
LEMMA FlushDoneEffect ==
    ASSUME Typed, FlushDone
    PROVE  /\ \E c \in Clients :
                  /\ c = [mcs EXCEPT !.flush = << >>]
                  /\ c.state = mcs.state /\ c.conn = mcs.conn /\ c.in = mcs.in
                  /\ c.restored = mcs.restored /\ c.deliver = mcs.deliver
                  /\ c.expired = mcs.expired /\ c.storeq = mcs.storeq /\ c.out = mcs.out
                  /\ c.last_in = mcs.last_in /\ c.unacked = mcs.unacked
                  /\ c.acked = mcs.acked /\ c.flush = << >>
                  /\ Sent(c, mcs')
           /\ Awake(mcs')
           /\ \E f \in Frames : mcs.flush = <<f>> /\ to_server' = Append(to_server, f)
           /\ to_server' \in Seq(Frames \cup Logins)
<1> DEFINE c == [mcs EXCEPT !.flush = << >>]
<1>1. /\ mcs \in Clients /\ mcs' = MaybeSendMessage(c) /\ mcs.flush # << >>
      /\ to_server' = Append(to_server, Head(mcs.flush))
      /\ to_server \in Seq(Frames \cup Logins)
  BY DEF Typed, FlushDone
<1>2. PICK f \in Frames : mcs.flush = <<f>>
  BY <1>1 DEF Clients
<1>3. Head(mcs.flush) = f
  BY <1>2
<1>4. to_server' \in Seq(Frames \cup Logins)
  BY <1>1, <1>3
<1>5. /\ c \in Clients /\ c.state = mcs.state /\ c.conn = mcs.conn /\ c.in = mcs.in
      /\ c.restored = mcs.restored /\ c.deliver = mcs.deliver /\ c.expired = mcs.expired
      /\ c.storeq = mcs.storeq /\ c.out = mcs.out /\ c.last_in = mcs.last_in
      /\ c.unacked = mcs.unacked /\ c.acked = mcs.acked /\ c.flush = << >>
  BY <1>1 DEF Clients
<1>6. Sent(c, mcs') /\ Awake(mcs')
  <2> HIDE DEF c
  <2>1. QED
    BY <1>1, <1>5, MaybeSendLemma
<1>7. QED
  BY <1>1, <1>2, <1>3, <1>4, <1>5, <1>6

\* One more of a bounded thing is used up.
LEMMA UseLemma ==
    ASSUME NEW u \in Uses
    PROVE  /\ [u EXCEPT !.connections = u.connections + 1] \in Uses
           /\ [u EXCEPT !.restarts = u.restarts + 1] \in Uses
           /\ [u EXCEPT !.selective = u.selective + 1] \in Uses
           /\ [u EXCEPT !.control = u.control + 1] \in Uses
           /\ [u EXCEPT !.heartbeats = u.heartbeats + 1] \in Uses
  BY DEF Uses

LEMMA SendHeartbeatEffect ==
    ASSUME Typed, SendHeartbeat
    PROVE  Sent(mcs, mcs') /\ (Awake(mcs) => Awake(mcs')) /\ used' \in Uses
<1>1. mcs \in Clients /\ mcs' = SendMessage(mcs, "HeartbeatPing", TRUE)
  BY DEF Typed, SendHeartbeat, SendControl
<1>2. "HeartbeatPing" \in Messages \cup Control
  BY DEF Control
<1>3. Sent(mcs, mcs') /\ (Awake(mcs) => Awake(mcs'))
  BY <1>1, <1>2, SendMessageLemma
<1>4. used' \in Uses
  BY UseLemma DEF Typed, SendHeartbeat
<1>5. QED
  BY <1>3, <1>4

LEMMA ExpireEffect ==
    ASSUME Typed, Expire
    PROVE  Ticked(mcs, mcs') /\ mcs'.deliver = mcs.deliver
<1>1. PICK m \in Messages \ ZeroTtl : mcs' = [mcs EXCEPT !.expired = mcs.expired \cup {m}]
  BY DEF Expire, Client
<1> DEFINE x == mcs.expired \cup {m}
           d == [mcs EXCEPT !.expired = x]
<1>2. mcs \in Clients
  BY DEF Typed
<1>3. x \in SUBSET Messages
  BY <1>2 DEF Clients
<1> HIDE DEF x
<1>4. /\ d \in Clients /\ d.deliver = mcs.deliver
      /\ d.state = mcs.state /\ d.conn = mcs.conn /\ d.in = mcs.in /\ d.flush = mcs.flush
      /\ d.out = mcs.out /\ d.last_in = mcs.last_in /\ d.restored = mcs.restored
      /\ d.unacked = mcs.unacked /\ d.acked = mcs.acked /\ d.storeq = mcs.storeq
      /\ d.posted = mcs.posted /\ d.to_send = mcs.to_send
  BY <1>2, <1>3 DEF Clients
<1>5. mcs' = d
  BY <1>1 DEF x
<1> HIDE DEF d
<1>6. QED
  BY <1>4, <1>5 DEF Ticked

LEMMA DisconnectEffect ==
    ASSUME Typed, Disconnect
    PROVE  Reset(mcs, mcs')
<1>1. mcs \in Clients /\ mcs' = [mcs EXCEPT !.conn = "down", !.flush = << >>]
  BY DEF Typed, Disconnect, SignalConnectionReset
<1> DEFINE d == [mcs EXCEPT !.conn = "down", !.flush = << >>]
<1>2. /\ d \in Clients /\ d.conn = "down" /\ d.flush = << >> /\ d.in = mcs.in
      /\ d.deliver = mcs.deliver /\ d.out = mcs.out /\ d.last_in = mcs.last_in
      /\ d.restored = mcs.restored /\ d.unacked = mcs.unacked /\ d.acked = mcs.acked
      /\ d.expired = mcs.expired /\ d.storeq = mcs.storeq
  BY <1>1 DEF Clients
<1> HIDE DEF d
<1>3. mcs' = d
  BY <1>1 DEF d
<1>4. QED
  BY <1>2, <1>3 DEF Reset, SameTracking

LEMMA ReconnectEffect ==
    ASSUME Typed, Reconnect
    PROVE  /\ Restarted(mcs, mcs')
           /\ LoginRequest(mcs) \in Logins /\ LoginRequest(mcs).ids = TrackedIds(mcs)
           /\ srv' \in Servers /\ used' \in Uses
           /\ ~ srv'.up /\ srv'.forgotten = srv.forgotten
<1>1. mcs \in Clients
  BY DEF Typed
<1>2. mcs.to_resend \o mcs.to_send \in Seq(Packets)
  <2>1. mcs.to_resend \in Seq(Packets) /\ mcs.to_send \in Seq(Packets)
    BY <1>1 DEF Clients
  <2>2. QED
    BY <2>1
<1>3. mcs' = StartOver(mcs, mcs.to_resend \o mcs.to_send)
  BY DEF Reconnect, ResetStateAndBuildLoginRequest
<1>4. Restarted(mcs, mcs')
  BY <1>1, <1>2, <1>3, StartOverLemma
<1>5. LoginRequest(mcs) \in Logins /\ LoginRequest(mcs).ids = TrackedIds(mcs)
  BY <1>1, TrackedType DEF LoginRequest, Logins
<1>6. srv' = [srv EXCEPT !.up = FALSE] /\ srv \in Servers
  BY DEF Reconnect, Typed
<1>7. srv' \in Servers /\ ~ srv'.up /\ srv'.forgotten = srv.forgotten
  BY <1>6 DEF Servers
<1>8. used' \in Uses
  BY UseLemma DEF Typed, Reconnect
<1>9. QED
  BY <1>4, <1>5, <1>7, <1>8

\* c is the client when the handler gives it the packet.
Receives(c, packet) ==
    /\ c \in Clients /\ packet \in FromServer
    /\ c.state = mcs.state /\ c.in = mcs.in /\ c.flush = mcs.flush /\ c.posted = mcs.posted
    /\ c.deliver = mcs.deliver /\ c.to_send = mcs.to_send
    /\ SameTracking(mcs, c)
    /\ c.conn = IF packet.tag \in {"LoginResponse", "LoginError"} THEN "open" ELSE mcs.conn
    /\ to_client # << >> /\ packet = Head(to_client)

LEMMA ReceiveEffect ==
    ASSUME Typed, Receive
    PROVE  /\ \E c, packet, d, e, g :
                  /\ Receives(c, packet)
                  /\ Counted(c, packet, d, e, g)
                  /\ Dispatched(g, packet, mcs')
                  /\ Awake(mcs) => Awake(mcs')
           /\ mcs' \in Clients
           /\ to_client' = IF mcs'.conn = "down" THEN << >> ELSE Tail(to_client)
           /\ to_client' \in Seq(FromServer)
<1> DEFINE packet == Head(to_client)
           opens == packet.tag \in {"LoginResponse", "LoginError"}
           c == IF opens THEN [mcs EXCEPT !.conn = "open"] ELSE mcs
<1>1. /\ mcs \in Clients /\ to_client # << >> /\ to_client \in Seq(FromServer)
      /\ mcs' = HandlePacketFromWire(c, packet)
      /\ to_client' = IF mcs'.conn = "down" THEN << >> ELSE Tail(to_client)
  BY DEF Typed, Receive
<1>2. packet \in FromServer /\ to_client' \in Seq(FromServer)
  BY <1>1
<1>3. /\ c \in Clients /\ c.state = mcs.state /\ c.in = mcs.in /\ c.flush = mcs.flush
      /\ c.posted = mcs.posted /\ c.deliver = mcs.deliver /\ c.to_send = mcs.to_send
      /\ c.out = mcs.out /\ c.last_in = mcs.last_in
      /\ c.restored = mcs.restored /\ c.unacked = mcs.unacked /\ c.acked = mcs.acked
      /\ c.expired = mcs.expired /\ c.storeq = mcs.storeq
      /\ c.conn = IF opens THEN "open" ELSE mcs.conn
  <2>1. CASE opens
    BY <1>1, <2>1 DEF Clients
  <2>2. CASE ~ opens
    BY <1>1, <2>2
  <2>3. QED
    BY <2>1, <2>2
<1>4. Awake(mcs) => Awake(c) \/ opens
  BY <1>3 DEF Awake, Reachable
<1> HIDE DEF c
<1>5. Receives(c, packet)
  BY <1>1, <1>2, <1>3 DEF Receives, SameTracking
<1> HIDE DEF packet
<1>6. PICK d, e, g : /\ Counted(c, packet, d, e, g)
                     /\ Dispatched(g, packet, mcs')
                     /\ Awake(c) \/ opens => Awake(mcs')
  BY <1>1, <1>2, <1>3, HandlePacketLemma
<1>7. mcs' \in Clients
  <2>1. packet.tag \in Tags /\ g \in Clients
    BY <1>2, <1>6 DEF FromServer, Counted, Sent
  <2>2. QED
    BY <1>6, <2>1 DEF Dispatched, Tags, Opened, Reset, Sent, Confirms, Handed, SameTracking
<1>8. QED
  BY <1>1, <1>2, <1>4, <1>5, <1>6, <1>7

LEMMA StoreStepEffect ==
    ASSUME Typed, StoreStep
    PROVE  /\ db' \in Stores /\ mcs' \in Clients
           /\ mcs'.state = mcs.state /\ mcs'.conn = mcs.conn /\ mcs'.in = mcs.in
           /\ mcs'.flush = mcs.flush /\ mcs'.out = mcs.out /\ mcs'.last_in = mcs.last_in
           /\ mcs'.restored = mcs.restored /\ mcs'.unacked = mcs.unacked
           /\ mcs'.acked = mcs.acked /\ mcs'.posted = mcs.posted
           /\ mcs'.to_send = mcs.to_send /\ mcs'.deliver = mcs.deliver
           /\ After(db', mcs'.storeq) = After(db, mcs.storeq)
<1> DEFINE q == Tail(mcs.storeq)
           d == [mcs EXCEPT !.storeq = q]
<1>1. /\ mcs \in Clients /\ db \in Stores /\ mcs.storeq # << >>
      /\ mcs' = d /\ db' = Applied(db, Head(mcs.storeq))
  BY DEF Typed, StoreStep
<1>2. mcs.storeq \in Seq(Ops)
  BY <1>1 DEF Clients
<1>3. q \in Seq(Ops) /\ Head(mcs.storeq) \in Ops
  BY <1>1, <1>2
<1>4. db' \in Stores
  BY <1>1, <1>3, AppliedLemma
<1>5. After(db', q) = After(db, mcs.storeq)
  BY <1>1, <1>2, AfterHead
<1> HIDE DEF q
<1>6. /\ d \in Clients /\ d.storeq = q
      /\ d.state = mcs.state /\ d.conn = mcs.conn /\ d.in = mcs.in /\ d.flush = mcs.flush
      /\ d.out = mcs.out /\ d.last_in = mcs.last_in /\ d.restored = mcs.restored
      /\ d.unacked = mcs.unacked /\ d.acked = mcs.acked /\ d.posted = mcs.posted
      /\ d.to_send = mcs.to_send /\ d.deliver = mcs.deliver
  BY <1>1, <1>3 DEF Clients
<1> HIDE DEF d
<1>7. QED
  BY <1>1, <1>4, <1>5, <1>6

LEMMA RestartEffect ==
    ASSUME Typed, Restart
    PROVE  Started(db, mcs') /\ used' \in Uses
<1>1. PICK ticks \in {mcs.ticks} \cup (IF Reboots THEN {0} ELSE {}) :
          /\ mcs' = Initialize(db, ticks, mcs.expired, mcs.status)
          /\ used' = [used EXCEPT !.restarts = used.restarts + 1]
  BY DEF Restart
<1>2. mcs \in Clients /\ db \in Stores /\ used \in Uses
  BY DEF Typed
<1>3. /\ ticks \in Nat /\ mcs.expired \in SUBSET Messages
      /\ mcs.status \in [Messages -> SUBSET Statuses]
  BY <1>1, <1>2 DEF Clients
<1>4. used' \in Uses
  BY <1>1, <1>2, UseLemma
<1>5. QED
  BY <1>1, <1>2, <1>3, <1>4, InitializeLemma

\* The server sends a packet.
LEMMA ServerSendsEffect ==
    ASSUME Typed, NEW p \in FromServer, ServerSends(p)
    PROVE  /\ srv' \in Servers /\ to_client' \in Seq(FromServer)
           /\ srv.up /\ mcs.conn # "down" /\ to_client' = Append(to_client, p)
           /\ srv'.up /\ srv'.in = srv.in /\ srv'.forgotten = srv.forgotten
           /\ srv'.log = Append(srv.log, p.id)
           /\ UNCHANGED <<mcs, db, to_server, delivered, asked>>
<1> DEFINE l == Append(srv.log, p.id)
<1>1. /\ srv \in Servers /\ srv' = [srv EXCEPT !.log = l, !.told = srv.in]
      /\ to_client \in Seq(FromServer) /\ to_client' = Append(to_client, p)
      /\ srv.up /\ mcs.conn # "down" /\ UNCHANGED <<mcs, db, to_server, delivered, asked>>
  BY DEF Typed, ServerSends
<1>2. l \in Seq(ServerIds \cup {0}) /\ srv.in \in Nat
  <2>1. srv.log \in Seq(ServerIds \cup {0}) /\ p.id \in ServerIds \cup {0} /\ srv.in \in Nat
    BY <1>1 DEF Servers, FromServer
  <2>2. QED
    BY <2>1
<1> HIDE DEF l
<1>3. /\ srv' \in Servers /\ srv'.up = srv.up /\ srv'.in = srv.in
      /\ srv'.forgotten = srv.forgotten /\ srv'.log = l
  BY <1>1, <1>2 DEF Servers
<1>4. QED
  BY <1>1, <1>3 DEF l

\* The packets the server sends have their type.
LEMMA PacketLemma ==
    ASSUME Typed, NEW tag \in Tags, NEW id \in ServerIds \cup {0}, tag = "Data" <=> id # 0,
           NEW imm \in BOOLEAN, NEW ids \in SUBSET Nat
    PROVE  /\ Packet(tag, id, imm, ids) \in FromServer
           /\ Packet(tag, id, imm, ids).id = id /\ Packet(tag, id, imm, ids).tag = tag
           /\ Packet(tag, id, imm, ids).last = srv.in
<1>1. srv.in \in Nat
  BY DEF Typed, Servers
<1>2. QED
  BY <1>1 DEF Packet, FromServer

\* The server sends a packet: what it sends and that it may.
LEMMA AnySendEffect ==
    ASSUME Typed,
           \/ ServerSendsData \/ ServerSendsStreamAck
           \/ ServerSendsSelectiveAck \/ ServerSendsControl
    PROVE  /\ \E p \in FromServer :
                  /\ ServerSends(p) /\ p.last = srv.in
                  /\ p.tag # "LoginResponse" /\ p.tag # "LoginError"
                  /\ p.tag = "SelectiveAck" => MaxSelectiveAcks > 0
                  /\ \/ p.id = 0
                     \/ /\ p.id \in ServerIds \ srv.forgotten
                        /\ \A i \in 1..Len(srv.log) : srv.log[i] # p.id
           /\ used' \in Uses
<1>1. used \in Uses /\ srv \in Servers /\ srv.got \in SUBSET Nat /\ 0 \notin ServerIds
  BY SystemAssumption DEF Typed, Servers
<1>2. CASE ServerSendsData
  <2>1. PICK id \in ServerIds, imm \in BOOLEAN :
            /\ id \notin srv.forgotten
            /\ \A i \in 1..Len(srv.log) : srv.log[i] # id
            /\ ServerSends(Packet("Data", id, imm, {}))
            /\ UNCHANGED used
    BY <1>2 DEF ServerSendsData
  <2>2. "Data" \in Tags /\ id # 0 /\ {} \in SUBSET Nat
    BY <1>1 DEF Tags
  <2>3. /\ Packet("Data", id, imm, {}) \in FromServer
        /\ Packet("Data", id, imm, {}).id = id /\ Packet("Data", id, imm, {}).tag = "Data"
        /\ Packet("Data", id, imm, {}).last = srv.in
    BY <2>2, PacketLemma
  <2>4. QED
    BY <1>1, <2>1, <2>3
<1>3. ASSUME NEW tag \in Tags, tag \notin {"Data", "LoginResponse", "LoginError"}, NEW ids \in SUBSET Nat,
             ServerSends(Packet(tag, 0, FALSE, ids)),
             tag = "SelectiveAck" => MaxSelectiveAcks > 0
      PROVE  \E p \in FromServer :
                  /\ ServerSends(p) /\ p.last = srv.in
                  /\ p.tag # "LoginResponse" /\ p.tag # "LoginError"
                  /\ p.tag = "SelectiveAck" => MaxSelectiveAcks > 0
                  /\ p.id = 0
  <2> DEFINE id == 0
             imm == FALSE
  <2>1. id \in ServerIds \cup {0} /\ (tag = "Data" <=> id # 0) /\ imm \in BOOLEAN
    BY <1>3
  <2> HIDE DEF id, imm
  <2>2. /\ Packet(tag, id, imm, ids) \in FromServer
        /\ Packet(tag, id, imm, ids).id = id /\ Packet(tag, id, imm, ids).tag = tag
        /\ Packet(tag, id, imm, ids).last = srv.in
    BY <1>3, <2>1, PacketLemma
  <2>3. QED
    BY <1>3, <2>2 DEF id, imm
<1>4. CASE ServerSendsStreamAck
  <2>1. ServerSends(Packet("StreamAck", 0, FALSE, {})) /\ UNCHANGED used
    BY <1>4 DEF ServerSendsStreamAck
  <2>2. "StreamAck" \in Tags /\ "StreamAck" \notin {"Data", "LoginResponse", "LoginError"} /\ {} \in SUBSET Nat
    BY DEF Tags
  <2>3. QED
    BY <1>1, <1>3, <2>1, <2>2
<1>5. CASE ServerSendsSelectiveAck
  <2>1. /\ ServerSends(Packet("SelectiveAck", 0, FALSE, srv.got))
        /\ used.selective < MaxSelectiveAcks
        /\ used' = [used EXCEPT !.selective = used.selective + 1]
    BY <1>5 DEF ServerSendsSelectiveAck
  <2>2. "SelectiveAck" \in Tags /\ "SelectiveAck" \notin {"Data", "LoginResponse", "LoginError"}
    BY DEF Tags
  <2>3. used.selective \in Nat /\ MaxSelectiveAcks \in Nat
    BY <1>1, SystemAssumption DEF Uses
  <2>4. MaxSelectiveAcks > 0
    BY <2>1, <2>3
  <2>5. used' \in Uses
    BY <1>1, <2>1, UseLemma
  <2>6. QED
    BY <1>1, <1>3, <2>1, <2>2, <2>4, <2>5
<1>6. CASE ServerSendsControl
  <2>1. PICK tag \in {"HeartbeatPing", "IdleNotification", "Close"} :
            /\ ServerSends(Packet(tag, 0, FALSE, {}))
            /\ used' = [used EXCEPT !.control = used.control + 1]
    BY <1>6 DEF ServerSendsControl
  <2>2. tag \in Tags /\ tag \notin {"Data", "LoginResponse", "LoginError"} /\ {} \in SUBSET Nat
    BY DEF Tags
  <2>3. used' \in Uses
    BY <1>1, <2>1, UseLemma
  <2>4. QED
    BY <1>3, <2>1, <2>2, <2>3
<1>7. QED
  BY <1>2, <1>4, <1>5, <1>6

\* Only a login request has the body of one.
LEMMA LoginLemma ==
    ASSUME NEW p \in Frames \cup Logins
    PROVE  /\ p.body = "Login" <=> p \in Logins
           /\ p \in Logins \/ p \in Frames
<1>1. "Login" \notin Messages \cup Control
  BY ClientAssumption DEF Control
<1>2. QED
  BY <1>1 DEF Frames, Logins

LEMMA ServerLoginEffect ==
    ASSUME Typed, ServerLogin
    PROVE  /\ to_server # << >> /\ Head(to_server) \in Logins
           /\ to_server' = Tail(to_server) /\ to_server' \in Seq(Frames \cup Logins)
           /\ UNCHANGED <<mcs, db, delivered, asked>>
           /\ srv' \in Servers /\ used' \in Uses
           /\ \E p \in FromServer :
                  /\ to_client' = <<p>> /\ p.id = 0
                  /\ \/ /\ p.tag = "LoginResponse" /\ p.last = 1
                        /\ srv'.up /\ srv'.in = 1 /\ srv'.log = <<0>>
                        /\ srv'.forgotten = srv.forgotten \cup Head(to_server).ids
                     \/ p.tag = "LoginError" /\ p.last = 0 /\ srv' = srv
<1> DEFINE h == Head(to_server)
<1>1. /\ to_server # << >> /\ to_server \in Seq(Frames \cup Logins) /\ h.body = "Login"
      /\ to_server' = Tail(to_server) /\ srv \in Servers /\ used \in Uses
      /\ UNCHANGED <<mcs, db, delivered, asked>>
  BY DEF Typed, ServerLogin
<1>2. h \in Frames \cup Logins /\ to_server' \in Seq(Frames \cup Logins)
  BY <1>1
<1>3. h \in Logins
  BY <1>1, <1>2, LoginLemma
<1>4. h.ids \in SUBSET ServerIds
  BY <1>3 DEF Logins
<1>5. \/ /\ srv' = [srv EXCEPT !.up = TRUE, !.in = 1, !.told = 1, !.log = <<0>>,
                               !.forgotten = srv.forgotten \cup h.ids]
         /\ to_client' = <<[tag |-> "LoginResponse", id |-> 0, imm |-> FALSE,
                            ids |-> {}, last |-> 1]>>
         /\ UNCHANGED used
      \/ /\ used' = [used EXCEPT !.control = used.control + 1]
         /\ to_client' = <<[tag |-> "LoginError", id |-> 0, imm |-> FALSE,
                            ids |-> {}, last |-> 0]>>
         /\ UNCHANGED srv
  BY DEF ServerLogin
<1> HIDE DEF h
<1>6. ASSUME NEW tag \in {"LoginResponse", "LoginError"}, NEW last \in Nat
      PROVE  LET p == [tag |-> tag, id |-> 0, imm |-> FALSE, ids |-> {}, last |-> last]
             IN  p \in FromServer /\ p.id = 0 /\ p.tag = tag /\ p.last = last
  BY DEF FromServer, Tags
<1>7. CASE /\ srv' = [srv EXCEPT !.up = TRUE, !.in = 1, !.told = 1, !.log = <<0>>,
                                 !.forgotten = srv.forgotten \cup h.ids]
           /\ to_client' = <<[tag |-> "LoginResponse", id |-> 0, imm |-> FALSE,
                              ids |-> {}, last |-> 1]>>
           /\ UNCHANGED used
  <2> DEFINE x == srv.forgotten \cup h.ids
             l == <<0>>
  <2>1. x \in SUBSET ServerIds /\ l \in Seq(ServerIds \cup {0})
    BY <1>1, <1>4 DEF Servers
  <2> HIDE DEF x, l
  <2>2. srv' = [srv EXCEPT !.up = TRUE, !.in = 1, !.told = 1, !.log = l, !.forgotten = x]
    BY <1>7 DEF x, l
  <2>3. /\ srv' \in Servers /\ srv'.up /\ srv'.in = 1 /\ srv'.log = l /\ srv'.forgotten = x
    BY <1>1, <2>1, <2>2 DEF Servers
  <2>4. 1 \in Nat
    OBVIOUS
  <2>5. QED
    BY <1>1, <1>2, <1>3, <1>6, <1>7, <2>3, <2>4 DEF h, x, l
<1>8. CASE /\ used' = [used EXCEPT !.control = used.control + 1]
           /\ to_client' = <<[tag |-> "LoginError", id |-> 0, imm |-> FALSE,
                              ids |-> {}, last |-> 0]>>
           /\ UNCHANGED srv
  <2>1. used' \in Uses /\ 0 \in Nat
    BY <1>1, <1>8, UseLemma
  <2>2. QED
    BY <1>1, <1>2, <1>3, <1>6, <1>8, <2>1 DEF h
<1>9. QED
  BY <1>5, <1>7, <1>8

\* The ids the server has sent with a stream id up to last.
SentUpTo(log, last) == {log[i] : i \in {j \in DOMAIN log : j <= last}} \ {0}

LEMMA ServerReceivesEffect ==
    ASSUME Typed, ServerReceives
    PROVE  /\ to_server # << >> /\ srv.up /\ Head(to_server) \in Frames \cup Logins
           /\ to_server' = Tail(to_server) /\ to_server' \in Seq(Frames \cup Logins)
           /\ UNCHANGED <<mcs, db, to_client, delivered, used, asked>>
           /\ srv' \in Servers /\ srv'.up /\ srv'.in = srv.in + 1 /\ srv'.log = srv.log
           /\ srv'.forgotten = srv.forgotten \cup SentUpTo(srv.log, Head(to_server).last)
<1> DEFINE h == Head(to_server)
           n == srv.in + 1
           x == srv.got \cup ({h.hdr} \ {0})
           y == srv.bodies \cup ({h.body} \cap Messages)
           z == srv.forgotten \cup SentUpTo(srv.log, h.last)
           d == [srv EXCEPT !.in = n, !.got = x, !.bodies = y, !.forgotten = z]
<1>1. /\ to_server # << >> /\ to_server \in Seq(Frames \cup Logins) /\ srv.up
      /\ to_server' = Tail(to_server) /\ srv \in Servers
      /\ UNCHANGED <<mcs, db, to_client, delivered, used, asked>>
      /\ srv' = d
  BY DEF Typed, ServerReceives, SentUpTo
<1>2. h \in Frames \cup Logins /\ to_server' \in Seq(Frames \cup Logins)
  BY <1>1
<1>3. h.hdr \in Nat
  BY <1>2 DEF Frames, Logins
<1>4. n \in Nat /\ x \in SUBSET Nat /\ y \in SUBSET Messages
  BY <1>1, <1>3 DEF Servers
<1>5. z \in SUBSET ServerIds
  <2>1. srv.log \in Seq(ServerIds \cup {0}) /\ srv.forgotten \in SUBSET ServerIds
    BY <1>1 DEF Servers
  <2>2. \A i \in DOMAIN srv.log : srv.log[i] \in ServerIds \cup {0}
    BY <2>1
  <2>3. QED
    BY <2>1, <2>2 DEF SentUpTo
<1> HIDE DEF n, x, y, z, h
<1>6. d \in Servers /\ d.up = srv.up /\ d.in = n /\ d.log = srv.log /\ d.forgotten = z
  BY <1>1, <1>4, <1>5 DEF Servers
<1> HIDE DEF d
<1>7. QED
  BY <1>1, <1>2, <1>6 DEF n, z, h

-----------------------------------------------------------------------------
(***************************************************************************)
(* Sending never stalls                                                    *)
(***************************************************************************)
LEMMA TypedInit == Init => Typed /\ Awake(mcs) /\ Started(db, mcs)
<1>1. SUFFICES ASSUME Init PROVE Typed /\ Awake(mcs) /\ Started(db, mcs)
  OBVIOUS
<1>2. db \in Stores
  <2>1. IsFiniteSet({})
    BY FS_EmptySet
  <2>2. QED
    BY <1>1, <2>1 DEF Init, EmptyStore, Stores
<1>3. Started(db, mcs)
  <2> DEFINE status == [m \in Messages |-> {}]
  <2>1. BaseTicks \in Nat /\ {} \in SUBSET Messages /\ status \in [Messages -> SUBSET Statuses]
    BY SystemAssumption
  <2>2. mcs = Initialize(db, BaseTicks, {}, status)
    BY <1>1 DEF Init
  <2> HIDE DEF status
  <2>3. QED
    BY <1>2, <2>1, <2>2, InitializeLemma
<1>4. srv \in Servers
  BY <1>1 DEF Init, Servers
<1>5. used \in Uses
  BY <1>1 DEF Init, Uses
<1>6. /\ to_server \in Seq(Frames \cup Logins) /\ to_client \in Seq(FromServer)
      /\ asked \in Seq(Messages) /\ delivered \in [ServerIds -> Nat]
  BY <1>1 DEF Init
<1>7. QED
  BY <1>2, <1>3, <1>4, <1>5, <1>6 DEF Typed, Started, Awake, Reachable

\* Every step keeps the types, and leaves a task posted whenever a packet could
\* be sent.
LEMMA TypedNext ==
    ASSUME Typed, [Next]_vars
    PROVE  Typed' /\ (Awake(mcs) => Awake(mcs'))
<1>1. CASE UNCHANGED vars
  BY <1>1 DEF vars, Typed
<1>2. CASE AppSend
  BY <1>2, AppSendEffect DEF AppSend, Typed, Sent
<1>3. CASE RunMaybeSend
  BY <1>3, RunMaybeSendEffect DEF RunMaybeSend, Client, Typed, Sent
<1>4. CASE Deliver
  BY <1>4, DeliverEffect DEF Deliver, Typed, Ticked, Awake, Reachable
<1>5. CASE FlushDone
  BY <1>5, FlushDoneEffect DEF FlushDone, Typed, Sent
<1>6. CASE SendHeartbeat
  BY <1>6, SendHeartbeatEffect DEF SendHeartbeat, Typed, Sent
<1>7. CASE Expire
  BY <1>7, ExpireEffect DEF Expire, Client, Typed, Ticked, Awake, Reachable
<1>8. CASE Disconnect
  BY <1>8, DisconnectEffect DEF Disconnect, Typed, Reset, SameTracking, Awake, Reachable
<1>9. CASE Reconnect
  <2>1. to_server' = <<LoginRequest(mcs)>> /\ to_client' = << >>
        /\ UNCHANGED <<db, delivered, asked>>
    BY <1>9 DEF Reconnect
  <2>2. to_server' \in Seq(Frames \cup Logins) /\ to_client' \in Seq(FromServer)
    BY <1>9, <2>1, ReconnectEffect
  <2>3. QED
    BY <1>9, <2>1, <2>2, ReconnectEffect DEF Typed, Restarted, Awake
<1>10. CASE Receive
  BY <1>10, ReceiveEffect DEF Receive, Typed
<1>11. CASE StoreStep
  BY <1>11, StoreStepEffect DEF StoreStep, Typed, Awake, Reachable
<1>12. CASE Restart
  <2>1. to_client' = << >> /\ UNCHANGED <<db, to_server, srv, delivered, asked>>
    BY <1>12 DEF Restart
  <2>2. to_client' \in Seq(FromServer)
    BY <2>1
  <2>3. QED
    BY <1>12, <2>1, <2>2, RestartEffect DEF Typed, Started, Awake, Reachable
<1>13. CASE ServerLogin
  <2>1. PICK p \in FromServer : to_client' = <<p>>
    BY <1>13, ServerLoginEffect
  <2>2. to_client' \in Seq(FromServer)
    BY <2>1
  <2>3. QED
    BY <1>13, <2>2, ServerLoginEffect DEF Typed
<1>14. CASE ServerReceives
  BY <1>14, ServerReceivesEffect DEF Typed
<1>15. CASE \/ ServerSendsData \/ ServerSendsStreamAck
            \/ ServerSendsSelectiveAck \/ ServerSendsControl
  <2>1. PICK p \in FromServer : ServerSends(p)
    BY <1>15, AnySendEffect
  <2>2. used' \in Uses
    BY <1>15, AnySendEffect
  <2>3. QED
    BY <2>1, <2>2, ServerSendsEffect DEF Typed
<1>16. QED
  BY <1>1, <1>2, <1>3, <1>4, <1>5, <1>6, <1>7, <1>8, <1>9, <1>10, <1>11, <1>12, <1>13,
     <1>14, <1>15 DEF Next

\* The state keeps its type: of the client's record, the packets on the wire, the
\* store and the server.
THEOREM TypeCorrect == Spec => []Typed
<1>1. Init => Typed
  BY TypedInit
<1>2. Typed /\ [Next]_vars => Typed'
  BY TypedNext
<1>3. QED
  BY <1>1, <1>2, PTL DEF Spec

\* Sending never stalls: in every state in which a packet could be sent, a
\* MaybeSendMessage is posted (MCSClient posts one after a login, after a
\* SelectiveAck and after dropping an expired message, and the end of every flush
\* runs it), whatever the connection, the server, the store and the process do.
THEOREM SendingNeverStalls == Spec => []NoStall
<1> DEFINE IInv == Typed /\ Awake(mcs)
<1>1. Init => IInv
  BY TypedInit
<1>2. IInv /\ [Next]_vars => IInv'
  BY TypedNext
<1>3. IInv => NoStall
  BY DEF Awake, NoStall
<1>4. QED
  BY <1>1, <1>2, <1>3, PTL DEF Spec


-----------------------------------------------------------------------------
(***************************************************************************)
(* The ids the client tracks                                               *)
(***************************************************************************)

\* What a store will hold, once it has executed the client's operations, are the
\* ids the client tracks.
Stored(c, s) == After(s, c.storeq).in = TrackedIds(c)

\* An id that was acknowledged is tracked in one place only, so that confirming
\* that acknowledgement is the end of it.
TrackedOnce(c) ==
    /\ \A i \in 1..Len(c.unacked) : \A a \in c.acked : a.id # c.unacked[i]
    /\ \A a, b \in c.acked : a.id = b.id => a.sid = b.sid

\* The same with the ids of an earlier process, which are only there until the
\* first connection.
TrackedSound(c) ==
    /\ c.conn # "down" => c.restored = {}
    /\ TrackedOnce(c)

\* Which ids these are.
LEMMA TrackedMembers ==
    ASSUME NEW c \in Clients, NEW id
    PROVE  id \in TrackedIds(c) <=> \/ \E i \in 1..Len(c.unacked) : c.unacked[i] = id
                                    \/ \E a \in c.acked : a.id = id
                                    \/ id \in c.restored
  BY DEF TrackedIds, UnackedIds, AckedIds

LEMMA SentTracked ==
    ASSUME NEW c \in Clients, NEW d, Sent(c, d)
    PROVE  /\ TrackedIds(d) = TrackedIds(c)
           /\ TrackedSound(c) => TrackedSound(d)
           /\ \A s \in Stores : Stored(c, s) => Stored(d, s)
<1>1. d \in Clients /\ d.restored = c.restored /\ d.conn = c.conn
  BY DEF Sent
<1>2. CASE d.unacked = c.unacked /\ d.acked = c.acked
  <2>1. TrackedIds(d) = TrackedIds(c)
    BY <1>1, <1>2 DEF TrackedIds, UnackedIds, AckedIds
  <2>2. TrackedOnce(c) => TrackedOnce(d)
    BY <1>2 DEF TrackedOnce
  <2>3. TrackedSound(c) => TrackedSound(d)
    BY <1>1, <2>2 DEF TrackedSound
  <2>4. QED
    BY <2>1, <2>3 DEF Stored, Sent, SameIncoming
<1>3. CASE /\ d.unacked = << >>
           /\ d.acked = c.acked \cup {[sid |-> c.out + 1, id |-> i] : i \in UnackedIds(c)}
  <2>1. UnackedIds(d) = {}
    BY <1>3 DEF UnackedIds
  <2>2. AckedIds(d) = AckedIds(c) \cup UnackedIds(c)
    <3> DEFINE A == {[sid |-> c.out + 1, id |-> i] : i \in UnackedIds(c)}
               rec(i) == [sid |-> c.out + 1, id |-> i]
    <3>1. d.acked = c.acked \cup A
      BY <1>3
    <3>2. /\ \A a \in A : a.id \in UnackedIds(c)
          /\ \A i \in UnackedIds(c) : rec(i) \in A /\ rec(i).id = i
      OBVIOUS
    <3> HIDE DEF A, rec
    <3>3. QED
      BY <3>1, <3>2 DEF AckedIds
  <2>3. TrackedIds(d) = TrackedIds(c)
    BY <1>1, <2>1, <2>2 DEF TrackedIds
  <2>4. TrackedOnce(c) => TrackedOnce(d)
    <3>1. SUFFICES ASSUME TrackedOnce(c), NEW a \in d.acked, NEW b \in d.acked, a.id = b.id
                   PROVE  a.sid = b.sid
      BY <1>3 DEF TrackedOnce
    <3>2. ASSUME NEW x \in d.acked
          PROVE  x \in c.acked \/ (x.sid = c.out + 1 /\ x.id \in UnackedIds(c))
      BY <1>3
    <3>3. \A x \in c.acked : x.id \notin UnackedIds(c)
      BY <3>1 DEF TrackedOnce, UnackedIds
    <3>4. QED
      BY <3>1, <3>2, <3>3 DEF TrackedOnce
  <2>5. QED
    BY <1>1, <2>3, <2>4 DEF TrackedSound, Stored, Sent, SameIncoming
<1>4. QED
  BY <1>2, <1>3 DEF Sent

LEMMA ConfirmsTracked ==
    ASSUME NEW c \in Clients, NEW d, NEW last, Confirms(c, d, last),
           TrackedSound(c), c.restored = {}
    PROVE  /\ TrackedIds(d) = TrackedIds(c) \ ConfirmedIds(c, last)
           /\ TrackedSound(d)
           /\ \A s \in Stores : Stored(c, s) => Stored(d, s)
<1>1. /\ d \in Clients /\ d.restored = {} /\ d.unacked = c.unacked /\ d.conn = c.conn
      /\ d.acked = {a \in c.acked : ~ (a.sid <= last)}
  BY DEF Confirms
<1>2. TrackedIds(d) = TrackedIds(c) \ ConfirmedIds(c, last)
  <2>1. UnackedIds(d) = UnackedIds(c)
    BY <1>1 DEF UnackedIds
  <2>2. UnackedIds(c) \cap ConfirmedIds(c, last) = {}
    BY DEF UnackedIds, ConfirmedIds, TrackedSound, TrackedOnce
  <2>3. AckedIds(d) = AckedIds(c) \ ConfirmedIds(c, last)
    <3>1. ASSUME NEW a \in c.acked, ~ (a.sid <= last) PROVE a.id \notin ConfirmedIds(c, last)
      BY <3>1 DEF ConfirmedIds, TrackedSound, TrackedOnce
    <3>2. QED
      BY <1>1, <3>1 DEF AckedIds, ConfirmedIds
  <2>4. QED
    BY <1>1, <2>1, <2>2, <2>3 DEF TrackedIds
<1>3. TrackedSound(d)
  BY <1>1 DEF TrackedSound, TrackedOnce
<1>4. QED
  BY <1>2, <1>3 DEF Stored, Confirms

LEMMA TookTracked ==
    ASSUME NEW c \in Clients, NEW packet \in FromServer, NEW d, Took(c, packet, d),
           TrackedSound(c), packet.id \notin TrackedIds(c)
    PROVE  /\ TrackedIds(d) = TrackedIds(c) \cup ({packet.id} \ {0})
           /\ TrackedSound(d)
           /\ \A s \in Stores : Stored(c, s) => Stored(d, s)
<1>1. /\ d \in Clients /\ d.restored = c.restored /\ d.conn = c.conn /\ d.acked = c.acked
      /\ d.unacked = IF packet.id = 0 THEN c.unacked ELSE Append(c.unacked, packet.id)
      /\ c.unacked \in Seq(ServerIds)
  BY DEF Took, Clients
<1>2. AckedIds(d) = AckedIds(c)
  BY <1>1 DEF AckedIds
<1>3. UnackedIds(d) = UnackedIds(c) \cup ({packet.id} \ {0})
  <2>1. CASE packet.id = 0
    BY <1>1, <2>1 DEF UnackedIds
  <2>2. CASE packet.id # 0
    <3>1. packet.id \in ServerIds
      BY <2>2 DEF FromServer
    <3>2. /\ Len(d.unacked) = Len(c.unacked) + 1 /\ Len(c.unacked) \in Nat
          /\ d.unacked[Len(c.unacked) + 1] = packet.id
          /\ \A i \in 1..Len(c.unacked) : d.unacked[i] = c.unacked[i]
      BY <1>1, <2>2, <3>1
    <3>3. /\ \A i \in 1..Len(d.unacked) : i \in 1..Len(c.unacked) \/ i = Len(c.unacked) + 1
          /\ \A i \in 1..Len(c.unacked) : i \in 1..Len(d.unacked)
          /\ Len(c.unacked) + 1 \in 1..Len(d.unacked)
      BY <3>2
    <3>4. QED
      BY <2>2, <3>2, <3>3 DEF UnackedIds
  <2>3. QED
    BY <2>1, <2>2
<1>4. TrackedIds(d) = TrackedIds(c) \cup ({packet.id} \ {0})
  BY <1>1, <1>2, <1>3 DEF TrackedIds
<1>5. TrackedOnce(d)
  <2>1. SUFFICES ASSUME NEW i \in 1..Len(d.unacked), NEW a \in c.acked
                 PROVE  a.id # d.unacked[i]
    BY <1>1 DEF TrackedOnce, TrackedSound
  <2>2. d.unacked[i] \in UnackedIds(d) /\ a.id \in AckedIds(c)
    BY DEF UnackedIds, AckedIds
  <2>3. a.id \notin UnackedIds(c)
    BY DEF UnackedIds, TrackedSound, TrackedOnce
  <2>4. a.id # packet.id
    BY <2>2 DEF TrackedIds
  <2>5. QED
    BY <1>3, <2>2, <2>3, <2>4
<1>6. QED
  BY <1>1, <1>4, <1>5 DEF TrackedSound, Stored, Took

\* A login request lists all that is tracked; from then on its acknowledgement is
\* in the request, which has stream id 1.
LEMMA RestartedTracked ==
    ASSUME NEW c \in Clients, NEW d, Restarted(c, d)
    PROVE  /\ TrackedIds(d) = TrackedIds(c)
           /\ TrackedSound(d)
           /\ \A s \in Stores : Stored(c, s) => Stored(d, s)
<1>1. /\ d.unacked = << >> /\ d.restored = {}
      /\ d.acked = {[sid |-> 1, id |-> i] : i \in TrackedIds(c)}
  BY DEF Restarted
<1>2. UnackedIds(d) = {} /\ AckedIds(d) = TrackedIds(c)
  <2>1. UnackedIds(d) = {}
    BY <1>1 DEF UnackedIds
  <2> DEFINE rec(i) == [sid |-> 1, id |-> i]
  <2>2. /\ \A a \in d.acked : a.id \in TrackedIds(c)
        /\ \A i \in TrackedIds(c) : rec(i) \in d.acked /\ rec(i).id = i
    BY <1>1
  <2> HIDE DEF rec
  <2>3. QED
    BY <2>1, <2>2 DEF AckedIds
<1>3. TrackedIds(d) = TrackedIds(c)
  BY <1>1, <1>2 DEF TrackedIds
<1>4. TrackedSound(d)
  <2>1. Len(d.unacked) = 0 /\ \A a \in d.acked : a.sid = 1
    BY <1>1
  <2>2. 1..Len(d.unacked) = {}
    BY <2>1
  <2>3. QED
    BY <1>1, <2>1, <2>2 DEF TrackedSound, TrackedOnce
<1>5. QED
  BY <1>3, <1>4 DEF Stored, Restarted, SameIncoming

\* Nothing about the ids changes.
LEMMA SameTracked ==
    ASSUME NEW c, NEW d,
           /\ d.restored = c.restored /\ d.unacked = c.unacked /\ d.acked = c.acked
           /\ d.conn \in {c.conn, "down"} \/ (d.conn # "down" /\ c.conn # "down")
    PROVE  /\ TrackedIds(d) = TrackedIds(c)
           /\ TrackedSound(c) => TrackedSound(d)
<1>1. TrackedIds(d) = TrackedIds(c)
  BY DEF TrackedIds, UnackedIds, AckedIds
<1>2. TrackedSound(c) => TrackedSound(d)
  BY DEF TrackedSound, TrackedOnce
<1>3. QED
  BY <1>1, <1>2

-----------------------------------------------------------------------------
(***************************************************************************)
(* The connection: T are the ids the client tracks                         *)
(***************************************************************************)
InLog(log, id) == \E i \in 1..Len(log) : log[i] = id

\* Whatever is on the wire to the client is new to it, and the server will not
\* send again what the client tracks.
LinkUp(T, wire, back, server) ==
    /\ \A id \in T : id \in server.forgotten \/ InLog(server.log, id)
    /\ \A i \in 1..Len(wire) : wire[i].id # 0 =>
           /\ InLog(server.log, wire[i].id)
           /\ wire[i].id \notin T
           /\ \A j \in 1..Len(wire) : i # j => wire[i].id # wire[j].id
    /\ \A i \in 1..Len(wire) : wire[i].tag # "LoginError"
    /\ \A i \in 1..Len(back) : back[i].body # "Login"

\* Until the server has read the login request it can at most have refused it,
\* and the request lists all that the client tracks.
LinkDown(T, wire, back) ==
    /\ \A i \in 1..Len(wire) : wire[i].tag = "LoginError"
    /\ \A i \in 1..Len(back) : back[i].body = "Login" => i = 1 /\ T \subseteq back[i].ids

Link(T, wire, back, server) ==
    IF server.up THEN LinkUp(T, wire, back, server) ELSE LinkDown(T, wire, back)

LEMMA LinkShrinks ==
    ASSUME NEW T, NEW U, U \subseteq T, NEW wire, NEW back, NEW server,
           Link(T, wire, back, server)
    PROVE  Link(U, wire, back, server)
<1>1. CASE server.up
  BY <1>1 DEF Link, LinkUp
<1>2. CASE ~ server.up
  BY <1>2 DEF Link, LinkDown
<1>3. QED
  BY <1>1, <1>2

\* The packet at the head of the wire is taken.
LEMMA LinkTakes ==
    ASSUME NEW T, NEW wire \in Seq(FromServer), wire # << >>, NEW back, NEW server,
           Link(T, wire, back, server)
    PROVE  /\ Head(wire).id # 0 => Head(wire).id \notin T
           /\ Link(T \cup ({Head(wire).id} \ {0}), Tail(wire), back, server)
<1> DEFINE p == Head(wire)
           rest == Tail(wire)
<1>1. /\ Len(wire) \in Nat /\ 1 \in 1..Len(wire) /\ p = wire[1] /\ p \in FromServer
      /\ Len(rest) = Len(wire) - 1
      /\ \A i \in 1..Len(rest) : rest[i] = wire[i + 1] /\ i + 1 \in 1..Len(wire) /\ i + 1 # 1
      /\ \A i, j \in 1..Len(rest) : i # j => i + 1 # j + 1
  OBVIOUS
<1> HIDE DEF p, rest
<1>2. CASE server.up
  <2>1. LinkUp(T, wire, back, server)
    BY <1>2 DEF Link
  <2>2. p.id # 0 => p.id \notin T /\ InLog(server.log, p.id)
    BY <1>1, <2>1 DEF LinkUp
  <2>3. \A i \in 1..Len(rest) : rest[i].id # 0 =>
            /\ InLog(server.log, rest[i].id)
            /\ rest[i].id \notin T
            /\ rest[i].id # p.id
            /\ \A j \in 1..Len(rest) : i # j => rest[i].id # rest[j].id
    <3>1. SUFFICES ASSUME NEW i \in 1..Len(rest), rest[i].id # 0
                   PROVE  /\ InLog(server.log, rest[i].id)
                          /\ rest[i].id \notin T
                          /\ rest[i].id # p.id
                          /\ \A j \in 1..Len(rest) : i # j => rest[i].id # rest[j].id
      OBVIOUS
    <3> DEFINE n == i + 1
    <3>2. n \in 1..Len(wire) /\ rest[i] = wire[n] /\ n # 1
      BY <1>1
    <3>3. \A j \in 1..Len(rest) : i # j => n # j + 1 /\ j + 1 \in 1..Len(wire)
      BY <1>1
    <3> HIDE DEF n
    <3>4. /\ InLog(server.log, wire[n].id) /\ wire[n].id \notin T
          /\ \A j \in 1..Len(wire) : n # j => wire[n].id # wire[j].id
      BY <2>1, <3>1, <3>2 DEF LinkUp
    <3>5. QED
      BY <1>1, <3>2, <3>3, <3>4
  <2>4. \A i \in 1..Len(rest) : rest[i].tag # "LoginError"
    BY <1>1, <2>1 DEF LinkUp
  <2>5. LinkUp(T \cup ({p.id} \ {0}), rest, back, server)
    BY <2>1, <2>2, <2>3, <2>4 DEF LinkUp
  <2>6. QED
    BY <1>2, <2>2, <2>5 DEF Link, p, rest
<1>3. CASE ~ server.up
  <2>1. LinkDown(T, wire, back)
    BY <1>3 DEF Link
  <2>2. p.tag = "LoginError" /\ p.id = 0
    BY <1>1, <2>1 DEF LinkDown, FromServer
  <2>3. T \cup ({p.id} \ {0}) = T
    BY <2>2
  <2>4. \A i \in 1..Len(rest) : rest[i].tag = "LoginError"
    BY <1>1, <2>1 DEF LinkDown
  <2>5. LinkDown(T, rest, back)
    BY <2>1, <2>4 DEF LinkDown
  <2>6. QED
    BY <1>3, <2>2, <2>3, <2>5 DEF Link, p, rest
<1>4. QED
  BY <1>2, <1>3

-----------------------------------------------------------------------------
(***************************************************************************)
(* The store follows the ids the client tracks                             *)
(***************************************************************************)
Linked == mcs.conn # "down" => Link(TrackedIds(mcs), to_client, to_server, srv)

InSync == Stored(mcs, db) /\ TrackedSound(mcs) /\ Linked

\* The calls one packet leads to, and what each makes of the tracked ids.
Follows(c, packet, d, e, g) ==
    /\ Receives(c, packet)
    /\ Counted(c, packet, d, e, g)
    /\ Dispatched(g, packet, mcs')

Tracks(c, packet, d, e, g) ==
    /\ c \in Clients /\ d \in Clients /\ e \in Clients /\ g \in Clients
    /\ packet \in FromServer
    /\ c.acked = mcs.acked /\ c.conn # "down" /\ TrackedIds(c) = TrackedIds(mcs)
    /\ TrackedIds(d) = IF packet.last # 0 THEN TrackedIds(mcs) \ ConfirmedIds(c, packet.last)
                       ELSE TrackedIds(mcs)
    /\ TrackedIds(e) = TrackedIds(d) \cup ({packet.id} \ {0})
    /\ TrackedIds(g) = TrackedIds(e)
    /\ TrackedIds(mcs') \subseteq TrackedIds(g)
    /\ packet.tag # "SelectiveAck" => TrackedIds(mcs') = TrackedIds(g)

LEMMA ReceiveTracked ==
    ASSUME Typed, InSync, mcs.conn # "down", NEW c, NEW packet, NEW d, NEW e, NEW g,
           Follows(c, packet, d, e, g)
    PROVE  /\ Tracks(c, packet, d, e, g)
           /\ TrackedSound(mcs') /\ Stored(mcs', db)
           /\ Link(TrackedIds(mcs'), Tail(to_client), to_server, srv)
<1> DEFINE T == TrackedIds(mcs)
<1>1. /\ mcs \in Clients /\ db \in Stores /\ to_client \in Seq(FromServer)
      /\ to_client # << >> /\ packet = Head(to_client) /\ packet \in FromServer
      /\ c \in Clients /\ c.conn # "down"
      /\ c.restored = mcs.restored /\ c.unacked = mcs.unacked /\ c.acked = mcs.acked
      /\ c.storeq = mcs.storeq
  BY DEF Typed, Follows, Receives, SameTracking
<1>2. Counted(c, packet, d, e, g) /\ Dispatched(g, packet, mcs')
  BY DEF Follows
<1>3. /\ TrackedIds(c) = T /\ TrackedSound(c) /\ Stored(c, db) /\ c.restored = {}
  <2>1. TrackedIds(c) = T /\ TrackedSound(c)
    BY <1>1, SameTracked DEF InSync
  <2>2. QED
    BY <1>1, <2>1 DEF InSync, Stored, TrackedSound
<1>4. Link(T, to_client, to_server, srv)
  BY DEF InSync, Linked
<1>5. /\ d \in Clients /\ TrackedSound(d) /\ Stored(d, db) /\ d.restored = {} /\ d.conn = c.conn
      /\ TrackedIds(d) = IF packet.last # 0 THEN T \ ConfirmedIds(c, packet.last) ELSE T
  <2>1. CASE packet.last # 0
    <3>1. Confirms(c, d, packet.last)
      BY <1>2, <2>1 DEF Counted
    <3>2. /\ TrackedIds(d) = TrackedIds(c) \ ConfirmedIds(c, packet.last)
          /\ TrackedSound(d)
          /\ \A s \in Stores : Stored(c, s) => Stored(d, s)
      BY <1>1, <1>3, <3>1, ConfirmsTracked
    <3>3. QED
      BY <1>1, <1>3, <2>1, <3>1, <3>2 DEF Confirms
  <2>2. CASE packet.last = 0
    BY <1>1, <1>2, <1>3, <2>2 DEF Counted
  <2>3. QED
    BY <2>1, <2>2
<1> HIDE DEF T
<1>6. TrackedIds(d) \subseteq T
  BY <1>5
<1>7. Link(TrackedIds(d), to_client, to_server, srv)
  BY <1>4, <1>6, LinkShrinks
<1>8. /\ packet.id # 0 => packet.id \notin TrackedIds(d)
      /\ Link(TrackedIds(d) \cup ({packet.id} \ {0}), Tail(to_client), to_server, srv)
  BY <1>1, <1>7, LinkTakes
<1>9. packet.id \notin TrackedIds(d)
  <2>1. 0 \notin TrackedIds(d)
    BY <1>5, TrackedType, SystemAssumption
  <2>2. QED
    BY <1>8, <2>1
<1>10. /\ e \in Clients /\ TrackedSound(e) /\ Stored(e, db) /\ e.restored = {}
       /\ TrackedIds(e) = TrackedIds(d) \cup ({packet.id} \ {0})
  <2>1. Took(d, packet, e)
    BY <1>2 DEF Counted
  <2>2. /\ TrackedIds(e) = TrackedIds(d) \cup ({packet.id} \ {0})
        /\ TrackedSound(e)
        /\ \A s \in Stores : Stored(d, s) => Stored(e, s)
    BY <1>1, <1>5, <1>9, <2>1, TookTracked
  <2>3. QED
    BY <1>1, <1>5, <2>1, <2>2 DEF Took
<1>11. /\ g \in Clients /\ TrackedSound(g) /\ Stored(g, db) /\ g.restored = {}
       /\ TrackedIds(g) = TrackedIds(e)
  <2>1. Sent(e, g)
    BY <1>2 DEF Counted
  <2>2. /\ TrackedIds(g) = TrackedIds(e) /\ (TrackedSound(e) => TrackedSound(g))
        /\ \A s \in Stores : Stored(e, s) => Stored(g, s)
    BY <1>10, <2>1, SentTracked
  <2>3. QED
    BY <1>1, <1>10, <2>1, <2>2 DEF Sent
<1>12. /\ TrackedSound(mcs') /\ Stored(mcs', db)
       /\ TrackedIds(mcs') \subseteq TrackedIds(g)
       /\ packet.tag # "SelectiveAck" => TrackedIds(mcs') = TrackedIds(g)
  <2>1. packet.tag \in Tags
    BY <1>1 DEF FromServer
  <2>2. CASE packet.tag \in {"LoginResponse", "LoginError", "Close", "Data"}
    <3>1. /\ SameTracking(g, mcs') /\ mcs'.conn \in {g.conn, "down"}
      BY <1>2, <2>2 DEF Dispatched, Opened, Reset, Handed
    <3>2. TrackedIds(mcs') = TrackedIds(g) /\ (TrackedSound(g) => TrackedSound(mcs'))
      BY <3>1, SameTracked DEF SameTracking
    <3>3. QED
      BY <1>11, <3>1, <3>2 DEF Stored, SameTracking
  <2>3. CASE packet.tag \in {"HeartbeatPing", "IdleNotification"}
    <3>1. Sent(g, mcs')
      BY <1>2, <2>3 DEF Dispatched
    <3>2. QED
      BY <1>1, <1>11, <3>1, SentTracked
  <2>4. CASE packet.tag = "SelectiveAck"
    <3>1. PICK last : Confirms(g, mcs', last)
      BY <1>2, <2>4 DEF Dispatched
    <3>2. /\ TrackedIds(mcs') = TrackedIds(g) \ ConfirmedIds(g, last)
          /\ TrackedSound(mcs')
          /\ \A s \in Stores : Stored(g, s) => Stored(mcs', s)
      BY <1>11, <3>1, ConfirmsTracked
    <3>3. QED
      BY <1>1, <1>11, <2>4, <3>2
  <2>5. CASE packet.tag \in {"HeartbeatAck", "StreamAck"}
    <3>1. mcs' = g
      BY <1>2, <2>5 DEF Dispatched
    <3>2. QED
      BY <1>11, <3>1
  <2>6. QED
    BY <2>1, <2>2, <2>3, <2>4, <2>5 DEF Tags
<1>13. Link(TrackedIds(mcs'), Tail(to_client), to_server, srv)
  <2>1. TrackedIds(mcs') \subseteq TrackedIds(d) \cup ({packet.id} \ {0})
    BY <1>10, <1>11, <1>12
  <2>2. QED
    BY <1>8, <2>1, LinkShrinks
<1>14. QED
  BY <1>1, <1>3, <1>5, <1>10, <1>11, <1>12, <1>13 DEF Tracks, T

\* A step that leaves the ids and the connection as they are.
LEMMA SameInSync ==
    ASSUME InSync, Stored(mcs', db'), TrackedSound(mcs'), TrackedIds(mcs') = TrackedIds(mcs),
           mcs'.conn \in {mcs.conn, "down"}, to_client' = to_client, srv' = srv,
           \/ to_server' = to_server
           \/ /\ to_server \in Seq(Frames \cup Logins)
              /\ \E f \in Frames : to_server' = Append(to_server, f)
    PROVE  InSync'
<1>1. CASE to_server' = to_server
  BY <1>1 DEF InSync, Linked
<1>2. ASSUME NEW f \in Frames, to_server' = Append(to_server, f),
             to_server \in Seq(Frames \cup Logins)
      PROVE  InSync'
  <2>1. f.body # "Login"
    BY LoginLemma, ClientAssumption DEF Frames, Control
  <2>2. /\ Len(to_server) \in Nat /\ Len(to_server') = Len(to_server) + 1
        /\ to_server'[Len(to_server) + 1] = f
        /\ \A i \in 1..Len(to_server) : to_server'[i] = to_server[i]
    BY <1>2
  <2>3. \A i \in 1..Len(to_server') :
            i \in 1..Len(to_server) \/ to_server'[i].body # "Login"
    BY <2>1, <2>2
  <2>4. ASSUME mcs'.conn # "down"
        PROVE  Link(TrackedIds(mcs), to_client, to_server', srv)
    <3>1. Link(TrackedIds(mcs), to_client, to_server, srv)
      BY <2>4 DEF InSync, Linked
    <3>2. CASE srv.up
      BY <2>2, <2>3, <3>1, <3>2 DEF Link, LinkUp
    <3>3. CASE ~ srv.up
      BY <2>2, <2>3, <3>1, <3>3 DEF Link, LinkDown
    <3>4. QED
      BY <3>2, <3>3
  <2>5. QED
    BY <2>4 DEF InSync, Linked
<1>3. QED
  BY <1>1, <1>2

LEMMA StartedTracked ==
    ASSUME NEW s \in Stores, NEW d, Started(s, d)
    PROVE  TrackedIds(d) = s.in /\ TrackedSound(d) /\ Stored(d, s)
<1>1. /\ d.unacked = << >> /\ d.acked = {} /\ d.restored = s.in /\ d.conn = "down"
      /\ After(s, d.storeq).in = s.in
  BY DEF Started
<1>2. TrackedIds(d) = s.in
  BY <1>1 DEF TrackedIds, UnackedIds, AckedIds
<1>3. TrackedSound(d)
  BY <1>1 DEF TrackedSound, TrackedOnce
<1>4. QED
  BY <1>1, <1>2, <1>3 DEF Stored

LEMMA InSyncInit == Init => InSync
<1>1. SUFFICES ASSUME Init PROVE InSync
  OBVIOUS
<1>2. Typed /\ Started(db, mcs)
  BY <1>1, TypedInit
<1>3. TrackedSound(mcs) /\ Stored(mcs, db)
  BY <1>2, StartedTracked DEF Typed
<1>4. QED
  BY <1>2, <1>3 DEF InSync, Linked, Started

LEMMA InSyncNext ==
    ASSUME Typed, InSync, [Next]_vars
    PROVE  InSync'
<1>1. mcs \in Clients /\ db \in Stores /\ to_client \in Seq(FromServer)
      /\ to_server \in Seq(Frames \cup Logins) /\ srv \in Servers
  BY DEF Typed
<1>2. ASSUME Sent(mcs, mcs'), UNCHANGED <<db, to_server, to_client, srv>>
      PROVE  InSync'
  <2>1. /\ TrackedIds(mcs') = TrackedIds(mcs) /\ TrackedSound(mcs')
        /\ Stored(mcs', db) /\ mcs'.conn = mcs.conn
    BY <1>1, <1>2, SentTracked DEF InSync, Sent
  <2>2. QED
    BY <1>2, <2>1, SameInSync
<1>3. ASSUME Ticked(mcs, mcs'), UNCHANGED <<db, to_server, to_client, srv>>
      PROVE  InSync'
  <2>1. /\ TrackedIds(mcs') = TrackedIds(mcs) /\ TrackedSound(mcs') /\ mcs'.conn = mcs.conn
    BY <1>3, SameTracked DEF InSync, Ticked
  <2>2. Stored(mcs', db)
    BY <1>3, <2>1 DEF Ticked, Stored, InSync
  <2>3. QED
    BY <1>3, <2>1, <2>2, SameInSync
<1>4. CASE UNCHANGED vars
  BY <1>4 DEF vars, InSync, Linked
<1>5. CASE AppSend
  BY <1>2, <1>5, AppSendEffect DEF AppSend
<1>6. CASE RunMaybeSend
  BY <1>2, <1>6, RunMaybeSendEffect DEF RunMaybeSend, Client
<1>7. CASE Deliver
  BY <1>3, <1>7, DeliverEffect DEF Deliver
<1>8. CASE FlushDone
  <2>1. PICK c \in Clients :
            /\ c.conn = mcs.conn /\ c.restored = mcs.restored /\ c.unacked = mcs.unacked
            /\ c.acked = mcs.acked /\ c.storeq = mcs.storeq
            /\ Sent(c, mcs')
    BY <1>8, FlushDoneEffect
  <2>2. TrackedIds(c) = TrackedIds(mcs) /\ TrackedSound(c)
    BY <2>1, SameTracked DEF InSync
  <2>3. Stored(c, db)
    BY <2>1, <2>2 DEF Stored, InSync
  <2>4. /\ TrackedIds(mcs') = TrackedIds(mcs) /\ TrackedSound(mcs') /\ Stored(mcs', db)
        /\ mcs'.conn = mcs.conn
    BY <1>1, <2>1, <2>2, <2>3, SentTracked DEF Sent
  <2>5. PICK f \in Frames : to_server' = Append(to_server, f)
    BY <1>8, FlushDoneEffect
  <2>6. db' = db /\ to_client' = to_client /\ srv' = srv
    BY <1>8 DEF FlushDone
  <2>7. QED
    BY <1>1, <2>4, <2>5, <2>6, SameInSync
<1>9. CASE SendHeartbeat
  BY <1>2, <1>9, SendHeartbeatEffect DEF SendHeartbeat
<1>10. CASE Expire
  BY <1>3, <1>10, ExpireEffect DEF Expire, Client
<1>11. CASE Disconnect
  <2>1. Reset(mcs, mcs') /\ db' = db
    BY <1>11, DisconnectEffect DEF Disconnect
  <2>2. TrackedIds(mcs') = TrackedIds(mcs) /\ TrackedSound(mcs')
    BY <2>1, SameTracked DEF InSync, Reset, SameTracking
  <2>3. QED
    BY <2>1, <2>2 DEF InSync, Linked, Stored, Reset, SameTracking
<1>12. CASE Reconnect
  <2>1. /\ Restarted(mcs, mcs') /\ LoginRequest(mcs).ids = TrackedIds(mcs) /\ ~ srv'.up
        /\ to_server' = <<LoginRequest(mcs)>> /\ to_client' = << >> /\ db' = db
    BY <1>12, ReconnectEffect DEF Reconnect
  <2>2. TrackedIds(mcs') = TrackedIds(mcs) /\ TrackedSound(mcs') /\ Stored(mcs', db)
    BY <1>1, <2>1, RestartedTracked DEF InSync
  <2>3. /\ \A i \in 1..Len(to_server') : i = 1 /\ to_server'[i] = LoginRequest(mcs)
        /\ \A i \in 1..Len(to_client') : FALSE
    BY <2>1
  <2>4. LinkDown(TrackedIds(mcs'), to_client', to_server')
    BY <2>1, <2>2, <2>3 DEF LinkDown
  <2>5. QED
    BY <2>1, <2>2, <2>4 DEF InSync, Linked, Link
<1>13. CASE Receive
  <2>1. PICK c, packet, d, e, g : Follows(c, packet, d, e, g)
    BY <1>13, ReceiveEffect DEF Follows
  <2>2. mcs.conn # "down" /\ UNCHANGED <<db, to_server, srv>>
    BY <1>13 DEF Receive
  <2>3. /\ TrackedSound(mcs') /\ Stored(mcs', db)
        /\ Link(TrackedIds(mcs'), Tail(to_client), to_server, srv)
    BY <2>1, <2>2, ReceiveTracked
  <2>4. mcs'.conn # "down" => to_client' = Tail(to_client)
    BY <1>13, ReceiveEffect
  <2>5. QED
    BY <2>2, <2>3, <2>4 DEF InSync, Linked
<1>14. CASE StoreStep
  <2>1. /\ mcs'.restored = mcs.restored /\ mcs'.unacked = mcs.unacked
        /\ mcs'.acked = mcs.acked /\ mcs'.conn = mcs.conn
        /\ After(db', mcs'.storeq) = After(db, mcs.storeq)
        /\ UNCHANGED <<to_server, to_client, srv>>
    BY <1>14, StoreStepEffect DEF StoreStep
  <2>2. TrackedIds(mcs') = TrackedIds(mcs) /\ TrackedSound(mcs')
    BY <2>1, SameTracked DEF InSync
  <2>3. Stored(mcs', db')
    BY <2>1, <2>2 DEF InSync, Stored
  <2>4. QED
    BY <2>1, <2>2, <2>3, SameInSync
<1>15. CASE Restart
  <2>1. Started(db, mcs') /\ db' = db
    BY <1>15, RestartEffect DEF Restart
  <2>2. TrackedSound(mcs') /\ Stored(mcs', db)
    BY <1>1, <2>1, StartedTracked
  <2>3. QED
    BY <2>1, <2>2 DEF InSync, Linked, Started
<1>16. CASE ServerLogin
  <2>1. /\ to_server # << >> /\ Head(to_server) \in Logins
        /\ to_server' = Tail(to_server) /\ UNCHANGED <<mcs, db>>
    BY <1>16, ServerLoginEffect
  <2>2. SUFFICES ASSUME mcs.conn # "down"
                 PROVE  Link(TrackedIds(mcs), to_client', to_server', srv')
    BY <2>1 DEF InSync, Linked, Stored
  <2>3. PICK p \in FromServer :
            /\ to_client' = <<p>> /\ p.id = 0
            /\ \/ /\ p.tag = "LoginResponse" /\ srv'.up
                  /\ srv'.forgotten = srv.forgotten \cup Head(to_server).ids
               \/ p.tag = "LoginError" /\ srv' = srv
    BY <1>16, ServerLoginEffect
  <2>4. /\ 1 \in 1..Len(to_server) /\ Head(to_server) = to_server[1]
        /\ Len(to_server) \in Nat /\ Len(Tail(to_server)) = Len(to_server) - 1
        /\ \A i \in 1..Len(Tail(to_server)) :
               Tail(to_server)[i] = to_server[i + 1] /\ i + 1 \in 1..Len(to_server) /\ i + 1 # 1
    BY <1>1, <2>1
  <2>5. to_server[1].body = "Login"
    BY <2>1, <2>4 DEF Logins
  <2>6. ~ srv.up /\ LinkDown(TrackedIds(mcs), to_client, to_server)
    BY <2>2, <2>4, <2>5 DEF InSync, Linked, Link, LinkUp
  <2>7. /\ TrackedIds(mcs) \subseteq Head(to_server).ids
        /\ \A i \in 1..Len(to_server') : to_server'[i].body # "Login"
    BY <2>1, <2>4, <2>5, <2>6 DEF LinkDown
  <2>8. \A i \in 1..Len(to_client') : to_client'[i] = p
    BY <2>3
  <2>9. CASE p.tag = "LoginError"
    <3>1. LinkDown(TrackedIds(mcs), to_client', to_server') /\ srv' = srv
      BY <2>3, <2>7, <2>8, <2>9 DEF LinkDown
    <3>2. QED
      BY <2>6, <3>1 DEF Link
  <2>10. CASE p.tag # "LoginError"
    <3>1. LinkUp(TrackedIds(mcs), to_client', to_server', srv') /\ srv'.up
      BY <2>3, <2>7, <2>8, <2>10 DEF LinkUp
    <3>2. QED
      BY <3>1 DEF Link
  <2>11. QED
    BY <2>9, <2>10
<1>17. CASE ServerReceives
  <2>1. /\ to_server # << >> /\ to_server' = Tail(to_server) /\ UNCHANGED <<mcs, db, to_client>>
        /\ srv.up /\ srv'.up /\ srv'.log = srv.log /\ srv.forgotten \subseteq srv'.forgotten
    BY <1>17, ServerReceivesEffect
  <2>2. /\ \A i \in 1..Len(to_server') :
               to_server'[i] = to_server[i + 1] /\ i + 1 \in 1..Len(to_server)
    BY <1>1, <2>1
  <2>3. SUFFICES ASSUME mcs.conn # "down"
                 PROVE  Link(TrackedIds(mcs), to_client', to_server', srv')
    BY <2>1 DEF InSync, Linked, Stored
  <2>4. LinkUp(TrackedIds(mcs), to_client, to_server, srv)
    BY <2>1, <2>3 DEF InSync, Linked, Link
  <2>5. LinkUp(TrackedIds(mcs), to_client', to_server', srv')
    BY <2>1, <2>2, <2>4 DEF LinkUp
  <2>6. QED
    BY <2>1, <2>5 DEF Link
<1>18. CASE \/ ServerSendsData \/ ServerSendsStreamAck
            \/ ServerSendsSelectiveAck \/ ServerSendsControl
  <2>1. PICK p \in FromServer :
            /\ ServerSends(p)
            /\ p.tag # "LoginResponse" /\ p.tag # "LoginError"
            /\ \/ p.id = 0
               \/ /\ p.id \in ServerIds \ srv.forgotten
                  /\ \A i \in 1..Len(srv.log) : srv.log[i] # p.id
    BY <1>18, AnySendEffect
  <2>2. /\ srv.up /\ srv'.up /\ mcs.conn # "down" /\ to_client' = Append(to_client, p)
        /\ srv'.forgotten = srv.forgotten /\ srv'.log = Append(srv.log, p.id)
        /\ UNCHANGED <<mcs, db, to_server>>
    BY <2>1, ServerSendsEffect
  <2>3. /\ Len(to_client) \in Nat /\ Len(to_client') = Len(to_client) + 1
        /\ to_client'[Len(to_client) + 1] = p
        /\ \A i \in 1..Len(to_client) : to_client'[i] = to_client[i]
    BY <1>1, <2>2
  <2>4. /\ Len(srv.log) \in Nat /\ Len(srv'.log) = Len(srv.log) + 1
        /\ srv'.log[Len(srv.log) + 1] = p.id
        /\ \A i \in 1..Len(srv.log) : srv'.log[i] = srv.log[i]
    <3>1. srv.log \in Seq(ServerIds \cup {0}) /\ p.id \in ServerIds \cup {0}
      BY <1>1 DEF Servers, FromServer
    <3>2. QED
      BY <2>2, <3>1
  <2>5. InLog(srv'.log, p.id) /\ \A id : InLog(srv.log, id) => InLog(srv'.log, id)
    <3>1. Len(srv.log) + 1 \in 1..Len(srv'.log)
          /\ \A i \in 1..Len(srv.log) : i \in 1..Len(srv'.log)
      BY <2>4
    <3>2. QED
      BY <2>4, <3>1 DEF InLog
  <2>6. LinkUp(TrackedIds(mcs), to_client, to_server, srv)
    BY <2>2 DEF InSync, Linked, Link
  <2>7. ASSUME p.id # 0
        PROVE  /\ p.id \notin TrackedIds(mcs)
               /\ \A i \in 1..Len(to_client) : to_client[i].id # p.id
    <3>1. p.id \notin srv.forgotten /\ ~ InLog(srv.log, p.id)
      BY <2>1, <2>7 DEF InLog
    <3>2. QED
      BY <2>6, <2>7, <3>1 DEF LinkUp
  <2>8. \A i \in 1..Len(to_client') : i \in 1..Len(to_client) \/ i = Len(to_client) + 1
    BY <2>3
  <2>9. \A i \in 1..Len(to_client') : to_client'[i].id # 0 =>
            /\ InLog(srv'.log, to_client'[i].id)
            /\ to_client'[i].id \notin TrackedIds(mcs)
            /\ \A j \in 1..Len(to_client') : i # j => to_client'[i].id # to_client'[j].id
    <3>1. SUFFICES ASSUME NEW i \in 1..Len(to_client'), to_client'[i].id # 0
                   PROVE  /\ InLog(srv'.log, to_client'[i].id)
                          /\ to_client'[i].id \notin TrackedIds(mcs)
                          /\ \A j \in 1..Len(to_client') :
                                 i # j => to_client'[i].id # to_client'[j].id
      OBVIOUS
    <3>2. CASE i = Len(to_client) + 1
      BY <2>3, <2>5, <2>7, <2>8, <3>1, <3>2
    <3>3. CASE i \in 1..Len(to_client)
      <4>1. to_client'[i] = to_client[i]
        BY <2>3, <3>3
      <4>2. /\ InLog(srv.log, to_client[i].id) /\ to_client[i].id \notin TrackedIds(mcs)
            /\ \A j \in 1..Len(to_client) : i # j => to_client[i].id # to_client[j].id
        BY <2>6, <3>1, <3>3, <4>1 DEF LinkUp
      <4>3. to_client[i].id # p.id
        BY <2>7, <3>1, <3>3, <4>1
      <4>4. QED
        BY <2>3, <2>5, <2>8, <4>1, <4>2, <4>3
    <3>4. QED
      BY <2>8, <3>2, <3>3
  <2>10. LinkUp(TrackedIds(mcs), to_client', to_server', srv')
    <3>1. \A id \in TrackedIds(mcs) : id \in srv'.forgotten \/ InLog(srv'.log, id)
      BY <2>2, <2>5, <2>6 DEF LinkUp
    <3>2. \A i \in 1..Len(to_client') : to_client'[i].tag # "LoginError"
      BY <2>1, <2>3, <2>6, <2>8 DEF LinkUp
    <3>3. \A i \in 1..Len(to_server') : to_server'[i].body # "Login"
      BY <2>2, <2>6 DEF LinkUp
    <3>4. QED
      BY <2>9, <3>1, <3>2, <3>3 DEF LinkUp
  <2>11. QED
    BY <2>2, <2>10 DEF InSync, Linked, Link, Stored
<1>19. QED
  BY <1>4, <1>5, <1>6, <1>7, <1>8, <1>9, <1>10, <1>11, <1>12, <1>13, <1>14, <1>15, <1>16,
     <1>17, <1>18 DEF Next

\* The store follows what the client tracks (AddIncomingMessage when a message
\* comes in, RemoveIncomingMessages when the server has confirmed the
\* acknowledgement): for every order of packets, acknowledgements, breaks, crashes
\* between a handler and its write, and restarts, what the store is about to hold
\* is what the next login request will acknowledge.
THEOREM IncomingStoreFollows == Spec => []IncomingStoreInSync
<1>1. Init => Typed /\ InSync
  BY TypedInit, InSyncInit
<1>2. Typed /\ InSync /\ [Next]_vars => Typed' /\ InSync'
  BY TypedNext, InSyncNext
<1>3. InSync => IncomingStoreInSync
  BY DEF InSync, Stored, IncomingStoreInSync, Drained
<1>4. QED
  BY <1>1, <1>2, <1>3, PTL DEF Spec

-----------------------------------------------------------------------------
(***************************************************************************)
(* The client's count of the server's packets agrees with the server's,    *)
(* while the process lives. R are the ids received.                        *)
(***************************************************************************)

\* What the server has forgotten, or will when it reads what is on its way, was
\* received: the client acknowledges no packet it has not counted.
Heard(c, back, server, R) ==
    /\ TrackedIds(c) \subseteq R
    /\ server.forgotten \subseteq R
    /\ \A i \in 1..Len(back) : back[i].body = "Login" => back[i].ids \subseteq R
    /\ \A i \in 1..Len(server.log) : i <= c.in => server.log[i] \in R \cup {0}
    /\ \A i \in 1..Len(server.log) : i = 1 => server.log[i] = 0
    /\ \A i \in 1..Len(back) : back[i].last <= c.in
    /\ \A i \in 1..Len(c.flush) : c.flush[i].last <= c.in

\* The packets the client has counted and those on the wire are what the server
\* has sent on this connection.
CountUp(c, wire, server) ==
    /\ Len(server.log) >= 1 /\ Len(server.log) = c.in + Len(wire)
    /\ \A k \in 1..Len(wire) : /\ server.log[c.in + k] = wire[k].id
                               /\ wire[k].tag = "LoginResponse" => c.in + k = 1

\* Before the server has read the login request nothing happens on a connection.
NewLink(c, back) ==
    /\ c.conn = "handshake" /\ c.in = 0 /\ c.out = 1 /\ c.flush = << >> /\ c.unacked = << >>
    /\ \A a \in c.acked : a.sid = 1
    /\ Len(back) <= 1

Agree ==
    /\ Heard(mcs, to_server, srv, Received)
    /\ mcs.conn # "down" =>
           IF srv.up THEN CountUp(mcs, to_client, srv) ELSE NewLink(mcs, to_server)

LEMMA SentHeard ==
    ASSUME NEW c \in Clients, NEW d, Sent(c, d), NEW back, NEW server, NEW R,
           Heard(c, back, server, R)
    PROVE  Heard(d, back, server, R)
<1>1. TrackedIds(d) = TrackedIds(c) /\ d.in = c.in /\ c.in \in Nat
  BY SentTracked DEF Sent, Clients
<1>2. \A i \in 1..Len(d.flush) : d.flush[i].last <= d.in
  <2>1. CASE d.flush = c.flush
    BY <1>1, <2>1 DEF Heard
  <2>2. ASSUME NEW f \in Frames, d.flush = <<f>>, f.last = c.in
        PROVE  \A i \in 1..Len(d.flush) : d.flush[i].last <= d.in
    <3>1. \A i \in 1..Len(d.flush) : d.flush[i] = f
      BY <2>2
    <3>2. QED
      BY <1>1, <2>2, <3>1
  <2>3. QED
    BY <2>1, <2>2 DEF Sent
<1>3. QED
  BY <1>1, <1>2 DEF Heard

\* Nothing but the tracked ids shrinks.
LEMMA SameHeard ==
    ASSUME NEW c, NEW d, TrackedIds(d) \subseteq TrackedIds(c), d.in = c.in,
           d.flush = c.flush \/ d.flush = << >>,
           NEW back, NEW server, NEW R, Heard(c, back, server, R)
    PROVE  Heard(d, back, server, R)
<1>1. \A i \in 1..Len(d.flush) : d.flush[i].last <= d.in
  <2>1. CASE d.flush = c.flush
    BY <2>1 DEF Heard
  <2>2. CASE d.flush = << >>
    <3>1. 1..Len(d.flush) = {}
      BY <2>2
    <3>2. QED
      BY <3>1
  <2>3. QED
    BY <2>1, <2>2
<1>2. QED
  BY <1>1 DEF Heard

\* The packet with stream id n is one of S, or has no id.
CountedIn(server, n, S) == \A i \in 1..Len(server.log) : i = n => server.log[i] \in S \cup {0}

LEMMA TookHeard ==
    ASSUME NEW c \in Clients, NEW packet \in FromServer, NEW d, Took(c, packet, d),
           NEW back \in Seq(Frames \cup Logins), NEW server, NEW R, NEW S,
           R \subseteq S, packet.id \in S \cup {0},
           Heard(c, back, server, R),
           TrackedIds(d) \subseteq TrackedIds(c) \cup ({packet.id} \ {0}),
           CountedIn(server, c.in + 1, S)
    PROVE  Heard(d, back, server, S)
<1>1. d.in = c.in + 1 /\ c.in \in Nat /\ d.flush = c.flush
  BY DEF Took, Clients
<1>2. TrackedIds(d) \subseteq S
  BY DEF Heard
<1>3. ASSUME NEW i \in 1..Len(server.log), i <= d.in PROVE server.log[i] \in S \cup {0}
  <2>1. i <= c.in \/ i = c.in + 1
    BY <1>1, <1>3
  <2>2. QED
    BY <2>1 DEF Heard, CountedIn
<1>4. \A i \in 1..Len(back) : back[i].last <= d.in
  <2>1. SUFFICES ASSUME NEW i \in 1..Len(back) PROVE back[i].last <= d.in
    OBVIOUS
  <2>2. back[i] \in Frames \cup Logins
    OBVIOUS
  <2>3. back[i].last \in Nat /\ back[i].last <= c.in
    BY <2>2 DEF Frames, Logins, Heard
  <2>4. QED
    BY <1>1, <2>3
<1>5. \A i \in 1..Len(d.flush) : d.flush[i].last <= d.in
  <2>1. SUFFICES ASSUME NEW i \in 1..Len(c.flush) PROVE c.flush[i].last <= c.in + 1
    BY <1>1
  <2>2. PICK f \in Frames : c.flush = <<f>>
    BY <2>1 DEF Clients
  <2>3. c.flush[i] = f
    BY <2>1, <2>2
  <2>4. c.flush[i].last \in Nat /\ c.flush[i].last <= c.in
    BY <2>3 DEF Frames, Heard
  <2>5. QED
    BY <1>1, <2>4
<1>6. QED
  BY <1>2, <1>3, <1>4, <1>5 DEF Heard

\* A message that was received is delivered, or a posted task will deliver it.
ReceivedBy(c, deliveries) ==
    {id \in ServerIds : \/ deliveries[id] > 0
                        \/ \E i \in 1..Len(c.deliver) : c.deliver[i] = id}

LEMMA HandedReceived ==
    ASSUME NEW c \in Clients, NEW packet \in FromServer, NEW d, Handed(c, packet, d),
           packet.id # 0, NEW deliveries
    PROVE  ReceivedBy(d, deliveries) = ReceivedBy(c, deliveries) \cup {packet.id}
<1>1. /\ c.deliver \in Seq(ServerIds) /\ d.deliver = Append(c.deliver, packet.id)
      /\ packet.id \in ServerIds
  BY DEF Handed, Clients, FromServer
<1>2. /\ Len(c.deliver) \in Nat /\ Len(d.deliver) = Len(c.deliver) + 1
      /\ d.deliver[Len(c.deliver) + 1] = packet.id
      /\ \A i \in 1..Len(c.deliver) : d.deliver[i] = c.deliver[i]
  BY <1>1
<1>3. /\ \A i \in 1..Len(d.deliver) : i \in 1..Len(c.deliver) \/ i = Len(c.deliver) + 1
      /\ \A i \in 1..Len(c.deliver) : i \in 1..Len(d.deliver)
      /\ Len(c.deliver) + 1 \in 1..Len(d.deliver)
  BY <1>2
<1>4. ASSUME NEW id \in ServerIds
      PROVE  (\E i \in 1..Len(d.deliver) : d.deliver[i] = id)
                 <=> (\E i \in 1..Len(c.deliver) : c.deliver[i] = id) \/ id = packet.id
  BY <1>2, <1>3
<1>5. QED
  BY <1>1, <1>4 DEF ReceivedBy

LEMMA DeliverReceived ==
    ASSUME Typed, Deliver
    PROVE  Received' = Received
<1> DEFINE id == Head(mcs.deliver)
<1>1. /\ mcs.deliver # << >> /\ mcs'.deliver = Tail(mcs.deliver) /\ id \in ServerIds
      /\ delivered' = [delivered EXCEPT ![id] = delivered[id] + 1]
      /\ mcs.deliver \in Seq(ServerIds) /\ delivered \in [ServerIds -> Nat]
  BY DeliverEffect DEF Typed, Clients
<1>2. /\ 1 \in 1..Len(mcs.deliver) /\ id = mcs.deliver[1] /\ Len(mcs.deliver) \in Nat
      /\ Len(mcs'.deliver) = Len(mcs.deliver) - 1
      /\ \A i \in 1..Len(mcs'.deliver) :
             mcs'.deliver[i] = mcs.deliver[i + 1] /\ i + 1 \in 1..Len(mcs.deliver)
      /\ \A i \in 1..Len(mcs.deliver) : i = 1 \/ i - 1 \in 1..Len(mcs'.deliver)
      /\ \A i \in 1..Len(mcs.deliver) : i # 1 => mcs'.deliver[i - 1] = mcs.deliver[i]
  BY <1>1, SMTT(30)
<1>3. delivered'[id] > 0 /\ \A x \in ServerIds : x # id => delivered'[x] = delivered[x]
  BY <1>1
<1> HIDE DEF id
<1>4. ASSUME NEW x \in ServerIds, x # id
      PROVE  (\E i \in 1..Len(mcs'.deliver) : mcs'.deliver[i] = x)
                 <=> (\E i \in 1..Len(mcs.deliver) : mcs.deliver[i] = x)
  BY <1>2, <1>4, ZenonT(30)
<1>5. id \in Received /\ id \in Received'
  BY <1>1, <1>2, <1>3 DEF Received
<1>6. ASSUME NEW x \in ServerIds, x # id PROVE x \in Received <=> x \in Received'
  BY <1>3, <1>4, <1>6 DEF Received
<1>7. Received \subseteq ServerIds /\ Received' \subseteq ServerIds
  BY DEF Received
<1>8. QED
  BY <1>5, <1>6, <1>7

LEMMA SameReceived ==
    ASSUME NEW c, NEW d, d.deliver = c.deliver, NEW deliveries
    PROVE  ReceivedBy(d, deliveries) = ReceivedBy(c, deliveries)
  BY DEF ReceivedBy

\* The packet that is received: what every call leaves of the counts.
LEMMA ReceiveCounts ==
    ASSUME Typed, NEW c, NEW packet, NEW d, NEW e, NEW g, Follows(c, packet, d, e, g),
           packet.tag = "LoginResponse" => mcs.in = 0
    PROVE  /\ c.in = mcs.in /\ d.in = mcs.in /\ e.in = mcs.in + 1 /\ g.in = e.in
           /\ mcs'.in = g.in
           /\ c.flush = mcs.flush /\ d.flush = mcs.flush /\ e.flush = mcs.flush
           /\ g.deliver = mcs.deliver
           /\ ReceivedBy(mcs', delivered) = Received \cup ({packet.id} \ {0})
<1>1. /\ c.in = mcs.in /\ c.flush = mcs.flush /\ c.deliver = mcs.deliver
      /\ packet \in FromServer /\ c \in Clients
  BY DEF Follows, Receives
<1>2. d.in = c.in /\ d.flush = c.flush /\ d.deliver = c.deliver
  BY DEF Follows, Counted, Confirms
<1>3. e.in = d.in + 1 /\ e.flush = d.flush /\ e.deliver = d.deliver
  BY DEF Follows, Counted, Took
<1>4. g.in = e.in /\ g.deliver = e.deliver /\ g \in Clients
  BY DEF Follows, Counted, Sent
<1>5. packet.tag \in Tags /\ (packet.tag = "Data" <=> packet.id # 0)
  BY <1>1 DEF FromServer
<1>6. mcs.in \in Nat
  BY DEF Typed, Clients
<1>7. mcs'.in = g.in
  BY <1>1, <1>2, <1>3, <1>4, <1>5, <1>6
     DEF Follows, Dispatched, Tags, Opened, Reset, Sent, Confirms, Handed
<1>8. ReceivedBy(mcs', delivered) = Received \cup ({packet.id} \ {0})
  <2>1. ReceivedBy(g, delivered) = Received
    BY <1>1, <1>2, <1>3, <1>4 DEF ReceivedBy, Received
  <2>2. CASE packet.tag = "Data"
    <3>1. Handed(g, packet, mcs')
      BY <2>2 DEF Follows, Dispatched
    <3>2. ReceivedBy(mcs', delivered) = ReceivedBy(g, delivered) \cup {packet.id}
      BY <1>1, <1>4, <1>5, <2>2, <3>1, HandedReceived
    <3>3. QED
      BY <1>5, <2>1, <2>2, <3>2
  <2>3. CASE packet.tag # "Data"
    <3>1. mcs'.deliver = g.deliver
      BY <1>5, <2>3 DEF Follows, Dispatched, Tags, Opened, Reset, Sent, Confirms
    <3>2. packet.id = 0
      BY <1>5, <2>3
    <3>3. QED
      BY <2>1, <3>1, <3>2, SameReceived
  <2>4. QED
    BY <2>2, <2>3
<1>9. QED
  BY <1>1, <1>2, <1>3, <1>4, <1>7, <1>8

\* What is at the head of the wire, by what the server has sent.
LEMMA HeadCounts ==
    ASSUME Typed, InSync, Agree, mcs.conn # "down", to_client # << >>
    PROVE  /\ Head(to_client).tag = "LoginResponse" => mcs.in = 0
           /\ ~ srv.up => Head(to_client).tag = "LoginError"
           /\ \A i \in 1..Len(srv.log) :
                  i = mcs.in + 1 => srv.log[i] \in {Head(to_client).id, 0}
<1> DEFINE p == Head(to_client)
<1>1. /\ mcs.in \in Nat /\ 1 \in 1..Len(to_client) /\ p = to_client[1]
  <2>1. to_client \in Seq(FromServer) /\ mcs.in \in Nat
    BY DEF Typed, Clients
  <2>2. QED
    BY <2>1
<1> HIDE DEF p
<1>2. CASE srv.up
  <2>1. CountUp(mcs, to_client, srv)
    BY <1>2 DEF Agree
  <2>2. srv.log[mcs.in + 1] = p.id /\ (p.tag = "LoginResponse" => mcs.in + 1 = 1)
    BY <1>1, <2>1 DEF CountUp
  <2>3. QED
    BY <1>1, <1>2, <2>2 DEF p
<1>3. CASE ~ srv.up
  <2>1. LinkDown(TrackedIds(mcs), to_client, to_server) /\ mcs.in = 0
    BY <1>3 DEF Agree, NewLink, InSync, Linked, Link
  <2>2. p.tag = "LoginError"
    BY <1>1, <2>1 DEF LinkDown
  <2>3. \A i \in 1..Len(srv.log) : i = mcs.in + 1 => srv.log[i] = 0
    BY <2>1 DEF Agree, Heard
  <2>4. QED
    BY <2>1, <2>2, <2>3 DEF p
<1>4. QED
  BY <1>2, <1>3

LEMMA ReceiveAgree ==
    ASSUME Typed, InSync, Agree, mcs.conn # "down", NEW c, NEW packet, NEW d, NEW e, NEW g,
           Follows(c, packet, d, e, g)
    PROVE  /\ ReceivedBy(mcs', delivered) = Received \cup ({packet.id} \ {0})
           /\ Heard(mcs', to_server, srv, Received \cup ({packet.id} \ {0}))
           /\ srv.up => CountUp(mcs', Tail(to_client), srv)
           /\ ~ srv.up => mcs'.conn = "down"
<1> DEFINE R == Received
           S == Received \cup ({packet.id} \ {0})
<1>1. /\ packet = Head(to_client) /\ to_client # << >> /\ to_client \in Seq(FromServer)
      /\ packet \in FromServer /\ mcs \in Clients /\ mcs.in \in Nat
      /\ to_server \in Seq(Frames \cup Logins)
  BY DEF Typed, Follows, Receives, Clients
<1>2. /\ packet.tag = "LoginResponse" => mcs.in = 0
      /\ ~ srv.up => packet.tag = "LoginError"
      /\ \A i \in 1..Len(srv.log) : i = mcs.in + 1 => srv.log[i] \in {packet.id, 0}
  BY <1>1, HeadCounts
<1>3. Tracks(c, packet, d, e, g)
  BY ReceiveTracked
<1>4. /\ c.in = mcs.in /\ d.in = mcs.in /\ e.in = mcs.in + 1 /\ g.in = e.in
      /\ mcs'.in = g.in
      /\ c.flush = mcs.flush /\ d.flush = mcs.flush /\ e.flush = mcs.flush
      /\ ReceivedBy(mcs', delivered) = S
  BY <1>2, ReceiveCounts
<1> HIDE DEF S, R
<1>5. Heard(d, to_server, srv, R)
  <2>1. Heard(mcs, to_server, srv, R)
    BY DEF Agree, R
  <2>2. TrackedIds(d) \subseteq TrackedIds(mcs)
    BY <1>3 DEF Tracks
  <2>3. QED
    BY <1>4, <2>1, <2>2, SameHeard
<1>6. Heard(e, to_server, srv, S)
  <2>1. Took(d, packet, e) /\ d \in Clients
    BY <1>3 DEF Follows, Counted, Tracks
  <2>2. R \subseteq S /\ packet.id \in S \cup {0}
    BY DEF R, S
  <2>3. TrackedIds(e) \subseteq TrackedIds(d) \cup ({packet.id} \ {0})
    BY <1>3 DEF Tracks
  <2>4. CountedIn(srv, d.in + 1, S)
    BY <1>2, <1>4, <2>2 DEF CountedIn
  <2>5. QED
    BY <1>1, <1>5, <2>1, <2>2, <2>3, <2>4, TookHeard
<1>7. Heard(g, to_server, srv, S)
  <2>1. Sent(e, g) /\ e \in Clients
    BY <1>3 DEF Follows, Counted, Tracks
  <2>2. QED
    BY <1>6, <2>1, SentHeard
<1>8. Heard(mcs', to_server, srv, S)
  <2>1. packet.tag \in Tags /\ g \in Clients
    BY <1>1, <1>3 DEF FromServer, Tracks
  <2>2. CASE packet.tag \in {"HeartbeatPing", "IdleNotification"}
    <3>1. Sent(g, mcs')
      BY <2>2 DEF Follows, Dispatched
    <3>2. QED
      BY <1>7, <2>1, <3>1, SentHeard
  <2>3. CASE packet.tag \notin {"HeartbeatPing", "IdleNotification"}
    <3>1. mcs'.flush = g.flush \/ mcs'.flush = << >>
      BY <2>1, <2>3 DEF Follows, Dispatched, Tags, Opened, Reset, Confirms, Handed
    <3>2. TrackedIds(mcs') \subseteq TrackedIds(g)
      BY <1>3 DEF Tracks
    <3>3. QED
      BY <1>4, <1>7, <3>1, <3>2, SameHeard
  <2>4. QED
    BY <2>2, <2>3
<1>9. ASSUME srv.up PROVE CountUp(mcs', Tail(to_client), srv)
  <2> DEFINE rest == Tail(to_client)
  <2>1. /\ Len(rest) = Len(to_client) - 1 /\ Len(to_client) \in Nat
        /\ \A k \in 1..Len(rest) : rest[k] = to_client[k + 1] /\ k + 1 \in 1..Len(to_client)
    BY <1>1
  <2>2. CountUp(mcs, to_client, srv)
    BY <1>9 DEF Agree
  <2>3. mcs'.in = mcs.in + 1
    BY <1>4
  <2> HIDE DEF rest
  <2>4. Len(srv.log) >= 1 /\ Len(srv.log) = mcs'.in + Len(rest)
    BY <1>1, <2>1, <2>2, <2>3 DEF CountUp
  <2>5. ASSUME NEW k \in 1..Len(rest)
        PROVE  /\ srv.log[mcs'.in + k] = rest[k].id
               /\ rest[k].tag = "LoginResponse" => mcs'.in + k = 1
    <3> DEFINE n == k + 1
    <3>1. n \in 1..Len(to_client) /\ rest[k] = to_client[n] /\ k \in Nat
      BY <2>1
    <3>2. mcs'.in + k = mcs.in + n
      <4>1. \A a, b \in Nat : (a + 1) + b = a + (b + 1)
        OBVIOUS
      <4>2. QED
        BY <1>1, <2>3, <3>1, <4>1
    <3> HIDE DEF n
    <3>3. /\ srv.log[mcs.in + n] = to_client[n].id
          /\ to_client[n].tag = "LoginResponse" => mcs.in + n = 1
      BY <2>2, <3>1 DEF CountUp
    <3>4. QED
      BY <3>1, <3>2, <3>3
  <2>6. QED
    BY <2>4, <2>5 DEF CountUp, rest
<1>10. ASSUME ~ srv.up PROVE mcs'.conn = "down"
  BY <1>2, <1>10 DEF Follows, Dispatched, Reset
<1>11. QED
  BY <1>4, <1>8, <1>9, <1>10 DEF S

LEMMA SentNewLink ==
    ASSUME NEW c \in Clients, NEW d, Sent(c, d), NEW back, NewLink(c, back)
    PROVE  NewLink(d, back)
<1>1. ~ Reachable(c)
  BY DEF NewLink, Reachable
<1>2. QED
  BY <1>1 DEF NewLink, Sent

\* A step of the client alone.
LEMMA SameAgree ==
    ASSUME Agree, NEW back, back = to_server, Heard(mcs', back, srv, Received),
           Received' = Received, mcs'.conn = mcs.conn, mcs'.in = mcs.in,
           NewLink(mcs, to_server) => NewLink(mcs', to_server),
           UNCHANGED <<to_server, to_client, srv>>
    PROVE  Agree'
<1>1. ASSUME CountUp(mcs, to_client, srv) PROVE CountUp(mcs', to_client, srv)
  BY <1>1 DEF CountUp
<1>2. QED
  BY <1>1 DEF Agree

LEMMA AgreeInit == Init => Agree
<1>1. SUFFICES ASSUME Init PROVE Agree
  OBVIOUS
<1>2. Typed /\ Started(db, mcs)
  BY <1>1, TypedInit
<1>3. TrackedIds(mcs) = {} /\ mcs.conn = "down" /\ mcs.flush = << >>
  BY <1>1, <1>2, StartedTracked DEF Started, Init, EmptyStore, Typed
<1>4. srv.forgotten = {} /\ Len(srv.log) = 0 /\ Len(to_server) = 0 /\ Len(mcs.flush) = 0
  BY <1>1, <1>3 DEF Init
<1>5. Heard(mcs, to_server, srv, Received)
  BY <1>3, <1>4 DEF Heard
<1>6. QED
  BY <1>3, <1>5 DEF Agree

LEMMA AgreeNext ==
    ASSUME MaxRestarts = 0, Typed, InSync, Agree, [Next]_vars
    PROVE  Agree'
<1>1. /\ mcs \in Clients /\ db \in Stores /\ to_client \in Seq(FromServer)
      /\ to_server \in Seq(Frames \cup Logins) /\ srv \in Servers /\ used \in Uses
      /\ mcs.in \in Nat /\ srv.log \in Seq(ServerIds \cup {0}) /\ Len(srv.log) \in Nat
  <2>1. srv.log \in Seq(ServerIds \cup {0}) /\ mcs.in \in Nat
    BY DEF Typed, Clients, Servers
  <2>2. QED
    BY <2>1 DEF Typed
<1>2. ASSUME Sent(mcs, mcs'), UNCHANGED <<to_server, to_client, srv, delivered>>
      PROVE  Agree'
  <2>1. Heard(mcs', to_server, srv, Received)
    BY <1>1, <1>2, SentHeard DEF Agree
  <2>2. Received' = Received /\ mcs'.conn = mcs.conn /\ mcs'.in = mcs.in
    BY <1>2 DEF Sent, Received
  <2>3. NewLink(mcs, to_server) => NewLink(mcs', to_server)
    BY <1>1, <1>2, SentNewLink
  <2>4. QED
    BY <1>2, <2>1, <2>2, <2>3, SameAgree
<1>3. ASSUME /\ mcs'.state = mcs.state /\ mcs'.conn = mcs.conn /\ mcs'.in = mcs.in
             /\ mcs'.flush = mcs.flush /\ mcs'.out = mcs.out
             /\ mcs'.restored = mcs.restored /\ mcs'.unacked = mcs.unacked
             /\ mcs'.acked = mcs.acked,
             Received' = Received, UNCHANGED <<to_server, to_client, srv>>
      PROVE  Agree'
  <2>1. TrackedIds(mcs') = TrackedIds(mcs)
    BY <1>3, SameTracked
  <2>2. Heard(mcs', to_server, srv, Received)
    BY <1>3, <2>1, SameHeard DEF Agree
  <2>3. NewLink(mcs, to_server) => NewLink(mcs', to_server)
    BY <1>3 DEF NewLink
  <2>4. QED
    BY <1>3, <2>2, <2>3, SameAgree
<1>4. CASE UNCHANGED vars
  BY <1>4 DEF vars, Agree, Received
<1>5. CASE AppSend
  BY <1>2, <1>5, AppSendEffect DEF AppSend
<1>6. CASE RunMaybeSend
  BY <1>2, <1>6, RunMaybeSendEffect DEF RunMaybeSend, Client
<1>7. CASE Deliver
  BY <1>3, <1>7, DeliverEffect, DeliverReceived DEF Deliver, Ticked
<1>8. CASE FlushDone
  <2>1. PICK c \in Clients :
            /\ c.conn = mcs.conn /\ c.restored = mcs.restored /\ c.unacked = mcs.unacked
            /\ c.acked = mcs.acked /\ c.in = mcs.in /\ c.flush = << >>
            /\ c.deliver = mcs.deliver /\ Sent(c, mcs')
    BY <1>8, FlushDoneEffect
  <2>2. PICK f \in Frames : mcs.flush = <<f>> /\ to_server' = Append(to_server, f)
    BY <1>8, FlushDoneEffect
  <2>3. UNCHANGED <<to_client, srv, delivered>>
    BY <1>8 DEF FlushDone
  <2>4. /\ Len(to_server) \in Nat /\ Len(to_server') = Len(to_server) + 1
        /\ to_server'[Len(to_server) + 1] = f
        /\ \A i \in 1..Len(to_server) : to_server'[i] = to_server[i]
        /\ \A i \in 1..Len(to_server') : i \in 1..Len(to_server) \/ i = Len(to_server) + 1
    BY <1>1, <2>2
  <2>5. f.last <= mcs.in /\ f.body # "Login"
    <3>1. 1 \in 1..Len(mcs.flush) /\ mcs.flush[1] = f
      BY <2>2
    <3>2. f.last <= mcs.in
      BY <3>1 DEF Agree, Heard
    <3>3. QED
      BY <3>2, ClientAssumption DEF Frames, Control
  <2>6. TrackedIds(c) = TrackedIds(mcs)
    BY <2>1, SameTracked
  <2>7. Heard(c, to_server, srv, Received)
    BY <2>1, <2>6, SameHeard DEF Agree
  <2>8. Heard(c, to_server', srv, Received)
    <3>1. \A i \in 1..Len(to_server') :
              /\ to_server'[i].body = "Login" => to_server'[i].ids \subseteq Received
              /\ to_server'[i].last <= c.in
      BY <2>1, <2>4, <2>5, <2>7 DEF Heard
    <3>2. QED
      BY <2>7, <3>1 DEF Heard
  <2>9. Heard(mcs', to_server', srv, Received)
    BY <2>1, <2>8, SentHeard
  <2>10. Received' = Received /\ mcs'.conn = mcs.conn /\ mcs'.in = mcs.in
    BY <2>1, <2>3 DEF Sent, Received
  <2>11. ASSUME mcs.conn # "down" PROVE srv.up /\ CountUp(mcs', to_client, srv)
    <3>1. mcs.flush # << >>
      BY <2>2
    <3>2. srv.up /\ CountUp(mcs, to_client, srv)
      BY <2>11, <3>1 DEF Agree, NewLink
    <3>3. QED
      BY <2>10, <3>2 DEF CountUp
  <2>12. QED
    BY <2>3, <2>9, <2>10, <2>11 DEF Agree
<1>9. CASE SendHeartbeat
  BY <1>2, <1>9, SendHeartbeatEffect DEF SendHeartbeat
<1>10. CASE Expire
  <2>1. Ticked(mcs, mcs') /\ mcs'.deliver = mcs.deliver
        /\ UNCHANGED <<to_server, to_client, srv, delivered>>
    BY <1>10, ExpireEffect DEF Expire, Client
  <2>2. Received' = Received
    BY <2>1 DEF Received
  <2>3. QED
    BY <1>3, <2>1, <2>2 DEF Ticked
<1>11. CASE Disconnect
  <2>1. Reset(mcs, mcs') /\ UNCHANGED <<to_server, srv, delivered>>
    BY <1>11, DisconnectEffect DEF Disconnect
  <2>2. TrackedIds(mcs') = TrackedIds(mcs)
    BY <2>1, SameTracked DEF Reset, SameTracking
  <2>3. Heard(mcs', to_server, srv, Received)
    BY <2>1, <2>2, SameHeard DEF Agree, Reset
  <2>4. Received' = Received
    BY <2>1 DEF Received, Reset
  <2>5. QED
    BY <2>1, <2>3, <2>4 DEF Agree, Reset
<1>12. CASE Reconnect
  <2>1. /\ Restarted(mcs, mcs') /\ LoginRequest(mcs) \in Logins
        /\ LoginRequest(mcs).ids = TrackedIds(mcs) /\ ~ srv'.up
        /\ srv' = [srv EXCEPT !.up = FALSE]
        /\ to_server' = <<LoginRequest(mcs)>> /\ delivered' = delivered
    BY <1>12, ReconnectEffect DEF Reconnect
  <2>2. srv'.log = srv.log /\ srv'.forgotten = srv.forgotten
    BY <1>1, <2>1 DEF Servers
  <2>3. TrackedIds(mcs') = TrackedIds(mcs)
    BY <1>1, <2>1, RestartedTracked
  <2>4. /\ Len(to_server') = 1
        /\ \A i \in 1..Len(to_server') : to_server'[i] = LoginRequest(mcs)
    BY <2>1
  <2>5. LoginRequest(mcs).last = 0
    BY <2>1 DEF Logins
  <2>6. mcs'.in = 0 /\ 1..Len(mcs'.flush) = {} /\ \A i \in 1..Len(srv.log) : ~ (i <= 0)
    BY <1>1, <2>1 DEF Restarted
  <2>7. Heard(mcs', to_server', srv', Received)
    BY <2>1, <2>2, <2>3, <2>4, <2>5, <2>6 DEF Heard, Agree
  <2>8. Received' = Received
    BY <2>1 DEF Restarted, Received
  <2>9. NewLink(mcs', to_server')
    <3>1. \A a \in mcs'.acked : a.sid = 1
      BY <2>1 DEF Restarted
    <3>2. QED
      BY <2>1, <2>4, <3>1 DEF Restarted, NewLink
  <2>10. QED
    BY <2>1, <2>7, <2>8, <2>9 DEF Agree
<1>13. CASE Receive
  <2>1. PICK c, packet, d, e, g : Follows(c, packet, d, e, g)
    BY <1>13, ReceiveEffect DEF Follows
  <2>2. mcs.conn # "down" /\ UNCHANGED <<to_server, srv, delivered>>
    BY <1>13 DEF Receive
  <2>3. /\ ReceivedBy(mcs', delivered) = Received \cup ({packet.id} \ {0})
        /\ Heard(mcs', to_server, srv, Received \cup ({packet.id} \ {0}))
        /\ srv.up => CountUp(mcs', Tail(to_client), srv)
        /\ ~ srv.up => mcs'.conn = "down"
    BY <2>1, <2>2, ReceiveAgree
  <2>4. mcs'.conn # "down" => to_client' = Tail(to_client)
    BY <1>13, ReceiveEffect
  <2>5. Received' = Received \cup ({packet.id} \ {0})
    BY <2>2, <2>3 DEF Received, ReceivedBy
  <2>6. QED
    BY <2>2, <2>3, <2>4, <2>5 DEF Agree
<1>14. CASE StoreStep
  <2>1. /\ mcs'.state = mcs.state /\ mcs'.conn = mcs.conn /\ mcs'.in = mcs.in
        /\ mcs'.flush = mcs.flush /\ mcs'.out = mcs.out
        /\ mcs'.restored = mcs.restored /\ mcs'.unacked = mcs.unacked
        /\ mcs'.acked = mcs.acked /\ mcs'.deliver = mcs.deliver
        /\ UNCHANGED <<to_server, to_client, srv, delivered>>
    BY <1>14, StoreStepEffect DEF StoreStep
  <2>2. Received' = Received
    BY <2>1 DEF Received
  <2>3. QED
    BY <1>3, <2>1, <2>2
<1>15. CASE Restart
  <2>1. used.restarts < MaxRestarts /\ used.restarts \in Nat
    BY <1>1, <1>15 DEF Restart, Uses
  <2>2. QED
    BY <2>1
<1>16. CASE ServerLogin
  <2>1. /\ to_server # << >> /\ Head(to_server) \in Logins
        /\ to_server' = Tail(to_server) /\ UNCHANGED <<mcs, delivered>>
    BY <1>16, ServerLoginEffect
  <2>2. PICK p \in FromServer :
            /\ to_client' = <<p>> /\ p.id = 0
            /\ \/ /\ p.tag = "LoginResponse" /\ srv'.up /\ srv'.log = <<0>>
                  /\ srv'.forgotten = srv.forgotten \cup Head(to_server).ids
               \/ p.tag = "LoginError" /\ srv' = srv
    BY <1>16, ServerLoginEffect
  <2>3. /\ 1 \in 1..Len(to_server) /\ Head(to_server) = to_server[1]
        /\ Len(to_server) \in Nat /\ Len(to_server') = Len(to_server) - 1
        /\ \A i \in 1..Len(to_server') :
               to_server'[i] = to_server[i + 1] /\ i + 1 \in 1..Len(to_server)
    BY <1>1, <2>1
  <2>4. to_server[1].body = "Login"
    BY <2>1, <2>3 DEF Logins
  <2>5. to_server[1].ids \subseteq Received
    BY <2>3, <2>4 DEF Agree, Heard
  <2>6. Received' = Received
    BY <2>1 DEF Received
  <2>7. \A i \in 1..Len(to_server') :
            /\ to_server'[i].body = "Login" => to_server'[i].ids \subseteq Received
            /\ to_server'[i].last <= mcs.in
    BY <2>3 DEF Agree, Heard
  <2>8. mcs.conn # "down" => ~ srv.up /\ NewLink(mcs, to_server')
    <3>1. ASSUME mcs.conn # "down" PROVE ~ srv.up
      BY <2>3, <2>4, <3>1 DEF InSync, Linked, Link, LinkUp
    <3>2. QED
      BY <2>3, <3>1 DEF Agree, NewLink
  <2>9. CASE p.tag = "LoginError"
    <3>1. srv' = srv
      BY <2>2, <2>9
    <3>2. Heard(mcs', to_server', srv', Received)
      BY <2>1, <2>7, <3>1 DEF Agree, Heard
    <3>3. QED
      BY <2>1, <2>6, <2>8, <3>1, <3>2 DEF Agree
  <2>10. CASE p.tag = "LoginResponse"
    <3>1. /\ srv'.up /\ srv'.log = <<0>>
          /\ srv'.forgotten = srv.forgotten \cup Head(to_server).ids
      BY <2>2, <2>10
    <3>2. Len(srv'.log) = 1 /\ \A i \in 1..Len(srv'.log) : i = 1 /\ srv'.log[i] = 0
      BY <3>1
    <3>3. Heard(mcs', to_server', srv', Received)
      BY <2>1, <2>3, <2>5, <2>7, <3>1, <3>2 DEF Agree, Heard
    <3>4. ASSUME mcs.conn # "down" PROVE CountUp(mcs', to_client', srv')
      <4>1. mcs'.in = 0
        BY <2>1, <2>8, <3>4 DEF NewLink
      <4>2. Len(to_client') = 1 /\ \A k \in 1..Len(to_client') : k = 1 /\ to_client'[k] = p
        BY <2>2
      <4>3. \A k \in 1..Len(to_client') : mcs'.in + k = 1
        BY <4>1, <4>2
      <4>4. srv'.log[1] = 0
        BY <3>2
      <4>5. QED
        BY <2>2, <3>2, <4>1, <4>2, <4>3, <4>4 DEF CountUp
    <3>5. QED
      BY <2>1, <2>6, <3>1, <3>3, <3>4 DEF Agree
  <2>11. QED
    BY <2>2, <2>9, <2>10
<1>17. CASE ServerReceives
  <2>1. /\ to_server # << >> /\ to_server' = Tail(to_server)
        /\ UNCHANGED <<mcs, to_client, delivered>>
        /\ srv.up /\ srv'.up /\ srv'.log = srv.log
        /\ srv'.forgotten = srv.forgotten \cup SentUpTo(srv.log, Head(to_server).last)
    BY <1>17, ServerReceivesEffect
  <2>2. /\ 1 \in 1..Len(to_server) /\ Head(to_server) = to_server[1]
        /\ to_server[1] \in Frames \cup Logins
        /\ \A i \in 1..Len(to_server') :
               to_server'[i] = to_server[i + 1] /\ i + 1 \in 1..Len(to_server)
    BY <1>1, <2>1
  <2>3. to_server[1].last \in Nat /\ to_server[1].last <= mcs.in
    BY <2>2 DEF Agree, Heard, Frames, Logins
  <2>4. SentUpTo(srv.log, Head(to_server).last) \subseteq Received
    <3>1. ASSUME NEW j \in DOMAIN srv.log, j <= Head(to_server).last, srv.log[j] # 0
          PROVE  srv.log[j] \in Received
      <4>1. j \in 1..Len(srv.log) /\ j \in Nat
        BY <1>1
      <4>2. j <= mcs.in
        BY <1>1, <2>2, <2>3, <3>1, <4>1
      <4>3. QED
        BY <3>1, <4>1, <4>2 DEF Agree, Heard
    <3>2. QED
      BY <3>1 DEF SentUpTo
  <2>5. \A i \in 1..Len(to_server') :
            /\ to_server'[i].body = "Login" => to_server'[i].ids \subseteq Received
            /\ to_server'[i].last <= mcs.in
    BY <2>2 DEF Agree, Heard
  <2>6. Heard(mcs', to_server', srv', Received)
    BY <2>1, <2>4, <2>5 DEF Agree, Heard
  <2>7. Received' = Received
    BY <2>1 DEF Received
  <2>8. CountUp(mcs, to_client, srv) => CountUp(mcs', to_client', srv')
    BY <2>1 DEF CountUp
  <2>9. QED
    BY <2>1, <2>6, <2>7, <2>8 DEF Agree
<1>18. CASE \/ ServerSendsData \/ ServerSendsStreamAck
            \/ ServerSendsSelectiveAck \/ ServerSendsControl
  <2>1. PICK p \in FromServer : ServerSends(p) /\ p.tag # "LoginResponse"
    BY <1>18, AnySendEffect
  <2>2. /\ srv.up /\ srv'.up /\ mcs.conn # "down" /\ to_client' = Append(to_client, p)
        /\ srv'.forgotten = srv.forgotten /\ srv'.log = Append(srv.log, p.id)
        /\ UNCHANGED <<mcs, to_server, delivered>>
    BY <2>1, ServerSendsEffect
  <2>3. /\ Len(to_client) \in Nat /\ Len(to_client') = Len(to_client) + 1
        /\ to_client'[Len(to_client) + 1] = p
        /\ \A i \in 1..Len(to_client) : to_client'[i] = to_client[i]
        /\ \A i \in 1..Len(to_client') : i \in 1..Len(to_client) \/ i = Len(to_client) + 1
    BY <1>1, <2>2
  <2>4. /\ Len(srv'.log) = Len(srv.log) + 1
        /\ srv'.log[Len(srv.log) + 1] = p.id
        /\ \A i \in 1..Len(srv.log) : srv'.log[i] = srv.log[i]
        /\ \A i \in 1..Len(srv'.log) : i \in 1..Len(srv.log) \/ i = Len(srv.log) + 1
    <3>1. p.id \in ServerIds \cup {0}
      BY DEF FromServer
    <3>2. QED
      BY <1>1, <2>2, <3>1
  <2>5. CountUp(mcs, to_client, srv)
    BY <2>2 DEF Agree
  <2>6. Len(srv.log) >= 1 /\ Len(srv.log) = mcs.in + Len(to_client)
    BY <2>5 DEF CountUp
  <2>7. ~ (Len(srv.log) + 1 <= mcs.in) /\ Len(srv.log) + 1 # 1
    BY <1>1, <2>3, <2>6
  <2>8. /\ \A i \in 1..Len(srv'.log) : i <= mcs.in => srv'.log[i] \in Received \cup {0}
        /\ \A i \in 1..Len(srv'.log) : i = 1 => srv'.log[i] = 0
    BY <2>4, <2>7 DEF Agree, Heard
  <2>9. Heard(mcs', to_server', srv', Received)
    BY <2>2, <2>8 DEF Agree, Heard
  <2>10. CountUp(mcs', to_client', srv')
    <3>1. Len(srv'.log) >= 1 /\ Len(srv'.log) = mcs'.in + Len(to_client')
      BY <1>1, <2>2, <2>3, <2>4, <2>6
    <3>2. ASSUME NEW k \in 1..Len(to_client')
          PROVE  /\ srv'.log[mcs'.in + k] = to_client'[k].id
                 /\ to_client'[k].tag = "LoginResponse" => mcs'.in + k = 1
      <4>1. CASE k = Len(to_client) + 1
        <5>1. mcs'.in + k = Len(srv.log) + 1
          BY <1>1, <2>2, <2>3, <2>6, <4>1
        <5>2. QED
          BY <2>1, <2>3, <2>4, <4>1, <5>1
      <4>2. CASE k \in 1..Len(to_client)
        <5>1. mcs.in + k \in 1..Len(srv.log)
          BY <1>1, <2>3, <2>6, <4>2
        <5>2. QED
          BY <2>2, <2>3, <2>4, <2>5, <4>2, <5>1 DEF CountUp
      <4>3. QED
        BY <2>3, <4>1, <4>2
    <3>3. QED
      BY <3>1, <3>2 DEF CountUp
  <2>11. Received' = Received
    BY <2>2 DEF Received
  <2>12. QED
    BY <2>2, <2>9, <2>10, <2>11 DEF Agree
<1>19. QED
  BY <1>4, <1>5, <1>6, <1>7, <1>8, <1>9, <1>10, <1>11, <1>12, <1>13, <1>14, <1>15, <1>16,
     <1>17, <1>18 DEF Next

\* While the process lives, the server forgets a message only after the device has
\* received it: the stream id the client acknowledges (stream_id_in_, set to 1 by
\* the login response and counted up by every packet) is never ahead of the
\* messages it handed on, whatever is lost when a connection breaks.
THEOREM ForgottenOnlyWhenReceived ==
    ASSUME MaxRestarts = 0
    PROVE  Spec => []ForgottenMeansReceived
<1>1. Init => Typed /\ InSync /\ Agree
  BY TypedInit, InSyncInit, AgreeInit
<1>2. Typed /\ InSync /\ Agree /\ [Next]_vars => Typed' /\ InSync' /\ Agree'
  BY TypedNext, InSyncNext, AgreeNext
<1>3. Agree => ForgottenMeansReceived
  BY DEF Agree, Heard, ForgottenMeansReceived
<1>4. QED
  BY <1>1, <1>2, <1>3, PTL DEF Spec

-----------------------------------------------------------------------------
(***************************************************************************)
(* An id stays tracked until the server has confirmed its acknowledgement, *)
(* while the process lives and the server sends no SelectiveAck            *)
(***************************************************************************)

\* The server sent this id with a stream id up to n.
LoggedBy(log, n, id) == \E j \in 1..Len(log) : j <= n /\ log[j] = id

\* The stream id under which an id is kept is that of a packet that acknowledges
\* it: one the server has read, one on the wire, or the one being flushed.
AckSound(a, c, back, server) ==
    /\ a.sid <= c.out
    /\ a.sid <= server.in => a.id \in server.forgotten
    /\ \A k \in 1..Len(back) :
           a.sid = server.in + k => LoggedBy(server.log, back[k].last, a.id)
    /\ \A k \in 1..Len(c.flush) :
           a.sid = server.in + Len(back) + k => LoggedBy(server.log, c.flush[k].last, a.id)

AckUp(c, wire, back, server) ==
    /\ c.out = server.in + Len(back) + Len(c.flush)
    /\ \A k \in 1..Len(wire) : wire[k].last <= server.in
    /\ \A a \in c.acked : AckSound(a, c, back, server)
    /\ \A i \in 1..Len(c.unacked) : LoggedBy(server.log, c.in, c.unacked[i])

\* What was received and is not forgotten by the server is tracked.
Kept(c, server, R) == \A id \in R : id \in server.forgotten \/ id \in TrackedIds(c)

\* A login error confirms nothing.
Plain(wire) ==
    \A k \in 1..Len(wire) : /\ wire[k].tag # "SelectiveAck"
                            /\ wire[k].tag = "LoginError" => wire[k].last = 0

Acks ==
    /\ Kept(mcs, srv, Received)
    /\ mcs.conn # "down" /\ srv.up => AckUp(mcs, to_client, to_server, srv)
    /\ Plain(to_client)

LEMMA SentAckUp ==
    ASSUME NEW c \in Clients, NEW d, Sent(c, d), NEW wire, NEW server \in Servers,
           NEW back \in Seq(Frames \cup Logins), AckUp(c, wire, back, server)
    PROVE  AckUp(d, wire, back, server)
<1>1. /\ d.in = c.in /\ c.in \in Nat /\ c.out \in Nat /\ server.in \in Nat /\ Len(back) \in Nat
      /\ c.acked \in SUBSET [sid : Nat, id : ServerIds]
  <2>1. d.in = c.in
    BY DEF Sent
  <2>2. c.in \in Nat /\ c.out \in Nat /\ c.acked \in SUBSET [sid : Nat, id : ServerIds]
    BY DEF Clients
  <2>3. server.in \in Nat /\ Len(back) \in Nat
    BY DEF Servers
  <2>4. QED
    BY <2>1, <2>2, <2>3
<1>2. CASE /\ d.out = c.out /\ d.unacked = c.unacked /\ d.acked = c.acked /\ d.flush = c.flush
  BY <1>1, <1>2 DEF AckUp, AckSound
<1>3. CASE /\ Reachable(c)
           /\ d.out = c.out + 1
           /\ d.unacked = IF c.in = c.last_in THEN c.unacked ELSE << >>
           /\ d.acked = IF c.in = c.last_in THEN c.acked
                        ELSE c.acked \cup {[sid |-> c.out + 1, id |-> i] : i \in UnackedIds(c)}
           /\ \E f \in Frames : d.flush = <<f>> /\ f.last = c.in
  <2>1. PICK f \in Frames : d.flush = <<f>> /\ f.last = c.in
    BY <1>3
  <2>2. Len(d.flush) = 1 /\ \A k \in 1..Len(d.flush) : k = 1 /\ d.flush[k].last = c.in
    BY <2>1
  <2>3. Len(c.flush) = 0
    BY <1>3 DEF Reachable
  <2>4. c.out = server.in + Len(back)
    BY <1>1, <2>3 DEF AckUp
  <2>5. d.out = server.in + Len(back) + Len(d.flush)
    BY <1>1, <1>3, <2>2, <2>4
  <2>6. ASSUME NEW a \in c.acked PROVE AckSound(a, d, back, server)
    <3>1. a.sid \in Nat /\ AckSound(a, c, back, server)
      BY <1>1 DEF AckUp
    <3>2. a.sid <= c.out
      BY <3>1 DEF AckSound
    <3>3. \A k \in 1..Len(d.flush) : a.sid # server.in + Len(back) + k
      BY <1>1, <2>2, <2>4, <3>1, <3>2
    <3>4. a.sid <= d.out
      BY <1>1, <1>3, <3>1, <3>2
    <3>5. QED
      BY <3>1, <3>3, <3>4 DEF AckSound
  <2>7. ASSUME NEW i \in UnackedIds(c), NEW a, a.sid = c.out + 1, a.id = i
        PROVE  AckSound(a, d, back, server)
    <3>1. LoggedBy(server.log, c.in, i)
      BY DEF UnackedIds, AckUp
    <3>2. a.sid <= d.out /\ ~ (a.sid <= server.in) /\ \A k \in 1..Len(back) : a.sid # server.in + k
      BY <1>1, <1>3, <2>4, <2>7
    <3>3. \A k \in 1..Len(d.flush) : LoggedBy(server.log, d.flush[k].last, a.id)
      BY <2>2, <2>7, <3>1
    <3>4. QED
      BY <3>2, <3>3 DEF AckSound
  <2>8. \A a \in d.acked : a \in c.acked \/ (a.sid = c.out + 1 /\ a.id \in UnackedIds(c))
    BY <1>3
  <2>9. \A a \in d.acked : AckSound(a, d, back, server)
    BY <2>6, <2>7, <2>8
  <2>10. \A i \in 1..Len(d.unacked) : LoggedBy(server.log, d.in, d.unacked[i])
    <3>1. CASE d.unacked = c.unacked
      BY <1>1, <3>1 DEF AckUp
    <3>2. CASE d.unacked = << >>
      <4>1. 1..Len(d.unacked) = {}
        BY <3>2
      <4>2. QED
        BY <4>1
    <3>3. QED
      BY <1>3, <3>1, <3>2
  <2>11. QED
    BY <2>5, <2>9, <2>10 DEF AckUp
<1>4. QED
  BY <1>2, <1>3 DEF Sent

\* Fewer acknowledgements wait, and nothing else changes.
LEMMA SameAckUp ==
    ASSUME NEW c, NEW d, d.acked \subseteq c.acked, d.unacked = c.unacked, d.in = c.in,
           d.out = c.out, d.flush = c.flush, NEW wire, NEW back, NEW server,
           AckUp(c, wire, back, server)
    PROVE  AckUp(d, wire, back, server)
  BY DEF AckUp, AckSound

LEMMA LoggedLater ==
    ASSUME NEW log, NEW n \in Nat, NEW m \in Nat, n <= m, NEW id, LoggedBy(log, n, id)
    PROVE  LoggedBy(log, m, id)
<1>1. PICK j \in 1..Len(log) : j <= n /\ log[j] = id
  BY DEF LoggedBy
<1>2. j <= m
  BY <1>1
<1>3. QED
  BY <1>1, <1>2 DEF LoggedBy

LEMMA TookAckUp ==
    ASSUME NEW c \in Clients, NEW wire \in Seq(FromServer), wire # << >>, NEW d,
           Took(c, Head(wire), d), NEW back, NEW server, AckUp(c, wire, back, server),
           Head(wire).id # 0 => LoggedBy(server.log, c.in + 1, Head(wire).id)
    PROVE  AckUp(d, Tail(wire), back, server)
<1> DEFINE p == Head(wire)
<1>1. /\ d.in = c.in + 1 /\ d.out = c.out /\ d.acked = c.acked /\ d.flush = c.flush
      /\ d.unacked = IF p.id = 0 THEN c.unacked ELSE Append(c.unacked, p.id)
      /\ c.unacked \in Seq(ServerIds) /\ c.in \in Nat
  BY DEF Took, Clients
<1>2. /\ p \in FromServer
      /\ \A k \in 1..Len(Tail(wire)) : Tail(wire)[k] = wire[k + 1] /\ k + 1 \in 1..Len(wire)
  OBVIOUS
<1> HIDE DEF p
<1>3. ASSUME NEW i \in 1..Len(c.unacked) PROVE LoggedBy(server.log, d.in, c.unacked[i])
  <2>1. LoggedBy(server.log, c.in, c.unacked[i]) /\ c.in + 1 \in Nat /\ c.in <= c.in + 1
    BY <1>1 DEF AckUp
  <2>2. QED
    BY <1>1, <2>1, LoggedLater
<1>4. ASSUME NEW i \in 1..Len(d.unacked) PROVE LoggedBy(server.log, d.in, d.unacked[i])
  <2>1. CASE p.id = 0
    BY <1>1, <1>3, <2>1
  <2>2. CASE p.id # 0
    <3>1. p.id \in ServerIds
      BY <1>2, <2>2 DEF FromServer
    <3>2. /\ d.unacked[Len(c.unacked) + 1] = p.id
          /\ \A j \in 1..Len(c.unacked) : d.unacked[j] = c.unacked[j]
          /\ i \in 1..Len(c.unacked) \/ i = Len(c.unacked) + 1
      BY <1>1, <2>2, <3>1
    <3>3. LoggedBy(server.log, d.in, p.id)
      BY <1>1, <2>2 DEF p
    <3>4. QED
      BY <1>3, <3>2, <3>3
  <2>3. QED
    BY <2>1, <2>2
<1>5. \A k \in 1..Len(Tail(wire)) : Tail(wire)[k].last <= server.in
  BY <1>2 DEF AckUp
<1>6. \A a \in d.acked : AckSound(a, d, back, server)
  BY <1>1 DEF AckUp, AckSound
<1>7. QED
  BY <1>1, <1>4, <1>5, <1>6 DEF AckUp

\* Confirming up to what the server has read ends the tracking of nothing but
\* what the server has forgotten.
LEMMA ConfirmedForgotten ==
    ASSUME NEW c \in Clients, NEW wire, NEW back, NEW server \in Servers,
           AckUp(c, wire, back, server), NEW last \in Nat, last <= server.in
    PROVE  ConfirmedIds(c, last) \subseteq server.forgotten
<1>1. SUFFICES ASSUME NEW a \in c.acked, a.sid <= last PROVE a.id \in server.forgotten
  BY DEF ConfirmedIds
<1>2. a.sid \in Nat /\ server.in \in Nat
  BY DEF Clients, Servers
<1>3. a.sid <= server.in
  BY <1>1, <1>2
<1>4. QED
  BY <1>3 DEF AckUp, AckSound

LEMMA ReceiveAcks ==
    ASSUME Typed, InSync, Agree, Acks, mcs.conn # "down",
           NEW c, NEW packet, NEW d, NEW e, NEW g, Follows(c, packet, d, e, g)
    PROVE  /\ Kept(mcs', srv, Received \cup ({packet.id} \ {0}))
           /\ mcs'.conn # "down" /\ srv.up => AckUp(mcs', Tail(to_client), to_server, srv)
<1>1. /\ packet = Head(to_client) /\ to_client # << >> /\ to_client \in Seq(FromServer)
      /\ packet \in FromServer /\ mcs \in Clients /\ mcs.in \in Nat /\ srv \in Servers
      /\ to_server \in Seq(Frames \cup Logins) /\ packet.last \in Nat /\ packet.tag \in Tags
  BY DEF Typed, Follows, Receives, Clients, FromServer
<1>2. 1 \in 1..Len(to_client) /\ packet = to_client[1]
  BY <1>1
<1>3. packet.tag # "SelectiveAck" /\ (packet.tag = "LoginError" => packet.last = 0)
  BY <1>2 DEF Acks, Plain
<1>4. /\ packet.tag = "LoginResponse" => mcs.in = 0
      /\ ~ srv.up => packet.tag = "LoginError"
  BY <1>1, HeadCounts
<1>5. Tracks(c, packet, d, e, g)
  BY ReceiveTracked
<1>6. /\ c \in Clients /\ d \in Clients /\ e \in Clients /\ g \in Clients
      /\ c.acked = mcs.acked
  BY <1>5 DEF Tracks
<1>7. srv.up => AckUp(mcs, to_client, to_server, srv)
  BY DEF Acks
<1>8. packet.last # 0 => ConfirmedIds(c, packet.last) \subseteq srv.forgotten
  <2>1. SUFFICES ASSUME packet.last # 0 PROVE ConfirmedIds(c, packet.last) \subseteq srv.forgotten
    OBVIOUS
  <2>2. AckUp(mcs, to_client, to_server, srv)
    BY <1>3, <1>4, <1>7, <2>1
  <2>3. packet.last <= srv.in
    BY <1>2, <2>2 DEF AckUp
  <2>4. ConfirmedIds(mcs, packet.last) \subseteq srv.forgotten
    BY <1>1, <2>2, <2>3, ConfirmedForgotten
  <2>5. QED
    BY <1>6, <2>4 DEF ConfirmedIds
<1>9. Kept(mcs', srv, Received \cup ({packet.id} \ {0}))
  <2>1. TrackedIds(mcs') = TrackedIds(d) \cup ({packet.id} \ {0})
    BY <1>3, <1>5 DEF Tracks
  <2>2. \A id \in TrackedIds(mcs) : id \in srv.forgotten \/ id \in TrackedIds(d)
    BY <1>5, <1>8 DEF Tracks
  <2>3. QED
    BY <2>1, <2>2 DEF Acks, Kept
<1>10. ASSUME srv.up, mcs'.conn # "down"
       PROVE  AckUp(mcs', Tail(to_client), to_server, srv)
  <2>1. AckUp(c, to_client, to_server, srv)
    <3>1. /\ c.acked = mcs.acked /\ c.unacked = mcs.unacked /\ c.in = mcs.in
          /\ c.out = mcs.out /\ c.flush = mcs.flush
      BY DEF Follows, Receives, SameTracking
    <3>2. QED
      BY <1>7, <1>10, <3>1, SameAckUp
  <2>2. AckUp(d, to_client, to_server, srv) /\ d.in = mcs.in
    <3>1. /\ d.acked \subseteq c.acked /\ d.unacked = c.unacked /\ d.in = c.in
          /\ d.out = c.out /\ d.flush = c.flush /\ c.in = mcs.in
      BY DEF Follows, Receives, Counted, Confirms
    <3>2. QED
      BY <2>1, <3>1, SameAckUp
  <2>3. packet.id # 0 => LoggedBy(srv.log, d.in + 1, packet.id)
    <3>1. CountUp(mcs, to_client, srv) /\ Len(to_client) \in Nat
      BY <1>1, <1>10 DEF Agree
    <3>2. mcs.in + 1 \in 1..Len(srv.log) /\ srv.log[mcs.in + 1] = packet.id
      BY <1>1, <1>2, <3>1, SMTT(30) DEF CountUp
    <3>3. mcs.in + 1 <= mcs.in + 1
      BY <1>1
    <3>4. QED
      BY <2>2, <3>2, <3>3 DEF LoggedBy
  <2>4. AckUp(e, Tail(to_client), to_server, srv)
    <3>1. Took(d, Head(to_client), e)
      BY <1>1 DEF Follows, Counted
    <3>2. QED
      BY <1>1, <1>6, <2>2, <2>3, <3>1, TookAckUp
  <2>5. AckUp(g, Tail(to_client), to_server, srv)
    <3>1. Sent(e, g)
      BY DEF Follows, Counted
    <3>2. QED
      BY <1>1, <1>6, <2>4, <3>1, SentAckUp
  <2>6. CASE packet.tag \in {"HeartbeatPing", "IdleNotification"}
    <3>1. Sent(g, mcs')
      BY <2>6 DEF Follows, Dispatched
    <3>2. QED
      BY <1>1, <1>6, <2>5, <3>1, SentAckUp
  <2>7. CASE packet.tag \notin {"HeartbeatPing", "IdleNotification"}
    <3>1. mcs'.in = g.in
      BY <1>4, ReceiveCounts
    <3>2. /\ mcs'.acked = g.acked /\ mcs'.unacked = g.unacked
          /\ mcs'.out = g.out /\ mcs'.flush = g.flush
      BY <1>1, <1>3, <1>10, <2>7
         DEF Follows, Dispatched, Tags, Opened, Reset, Handed, SameTracking
    <3>3. QED
      BY <2>5, <3>1, <3>2, SameAckUp
  <2>8. QED
    BY <2>6, <2>7
<1>11. QED
  BY <1>9, <1>10

\* The packet being flushed is written out.
LEMMA FlushAckUp ==
    ASSUME NEW c \in Clients, NEW d, NEW wire, NEW server \in Servers,
           NEW back \in Seq(Frames \cup Logins), NEW f \in Frames, c.flush = <<f>>,
           d.flush = << >>, d.out = c.out, d.in = c.in, d.acked = c.acked,
           d.unacked = c.unacked, AckUp(c, wire, back, server)
    PROVE  AckUp(d, wire, Append(back, f), server)
<1> DEFINE longer == Append(back, f)
<1>1. /\ Len(back) \in Nat /\ Len(longer) = Len(back) + 1 /\ longer[Len(back) + 1] = f
      /\ \A k \in 1..Len(back) : longer[k] = back[k]
      /\ \A k \in 1..Len(longer) : k \in 1..Len(back) \/ k = Len(back) + 1
      /\ Len(c.flush) = 1 /\ c.flush[1] = f /\ 1 \in 1..Len(c.flush)
      /\ Len(d.flush) = 0
  <2>1. f \in Frames \cup Logins
    OBVIOUS
  <2>2. /\ Len(back) \in Nat /\ Len(longer) = Len(back) + 1 /\ longer[Len(back) + 1] = f
        /\ \A k \in 1..Len(back) : longer[k] = back[k]
        /\ \A k \in 1..Len(longer) : k \in 1..Len(back) \/ k = Len(back) + 1
    BY <2>1
  <2>3. Len(c.flush) = 1 /\ c.flush[1] = f /\ Len(d.flush) = 0
    OBVIOUS
  <2>4. QED
    BY <2>2, <2>3
<1>2. server.in \in Nat /\ c.out \in Nat /\ c.acked \in SUBSET [sid : Nat, id : ServerIds]
  BY DEF Servers, Clients
<1> HIDE DEF longer
<1>3. d.out = server.in + Len(longer) + Len(d.flush)
  <2>1. c.out = server.in + Len(back) + Len(c.flush)
    BY DEF AckUp
  <2>2. \A i, j \in Nat : i + j + 1 = i + (j + 1) + 0
    OBVIOUS
  <2>3. QED
    BY <1>1, <1>2, <2>1, <2>2, SMTT(30)
<1>4. ASSUME NEW a \in c.acked PROVE AckSound(a, d, longer, server)
  <2>1. AckSound(a, c, back, server) /\ a.sid \in Nat
    BY <1>2 DEF AckUp
  <2>2. a.sid = server.in + Len(back) + 1 => LoggedBy(server.log, f.last, a.id)
    BY <1>1, <2>1 DEF AckSound
  <2>3. server.in + (Len(back) + 1) = server.in + Len(back) + 1
    BY <1>1, <1>2
  <2>4. ASSUME NEW k \in 1..Len(longer), a.sid = server.in + k
        PROVE  LoggedBy(server.log, longer[k].last, a.id)
    <3>1. CASE k \in 1..Len(back)
      BY <1>1, <2>1, <2>4, <3>1 DEF AckSound
    <3>2. CASE k = Len(back) + 1
      BY <1>1, <2>2, <2>3, <2>4, <3>2
    <3>3. QED
      BY <1>1, <3>1, <3>2
  <2>5. 1..Len(d.flush) = {}
    BY <1>1
  <2>6. QED
    BY <2>1, <2>4, <2>5 DEF AckSound
<1>5. QED
  BY <1>3, <1>4 DEF AckUp, longer

\* The server reads a packet, and forgets what it acknowledges.
LEMMA ReadAckUp ==
    ASSUME NEW c \in Clients, NEW wire \in Seq(FromServer), NEW server \in Servers, NEW after,
           NEW back \in Seq(Frames \cup Logins), back # << >>,
           after.in = server.in + 1, after.log = server.log,
           after.forgotten = server.forgotten \cup SentUpTo(server.log, Head(back).last),
           AckUp(c, wire, back, server)
    PROVE  AckUp(c, wire, Tail(back), after)
<1> DEFINE rest == Tail(back)
<1>1. /\ Len(back) \in Nat /\ 1 \in 1..Len(back) /\ Head(back) = back[1]
      /\ Len(rest) \in Nat /\ Len(back) = Len(rest) + 1
      /\ \A k \in 1..Len(rest) : rest[k] = back[k + 1] /\ k + 1 \in 1..Len(back)
  OBVIOUS
<1>2. /\ server.in \in Nat /\ c.out \in Nat /\ c.acked \in SUBSET [sid : Nat, id : ServerIds]
      /\ c.flush \in {<< >>} \cup {<<f>> : f \in Frames}
      /\ server.log \in Seq(ServerIds \cup {0})
  BY DEF Servers, Clients
<1>3. Len(c.flush) \in Nat
  BY <1>2
<1> HIDE DEF rest
<1>4. \A i, j, k \in Nat : i + (j + 1) + k = (i + 1) + j + k
  OBVIOUS
<1>5. c.out = after.in + Len(rest) + Len(c.flush)
  BY <1>1, <1>2, <1>3, <1>4 DEF AckUp
<1>6. \A k \in 1..Len(wire) : wire[k].last <= after.in
  <2>1. \A k \in 1..Len(wire) : wire[k].last \in Nat
    BY DEF FromServer
  <2>2. QED
    BY <1>2, <2>1 DEF AckUp
<1>7. ASSUME NEW a \in c.acked PROVE AckSound(a, c, rest, after)
  <2>1. AckSound(a, c, back, server) /\ a.sid \in Nat /\ a.id \in ServerIds
    BY <1>2 DEF AckUp
  <2>2. ASSUME a.sid <= after.in PROVE a.id \in after.forgotten
    <3>1. CASE a.sid <= server.in
      BY <2>1, <3>1 DEF AckSound
    <3>2. CASE a.sid = server.in + 1
      <4>1. LoggedBy(server.log, back[1].last, a.id)
        BY <1>1, <2>1, <3>2 DEF AckSound
      <4>2. PICK j \in 1..Len(server.log) : j <= back[1].last /\ server.log[j] = a.id
        BY <4>1 DEF LoggedBy
      <4>3. a.id # 0 /\ DOMAIN server.log = 1..Len(server.log)
        BY <1>2, <2>1, SystemAssumption
      <4>4. a.id \in SentUpTo(server.log, Head(back).last)
        BY <1>1, <4>2, <4>3 DEF SentUpTo
      <4>5. QED
        BY <4>4
    <3>3. QED
      BY <1>2, <2>1, <2>2, <3>1, <3>2
  <2>3. ASSUME NEW k \in 1..Len(rest), a.sid = after.in + k
        PROVE  LoggedBy(after.log, rest[k].last, a.id)
    <3> DEFINE n == k + 1
    <3>1. n \in 1..Len(back) /\ rest[k] = back[n] /\ a.sid = server.in + n
      <4>1. k \in Nat /\ a.sid = (server.in + 1) + k
        BY <2>3
      <4>2. \A i, j \in Nat : (i + 1) + j = i + (j + 1)
        OBVIOUS
      <4>3. a.sid = server.in + n
        BY <1>2, <4>1, <4>2
      <4>4. QED
        BY <1>1, <4>3
    <3> HIDE DEF n
    <3>2. QED
      BY <2>1, <3>1 DEF AckSound
  <2>4. ASSUME NEW k \in 1..Len(c.flush), a.sid = after.in + Len(rest) + k
        PROVE  LoggedBy(after.log, c.flush[k].last, a.id)
    <3>1. a.sid = server.in + Len(back) + k
      BY <1>1, <1>2, <1>4, <2>4
    <3>2. QED
      BY <2>1, <3>1 DEF AckSound
  <2>5. QED
    BY <2>1, <2>2, <2>3, <2>4 DEF AckSound
<1>8. QED
  BY <1>5, <1>6, <1>7 DEF AckUp, rest

\* The server sends a packet.
LEMMA MoreAckUp ==
    ASSUME NEW c, NEW wire \in Seq(FromServer), NEW p \in FromServer, NEW back,
           NEW server \in Servers, NEW after, p.last = server.in, after.in = server.in,
           after.forgotten = server.forgotten, after.log = Append(server.log, p.id),
           AckUp(c, wire, back, server)
    PROVE  AckUp(c, Append(wire, p), back, after)
<1>1. server.log \in Seq(ServerIds \cup {0}) /\ server.in \in Nat /\ p.id \in ServerIds \cup {0}
  BY DEF Servers, FromServer
<1>2. \A j \in 1..Len(server.log) : j \in 1..Len(after.log) /\ after.log[j] = server.log[j]
  BY <1>1
<1>3. ASSUME NEW n, NEW id, LoggedBy(server.log, n, id) PROVE LoggedBy(after.log, n, id)
  BY <1>2, <1>3 DEF LoggedBy
<1>4. \A a \in c.acked : AckSound(a, c, back, after)
  BY <1>3 DEF AckUp, AckSound
<1>5. \A k \in 1..Len(Append(wire, p)) : Append(wire, p)[k].last <= after.in
  <2>1. /\ \A k \in 1..Len(wire) : Append(wire, p)[k] = wire[k]
        /\ \A k \in 1..Len(Append(wire, p)) :
               k \in 1..Len(wire) \/ Append(wire, p)[k] = p
    OBVIOUS
  <2>2. p.last <= after.in
    BY <1>1
  <2>3. QED
    BY <2>1, <2>2 DEF AckUp
<1>6. \A i \in 1..Len(c.unacked) : LoggedBy(after.log, c.in, c.unacked[i])
  BY <1>3 DEF AckUp
<1>7. QED
  BY <1>4, <1>5, <1>6 DEF AckUp

LEMMA AcksInit == Init => Acks
<1>1. SUFFICES ASSUME Init PROVE Acks
  OBVIOUS
<1>2. Typed /\ Started(db, mcs)
  BY <1>1, TypedInit
<1>3. mcs.conn = "down" /\ Len(mcs.deliver) = 0 /\ Len(to_client) = 0
  BY <1>1, <1>2 DEF Started, Init
<1>4. \A id \in ServerIds : ~ (delivered[id] > 0)
  BY <1>1 DEF Init
<1>5. Received = {}
  BY <1>3, <1>4 DEF Received
<1>6. QED
  BY <1>3, <1>5 DEF Acks, Kept, Plain

LEMMA AcksNext ==
    ASSUME MaxRestarts = 0, MaxSelectiveAcks = 0, Typed, InSync, Agree, Acks, [Next]_vars
    PROVE  Acks'
<1>1. /\ mcs \in Clients /\ db \in Stores /\ to_client \in Seq(FromServer)
      /\ to_server \in Seq(Frames \cup Logins) /\ srv \in Servers /\ used \in Uses
  BY DEF Typed
<1>2. ASSUME Sent(mcs, mcs'), UNCHANGED <<to_server, to_client, srv, delivered>>
      PROVE  Acks'
  <2>1. TrackedIds(mcs') = TrackedIds(mcs) /\ mcs'.conn = mcs.conn /\ Received' = Received
    BY <1>1, <1>2, SentTracked DEF Sent, Received
  <2>2. AckUp(mcs, to_client, to_server, srv) => AckUp(mcs', to_client, to_server, srv)
    BY <1>1, <1>2, SentAckUp
  <2>3. QED
    BY <1>2, <2>1, <2>2 DEF Acks, Kept
<1>3. ASSUME /\ mcs'.conn = mcs.conn /\ mcs'.in = mcs.in
             /\ mcs'.flush = mcs.flush /\ mcs'.out = mcs.out
             /\ mcs'.restored = mcs.restored /\ mcs'.unacked = mcs.unacked
             /\ mcs'.acked = mcs.acked,
             Received' = Received, UNCHANGED <<to_server, to_client, srv>>
      PROVE  Acks'
  <2>1. TrackedIds(mcs') = TrackedIds(mcs)
    BY <1>3, SameTracked
  <2>2. AckUp(mcs, to_client, to_server, srv) => AckUp(mcs', to_client, to_server, srv)
    BY <1>3, SameAckUp
  <2>3. QED
    BY <1>3, <2>1, <2>2 DEF Acks, Kept
<1>4. CASE UNCHANGED vars
  <2>1. Received' = Received
    BY <1>4 DEF vars, Received
  <2>2. QED
    BY <1>3, <1>4, <2>1 DEF vars
<1>5. CASE AppSend
  BY <1>2, <1>5, AppSendEffect DEF AppSend
<1>6. CASE RunMaybeSend
  BY <1>2, <1>6, RunMaybeSendEffect DEF RunMaybeSend, Client
<1>7. CASE Deliver
  BY <1>3, <1>7, DeliverEffect, DeliverReceived DEF Deliver, Ticked
<1>8. CASE FlushDone
  <2>1. PICK c \in Clients :
            /\ c.conn = mcs.conn /\ c.restored = mcs.restored /\ c.unacked = mcs.unacked
            /\ c.acked = mcs.acked /\ c.in = mcs.in /\ c.out = mcs.out /\ c.flush = << >>
            /\ c.deliver = mcs.deliver /\ Sent(c, mcs')
    BY <1>8, FlushDoneEffect
  <2>2. PICK f \in Frames : mcs.flush = <<f>> /\ to_server' = Append(to_server, f)
    BY <1>8, FlushDoneEffect
  <2>3. UNCHANGED <<to_client, srv, delivered>> /\ to_server' \in Seq(Frames \cup Logins)
    BY <1>8, FlushDoneEffect DEF FlushDone
  <2>4. TrackedIds(mcs') = TrackedIds(mcs) /\ mcs'.conn = mcs.conn /\ Received' = Received
    <3>1. TrackedIds(c) = TrackedIds(mcs)
      BY <2>1, SameTracked
    <3>2. QED
      BY <2>1, <2>3, <3>1, SentTracked DEF Sent, Received
  <2>5. ASSUME AckUp(mcs, to_client, to_server, srv)
        PROVE  AckUp(mcs', to_client, to_server', srv)
    <3>1. AckUp(c, to_client, Append(to_server, f), srv)
      BY <1>1, <2>1, <2>2, <2>5, FlushAckUp
    <3>2. AckUp(c, to_client, to_server', srv)
      BY <2>2, <3>1
    <3>3. QED
      BY <1>1, <2>1, <2>3, <3>2, SentAckUp
  <2>6. QED
    BY <2>3, <2>4, <2>5 DEF Acks, Kept
<1>9. CASE SendHeartbeat
  BY <1>2, <1>9, SendHeartbeatEffect DEF SendHeartbeat
<1>10. CASE Expire
  <2>1. Ticked(mcs, mcs') /\ mcs'.deliver = mcs.deliver
        /\ UNCHANGED <<to_server, to_client, srv, delivered>>
    BY <1>10, ExpireEffect DEF Expire, Client
  <2>2. Received' = Received
    BY <2>1 DEF Received
  <2>3. QED
    BY <1>3, <2>1, <2>2 DEF Ticked
<1>11. CASE Disconnect
  <2>1. /\ Reset(mcs, mcs') /\ UNCHANGED <<to_server, srv, delivered>>
        /\ Len(to_client') = 0
    BY <1>11, DisconnectEffect DEF Disconnect
  <2>2. TrackedIds(mcs') = TrackedIds(mcs)
    BY <2>1, SameTracked DEF Reset, SameTracking
  <2>3. Received' = Received /\ mcs'.conn = "down"
    BY <2>1 DEF Received, Reset
  <2>4. Plain(to_client')
    BY <2>1 DEF Plain
  <2>5. QED
    BY <2>1, <2>2, <2>3, <2>4 DEF Acks, Kept
<1>12. CASE Reconnect
  <2>1. /\ Restarted(mcs, mcs') /\ ~ srv'.up /\ srv'.forgotten = srv.forgotten
        /\ delivered' = delivered /\ Len(to_client') = 0
    BY <1>12, ReconnectEffect DEF Reconnect
  <2>2. TrackedIds(mcs') = TrackedIds(mcs)
    BY <1>1, <2>1, RestartedTracked
  <2>3. Received' = Received
    BY <2>1 DEF Restarted, Received
  <2>4. Plain(to_client')
    BY <2>1 DEF Plain
  <2>5. QED
    BY <2>1, <2>2, <2>3, <2>4 DEF Acks, Kept
<1>13. CASE Receive
  <2>1. PICK c, packet, d, e, g : Follows(c, packet, d, e, g)
    BY <1>13, ReceiveEffect DEF Follows
  <2>2. mcs.conn # "down" /\ UNCHANGED <<to_server, srv, delivered>> /\ to_client # << >>
    BY <1>13 DEF Receive
  <2>3. ReceivedBy(mcs', delivered) = Received \cup ({packet.id} \ {0})
    BY <2>1, <2>2, ReceiveAgree
  <2>4. to_client' = IF mcs'.conn = "down" THEN << >> ELSE Tail(to_client)
    BY <1>13, ReceiveEffect
  <2>5. Received' = Received \cup ({packet.id} \ {0})
    BY <2>2, <2>3 DEF Received, ReceivedBy
  <2>6. /\ Kept(mcs', srv, Received \cup ({packet.id} \ {0}))
        /\ mcs'.conn # "down" /\ srv.up => AckUp(mcs', Tail(to_client), to_server, srv)
    BY <2>1, <2>2, ReceiveAcks
  <2>7. Plain(to_client')
    <3>1. CASE to_client' = << >>
      <4>1. Len(to_client') = 0
        BY <3>1
      <4>2. QED
        BY <4>1 DEF Plain
    <3>2. CASE to_client' = Tail(to_client)
      <4>1. \A k \in 1..Len(to_client') :
                to_client'[k] = to_client[k + 1] /\ k + 1 \in 1..Len(to_client)
        BY <1>1, <2>2, <3>2
      <4>2. QED
        BY <4>1 DEF Acks, Plain
    <3>3. QED
      BY <2>4, <3>1, <3>2
  <2>8. QED
    BY <2>2, <2>4, <2>5, <2>6, <2>7 DEF Acks
<1>14. CASE StoreStep
  <2>1. /\ mcs'.conn = mcs.conn /\ mcs'.in = mcs.in
        /\ mcs'.flush = mcs.flush /\ mcs'.out = mcs.out
        /\ mcs'.restored = mcs.restored /\ mcs'.unacked = mcs.unacked
        /\ mcs'.acked = mcs.acked /\ mcs'.deliver = mcs.deliver
        /\ UNCHANGED <<to_server, to_client, srv, delivered>>
    BY <1>14, StoreStepEffect DEF StoreStep
  <2>2. Received' = Received
    BY <2>1 DEF Received
  <2>3. QED
    BY <1>3, <2>1, <2>2
<1>15. CASE Restart
  <2>1. used.restarts < MaxRestarts /\ used.restarts \in Nat
    BY <1>1, <1>15 DEF Restart, Uses
  <2>2. QED
    BY <2>1
<1>16. CASE ServerLogin
  <2>1. /\ to_server # << >> /\ Head(to_server) \in Logins
        /\ to_server' = Tail(to_server) /\ UNCHANGED <<mcs, delivered>>
    BY <1>16, ServerLoginEffect
  <2>2. PICK p \in FromServer :
            /\ to_client' = <<p>> /\ p.id = 0
            /\ \/ /\ p.tag = "LoginResponse" /\ p.last = 1
                  /\ srv'.up /\ srv'.in = 1 /\ srv'.log = <<0>>
                  /\ srv'.forgotten = srv.forgotten \cup Head(to_server).ids
               \/ p.tag = "LoginError" /\ p.last = 0 /\ srv' = srv
    BY <1>16, ServerLoginEffect
  <2>3. Len(to_client') = 1 /\ \A k \in 1..Len(to_client') : to_client'[k] = p
    BY <2>2
  <2>4. /\ 1 \in 1..Len(to_server) /\ Head(to_server) = to_server[1]
        /\ Len(to_server) \in Nat /\ Len(to_server') = Len(to_server) - 1
    BY <1>1, <2>1
  <2>5. to_server[1].body = "Login"
    BY <2>1, <2>4 DEF Logins
  <2>6. mcs.conn # "down" =>
            /\ ~ srv.up /\ NewLink(mcs, to_server) /\ TrackedIds(mcs) \subseteq to_server[1].ids
    BY <2>4, <2>5 DEF InSync, Linked, Link, LinkUp, LinkDown, Agree
  <2>7. Received' = Received /\ TrackedIds(mcs') = TrackedIds(mcs)
    BY <2>1 DEF Received
  <2>8. Plain(to_client')
    BY <2>2, <2>3 DEF Plain
  <2>9. srv.forgotten \subseteq srv'.forgotten
    BY <2>2
  <2>10. ASSUME mcs.conn # "down", srv'.up PROVE AckUp(mcs', to_client', to_server', srv')
    <3>1. /\ p.last = 1 /\ srv'.in = 1
          /\ srv'.forgotten = srv.forgotten \cup Head(to_server).ids
      BY <2>2, <2>6, <2>10
    <3>2. /\ mcs.out = 1 /\ mcs.flush = << >> /\ mcs.unacked = << >>
          /\ \A a \in mcs.acked : a.sid = 1
          /\ Len(to_server) <= 1
      BY <2>6, <2>10 DEF NewLink
    <3>3. Len(mcs.flush) = 0 /\ Len(mcs.unacked) = 0 /\ Len(to_server') = 0
      BY <2>4, <3>2
    <3>4. \A a \in mcs.acked : a.id \in srv'.forgotten
      <4>1. \A a \in mcs.acked : a.id \in TrackedIds(mcs)
        BY <1>1, TrackedMembers
      <4>2. QED
        BY <2>4, <2>6, <2>10, <3>1, <4>1
    <3>5. \A a \in mcs.acked : AckSound(a, mcs, to_server', srv')
      BY <3>1, <3>2, <3>3, <3>4 DEF AckSound
    <3>6. mcs.out = srv'.in + Len(to_server') + Len(mcs.flush)
      BY <3>1, <3>2, <3>3
    <3>7. \A k \in 1..Len(to_client') : to_client'[k].last <= srv'.in
      BY <2>3, <3>1
    <3>8. 1..Len(mcs.unacked) = {}
      BY <3>3
    <3>9. AckUp(mcs, to_client', to_server', srv')
      BY <3>5, <3>6, <3>7, <3>8 DEF AckUp
    <3>10. QED
      BY <2>1, <3>9
  <2>11. QED
    BY <2>1, <2>7, <2>8, <2>9, <2>10 DEF Acks, Kept
<1>17. CASE ServerReceives
  <2>1. /\ to_server # << >> /\ to_server' = Tail(to_server)
        /\ UNCHANGED <<mcs, to_client, delivered>>
        /\ srv.up /\ srv'.up /\ srv'.in = srv.in + 1 /\ srv'.log = srv.log
        /\ srv'.forgotten = srv.forgotten \cup SentUpTo(srv.log, Head(to_server).last)
    BY <1>17, ServerReceivesEffect
  <2>2. Received' = Received /\ TrackedIds(mcs') = TrackedIds(mcs)
    BY <2>1 DEF Received
  <2>3. ASSUME AckUp(mcs, to_client, to_server, srv)
        PROVE  AckUp(mcs, to_client, to_server', srv')
    BY <1>1, <2>1, <2>3, ReadAckUp
  <2>4. QED
    BY <2>1, <2>2, <2>3 DEF Acks, Kept
<1>18. CASE \/ ServerSendsData \/ ServerSendsStreamAck
            \/ ServerSendsSelectiveAck \/ ServerSendsControl
  <2>1. PICK p \in FromServer :
            /\ ServerSends(p) /\ p.last = srv.in /\ p.tag # "LoginError"
            /\ p.tag = "SelectiveAck" => MaxSelectiveAcks > 0
    BY <1>18, AnySendEffect
  <2>2. /\ srv.up /\ srv'.up /\ to_client' = Append(to_client, p)
        /\ srv'.in = srv.in /\ srv'.forgotten = srv.forgotten
        /\ srv'.log = Append(srv.log, p.id)
        /\ UNCHANGED <<mcs, to_server, delivered>>
    BY <2>1, ServerSendsEffect
  <2>3. /\ \A k \in 1..Len(to_client) : to_client'[k] = to_client[k]
        /\ \A k \in 1..Len(to_client') : k \in 1..Len(to_client) \/ to_client'[k] = p
    BY <1>1, <2>2
  <2>4. p.tag # "SelectiveAck"
    BY <2>1
  <2>5. Plain(to_client')
    BY <2>1, <2>3, <2>4 DEF Acks, Plain
  <2>6. Received' = Received /\ TrackedIds(mcs') = TrackedIds(mcs)
    BY <2>2 DEF Received
  <2>7. ASSUME AckUp(mcs, to_client, to_server, srv)
        PROVE  AckUp(mcs, to_client', to_server, srv')
    BY <1>1, <2>1, <2>2, <2>7, MoreAckUp
  <2>8. QED
    BY <2>2, <2>5, <2>6, <2>7 DEF Acks, Kept
<1>19. QED
  BY <1>4, <1>5, <1>6, <1>7, <1>8, <1>9, <1>10, <1>11, <1>12, <1>13, <1>14, <1>15, <1>16,
     <1>17, <1>18 DEF Next

\* While the process lives and the server confirms by stream id only, an id the
\* device has received stays in the client's lists (unacked_server_ids_,
\* acked_server_ids_, and by IncomingStoreFollows in the store) until the server
\* has forgotten the message: the stream id HandleServerConfirmedReceipt compares
\* with is that of a packet which really acknowledged the id.
THEOREM TrackedUntilConfirmed ==
    ASSUME MaxRestarts = 0, MaxSelectiveAcks = 0
    PROVE  Spec => []AcksTrackedUntilConfirmed
<1>1. Init => Typed /\ InSync /\ Agree /\ Acks
  BY TypedInit, InSyncInit, AgreeInit, AcksInit
<1>2. Typed /\ InSync /\ Agree /\ Acks /\ [Next]_vars => Typed' /\ InSync' /\ Agree' /\ Acks'
  BY TypedNext, InSyncNext, AgreeNext, AcksNext
<1>3. Acks => AcksTrackedUntilConfirmed
  BY DEF Acks, Kept, AcksTrackedUntilConfirmed
<1>4. QED
  BY <1>1, <1>2, <1>3, PTL DEF Spec

-----------------------------------------------------------------------------
(***************************************************************************)
(* Nothing is handed to the application twice, while the process lives and *)
(* the server sends no SelectiveAck                                        *)
(***************************************************************************)

\* What was delivered is not in the list of posted deliveries, nor anything twice.
OnceBy(c, deliveries) ==
    /\ \A id \in ServerIds : deliveries[id] <= 1
    /\ \A i \in 1..Len(c.deliver) : deliveries[c.deliver[i]] = 0
    /\ \A i, j \in 1..Len(c.deliver) : i # j => c.deliver[i] # c.deliver[j]

\* What is on the wire was not received before, on this or an earlier connection.
Unseen(wire, R) == \A k \in 1..Len(wire) : wire[k].id \notin R

Once ==
    /\ OnceBy(mcs, delivered)
    /\ mcs.conn # "down" => Unseen(to_client, Received)

LEMMA OnceInit == Init => Once
<1>1. SUFFICES ASSUME Init PROVE Once
  OBVIOUS
<1>2. Typed /\ Started(db, mcs)
  BY <1>1, TypedInit
<1>3. mcs.conn = "down" /\ Len(mcs.deliver) = 0
  BY <1>1, <1>2 DEF Started
<1>4. \A id \in ServerIds : delivered[id] <= 1
  BY <1>1 DEF Init
<1>5. QED
  BY <1>3, <1>4 DEF Once, OnceBy

LEMMA DeliverOnce ==
    ASSUME Typed, Once, Deliver
    PROVE  OnceBy(mcs', delivered')
<1> DEFINE id == Head(mcs.deliver)
<1>1. /\ mcs.deliver # << >> /\ mcs'.deliver = Tail(mcs.deliver) /\ id \in ServerIds
      /\ delivered' = [delivered EXCEPT ![id] = delivered[id] + 1]
      /\ mcs.deliver \in Seq(ServerIds) /\ delivered \in [ServerIds -> Nat]
  BY DeliverEffect DEF Typed, Clients
<1>2. /\ 1 \in 1..Len(mcs.deliver) /\ id = mcs.deliver[1]
      /\ \A i \in 1..Len(mcs'.deliver) : /\ mcs'.deliver[i] = mcs.deliver[i + 1]
                                         /\ i + 1 \in 1..Len(mcs.deliver) /\ i + 1 # 1
                                         /\ mcs'.deliver[i] \in ServerIds
      /\ \A i, j \in 1..Len(mcs'.deliver) : i # j => i + 1 # j + 1
  BY <1>1
<1>3. OnceBy(mcs, delivered)
  BY DEF Once
<1>4. delivered'[id] = delivered[id] + 1 /\ \A x \in ServerIds : x # id => delivered'[x] = delivered[x]
  BY <1>1
<1> HIDE DEF id
<1>5. delivered[id] = 0
  BY <1>2, <1>3 DEF OnceBy
<1>6. delivered'[id] = 1
  BY <1>4, <1>5
<1>7. \A x \in ServerIds : delivered'[x] <= 1
  BY <1>3, <1>4, <1>6 DEF OnceBy
<1>8. ASSUME NEW i \in 1..Len(mcs'.deliver) PROVE delivered'[mcs'.deliver[i]] = 0
  <2> DEFINE n == i + 1
  <2>1. n \in 1..Len(mcs.deliver) /\ n # 1 /\ mcs'.deliver[i] = mcs.deliver[n]
        /\ mcs'.deliver[i] \in ServerIds
    BY <1>2
  <2> HIDE DEF n
  <2>2. mcs.deliver[n] # id /\ delivered[mcs.deliver[n]] = 0
    BY <1>2, <1>3, <2>1 DEF OnceBy
  <2>3. QED
    BY <1>4, <2>1, <2>2
<1>9. ASSUME NEW i \in 1..Len(mcs'.deliver), NEW j \in 1..Len(mcs'.deliver), i # j
      PROVE  mcs'.deliver[i] # mcs'.deliver[j]
  <2> DEFINE n == i + 1
             m == j + 1
  <2>1. /\ n \in 1..Len(mcs.deliver) /\ mcs'.deliver[i] = mcs.deliver[n]
        /\ m \in 1..Len(mcs.deliver) /\ mcs'.deliver[j] = mcs.deliver[m]
        /\ n # m
    BY <1>2, <1>9
  <2> HIDE DEF n, m
  <2>2. QED
    BY <1>3, <2>1 DEF OnceBy
<1>10. QED
  BY <1>7, <1>8, <1>9 DEF OnceBy

\* A message is handed on that was not received before.
LEMMA HandedOnce ==
    ASSUME NEW c \in Clients, NEW packet \in FromServer, packet.id # 0, NEW d,
           d.deliver = Append(c.deliver, packet.id), NEW deliveries \in [ServerIds -> Nat],
           packet.id \notin ReceivedBy(c, deliveries), OnceBy(c, deliveries)
    PROVE  OnceBy(d, deliveries)
<1>1. c.deliver \in Seq(ServerIds) /\ packet.id \in ServerIds
  BY DEF Clients, FromServer
<1>2. /\ Len(c.deliver) \in Nat /\ Len(d.deliver) = Len(c.deliver) + 1
      /\ d.deliver[Len(c.deliver) + 1] = packet.id
      /\ \A i \in 1..Len(c.deliver) : d.deliver[i] = c.deliver[i]
      /\ \A i \in 1..Len(d.deliver) : i \in 1..Len(c.deliver) \/ i = Len(c.deliver) + 1
  BY <1>1
<1>3. ~ (deliveries[packet.id] > 0) /\ \A i \in 1..Len(c.deliver) : c.deliver[i] # packet.id
  BY <1>1 DEF ReceivedBy
<1>4. deliveries[packet.id] = 0
  BY <1>1, <1>3
<1>5. \A i \in 1..Len(d.deliver) : deliveries[d.deliver[i]] = 0
  BY <1>2, <1>4 DEF OnceBy
<1>6. ASSUME NEW i \in 1..Len(d.deliver), NEW j \in 1..Len(d.deliver), i # j
      PROVE  d.deliver[i] # d.deliver[j]
  <2>1. CASE i \in 1..Len(c.deliver) /\ j \in 1..Len(c.deliver)
    BY <1>2, <1>6, <2>1 DEF OnceBy
  <2>2. CASE i \in 1..Len(c.deliver) /\ j = Len(c.deliver) + 1
    BY <1>2, <1>3, <2>2
  <2>3. CASE j \in 1..Len(c.deliver) /\ i = Len(c.deliver) + 1
    BY <1>2, <1>3, <2>3
  <2>4. QED
    BY <1>2, <1>6, <2>1, <2>2, <2>3
<1>7. QED
  BY <1>5, <1>6 DEF OnceBy

LEMMA ReceiveOnce ==
    ASSUME Typed, InSync, Agree, Once, mcs.conn # "down",
           NEW c, NEW packet, NEW d, NEW e, NEW g, Follows(c, packet, d, e, g)
    PROVE  /\ OnceBy(mcs', delivered)
           /\ srv.up => Unseen(Tail(to_client), Received \cup ({packet.id} \ {0}))
<1>1. /\ packet = Head(to_client) /\ to_client # << >> /\ to_client \in Seq(FromServer)
      /\ packet \in FromServer /\ packet.tag \in Tags /\ (packet.tag = "Data" <=> packet.id # 0)
      /\ delivered \in [ServerIds -> Nat] /\ g \in Clients
  BY DEF Typed, Follows, Receives, FromServer, Counted, Sent
<1>2. /\ 1 \in 1..Len(to_client) /\ packet = to_client[1]
      /\ \A k \in 1..Len(Tail(to_client)) : /\ Tail(to_client)[k] = to_client[k + 1]
                                            /\ k + 1 \in 1..Len(to_client) /\ k + 1 # 1
  BY <1>1
<1>3. packet.tag = "LoginResponse" => mcs.in = 0
  BY <1>1, HeadCounts
<1>4. g.deliver = mcs.deliver
  BY <1>3, ReceiveCounts
<1>5. OnceBy(g, delivered) /\ Unseen(to_client, Received)
  BY <1>4 DEF Once, OnceBy
<1>6. packet.id \notin Received
  BY <1>2, <1>5 DEF Unseen
<1>7. OnceBy(mcs', delivered)
  <2>1. CASE packet.tag = "Data"
    <3>1. mcs'.deliver = Append(g.deliver, packet.id)
      BY <2>1 DEF Follows, Dispatched, Handed
    <3>2. packet.id \notin ReceivedBy(g, delivered)
      BY <1>4, <1>6 DEF ReceivedBy, Received
    <3>3. packet.id # 0
      BY <1>1, <2>1
    <3>4. QED
      BY <1>1, <1>5, <3>1, <3>2, <3>3, HandedOnce
  <2>2. CASE packet.tag # "Data"
    <3>1. mcs'.deliver = g.deliver
      BY <1>1, <2>2 DEF Follows, Dispatched, Tags, Opened, Reset, Sent, Confirms
    <3>2. QED
      BY <1>5, <3>1 DEF OnceBy
  <2>3. QED
    BY <2>1, <2>2
<1>8. ASSUME srv.up, NEW k \in 1..Len(Tail(to_client))
      PROVE  Tail(to_client)[k].id \notin Received \cup ({packet.id} \ {0})
  <2> DEFINE n == k + 1
  <2>1. n \in 1..Len(to_client) /\ n # 1 /\ Tail(to_client)[k] = to_client[n]
    BY <1>2
  <2> HIDE DEF n
  <2>2. LinkUp(TrackedIds(mcs), to_client, to_server, srv)
    BY <1>8 DEF InSync, Linked, Link
  <2>3. packet.id # 0 => to_client[n].id # packet.id
    BY <1>2, <2>1, <2>2 DEF LinkUp
  <2>4. to_client[n].id \notin Received
    BY <1>5, <2>1 DEF Unseen
  <2>5. QED
    BY <2>1, <2>3, <2>4
<1>9. QED
  BY <1>7, <1>8 DEF Unseen

LEMMA OnceNext ==
    ASSUME MaxRestarts = 0, Typed, InSync, Agree, Acks, Once, [Next]_vars
    PROVE  Once'
<1>1. /\ to_client \in Seq(FromServer) /\ mcs \in Clients /\ used \in Uses
      /\ \A R : Unseen(<< >>, R)
  <2>1. Len(<< >>) = 0
    OBVIOUS
  <2>2. QED
    BY <2>1 DEF Typed, Unseen
<1>2. 0 \notin Received
  BY SystemAssumption DEF Received
<1>3. ASSUME mcs'.deliver = mcs.deliver, delivered' = delivered
      PROVE  OnceBy(mcs', delivered') /\ Received' = Received
  BY <1>3 DEF Once, OnceBy, Received
<1>4. ASSUME mcs'.deliver = mcs.deliver, mcs'.conn = mcs.conn,
             UNCHANGED <<delivered, to_client>>
      PROVE  Once'
  BY <1>3, <1>4 DEF Once
<1>5. CASE UNCHANGED vars
  BY <1>4, <1>5 DEF vars
<1>6. CASE AppSend
  BY <1>4, <1>6, AppSendEffect DEF AppSend, Sent
<1>7. CASE RunMaybeSend
  BY <1>4, <1>7, RunMaybeSendEffect DEF RunMaybeSend, Client, Sent
<1>8. CASE Deliver
  <2>1. mcs'.conn = mcs.conn /\ to_client' = to_client
    BY <1>8, DeliverEffect DEF Deliver, Ticked
  <2>2. QED
    BY <1>8, <2>1, DeliverOnce, DeliverReceived DEF Once
<1>9. CASE FlushDone
  <2>1. mcs'.deliver = mcs.deliver /\ mcs'.conn = mcs.conn
    BY <1>9, FlushDoneEffect DEF Sent
  <2>2. QED
    BY <1>4, <1>9, <2>1 DEF FlushDone
<1>10. CASE SendHeartbeat
  BY <1>4, <1>10, SendHeartbeatEffect DEF SendHeartbeat, Sent
<1>11. CASE Expire
  BY <1>4, <1>11, ExpireEffect DEF Expire, Client, Ticked
<1>12. CASE Disconnect
  <2>1. mcs'.deliver = mcs.deliver /\ mcs'.conn = "down" /\ delivered' = delivered
    BY <1>12, DisconnectEffect DEF Disconnect, Reset
  <2>2. QED
    BY <1>3, <2>1 DEF Once
<1>13. CASE Reconnect
  <2>1. mcs'.deliver = mcs.deliver /\ delivered' = delivered /\ to_client' = << >>
    BY <1>13, ReconnectEffect DEF Reconnect, Restarted
  <2>2. Unseen(to_client', Received')
    BY <1>1, <2>1
  <2>3. QED
    BY <1>3, <2>1, <2>2 DEF Once
<1>14. CASE Receive
  <2>1. PICK c, packet, d, e, g : Follows(c, packet, d, e, g)
    BY <1>14, ReceiveEffect DEF Follows
  <2>2. mcs.conn # "down" /\ UNCHANGED <<to_server, srv, delivered>>
    BY <1>14 DEF Receive
  <2>3. /\ ReceivedBy(mcs', delivered) = Received \cup ({packet.id} \ {0})
        /\ ~ srv.up => mcs'.conn = "down"
    BY <2>1, <2>2, ReceiveAgree
  <2>4. mcs'.conn # "down" => to_client' = Tail(to_client)
    BY <1>14, ReceiveEffect
  <2>5. Received' = Received \cup ({packet.id} \ {0})
    BY <2>2, <2>3 DEF Received, ReceivedBy
  <2>6. /\ OnceBy(mcs', delivered)
        /\ srv.up => Unseen(Tail(to_client), Received \cup ({packet.id} \ {0}))
    BY <2>1, <2>2, ReceiveOnce
  <2>7. QED
    BY <2>2, <2>3, <2>4, <2>5, <2>6 DEF Once
<1>15. CASE StoreStep
  BY <1>4, <1>15, StoreStepEffect DEF StoreStep
<1>16. CASE Restart
  <2>1. used.restarts < MaxRestarts /\ used.restarts \in Nat
    BY <1>1, <1>16 DEF Restart, Uses
  <2>2. QED
    BY <2>1
<1>17. CASE ServerLogin
  <2>1. UNCHANGED <<mcs, delivered>> /\ \E p \in FromServer : to_client' = <<p>> /\ p.id = 0
    BY <1>17, ServerLoginEffect
  <2>2. \A k \in 1..Len(to_client') : to_client'[k].id = 0
    BY <2>1
  <2>3. QED
    BY <1>2, <1>3, <2>1, <2>2 DEF Once, Unseen
<1>18. CASE ServerReceives
  BY <1>4, <1>18, ServerReceivesEffect
<1>19. CASE \/ ServerSendsData \/ ServerSendsStreamAck
            \/ ServerSendsSelectiveAck \/ ServerSendsControl
  <2>1. PICK p \in FromServer :
            /\ ServerSends(p)
            /\ \/ p.id = 0
               \/ /\ p.id \in ServerIds \ srv.forgotten
                  /\ \A i \in 1..Len(srv.log) : srv.log[i] # p.id
    BY <1>19, AnySendEffect
  <2>2. /\ srv.up /\ mcs.conn # "down" /\ to_client' = Append(to_client, p)
        /\ UNCHANGED <<mcs, delivered>>
    BY <2>1, ServerSendsEffect
  <2>3. p.id \notin Received
    <3>1. CASE p.id = 0
      BY <1>2, <3>1
    <3>2. CASE /\ p.id \in ServerIds \ srv.forgotten
               /\ \A i \in 1..Len(srv.log) : srv.log[i] # p.id
      <4>1. LinkUp(TrackedIds(mcs), to_client, to_server, srv)
        BY <2>2 DEF InSync, Linked, Link
      <4>2. p.id \notin TrackedIds(mcs)
        BY <3>2, <4>1 DEF LinkUp, InLog
      <4>3. QED
        BY <3>2, <4>2 DEF Acks, Kept
    <3>3. QED
      BY <2>1, <3>1, <3>2
  <2>4. \A k \in 1..Len(to_client') :
            to_client'[k] = p \/ (k \in 1..Len(to_client) /\ to_client'[k] = to_client[k])
    BY <1>1, <2>2
  <2>5. Unseen(to_client', Received)
    BY <2>2, <2>3, <2>4 DEF Once, Unseen
  <2>6. QED
    BY <1>3, <2>2, <2>5 DEF Once
<1>20. QED
  BY <1>5, <1>6, <1>7, <1>8, <1>9, <1>10, <1>11, <1>12, <1>13, <1>14, <1>15, <1>16,
     <1>17, <1>18, <1>19 DEF Next

LEMMA OnceMeansOneCopy ==
    ASSUME Typed, Once
    PROVE  DeliveredOnce
<1>1. SUFFICES ASSUME NEW id \in ServerIds PROVE Copies(id) <= 1
  BY DEF DeliveredOnce
<1> DEFINE where == {i \in 1..Len(mcs.deliver) : mcs.deliver[i] = id}
<1>2. OnceBy(mcs, delivered) /\ delivered[id] \in Nat
  BY DEF Once, Typed
<1>3. CASE where = {}
  <2>1. Cardinality(where) = 0
    BY <1>3, FS_EmptySet
  <2>2. delivered[id] <= 1
    BY <1>2 DEF OnceBy
  <2>3. delivered[id] + Cardinality(where) <= 1
    BY <1>2, <2>1, <2>2
  <2>4. QED
    BY <2>3 DEF Copies
<1>4. ASSUME NEW i \in where PROVE Copies(id) <= 1
  <2>1. where = {i}
    BY <1>2 DEF OnceBy
  <2>2. Cardinality(where) = 1
    <3>1. Cardinality({i}) = 1
      BY FS_Singleton
    <3> HIDE DEF where
    <3>2. QED
      BY <2>1, <3>1, Zenon
  <2>3. delivered[id] = 0
    BY <1>2 DEF OnceBy
  <2> HIDE DEF where
  <2>4. delivered[id] + Cardinality(where) <= 1
    BY <2>2, <2>3
  <2>5. QED
    BY <2>4 DEF Copies, where
<1>5. QED
  BY <1>3, <1>4

\* While the process lives and the server confirms by stream id only, no message
\* reaches the application twice, although the server sends every message again
\* on later connections until it is acknowledged: a login request lists what the
\* client tracks, and by TrackedUntilConfirmed that is all the server still has.
THEOREM AtMostOnce ==
    ASSUME MaxRestarts = 0, MaxSelectiveAcks = 0
    PROVE  Spec => []DeliveredOnce
<1> DEFINE I == Typed /\ InSync /\ Agree /\ Acks /\ Once
<1>1. Init => I
  BY TypedInit, InSyncInit, AgreeInit, AcksInit, OnceInit
<1>2. I /\ [Next]_vars => I'
  BY TypedNext, InSyncNext, AgreeNext, AcksNext, OnceNext
<1>3. I => DeliveredOnce
  BY OnceMeansOneCopy
<1>4. QED
  BY <1>1, <1>2, <1>3, PTL DEF Spec

===============================================================================
