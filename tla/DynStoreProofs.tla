--------------------------- MODULE DynStoreProofs ---------------------------
(***************************************************************************)
(* What the batches of DynStore have done when they return, what easyrepo  *)
(* can ask of the store and what the pages of a query have handed out, for *)
(* every size of a group, every batch, builder and table, any number of    *)
(* clients and any configuration.                                          *)
(***************************************************************************)
EXTENDS DynQuery, FiniteSetTheorems, WellFoundedInduction, TLAPS

Item == Client \cup {Absent}
Contents == [Key -> Item]

Call ==
    [op : {"idle", "writing", "written", "reading", "read"},
     reqs : Seq(Request), next : Nat, taken : SUBSET Nat, unprocessed : SUBSET Nat,
     found : SUBSET Key, err : BOOLEAN, before : Contents, touched : SUBSET Key]

(* A batch between two groups, and one that has returned. *)
Going(r) == r.op \in {"writing", "reading"}
Over(r) == r.op \in {"written", "read"}
Answered(r) == r.taken \cup r.unprocessed

(* The groups before `next` have been answered in full, each request taken *)
(* or reported unprocessed and never both.                                 *)
Progress(r) ==
    /\ r.taken \subseteq DOMAIN r.reqs
    /\ Answered(r) \subseteq (1..(r.next - 1)) \cap DOMAIN r.reqs
    /\ r.taken \cap r.unprocessed = {}
    /\ Going(r) =>
          /\ ~r.err
          /\ \E m \in Nat : r.next = m * Group + 1
          /\ r.next <= Len(r.reqs)
          /\ Answered(r) = 1..(r.next - 1)
    /\ Over(r) /\ ~r.err => Answered(r) = DOMAIN r.reqs
    /\ Over(r) => \A i \in r.taken, j \in DOMAIN r.reqs :
          (j - 1) \div Group < (i - 1) \div Group => j \in Answered(r)

(* The last request on k that was taken. *)
LastOn(r, k, i) ==
    /\ i \in r.taken /\ r.reqs[i].key = k
    /\ \A j \in r.taken : r.reqs[j].key = k => j <= i

(* What the table holds for the keys that nobody else wrote. *)
Settled(c, r, t) ==
    r.op \in {"writing", "written"} => \A k \in Key \ r.touched :
        \/ (\A i \in r.taken : r.reqs[i].key # k) /\ t[k] = r.before[k]
        \/ \E i \in Nat :
              LastOn(r, k, i) /\ t[k] = (IF r.reqs[i].what = "put" THEN c ELSE Absent)

(* What a BatchGet has found so far. *)
Collected(r, t) ==
    /\ r.op = "reading" \/ (r.op = "read" /\ ~r.err) =>
          /\ \A i \in r.taken :
                r.reqs[i].key \notin r.touched /\ t[r.reqs[i].key] # Absent
                => r.reqs[i].key \in r.found
          /\ \A k \in r.found :
                /\ \E i \in DOMAIN r.reqs : r.reqs[i].key = k
                /\ k \notin r.touched => t[k] # Absent
    /\ r.op = "read" /\ r.err => r.found = {}

CallInv(c, r, t) ==
    /\ r \in Call
    /\ Progress(r) /\ Settled(c, r, t) /\ Collected(r, t)
    /\ c \notin Batcher => r.op = "idle"

BatchInv ==
    /\ table \in Contents
    /\ call \in [Client -> Call]
    /\ \A c \in Client : CallInv(c, call[c], table)

-----------------------------------------------------------------------------
(* Requests a and b in the order of their groups, b in group m or before.  *)
LEMMA EarlierGroup ==
    ASSUME NEW G \in Nat \ {0}, NEW m \in Nat, NEW a \in Nat, NEW b \in Nat,
           b < m * G + G, a \div G < b \div G
    PROVE  a < m * G
<1> DEFINE q == a \div G
           p == b \div G
<1>1. q \in Int /\ p \in Int /\ q < p
  BY SMT
<1>2. a < G * q + G /\ G * p <= b
  BY SMT
<1>3. p <= m
  <2>1. SUFFICES ASSUME p > m PROVE FALSE
    BY <1>1
  <2>2. G * (m + 1) <= G * p
    BY <1>1, <2>1, SMT
  <2> QED
    BY <1>2, <2>2, <1>1, SMT
<1>4. q + 1 <= m
  BY <1>1, <1>3
<1>5. G * (q + 1) <= G * m
  BY <1>1, <1>4, SMT
<1> QED
  BY <1>1, <1>2, <1>5, SMT

(* The keys S changed under a batch, which noticed. *)
LEMMA NoticedKeeps ==
    ASSUME NEW c, NEW r, NEW t \in Contents, NEW u \in Contents, NEW S \in SUBSET Key,
           CallInv(c, r, t), \A k \in Key \ S : u[k] = t[k],
           NEW r2, r2 = IF r.op = "idle" THEN r ELSE [r EXCEPT !.touched = @ \cup S]
    PROVE  CallInv(c, r2, u)
<1>1. r \in Call /\ r.touched \subseteq Key
  BY DEF CallInv, Call
<1>2. CASE r.op = "idle"
  BY <1>2 DEF CallInv, Progress, Settled, Collected, Going, Over
<1>3. CASE r.op # "idle"
  <2>1. r2 = [r EXCEPT !.touched = r.touched \cup S]
    BY <1>3
  <2>2. /\ r2 \in Call
        /\ r2.op = r.op /\ r2.reqs = r.reqs /\ r2.next = r.next /\ r2.taken = r.taken
        /\ r2.unprocessed = r.unprocessed /\ r2.found = r.found /\ r2.err = r.err
        /\ r2.before = r.before /\ r2.touched = r.touched \cup S
    BY <1>1, <2>1, SMT DEF Call
  <2>3. Progress(r2)
    BY <2>2 DEF CallInv, Progress, Going, Over, Answered
  <2>4. Settled(c, r2, u)
    BY <2>2 DEF CallInv, Settled, LastOn
  <2>5. Collected(r2, u)
    <3>1. ASSUME NEW i \in r.taken
          PROVE  r.reqs[i].key \in Key
      <4>1. r.reqs \in Seq(Request) /\ i \in DOMAIN r.reqs
        BY <1>1 DEF CallInv, Progress, Call
      <4>2. r.reqs[i] \in Request
        BY <4>1
      <4> QED
        BY <4>2 DEF Request
    <3>2. r.found \subseteq Key
      BY <1>1 DEF Call
    <3> QED
      BY <2>2, <3>1, <3>2, SMT DEF CallInv, Collected
  <2> QED
    BY <2>2, <2>3, <2>4, <2>5 DEF CallInv
<1> QED
  BY <1>2, <1>3

-----------------------------------------------------------------------------
(* The indexes of a group, and where the loop is after it. *)
LEMMA GroupRange ==
    ASSUME NEW r \in Call, Going(r), Progress(r)
    PROVE  /\ GroupAt(r.reqs, r.next) \subseteq DOMAIN r.reqs
           /\ \A i \in GroupAt(r.reqs, r.next) : r.next <= i /\ i < r.next + Group
           /\ r.next + Group <= Len(r.reqs) =>
                (1..(r.next - 1)) \cup GroupAt(r.reqs, r.next) = 1..(r.next + Group - 1)
           /\ r.next + Group > Len(r.reqs) =>
                (1..(r.next - 1)) \cup GroupAt(r.reqs, r.next) = DOMAIN r.reqs
<1>1. /\ Group \in Nat \ {0} /\ Len(r.reqs) \in Nat /\ DOMAIN r.reqs = 1..Len(r.reqs)
      /\ r.next \in Nat /\ r.next <= Len(r.reqs)
  BY DynAssumption, SMT DEF Call, Progress
<1>2. r.next >= 1
  <2>1. PICK m \in Nat : r.next = m * Group + 1
    BY DEF Progress
  <2>2. m * Group \in Nat
    BY <1>1, SMT
  <2> QED
    BY <2>1, <2>2
<1> QED
  BY <1>1, <1>2, SMT DEF GroupAt

LEMMA GroupProgress ==
    ASSUME NEW r \in Call, Going(r), Progress(r),
           NEW T \in SUBSET GroupAt(r.reqs, r.next),
           NEW doing \in {"writing", "reading"}, NEW done \in {"written", "read"},
           NEW r2,
           r2.reqs = r.reqs, r2.next = r.next + Group, r2.taken = r.taken \cup T,
           \/ /\ ~r2.err
              /\ r2.unprocessed = r.unprocessed \cup (GroupAt(r.reqs, r.next) \ T)
              /\ r2.op = LoopOp(r.reqs, r.next + Group, doing, done)
           \/ r2.err /\ r2.unprocessed = r.unprocessed /\ r2.op = done
    PROVE  Progress(r2)
<1> DEFINE G == GroupAt(r.reqs, r.next)
<1>1. PICK m \in Nat : r.next = m * Group + 1
  BY DEF Progress
<1>2. /\ Group \in Nat \ {0} /\ Len(r.reqs) \in Nat /\ DOMAIN r.reqs = 1..Len(r.reqs)
      /\ r.next \in Nat /\ m * Group \in Nat
  BY <1>1, DynAssumption, SMT DEF Call
<1>3. r.taken \cup r.unprocessed = 1..(r.next - 1)
  BY DEF Progress, Answered
<1>4. r2.taken \subseteq DOMAIN r2.reqs
  BY GroupRange DEF Progress
<1>5. ~r2.err => Answered(r2) = (1..(r.next - 1)) \cup G
  BY <1>3 DEF Answered
<1>6. ASSUME Going(r2)
      PROVE  /\ ~r2.err
             /\ \E n \in Nat : r2.next = n * Group + 1
             /\ r2.next <= Len(r2.reqs)
             /\ Answered(r2) = 1..(r2.next - 1)
  <2>1. ~r2.err /\ r.next + Group <= Len(r.reqs)
    BY <1>6, SMT DEF Going, LoopOp
  <2>2. r2.next = (m + 1) * Group + 1
    BY <1>1, <1>2, SMT
  <2>3. m + 1 \in Nat
    BY <1>1
  <2>4. Answered(r2) = 1..(r2.next - 1)
    <3>1. (1..(r.next - 1)) \cup G = 1..(r.next + Group - 1)
      BY <2>1, GroupRange
    <3>2. Answered(r2) = 1..(r.next + Group - 1)
      BY <1>5, <2>1, <3>1, Zenon
    <3>3. r2.next - 1 = r.next + Group - 1
      BY <1>2
    <3> QED
      BY <3>2, <3>3, Zenon
  <2> QED
    BY <2>1, <2>2, <2>3, <2>4
<1>7. ASSUME Over(r2), ~r2.err
      PROVE  Answered(r2) = DOMAIN r2.reqs
  <2>1. ~(r.next + Group <= Len(r.reqs))
    BY <1>7, SMT DEF Over, LoopOp
  <2>2. r.next + Group > Len(r.reqs)
    BY <1>2, <2>1
  <2> QED
    BY <1>5, <1>7, <2>2, GroupRange
<1>8. ASSUME NEW i \in r2.taken, NEW j \in DOMAIN r2.reqs,
             (j - 1) \div Group < (i - 1) \div Group
      PROVE  j \in Answered(r2)
  <2>1. i \in Nat /\ i >= 1 /\ j \in Nat /\ j >= 1
    BY <1>2, <1>4, <1>8, SMT
  <2>2. i < r.next + Group
    <3>1. CASE i \in T
      BY <3>1, GroupRange
    <3>2. CASE i \in r.taken
      <4>1. i \in 1..(r.next - 1)
        BY <1>3, <3>2
      <4> QED
        BY <1>2, <4>1
    <3> QED
      BY <1>8, <3>1, <3>2
  <2>3. i - 1 \in Nat /\ j - 1 \in Nat /\ i - 1 < m * Group + Group
    BY <1>1, <1>2, <2>1, <2>2
  <2>4. j - 1 < m * Group
    BY <1>2, <1>8, <2>3, EarlierGroup
  <2>5. j \in 1..(r.next - 1)
    BY <1>1, <1>2, <2>1, <2>4
  <2> QED
    BY <1>3, <2>5 DEF Answered
<1>9. Answered(r2) \subseteq (1..(r2.next - 1)) \cap DOMAIN r2.reqs
  <2>1. Answered(r) \cup G \subseteq DOMAIN r.reqs /\ Answered(r2) \subseteq Answered(r) \cup G
    BY GroupRange DEF Progress, Answered
  <2>2. \A i \in Answered(r) \cup G : i \in 1..(r2.next - 1)
    <3>1. ASSUME NEW i \in G PROVE i \in 1..(r2.next - 1)
      <4>1. i \in Nat /\ i >= 1 /\ i < r.next + Group
        BY <1>2, <2>1, GroupRange
      <4> QED BY <1>2, <4>1
    <3>2. ASSUME NEW i \in Answered(r) PROVE i \in 1..(r2.next - 1)
      <4>1. i \in 1..(r.next - 1)
        BY <1>3 DEF Answered
      <4> QED BY <1>2, <4>1
    <3> QED BY <3>1, <3>2
  <2> QED BY <2>1, <2>2
<1>10. r2.taken \cap r2.unprocessed = {}
  <2>1. \A i \in Answered(r) : i \notin G
    <3>1. ASSUME NEW i \in Answered(r), i \in G PROVE FALSE
      <4>1. i \in 1..(r.next - 1) /\ r.next <= i
        BY <1>3, <3>1, GroupRange DEF Answered
      <4> QED BY <1>2, <4>1
    <3> QED BY <3>1
  <2>2. r.taken \cap r.unprocessed = {}
    BY DEF Progress
  <2> QED BY <2>1, <2>2 DEF Answered
<1> QED
  BY <1>4, <1>6, <1>7, <1>8, <1>9, <1>10 DEF Progress

(* Within a group no key occurs twice, and its requests come after all     *)
(* that was taken before.                                                  *)
LEMMA GroupSettled ==
    ASSUME NEW c, NEW r \in Call, Going(r), Progress(r), r.op = "writing",
           NEW t \in Contents, Settled(c, r, t),
           NEW T \in SUBSET GroupAt(r.reqs, r.next),
           \A i, j \in T : r.reqs[i].key = r.reqs[j].key => i = j,
           NEW u, u = [k \in Key |-> IF k \notin KeysOf(r.reqs, T) THEN t[k]
                                     ELSE IF IsPut(r.reqs, T, k) THEN c ELSE Absent],
           NEW r2, r2.reqs = r.reqs, r2.before = r.before, r2.touched = r.touched,
           r2.taken = r.taken \cup T
    PROVE  Settled(c, r2, u)
<1> SUFFICES ASSUME NEW k \in Key \ r.touched
             PROVE  \/ (\A i \in r2.taken : r2.reqs[i].key # k) /\ u[k] = r2.before[k]
                    \/ \E i \in Nat :
                          /\ LastOn(r2, k, i)
                          /\ u[k] = (IF r2.reqs[i].what = "put" THEN c ELSE Absent)
  BY DEF Settled
<1>1. \/ (\A i \in r.taken : r.reqs[i].key # k) /\ t[k] = r.before[k]
      \/ \E i \in Nat :
            LastOn(r, k, i) /\ t[k] = (IF r.reqs[i].what = "put" THEN c ELSE Absent)
  BY DEF Settled
<1>2. CASE k \notin KeysOf(r.reqs, T)
  <2>1. \A i \in T : r.reqs[i].key # k
    BY <1>2 DEF KeysOf
  <2>2. u[k] = t[k]
    BY <1>2
  <2> QED
    BY <1>1, <2>1, <2>2 DEF LastOn
<1>3. CASE k \in KeysOf(r.reqs, T)
  <2>1. PICK i \in T : r.reqs[i].key = k
    BY <1>3 DEF KeysOf
  <2>2. \A j \in T : r.reqs[j].key = k => j = i
    BY <2>1
  <2>3. i \in DOMAIN r.reqs /\ i \in Nat /\ r.next <= i
    BY GroupRange, SMT DEF Call
  <2>4. ASSUME NEW j \in r.taken
        PROVE  j <= i
    <3>1. j \in 1..(r.next - 1)
      BY DEF Progress, Answered
    <3>2. r.next \in Nat
      BY DEF Call
    <3> QED
      BY <2>3, <3>1, <3>2
  <2>5. LastOn(r2, k, i)
    BY <2>1, <2>2, <2>3, <2>4 DEF LastOn
  <2>6. IsPut(r.reqs, T, k) <=> r.reqs[i].what = "put"
    <3>1. r.reqs[i] \in Request
      BY <2>3 DEF Call
    <3>2. r.reqs[i].what = "put" => r.reqs[i] = [what |-> "put", key |-> k]
      BY <2>1, <3>1, SMT DEF Request
    <3>3. IsPut(r.reqs, T, k) => r.reqs[i] = [what |-> "put", key |-> k]
      BY <2>2, SMT DEF IsPut
    <3>4. r.reqs[i] = [what |-> "put", key |-> k] => r.reqs[i].what = "put"
      OBVIOUS
    <3> QED
      BY <3>2, <3>3, <3>4 DEF IsPut
  <2>7. u[k] = (IF r2.reqs[i].what = "put" THEN c ELSE Absent)
    BY <1>3, <2>6
  <2> QED
    BY <2>3, <2>5, <2>7
<1> QED
  BY <1>2, <1>3

-----------------------------------------------------------------------------
(* The steps of the store.  First the single operations: they leave the    *)
(* table alone or change it under one key.                                 *)
LEMMA SingleChanges ==
    ASSUME NEW c \in Client, Single(c)
    PROVE  \/ UNCHANGED <<table, call>>
           \/ \E k \in Key, item \in Item : Change(c, k, item)
<1>1. ASSUME NEW op, NEW given, NEW ok, NEW k \in Key, NEW item \in Item,
             Write(c, op, given, ok, k, item)
      PROVE  \/ UNCHANGED <<table, call>>
             \/ \E l \in Key, x \in Item : Change(c, l, x)
  BY <1>1, Zenon DEF Write, Unchanged
<1>2. c \in Item /\ Absent \in Item
  BY DEF Item
<1>3. PICK k \in Key :
        \/ Put(c, "put", k)
        \/ Create(c, k)
        \/ Update(c, k)
        \/ \E given \in {{}, {"hash"}, Part} :
            \/ Get(k, given)
            \/ Delete(c, "delete", k, given)
            \/ ServiceGet(k, given)
            \/ ServiceDelete(c, k, given)
        \/ \E name \in {"", "unknown", "known"} :
            RunCustomServiceMethod(name, k)
  BY Zenon DEF Single
<1>4. CASE Put(c, "put", k) \/ Create(c, k) \/ Update(c, k)
  <2>1. UNCHANGED <<table, call>> \/ \E op : Put(c, op, k)
    BY <1>4, Zenon DEF Create, Update, Unchanged
  <2> QED
    BY <1>1, <1>2, <2>1, Zenon DEF Put
<1>5. CASE \E given \in {{}, {"hash"}, Part} :
            \/ Get(k, given) \/ Delete(c, "delete", k, given)
            \/ ServiceGet(k, given) \/ ServiceDelete(c, k, given)
  BY <1>1, <1>2, <1>5, Zenon DEF Get, Delete, ServiceGet, ServiceDelete, Unchanged
<1>6. CASE \E name \in {"", "unknown", "known"} : RunCustomServiceMethod(name, k)
  BY <1>6, Zenon DEF RunCustomServiceMethod, Get, Unchanged
<1> QED
  BY <1>3, <1>4, <1>5, <1>6, Zenon

LEMMA SingleKeeps ==
    ASSUME BatchInv, NEW c \in Client \ Batcher, Single(c)
    PROVE  BatchInv'
<1>1. CASE UNCHANGED <<table, call>>
  BY <1>1 DEF BatchInv
<1>2. CASE \E k \in Key, item \in Item : Change(c, k, item)
  <2>1. PICK k \in Key, item \in Item : Change(c, k, item)
    BY <1>2
  <2>2. table \in Contents /\ table' \in Contents
    BY <2>1, SMT DEF BatchInv, Change, Contents
  <2>3. \A l \in Key \ {k} : table'[l] = table[l]
    BY <2>1, <2>2, SMT DEF Change, Contents
  <2>4. call[c].op = "idle"
    BY DEF BatchInv, CallInv
  <2>5. ASSUME NEW d \in Client
        PROVE  CallInv(d, call'[d], table')
    <3>1. call'[d] = IF call[d].op = "idle" THEN call[d]
                     ELSE [call[d] EXCEPT !.touched = @ \cup {k}]
      BY <2>1, <2>4 DEF Change, Noticed
    <3>2. {k} \in SUBSET Key /\ CallInv(d, call[d], table)
      BY DEF BatchInv
    <3> QED
      BY <2>2, <2>3, <3>1, <3>2, NoticedKeeps, ZenonT(30)
  <2>6. call' \in [Client -> Call]
    <3>1. call' = [d \in Client |-> call'[d]]
      BY <2>1 DEF Change, Noticed
    <3>2. \A d \in Client : call'[d] \in Call
      BY <2>5 DEF CallInv
    <3> QED
      BY <3>1, <3>2
  <2> QED
    BY <2>2, <2>5, <2>6 DEF BatchInv
<1> QED
  BY <1>1, <1>2, SingleChanges

(* A client that begins or ends a batch touches nothing but its own call.  *)
LEMMA OwnCall ==
    ASSUME BatchInv, NEW c \in Client, NEW r, call' = [call EXCEPT ![c] = r],
           CallInv(c, r, table), table' = table
    PROVE  BatchInv'
<1>1. r \in Call
  BY DEF CallInv
<1>2. call' \in [Client -> Call] /\ call'[c] = r
  BY <1>1 DEF BatchInv
<1>3. \A d \in Client : d # c => call'[d] = call[d]
  BY DEF BatchInv
<1> QED
  BY <1>2, <1>3 DEF BatchInv

(* Before its first group nothing has been taken. *)
LEMMA BeginsWell ==
    ASSUME NEW t \in Contents, NEW c \in Batcher,
           NEW op \in {"writing", "written", "reading", "read"},
           NEW reqs \in Seq(Request), NEW e \in BOOLEAN,
           op \in {"writing", "reading"} => ~e /\ 1 <= Len(reqs),
           op \in {"written", "read"} => e \/ reqs = <<>>
    PROVE  CallInv(c, Fresh(op, reqs, e, t), t)
<1>0. PICK r : r = Fresh(op, reqs, e, t)
  OBVIOUS
<1>1. /\ r.op = op /\ r.reqs = reqs /\ r.next = 1 /\ r.taken = {} /\ r.unprocessed = {}
      /\ r.found = {} /\ r.err = e /\ r.before = t /\ r.touched = {}
  BY <1>0, SMT DEF Fresh
<1>2. r \in Call
  BY <1>0, SMT DEF Fresh, Call
<1>3. Progress(r)
  <2>1. \E m \in Nat : r.next = m * Group + 1
    <3>1. 0 * Group = 0
      BY DynAssumption
    <3>2. r.next = 0 * Group + 1
      BY <1>1, <3>1
    <3> QED
      BY <3>2
  <2>2. Answered(r) = {}
    BY <1>1 DEF Answered
  <2>3. 1..(r.next - 1) = {}
    BY <1>1
  <2>4. Over(r) /\ ~r.err => Answered(r) = DOMAIN r.reqs
    BY <1>1, <2>2 DEF Over
  <2> QED
    BY <1>1, <2>1, <2>2, <2>3, <2>4 DEF Progress, Going
<1>4. Settled(c, r, t) /\ Collected(r, t)
  BY <1>1 DEF Settled, Collected
<1> QED
  BY <1>0, <1>1, <1>2, <1>3, <1>4 DEF CallInv

LEMMA BeginKeeps ==
    ASSUME BatchInv, NEW c \in Client, Begin(c)
    PROVE  BatchInv'
<1>1. table' = table /\ c \in Batcher /\ table \in Contents
  BY DEF Begin, BatchInv
<1>2. ASSUME NEW what \in {"put", "delete", "get"}, NEW keys \in Seq(Key)
      PROVE  Requests(what, keys) \in Seq(Request) /\ Len(Requests(what, keys)) = Len(keys)
  <2>1. \A i \in 1..Len(keys) : [what |-> what, key |-> keys[i]] \in Request
    BY DEF Request
  <2> QED
    BY <2>1 DEF Requests
<1>3. CASE \E b \in Writes, marshals \in BOOLEAN : BatchWrite(c, b, marshals)
  <2>1. PICK b \in Writes, marshals \in BOOLEAN : BatchWrite(c, b, marshals)
    BY <1>3
  <2>2. b.puts \in Seq(Key) /\ b.deletes \in Seq(Key)
    BY DynAssumption
  <2> DEFINE reqs == Requests("put", b.puts) \o Requests("delete", b.deletes)
             e == b.puts # <<>> /\ ~marshals
             op == IF e THEN "written" ELSE LoopOp(reqs, 1, "writing", "written")
  <2>3. reqs \in Seq(Request)
    BY <1>2, <2>2
  <2>4. call' = [call EXCEPT ![c] =
            Fresh(op, reqs, e, table)]
    BY <2>1, Zenon DEF BatchWrite
  <2>5. e \in BOOLEAN
    OBVIOUS
  <2>6. /\ op \in {"writing", "reading"} => ~e /\ 1 <= Len(reqs)
        /\ op \in {"written", "read"} => e \/ reqs = <<>>
        /\ op \in {"writing", "written", "reading", "read"}
    <3>1. ~(1 <= Len(reqs)) => reqs = <<>>
      BY <2>3
    <3> HIDE DEF reqs, e
    <3> QED
      BY <3>1, SMT DEF LoopOp
  <2> HIDE DEF reqs, e, op
  <2>7. CallInv(c, Fresh(op, reqs, e, table), table)
    BY <1>1, <2>3, <2>5, <2>6, BeginsWell
  <2> QED
    BY <1>1, <2>4, <2>7, OwnCall
<1>4. CASE \E keys \in Lookups : BatchGet(c, keys)
  <2>1. PICK keys \in Lookups : BatchGet(c, keys)
    BY <1>4
  <2>2. keys \in Seq(Key)
    BY DynAssumption
  <2> DEFINE reqs == Requests("get", keys)
             op == LoopOp(keys, 1, "reading", "read")
  <2>3. reqs \in Seq(Request) /\ Len(reqs) = Len(keys)
    BY <1>2, <2>2
  <2>4. call' = [call EXCEPT ![c] = Fresh(op, reqs, FALSE, table)]
    BY <2>1, Zenon DEF BatchGet
  <2>6. /\ op \in {"writing", "reading"} => 1 <= Len(reqs)
        /\ op \in {"written", "read"} => reqs = <<>>
        /\ op \in {"writing", "written", "reading", "read"}
    <3>1. ~(1 <= Len(reqs)) => reqs = <<>>
      BY <2>3
    <3>2. Len(keys) = Len(reqs)
      BY <2>3
    <3> HIDE DEF reqs
    <3> QED
      BY <3>1, <3>2, SMT DEF LoopOp
  <2> HIDE DEF reqs, op
  <2>5. FALSE \in BOOLEAN
    OBVIOUS
  <2>7. CallInv(c, Fresh(op, reqs, FALSE, table), table)
    BY <1>1, <2>3, <2>5, <2>6, BeginsWell
  <2> QED
    BY <1>1, <2>4, <2>7, OwnCall
<1> QED
  BY <1>3, <1>4 DEF Begin

LEMMA NoCallKeeps ==
    \A t : \A c : Progress(NoCall) /\ Settled(c, NoCall, t) /\ Collected(NoCall, t)
<1>1. /\ NoCall.op = "idle" /\ NoCall.reqs = <<>> /\ NoCall.taken = {}
      /\ NoCall.unprocessed = {}
  BY DEF NoCall, Fresh
<1> QED BY <1>1 DEF Progress, Settled, Collected, Going, Over, Answered

LEMMA ReturnKeeps ==
    ASSUME BatchInv, NEW c \in Client, Return(c)
    PROVE  BatchInv'
<1>1. table' = table /\ call' = [call EXCEPT ![c] = NoCall] /\ table \in Contents
  BY DEF Return, BatchInv
<1>2. NoCall \in Call
  BY SMT DEF NoCall, Fresh, Call, Contents, Item
<1>3. Progress(NoCall) /\ Settled(c, NoCall, table) /\ Collected(NoCall, table)
  BY NoCallKeeps
<1>4. CallInv(c, NoCall, table)
  BY <1>2, <1>3 DEF CallInv, NoCall, Fresh
<1> QED
  BY <1>1, <1>4, OwnCall

(* Batch r is b after a group of which T was taken and `rest` is left over. *)
After(r, b, T, rest, found, op, err) ==
    /\ r \in Call
    /\ r.reqs = b.reqs /\ r.before = b.before /\ r.touched = b.touched
    /\ r.found = found
    /\ r.next = b.next + Group /\ r.taken = b.taken \cup T
    /\ r.unprocessed = b.unprocessed \cup rest
    /\ r.op = op /\ r.err = err

LEMMA DoneRecord ==
    ASSUME NEW b \in Call,
           NEW G \in SUBSET Nat, NEW T \in SUBSET G, NEW found \in SUBSET Key,
           NEW doing \in {"writing", "reading"}, NEW done \in {"written", "read"},
           NEW r, r = GroupDone(b, G, T, found, doing, done)
    PROVE  After(r, b, T, G \ T, found, LoopOp(b.reqs, b.next + Group, doing, done),
                 b.err)
<1>1. PICK op : op = LoopOp(b.reqs, b.next + Group, doing, done)
  OBVIOUS
<1>2. PICK n, taken, rest :
        n = b.next + Group /\ taken = b.taken \cup T /\ rest = b.unprocessed \cup (G \ T)
  OBVIOUS
<1>3. r = [b EXCEPT !.next = n, !.taken = taken, !.unprocessed = rest, !.found = found, !.op = op]
  BY <1>1, <1>2, Zenon DEF GroupDone
<1>4. /\ n \in Nat /\ taken \in SUBSET Nat /\ rest \in SUBSET Nat
      /\ op \in {"idle", "writing", "written", "reading", "read"}
  <2>1. b.next \in Nat /\ b.taken \in SUBSET Nat /\ b.unprocessed \in SUBSET Nat
    BY DEF Call
  <2>2. op = doing \/ op = done
    BY <1>1, Zenon DEF LoopOp
  <2>3. Group \in Nat
    BY DynAssumption
  <2>4. n \in Nat
    BY <1>2, <2>1, <2>3, SMT
  <2> QED
    BY <1>2, <2>1, <2>2, <2>4
<1>5. r \in Call
  BY <1>3, <1>4, Zenon DEF Call
<1>6. /\ r.reqs = b.reqs /\ r.before = b.before /\ r.touched = b.touched
      /\ r.err = b.err /\ r.found = found /\ r.next = n /\ r.taken = taken
      /\ r.unprocessed = rest /\ r.op = op
  BY <1>3, SMT DEF Call
<1> QED
  BY <1>1, <1>2, <1>5, <1>6, Zenon DEF After

LEMMA FailedRecord ==
    ASSUME NEW b \in Call, NEW T \in SUBSET Nat, NEW done \in {"written", "read"},
           NEW r, r = GroupFailed(b, T, done)
    PROVE  After(r, b, T, {}, b.found, done, TRUE)
<1>1. PICK n, taken : n = b.next + Group /\ taken = b.taken \cup T
  OBVIOUS
<1>2. r = [b EXCEPT !.next = n, !.taken = taken, !.op = done, !.err = TRUE]
  BY <1>1, Zenon DEF GroupFailed
<1>3. /\ n \in Nat /\ taken \in SUBSET Nat /\ TRUE \in BOOLEAN
      /\ done \in {"idle", "writing", "written", "reading", "read"}
  <2>1. b.next \in Nat /\ b.taken \in SUBSET Nat
    BY DEF Call
  <2>2. Group \in Nat
    BY DynAssumption
  <2>3. n \in Nat
    BY <1>1, <2>1, <2>2, SMT
  <2> QED
    BY <1>1, <2>1, <2>3
<1>4. r \in Call
  BY <1>2, <1>3, Zenon DEF Call
<1>5. /\ r.reqs = b.reqs /\ r.before = b.before /\ r.touched = b.touched
      /\ r.err = TRUE /\ r.found = b.found /\ r.next = n /\ r.taken = taken
      /\ r.unprocessed = b.unprocessed /\ r.op = done
  BY <1>2, SMT DEF Call
<1>6. b.unprocessed = b.unprocessed \cup {}
  OBVIOUS
<1> QED
  BY <1>1, <1>4, <1>5, <1>6, Zenon DEF After

LEMMA WriteGroupKeeps ==
    ASSUME BatchInv, NEW c \in Client, WriteGroup(c)
    PROVE  BatchInv'
<1>0. PICK r, G : r = call[c] /\ G = GroupAt(r.reqs, r.next)
  OBVIOUS
<1>1. /\ r \in Call /\ r.op = "writing" /\ Going(r) /\ Progress(r) /\ Settled(c, r, table)
      /\ c \in Batcher /\ table \in Contents
  BY <1>0, SMT DEF BatchInv, CallInv, WriteGroup, Going
<1>2. PICK T \in SUBSET G, answered \in BOOLEAN :
        /\ T # {} => GroupAccepted(r.reqs, G)
        /\ table' = [k \in Key |->
                IF k \notin KeysOf(r.reqs, T) THEN table[k]
                ELSE IF IsPut(r.reqs, T, k) THEN c ELSE Absent]
        /\ call' = [Noticed(c, KeysOf(r.reqs, T)) EXCEPT ![c] =
                IF answered THEN GroupDone(r, G, T, {}, "writing", "written")
                            ELSE GroupFailed(r, T, "written")]
  BY <1>0 DEF WriteGroup
<1>3. PICK S : S = KeysOf(r.reqs, T)
  OBVIOUS
<1>4. G \subseteq DOMAIN r.reqs /\ G \subseteq Nat
  BY <1>0, <1>1, GroupRange, SMTT(30) DEF Call
<1>5. S \subseteq Key
  <2>1. ASSUME NEW i \in T
        PROVE  r.reqs[i].key \in Key
    <3>1. r.reqs \in Seq(Request) /\ i \in DOMAIN r.reqs
      BY <1>1, <1>4 DEF Call
    <3>2. r.reqs[i] \in Request
      BY <3>1
    <3> QED
      BY <3>2 DEF Request
  <2> QED
    BY <1>3, <2>1 DEF KeysOf
<1>6. table' \in Contents /\ \A k \in Key \ S : table'[k] = table[k]
  BY <1>1, <1>2, <1>3, SMT DEF Contents, Item
<1>7. ASSUME NEW d \in Client, d # c
      PROVE  CallInv(d, call'[d], table')
  <2>1. call'[d] = IF call[d].op = "idle" THEN call[d]
                   ELSE [call[d] EXCEPT !.touched = @ \cup S]
    BY <1>2, <1>3, <1>7 DEF Noticed
  <2>2. CallInv(d, call[d], table) /\ S \in SUBSET Key
    BY <1>5 DEF BatchInv
  <2> QED
    BY <1>1, <1>6, <2>1, <2>2, NoticedKeeps
<1>8. CallInv(c, call'[c], table')
  <2>1. PICK q : q = call'[c]
    OBVIOUS
  <2>2. \/ q = GroupDone(r, G, T, {}, "writing", "written")
        \/ q = GroupFailed(r, T, "written")
    BY <1>2, <2>1 DEF Noticed
  <2>3. /\ q \in Call
        /\ q.reqs = r.reqs /\ q.before = r.before /\ q.touched = r.touched
        /\ q.next = r.next + Group /\ q.taken = r.taken \cup T
        /\ \/ /\ q.err = FALSE /\ q.unprocessed = r.unprocessed \cup (G \ T)
              /\ q.op = LoopOp(r.reqs, r.next + Group, "writing", "written")
           \/ q.err = TRUE /\ q.unprocessed = r.unprocessed /\ q.op = "written"
    <3>1. CASE q = GroupDone(r, G, T, {}, "writing", "written")
      <4>1. r.err = FALSE
        BY <1>1 DEF Progress, Call
      <4>2. /\ r \in Call /\ G \in SUBSET Nat /\ T \in SUBSET G /\ {} \in SUBSET Key
            /\ "writing" \in {"writing", "reading"} /\ "written" \in {"written", "read"}
        BY <1>1, <1>2, <1>4
      <4>3. After(q, r, T, G \ T, {},
                  LoopOp(r.reqs, r.next + Group, "writing", "written"), r.err)
        BY <3>1, <4>2, DoneRecord, Zenon
      <4> QED
        BY <4>1, <4>3, Zenon DEF After
    <3>2. CASE q = GroupFailed(r, T, "written")
      <4>1. r \in Call /\ T \in SUBSET Nat /\ "written" \in {"written", "read"}
        BY <1>1, <1>2, <1>4
      <4>2. After(q, r, T, {}, r.found, "written", TRUE)
        BY <3>2, <4>1, FailedRecord, Zenon
      <4>3. r.unprocessed \cup {} = r.unprocessed
        OBVIOUS
      <4> QED
        BY <4>2, <4>3, Zenon DEF After
    <3> QED
      BY <2>2, <3>1, <3>2
  <2>4. q.op \in {"writing", "written"}
    BY <2>3, SMT DEF LoopOp
  <2>5. Progress(q)
    BY <1>0, <1>1, <1>2, <2>3, GroupProgress
  <2>6. \A i, j \in T : r.reqs[i].key = r.reqs[j].key => i = j
    BY <1>2 DEF GroupAccepted
  <2>7. Settled(c, q, table')
    BY <1>0, <1>1, <1>2, <2>3, <2>6, GroupSettled
  <2>8. Collected(q, table')
    BY <2>4 DEF Collected
  <2> QED
    BY <1>1, <2>1, <2>3, <2>5, <2>7, <2>8 DEF CallInv
<1>9. call' \in [Client -> Call]
  <2>1. call' = [d \in Client |-> call'[d]]
    BY <1>2 DEF Noticed
  <2>2. \A d \in Client : call'[d] \in Call
    BY <1>7, <1>8 DEF CallInv
  <2> QED
    BY <2>1, <2>2
<1> QED
  BY <1>6, <1>7, <1>8, <1>9 DEF BatchInv
LEMMA ReadGroupKeeps ==
    ASSUME BatchInv, NEW c \in Client, ReadGroup(c)
    PROVE  BatchInv'
<1>0. PICK r, G : r = call[c] /\ G = GroupAt(r.reqs, r.next)
  OBVIOUS
<1>1. /\ r \in Call /\ r.op = "reading" /\ Going(r) /\ Progress(r) /\ Collected(r, table)
      /\ c \in Batcher /\ table \in Contents
  BY <1>0, SMT DEF BatchInv, CallInv, ReadGroup, Going
<1>2. table' = table
  BY DEF ReadGroup
<1>3. G \subseteq DOMAIN r.reqs /\ G \subseteq Nat
  <2>1. r \in Call /\ Going(r) /\ Progress(r)
    BY <1>1
  <2>2. G \subseteq DOMAIN r.reqs
    BY <1>0, <2>1, GroupRange
  <2>3. DOMAIN r.reqs \subseteq Nat
    BY <2>1 DEF Call
  <2> QED
    BY <2>2, <2>3
<1>4. ASSUME NEW i \in DOMAIN r.reqs
      PROVE  r.reqs[i].key \in Key
  <2>1. r.reqs[i] \in Request
    BY <1>1 DEF Call
  <2> QED
    BY <2>1 DEF Request
<1>5. CASE \E T \in SUBSET G :
              call' = [call EXCEPT ![c] =
                  GroupDone(r, G, T,
                      r.found \cup {k \in KeysOf(r.reqs, T) : table[k] # Absent},
                      "reading", "read")]
  <2>1. PICK T \in SUBSET G :
              call' = [call EXCEPT ![c] =
                  GroupDone(r, G, T,
                      r.found \cup {k \in KeysOf(r.reqs, T) : table[k] # Absent},
                      "reading", "read")]
    BY <1>5
  <2>2. PICK items : items = {k \in KeysOf(r.reqs, T) : table[k] # Absent}
    OBVIOUS
  <2>3. PICK q : q = GroupDone(r, G, T, r.found \cup items, "reading", "read")
    OBVIOUS
  <2>4. items \subseteq Key
    BY <1>3, <1>4, <2>2 DEF KeysOf
  <2>5. /\ r \in Call /\ G \in SUBSET Nat /\ T \in SUBSET G
        /\ r.found \cup items \in SUBSET Key
        /\ "reading" \in {"writing", "reading"} /\ "read" \in {"written", "read"}
    BY <1>1, <1>3, <2>4 DEF Call
  <2>6. After(q, r, T, G \ T, r.found \cup items,
              LoopOp(r.reqs, r.next + Group, "reading", "read"), r.err)
    BY <2>3, <2>5, DoneRecord, Zenon
  <2>7. /\ q \in Call
        /\ q.reqs = r.reqs /\ q.before = r.before /\ q.touched = r.touched
        /\ q.next = r.next + Group /\ q.taken = r.taken \cup T
        /\ q.unprocessed = r.unprocessed \cup (G \ T) /\ q.found = r.found \cup items
        /\ q.op = LoopOp(r.reqs, r.next + Group, "reading", "read") /\ q.err = r.err
    BY <2>6, Zenon DEF After
  <2>8. ~q.err
    BY <1>1, <2>7 DEF Progress
  <2>9. Progress(q)
    <3>1. PICK doing, done : doing = "reading" /\ done = "read"
      OBVIOUS
    <3>2. /\ doing \in {"writing", "reading"} /\ done \in {"written", "read"}
          /\ q.op = LoopOp(r.reqs, r.next + Group, doing, done)
      BY <2>7, <3>1, Zenon
    <3> QED
      BY <1>0, <1>1, <2>7, <2>8, <3>2, GroupProgress
  <2>10. q.op = "reading" \/ q.op = "read"
    BY <2>7, Zenon DEF LoopOp
  <2>11. Settled(c, q, table)
    BY <2>10 DEF Settled
  <2>12. Collected(q, table)
    <3>1. ASSUME NEW i \in q.taken,
                 q.reqs[i].key \notin q.touched, table[q.reqs[i].key] # Absent
          PROVE  q.reqs[i].key \in q.found
      <4>1. CASE i \in r.taken
        BY <1>1, <2>7, <3>1, <4>1 DEF Collected
      <4>2. CASE i \in T
        BY <2>2, <2>7, <3>1, <4>2 DEF KeysOf
      <4> QED
        BY <2>7, <4>1, <4>2
    <3>2. ASSUME NEW k \in q.found
          PROVE  /\ \E i \in DOMAIN q.reqs : q.reqs[i].key = k
                 /\ k \notin q.touched => table[k] # Absent
      <4>1. CASE k \in r.found
        BY <1>1, <2>7, <4>1 DEF Collected
      <4>2. CASE k \in items
        BY <1>3, <2>2, <2>7, <4>2 DEF KeysOf
      <4> QED
        BY <2>7, <4>1, <4>2
    <3> QED
      BY <2>8, <3>1, <3>2 DEF Collected
  <2>13. CallInv(c, q, table) /\ call' = [call EXCEPT ![c] = q]
    BY <1>1, <2>1, <2>2, <2>3, <2>7, <2>9, <2>11, <2>12 DEF CallInv
  <2> QED
    BY <1>2, <2>13, OwnCall
<1>6. CASE call' = [call EXCEPT ![c] = [GroupFailed(r, {}, "read") EXCEPT !.found = {}]]
  <2>1. PICK b, q : b = GroupFailed(r, {}, "read") /\ q = [b EXCEPT !.found = {}]
    OBVIOUS
  <2>2. r \in Call /\ {} \in SUBSET Nat /\ "read" \in {"written", "read"}
    BY <1>1
  <2>3. After(b, r, {}, {}, r.found, "read", TRUE)
    BY <2>1, <2>2, FailedRecord, Zenon
  <2>4. b \in Call /\ {} \in SUBSET Key
    BY <2>3, Zenon DEF After
  <2>5. q \in Call
    BY <2>1, <2>4, Zenon DEF Call
  <2>6. /\ q.reqs = b.reqs /\ q.next = b.next /\ q.taken = b.taken
        /\ q.unprocessed = b.unprocessed /\ q.found = {} /\ q.err = b.err /\ q.op = b.op
    BY <2>1, <2>4, SMT DEF Call
  <2>7. /\ b.reqs = r.reqs /\ b.next = r.next + Group
        /\ b.taken = r.taken \cup {} /\ b.unprocessed = r.unprocessed \cup {}
        /\ b.err = TRUE /\ b.op = "read"
    BY <2>3, Zenon DEF After
  <2>8. r.unprocessed \cup {} = r.unprocessed
    OBVIOUS
  <2>9. q.err /\ q.op = "read" /\ q.unprocessed = r.unprocessed
    BY <2>6, <2>7, <2>8, Zenon
  <2>10. Progress(q)
    <3>1. PICK doing, done, T : doing = "reading" /\ done = "read" /\ T = {}
      OBVIOUS
    <3>2. /\ doing \in {"writing", "reading"} /\ done \in {"written", "read"}
          /\ T \in SUBSET GroupAt(r.reqs, r.next) /\ q.op = done
          /\ q.taken = r.taken \cup T
      BY <2>6, <2>7, <2>9, <3>1, Zenon
    <3>3. q.reqs = r.reqs /\ q.next = r.next + Group
      BY <2>6, <2>7
    <3> QED
      BY <1>1, <2>9, <3>2, <3>3, GroupProgress
  <2>11. Settled(c, q, table) /\ Collected(q, table)
    BY <2>6, <2>9 DEF Settled, Collected
  <2>12. CallInv(c, q, table) /\ call' = [call EXCEPT ![c] = q]
    BY <1>1, <1>6, <2>1, <2>5, <2>10, <2>11 DEF CallInv
  <2> QED
    BY <1>2, <2>12, OwnCall
<1> QED
  BY <1>0, <1>5, <1>6, Zenon DEF ReadGroup

-----------------------------------------------------------------------------
LEMMA InitBatch == Init => BatchInv
<1> SUFFICES ASSUME Init PROVE BatchInv
  OBVIOUS
<1>1. table \in Contents /\ call = [c \in Client |-> NoCall]
  BY DEF Init, StoreInit, Contents, Item
<1>2. NoCall \in Call
  BY SMT DEF NoCall, Fresh, Call, Contents, Item
<1>3. \A t : \A c : Progress(NoCall) /\ Settled(c, NoCall, t) /\ Collected(NoCall, t)
  BY NoCallKeeps
<1>4. NoCall.op = "idle"
  BY DEF NoCall, Fresh
<1> QED
  BY <1>1, <1>2, <1>3, <1>4 DEF BatchInv, CallInv

LEMMA StepBatch == BatchInv /\ [Next]_vars => BatchInv'
<1>1. ASSUME BatchInv, UNCHANGED <<table, call>>
      PROVE  BatchInv'
  BY <1>1 DEF BatchInv
<1>2. ASSUME BatchInv, NEW c \in Client, StoreStep(c)
      PROVE  BatchInv'
  BY <1>2, SingleKeeps, BeginKeeps, WriteGroupKeeps, ReadGroupKeeps, ReturnKeeps
  DEF StoreStep, StoreNext
<1>3. ASSUME NEW c \in Client, Build(c) \/ Exec(c) \/ NextPage(c) \/ Forget(c)
      PROVE  UNCHANGED <<table, call>>
  BY <1>3, Zenon DEF Build, Exec, NextPage, Forget
<1> QED
  BY <1>1, <1>2, <1>3, Zenon DEF Next, vars

LEMMA BatchesKept == Spec => []BatchInv
<1> QED
  BY InitBatch, StepBatch, PTL DEF Spec

(* A BatchWrite that has returned did what its groups were taken for       *)
(* (store.go:177-234): BatchWriteAccounted.                                *)
THEOREM BatchWritesAccounted == Spec => []BatchWriteAccounted
<1>1. ASSUME BatchInv, NEW c \in Client, call[c].op = "written",
             NEW k \in Key \ call[c].touched
      PROVE  LET On == {i \in call[c].taken : call[c].reqs[i].key = k}
                 Last == CHOOSE i \in On : \A j \in On : j <= i
             IN  table[k] = IF On = {} THEN call[c].before[k]
                            ELSE IF call[c].reqs[Last].what = "put" THEN c ELSE Absent
  <2> DEFINE On == {i \in call[c].taken : call[c].reqs[i].key = k}
             Last == CHOOSE i \in On : \A j \in On : j <= i
  <2>1. \/ /\ \A i \in call[c].taken : call[c].reqs[i].key # k
           /\ table[k] = call[c].before[k]
        \/ \E i \in Nat :
              /\ LastOn(call[c], k, i)
              /\ table[k] = (IF call[c].reqs[i].what = "put" THEN c ELSE Absent)
    BY <1>1 DEF BatchInv, CallInv, Settled
  <2>2. call[c].taken \subseteq Nat
    BY <1>1 DEF BatchInv, Call
  <2>3. CASE On = {}
    BY <2>1, <2>3 DEF LastOn
  <2>4. CASE On # {}
    <3>1. PICK i \in Nat :
              /\ LastOn(call[c], k, i)
              /\ table[k] = (IF call[c].reqs[i].what = "put" THEN c ELSE Absent)
      BY <2>1, <2>4
    <3>2. i \in On /\ \A j \in On : j <= i
      BY <3>1 DEF LastOn
    <3>3. Last \in On /\ \A j \in On : j <= Last
      BY <3>2
    <3>4. Last = i
      BY <2>2, <3>2, <3>3
    <3> QED
      BY <2>4, <3>1, <3>4
  <2> QED
    BY <2>3, <2>4
<1>2. ASSUME BatchInv, NEW c \in Client, call[c].op = "written"
      PROVE  /\ ~call[c].err =>
                    call[c].taken \cup call[c].unprocessed = DOMAIN call[c].reqs
             /\ \A i \in call[c].taken, j \in DOMAIN call[c].reqs :
                    (j - 1) \div Group < (i - 1) \div Group =>
                        j \in call[c].taken \cup call[c].unprocessed
  BY <1>2 DEF BatchInv, CallInv, Progress, Over, Answered
<1>3. BatchInv => BatchWriteAccounted
  BY <1>1, <1>2 DEF BatchWriteAccounted
<1> QED
  BY <1>3, BatchesKept, PTL

(* A BatchGet that has returned leaves out nothing but what DynamoDB       *)
(* reported as unprocessed (store.go:237-314): BatchGetAccounted.          *)
THEOREM BatchGetsAccounted == Spec => []BatchGetAccounted
<1>1. ASSUME BatchInv, NEW c \in Client, call[c].op = "read", call[c].err
      PROVE  call[c].found = {}
  BY <1>1 DEF BatchInv, CallInv, Collected
<1>2. ASSUME BatchInv, NEW c \in Client, call[c].op = "read", ~call[c].err
      PROVE  /\ \A i \in DOMAIN call[c].reqs :
                    /\ call[c].reqs[i].key \notin call[c].touched
                    /\ table[call[c].reqs[i].key] # Absent
                    => \/ call[c].reqs[i].key \in call[c].found
                       \/ i \in call[c].unprocessed
             /\ \A k \in call[c].found :
                    /\ k \in KeysOf(call[c].reqs, DOMAIN call[c].reqs)
                    /\ k \notin call[c].touched => table[k] # Absent
  <2>1. Collected(call[c], table) /\ Progress(call[c])
    BY <1>2 DEF BatchInv, CallInv
  <2>2. call[c].taken \cup call[c].unprocessed = DOMAIN call[c].reqs
    BY <1>2, <2>1 DEF Progress, Over, Answered
  <2> QED
    BY <1>2, <2>1, <2>2 DEF Collected, KeysOf
<1>3. BatchInv => BatchGetAccounted
  BY <1>1, <1>2, Zenon DEF BatchGetAccounted
<1> QED
  BY <1>3, BatchesKept, PTL

-----------------------------------------------------------------------------
(* The step after which the last answer is one of Update's. *)
LEMMA OnlyUpdateAnswers ==
    ASSUME Next, reply'.op = "update"
    PROVE  \E c \in Client, k \in Key : Update(c, k)
<1>1. NoReply.op = "none"
  BY DEF NoReply
<1>2. ASSUME NEW op, NEW given, NEW res, Answer(op, given, res)
      PROVE  op = "update"
  <2>1. reply' = [op |-> op, whole |-> given = Part, res |-> res] \/ reply' = NoReply
    BY <1>2, Zenon DEF Answer
  <2>2. reply' = [op |-> op, whole |-> given = Part, res |-> res] => reply'.op = op
    OBVIOUS
  <2> QED
    BY <1>1, <2>1, <2>2
<1>3. reply' # NoReply
  BY <1>1
<1>4. PICK c \in Client : Single(c)
  BY <1>3, Zenon
  DEF Next, StoreStep, StoreNext, Begin, WriteGroup, ReadGroup, Return, Build, Exec,
      NextPage, Forget
<1>5. PICK k \in Key :
        \/ Put(c, "put", k)
        \/ Create(c, k)
        \/ Update(c, k)
        \/ \E given \in {{}, {"hash"}, Part} :
            \/ Get(k, given)
            \/ Delete(c, "delete", k, given)
            \/ ServiceGet(k, given)
            \/ ServiceDelete(c, k, given)
        \/ \E name \in {"", "unknown", "known"} :
            RunCustomServiceMethod(name, k)
  BY <1>4, Zenon DEF Single
<1>6. /\ "put" # "update" /\ "create" # "update" /\ "get" # "update"
      /\ "delete" # "update" /\ "service get" # "update" /\ "service delete" # "update"
      /\ "custom" # "update"
  OBVIOUS
<1>7. ASSUME NEW op, NEW given, NEW ok, NEW l, NEW item, Write(c, op, given, ok, l, item)
      PROVE  op = "update"
  BY <1>2, <1>7, Zenon DEF Write
<1> QED
  BY <1>2, <1>5, <1>6, <1>7, Zenon
  DEF Put, Create, Get, Delete, ServiceGet, ServiceDelete, RunCustomServiceMethod

(* A negative result.  easyrepo/service.go:124 says of Update that it      *)
(* "validates the item and updates the data in DynamoDB", doc.go:7 counts  *)
(* it among the standard CRUD operations.  The code of Update reads with   *)
(* nil keys before it writes, which no table accepts: on every table,      *)
(* configuration and schedule, each of its answers is an error and none of *)
(* its steps changes the table.                                            *)
UpdateIsLost ==
    [][reply'.op = "update" =>
        reply'.res \in {"invalid", "refused", "failed"} /\ table' = table]_storeVars

(* The result above, on every table and configuration. *)
THEOREM UpdateNeverUpdates == Spec => UpdateIsLost
<1>1. ~Accepts(GetKey({}))
  <2>1. SUFFICES ASSUME Accepts(GetKey({})) PROVE FALSE
    OBVIOUS
  <2>2. "hash" \in Schema
    BY DEF Schema, Part
  <2>3. "hash" \in DOMAIN GetKey({}) /\ GetKey({})["hash"] = "value"
    BY <2>1, <2>2 DEF Accepts
  <2>4. GetKey({})["hash"] = attr("hash", {})
    BY <2>3, SMT DEF GetKey, KeyOf
  <2>5. attr("hash", {}) = "NULL"
    BY DEF attr
  <2> QED
    BY <2>3, <2>4, <2>5
<1>2. ASSUME NEW c \in Client, NEW k \in Key, Update(c, k)
      PROVE  reply'.res \in {"invalid", "refused", "failed"} /\ table' = table
  <2>1. PICK res \in {"invalid", "refused", "failed"} :
              Answer("update", Part, res) /\ Unchanged
    <3>1. Read(GetKey({}), k) = {"failed", "refused"}
      BY <1>1, Zenon DEF Read
    <3>2. "failed" # "ok" /\ "refused" # "ok"
      OBVIOUS
    <3> QED
      BY <1>2, <3>1, <3>2, Zenon DEF Update
  <2>2. reply' = [op |-> "update", whole |-> Part = Part, res |-> res]
    BY <2>1, Zenon DEF Answer
  <2>3. reply'.res = res
    BY <2>2
  <2> QED
    BY <2>1, <2>3 DEF Unchanged
<1>3. [Next]_vars => [reply'.op = "update" =>
        reply'.res \in {"invalid", "refused", "failed"} /\ table' = table]_storeVars
  BY <1>2, OnlyUpdateAnswers, Zenon DEF vars, storeVars
<1> QED
  BY <1>3, PTL DEF Spec, UpdateIsLost

(* easyrepo/service.go:62-121: with the whole key a Get or Delete is       *)
(* refused only where the repository was not told the sort key's name:     *)
(* WholeKeyIsAccepted.                                                     *)
THEOREM WholeKeysAreAccepted == Spec => []WholeKeyIsAccepted
<1> DEFINE Ops == {"get", "delete", "service get", "service delete"}
           Bad == {"invalid", "refused"}
           Excused(op) == /\ op \in {"service get", "service delete"}
                          /\ conf.sorted
                          /\ ~Named(conf.caller, 3)
<1>1. ASSUME WellConfigured
      PROVE  /\ HashName = "hash" /\ Named(storeCfg, 1)
             /\ Named(storeCfg, 3) <=> "sort" \in Schema
             /\ Schema = IF "sort" \in Schema THEN {"hash", "sort"} ELSE {"hash"}
  BY <1>1 DEF WellConfigured, HashName, Schema, Part
<1>2. ASSUME WellConfigured, NEW key, NEW given, NEW hasSort \in BOOLEAN,
             key = KeyOf(hasSort, given), Schema \subseteq given,
             hasSort <=> "sort" \in Schema
      PROVE  Accepts(key)
  <2>1. key = [a \in {"hash"} \cup (IF hasSort THEN {"sort"} ELSE {}) |->
                    attr(IF a = "sort" THEN "sort" ELSE "hash", given)]
    BY <1>1, <1>2, Zenon DEF KeyOf
  <2>2. Schema = {"hash"} \cup (IF hasSort THEN {"sort"} ELSE {})
    BY <1>1, <1>2
  <2>3. DOMAIN key = Schema
    BY <2>1, <2>2, Zenon
  <2>4. ASSUME NEW a \in Schema
        PROVE  key[a] = "value"
    <3>1. a = "hash" \/ a = "sort"
      BY <2>2
    <3>2. key[a] = attr(IF a = "sort" THEN "sort" ELSE "hash", given)
      BY <2>1, <2>2, Zenon
    <3>3. key[a] = attr(a, given)
      BY <3>1, <3>2
    <3> QED
      BY <1>2, <3>3, Zenon DEF attr
  <2>5. Named(storeCfg, 1)
    BY <1>1, <1>2
  <2> QED
    BY <2>3, <2>4, <2>5, Zenon DEF Accepts
<1>3. Schema \subseteq Part /\ (~("sort" \in Schema) => Schema = {"hash"})
  BY DEF Schema, Part
<1>4. ASSUME WellConfigured
      PROVE  Accepts(GetKey(Part)) /\ Accepts(DeleteKey(Part))
  <2>1. Named(storeCfg, 3) \in BOOLEAN /\ "sort" \in Part
    BY DEF Named, Part
  <2>2. (Named(storeCfg, 3) /\ "sort" \in Part) \in BOOLEAN
    BY <2>1
  <2>3. (Named(storeCfg, 3) /\ "sort" \in Part) <=> "sort" \in Schema
    BY <1>1, <1>4, <2>1
  <2> QED
    BY <1>1, <1>2, <1>3, <1>4, <2>1, <2>2, <2>3, Zenon DEF GetKey, DeleteKey
<1>5. ASSUME WellConfigured, ~(conf.sorted /\ ~Named(conf.caller, 3))
      PROVE  /\ Accepts(GetKey(Passed(Part))) /\ Accepts(DeleteKey(Passed(Part)))
  <2>1. CASE Named(conf.caller, 3)
    BY <1>4, <1>5, <2>1, Zenon DEF Passed
  <2>2. CASE ~conf.sorted
    <3>1. Schema = {"hash"} /\ "sort" \notin Schema
      BY <2>2 DEF Schema
    <3>2. "hash" \in Passed(Part)
      BY DEF Passed, Part
    <3>3. /\ Named(storeCfg, 3) = FALSE
          /\ (Named(storeCfg, 3) /\ "sort" \in Passed(Part)) = FALSE
      BY <1>1, <1>5, <3>1
    <3>4. Schema \subseteq Passed(Part)
      BY <3>1, <3>2
    <3>5. /\ GetKey(Passed(Part)) = KeyOf(FALSE, Passed(Part))
          /\ DeleteKey(Passed(Part)) = KeyOf(FALSE, Passed(Part))
      BY <3>3, Zenon DEF GetKey, DeleteKey
    <3>6. FALSE \in BOOLEAN /\ (FALSE <=> "sort" \in Schema)
      BY <3>1
    <3> QED
      BY <1>2, <1>5, <3>4, <3>5, <3>6, Zenon
  <2> QED
    BY <1>5, <2>1, <2>2
<1>6. ~Missing(Part)
  BY DEF Missing, Part
<1>7. ASSUME WellConfigured, NEW op, NEW given, NEW res, Answer(op, given, res),
             reply'.op \in Ops, reply'.whole, reply'.res \in Bad
      PROVE  reply'.op = op /\ reply'.res = res /\ given = Part
  <2>0. NoReply.op = "none" /\ "none" \notin Ops
    BY DEF NoReply
  <2>1. reply' # NoReply
    BY <1>7, <2>0, Zenon
  <2>2. reply' = [op |-> op, whole |-> given = Part, res |-> res]
    BY <1>7, <2>1, Zenon DEF Answer
  <2>3. reply'.op = op /\ reply'.res = res
    BY <2>2
  <2>4. reply'.whole = (given = Part)
    BY <2>2, Zenon
  <2> QED
    BY <1>7, <2>3, <2>4, Zenon
<1>8. "ok" \notin Bad /\ "failed" \notin Bad /\ "absent" \notin Bad
  OBVIOUS
<1> HIDE DEF Ops, Bad
<1>9. ASSUME WellConfigured, NEW c \in Client, Single(c),
             reply'.op \in Ops, reply'.whole, reply'.res \in Bad
      PROVE  Excused(reply'.op)
  <2>1. PICK k \in Key :
        \/ Put(c, "put", k)
        \/ Create(c, k)
        \/ Update(c, k)
        \/ \E given \in {{}, {"hash"}, Part} :
            \/ Get(k, given)
            \/ Delete(c, "delete", k, given)
            \/ ServiceGet(k, given)
            \/ ServiceDelete(c, k, given)
        \/ \E name \in {"", "unknown", "known"} :
            RunCustomServiceMethod(name, k)
    BY <1>9, Zenon DEF Single
  <2>2. ASSUME NEW op, NEW given, NEW ok, NEW item, Write(c, op, given, ok, k, item)
        PROVE  reply'.op = op /\ given = Part /\ ~ok
    <3>1. PICK res : /\ Answer(op, given, res)
                     /\ \/ res = "refused" /\ ~ok
                        \/ res = "ok" \/ res = "failed"
      BY <2>2, Zenon DEF Write
    <3>2. reply'.op = op /\ reply'.res = res /\ given = Part
      BY <1>7, <1>9, <3>1, Zenon
    <3> QED
      BY <1>8, <1>9, <3>1, <3>2, Zenon
  <2>3. ASSUME NEW op, NEW given, NEW key,
               \E res \in Read(key, k) : Answer(op, given, res)
        PROVE  reply'.op = op /\ given = Part /\ ~Accepts(key)
    <3>1. PICK res : /\ Answer(op, given, res)
                     /\ \/ res = "refused" /\ ~Accepts(key)
                        \/ res = "ok" \/ res = "failed" \/ res = "absent"
      BY <2>3, Zenon DEF Read
    <3>2. reply'.op = op /\ reply'.res = res /\ given = Part
      BY <1>7, <1>9, <3>1, Zenon
    <3> QED
      BY <1>8, <1>9, <3>1, <3>2, Zenon
  <2>4. ASSUME NEW op, op \notin Ops
        PROVE  ~ \E given, res : Answer(op, given, res)
    BY <1>7, <1>9, <2>4, Zenon
  <2>5. /\ "put" \notin Ops /\ "create" \notin Ops /\ "update" \notin Ops
        /\ "custom" \notin Ops
    BY DEF Ops
  <2>6. ~(Put(c, "put", k) \/ Create(c, k) \/ Update(c, k))
    BY <1>7, <1>9, <2>2, <2>4, <2>5, Zenon DEF Put, Create, Update
  <2>7. ASSUME NEW given
        PROVE  ~Get(k, given) /\ ~Delete(c, "delete", k, given)
    BY <1>4, <1>9, <2>2, <2>3, Zenon DEF Get, Delete
  <2>8. ASSUME NEW name
        PROVE  ~RunCustomServiceMethod(name, k)
    BY <2>4, <2>5, <2>7, Zenon DEF RunCustomServiceMethod
  <2>9. ASSUME NEW given, ServiceGet(k, given) \/ ServiceDelete(c, k, given)
        PROVE  Excused(reply'.op)
    <3>1. CASE ServiceGet(k, given)
      <4>1. \/ Missing(given) /\ Answer("service get", given, "invalid")
            \/ \E res \in Read(GetKey(Passed(given)), k) :
                    Answer("service get", given, res)
        BY <3>1, Zenon DEF ServiceGet
      <4>2. CASE Missing(given) /\ Answer("service get", given, "invalid")
        <5>1. PICK op, res : Answer(op, given, res)
          BY <4>2
        <5>2. reply'.op = op /\ reply'.res = res /\ given = Part
          BY <1>7, <1>9, <5>1, Zenon
        <5> QED
          BY <1>6, <4>2, <5>2
      <4>3. CASE \E res \in Read(GetKey(Passed(given)), k) :
                    Answer("service get", given, res)
        <5>1. /\ reply'.op = "service get" /\ given = Part
              /\ ~Accepts(GetKey(Passed(given)))
          BY <2>3, <4>3
        <5>2. conf.sorted /\ ~Named(conf.caller, 3)
          BY <1>5, <1>9, <5>1, Zenon
        <5>3. "service get" \in {"service get", "service delete"}
          OBVIOUS
        <5> QED
          BY <5>1, <5>2, <5>3, Zenon
      <4> QED
        BY <4>1, <4>2, <4>3
    <3>2. CASE ServiceDelete(c, k, given)
      <4>1. \/ Missing(given) /\ Answer("service delete", given, "invalid")
            \/ Write(c, "service delete", given, Accepts(DeleteKey(Passed(given))),
                     k, Absent)
        BY <3>2, Zenon DEF ServiceDelete
      <4>2. CASE Missing(given) /\ Answer("service delete", given, "invalid")
        <5>1. PICK op, res : Answer(op, given, res)
          BY <4>2
        <5>2. reply'.op = op /\ reply'.res = res /\ given = Part
          BY <1>7, <1>9, <5>1, Zenon
        <5> QED
          BY <1>6, <4>2, <5>2
      <4>3. CASE Write(c, "service delete", given,
                       Accepts(DeleteKey(Passed(given))), k, Absent)
        <5>1. /\ reply'.op = "service delete" /\ given = Part
              /\ ~Accepts(DeleteKey(Passed(given)))
          BY <2>2, <4>3
        <5>2. conf.sorted /\ ~Named(conf.caller, 3)
          BY <1>5, <1>9, <5>1, Zenon
        <5>3. "service delete" \in {"service get", "service delete"}
          OBVIOUS
        <5> QED
          BY <5>1, <5>2, <5>3, Zenon
      <4> QED
        BY <4>1, <4>2, <4>3
    <3> QED
      BY <2>9, <3>1, <3>2
  <2> QED
    BY <2>1, <2>6, <2>7, <2>8, <2>9, Zenon
<1>10. ASSUME WholeKeyIsAccepted, [Next]_vars
       PROVE  WholeKeyIsAccepted'
  <2>1. conf' = conf /\ storeCfg' = storeCfg
    BY <1>10, Zenon
    DEF Next, vars, StoreStep, StoreNext, Single, Begin, WriteGroup, ReadGroup, Return,
        Build, Exec, NextPage, Forget
  <2>2. \/ reply' = reply
        \/ reply' = NoReply
        \/ \E c \in Client : Single(c)
    BY <1>10, Zenon
    DEF Next, vars, StoreStep, StoreNext, Begin, WriteGroup, ReadGroup, Return, Build,
        Exec, NextPage, Forget
  <2>3. WellConfigured' <=> WellConfigured
    BY <2>1 DEF WellConfigured, Named
  <2>4. SUFFICES ASSUME WellConfigured, reply'.op \in Ops, reply'.whole,
                        reply'.res \in Bad
                 PROVE  Excused(reply'.op)
    BY <2>1, <2>3 DEF WholeKeyIsAccepted, Named, Ops, Bad
  <2>5. CASE reply' = reply
    BY <1>10, <2>4, <2>5 DEF WholeKeyIsAccepted, Ops, Bad
  <2>6. CASE reply' = NoReply
    BY <2>4, <2>6 DEF NoReply, Ops
  <2> QED
    BY <1>9, <2>2, <2>4, <2>5, <2>6
<1>11. Init => WholeKeyIsAccepted
  BY DEF Init, StoreInit, NoReply, WholeKeyIsAccepted
<1> QED
  BY <1>10, <1>11, PTL DEF Spec

-----------------------------------------------------------------------------
(* A set of numbers that is not empty has a least element; a bounded one   *)
(* has a greatest.                                                         *)
LEMMA Least ==
    ASSUME NEW S \in SUBSET Nat, S # {}
    PROVE  \E m \in S : \A x \in S : m <= x
<1>1. PICK m \in S : \A x \in S : ~(<<x, m>> \in OpToRel(<, Nat))
  BY WFMin, NatLessThanWellFounded, Zenon
<1>2. ASSUME NEW x \in S, x < m PROVE FALSE
  <2>1. <<x, m>> \in OpToRel(<, Nat)
    BY <1>2 DEF OpToRel
  <2> QED BY <1>1, <2>1
<1> QED BY <1>2

LEMMA Greatest ==
    ASSUME NEW S \in SUBSET Nat, S # {}, NEW n \in Nat, \A x \in S : x <= n
    PROVE  \E m \in S : \A x \in S : x <= m
<1> DEFINE D == {n - x : x \in S}
<1>1. D \in SUBSET Nat /\ D # {}
  <2>1. \A x \in S : n - x \in Nat
    OBVIOUS
  <2> QED BY <2>1
<1>2. PICK d \in D : \A e \in D : d <= e
  BY <1>1, Least
<1>3. PICK m \in S : d = n - m
  OBVIOUS
<1>4. ASSUME NEW x \in S PROVE x <= m
  <2>1. n - x \in D
    OBVIOUS
  <2>2. n - m <= n - x
    BY <1>2, <1>3, <2>1
  <2> QED BY <2>2
<1> QED BY <1>4

(* The order in which a builder reads is strict and total.                 *)
LEMMA ReadingOrder ==
    ASSUME NEW b
    PROVE  /\ \A k \in Nat : ~Before(b, k, k)
           /\ \A k, l \in Nat : k = l \/ Before(b, k, l) \/ Before(b, l, k)
           /\ \A k, l, m \in Nat : Before(b, k, l) /\ Before(b, l, m) => Before(b, k, m)
<1>1. CASE Scans(b) \/ b.forward
  BY <1>1 DEF Before
<1>2. CASE ~(Scans(b) \/ b.forward)
  BY <1>2 DEF Before
<1> QED BY <1>1, <1>2

(* How many of A are read before k.                                        *)
Under(b, A, k) == {l \in A : Before(b, l, k)}
Rank(b, A, k) == Cardinality(Under(b, A, k))

LEMMA RankGrows ==
    ASSUME NEW b, NEW A \in SUBSET Nat, IsFiniteSet(A)
    PROVE  /\ \A k \in A : IsFiniteSet(Under(b, A, k)) /\ Rank(b, A, k) \in Nat
           /\ \A k, l \in A : Before(b, k, l) => Rank(b, A, k) < Rank(b, A, l)
<1>1. ASSUME NEW k \in A PROVE IsFiniteSet(Under(b, A, k)) /\ Rank(b, A, k) \in Nat
  <2>1. Under(b, A, k) \in SUBSET A
    BY DEF Under
  <2> QED BY <2>1, FS_Subset, FS_CardinalityType DEF Rank
<1>2. ASSUME NEW k \in A, NEW l \in A, Before(b, k, l)
      PROVE  Rank(b, A, k) < Rank(b, A, l)
  <2>1. Under(b, A, k) \in SUBSET Under(b, A, l)
    BY <1>2, ReadingOrder DEF Under
  <2>2. k \in Under(b, A, l) /\ k \notin Under(b, A, k)
    BY <1>2, ReadingOrder DEF Under
  <2>3. Rank(b, A, k) <= Rank(b, A, l) /\ Rank(b, A, k) # Rank(b, A, l)
    BY <1>1, <2>1, <2>2, FS_Subset DEF Rank
  <2> QED BY <1>1, <2>3
<1> QED BY <1>1, <1>2

(* R is the first n of A: all of A, or n of them, and it has a last one.   *)
IsFirst(b, A, n, R) ==
    /\ R # A => Cardinality(R) = n
    /\ R # {} => \E m \in R : \A l \in R : ~Before(b, m, l)

LEMMA FirstOnes ==
    ASSUME NEW b, NEW A \in SUBSET Nat, IsFiniteSet(A), NEW n \in Nat \ {0},
           NEW R, R = {k \in A : Rank(b, A, k) < n}
    PROVE  IsFirst(b, A, n, R)
<1>1. /\ \A k \in A : IsFiniteSet(Under(b, A, k)) /\ Rank(b, A, k) \in Nat
      /\ \A k, l \in A : Before(b, k, l) => Rank(b, A, k) < Rank(b, A, l)
  BY RankGrows
<1>2. R \in SUBSET A /\ IsFiniteSet(R) /\ Cardinality(R) \in Nat
  BY FS_Subset, FS_CardinalityType
<1>3. ASSUME R # {}
      PROVE  \E m \in R : \A l \in R : Rank(b, A, l) <= Rank(b, A, m)
  <2> DEFINE ranks == {Rank(b, A, k) : k \in R}
  <2>0. \A k \in R : Rank(b, A, k) \in Nat /\ Rank(b, A, k) <= n
    BY <1>1
  <2>1. ranks \in SUBSET Nat /\ ranks # {} /\ \A x \in ranks : x <= n
    BY <2>0, <1>3
  <2>2. PICK x \in ranks : \A y \in ranks : y <= x
    BY <2>1, Greatest
  <2>3. PICK m \in R : x = Rank(b, A, m)
    OBVIOUS
  <2> QED BY <2>2, <2>3
<1>4. ASSUME NEW m \in R, \A l \in R : Rank(b, A, l) <= Rank(b, A, m)
      PROVE  \A l \in R : ~Before(b, m, l)
  BY <1>1, <1>2, <1>4
<1>5. ASSUME R # A
      PROVE  Cardinality(R) = n
  <2>1. PICK k \in A \ R : \A l \in A \ R : Rank(b, A, k) <= Rank(b, A, l)
    <3> DEFINE ranks == {Rank(b, A, l) : l \in A \ R}
    <3>1. \A l \in A \ R : Rank(b, A, l) \in Nat
      BY <1>1
    <3>3. ranks \in SUBSET Nat /\ ranks # {}
      BY <3>1, <1>2, <1>5
    <3>2. PICK x \in ranks : \A y \in ranks : x <= y
      BY <3>3, Least
    <3> QED BY <3>2
  <2>2. Rank(b, A, k) \in Nat /\ Rank(b, A, k) >= n
    BY <1>1, <2>1
  <2>3. R = Under(b, A, k)
    <3>1. ASSUME NEW l \in Under(b, A, k) PROVE l \in R
      <4>1. l \in A /\ Before(b, l, k)
        BY DEF Under
      <4>2. Rank(b, A, l) < Rank(b, A, k) /\ Rank(b, A, l) \in Nat
        BY <1>1, <2>1, <4>1
      <4> QED BY <2>1, <2>2, <4>1, <4>2
    <3>2. \A l \in R : l \in Under(b, A, k)
      <4>1. ASSUME NEW l \in R, ~Before(b, l, k) PROVE FALSE
        <5>1. Before(b, k, l)
          BY <1>2, <2>1, <4>1, ReadingOrder
        <5>2. Rank(b, A, k) < Rank(b, A, l) /\ Rank(b, A, l) < n /\ Rank(b, A, l) \in Nat
          BY <1>1, <1>2, <2>1, <5>1
        <5> QED BY <2>2, <5>2
      <4> QED BY <1>2, <4>1 DEF Under
    <3> QED BY <3>1, <3>2
  <2>4. Cardinality(R) >= n
    BY <2>2, <2>3 DEF Rank
  <2>5. R # {}
    BY <2>4, FS_EmptySet
  <2>6. PICK m \in R : \A l \in R : Rank(b, A, l) <= Rank(b, A, m)
    BY <1>3, <2>5
  <2>7. R \in SUBSET (Under(b, A, m) \cup {m})
    <3>1. \A l \in R : l = m \/ Before(b, l, m)
      BY <1>2, <1>4, <2>6, ReadingOrder
    <3> QED BY <1>2, <3>1 DEF Under
  <2>8. /\ IsFiniteSet(Under(b, A, m) \cup {m})
        /\ Cardinality(Under(b, A, m) \cup {m}) <= Rank(b, A, m) + 1
    <3>1. PICK U : U = Under(b, A, m)
      OBVIOUS
    <3>2. IsFiniteSet(U) /\ Cardinality(U) \in Nat
      BY <1>1, <1>2, <3>1 DEF Rank
    <3>3. /\ IsFiniteSet(U \cup {m})
          /\ Cardinality(U \cup {m}) = IF m \in U THEN Cardinality(U) ELSE Cardinality(U) + 1
      BY <3>2, FS_AddElement, Zenon
    <3>4. Cardinality(U \cup {m}) <= Cardinality(U) + 1
      BY <3>2, <3>3
    <3> QED BY <3>1, <3>3, <3>4 DEF Rank
  <2>9. Rank(b, A, m) + 1 <= n /\ Rank(b, A, m) \in Nat
    BY <1>1, <1>2
  <2>10. Cardinality(R) <= Cardinality(Under(b, A, m) \cup {m})
    BY <2>7, <2>8, FS_Subset
  <2>11. Cardinality(Under(b, A, m) \cup {m}) \in Nat
    BY <2>8, FS_CardinalityType
  <2> QED BY <1>2, <2>4, <2>8, <2>9, <2>10, <2>11
<1> QED BY <1>3, <1>4, <1>5 DEF IsFirst

(* A page without a last key has read everything ahead.                    *)
LEMMA PageOrAll ==
    ASSUME NEW b, b.limit \in Nat
    PROVE  /\ LastEvaluated(b) \in Token
           /\ LastEvaluated(b) = Unset => ReadBy(b) = Ahead(b)
<1>1. Ahead(b) \in SUBSET Key
  BY QueryAssumption DEF Ahead, Scope
<1>2. Ahead(b) \in SUBSET Nat /\ IsFiniteSet(Ahead(b)) /\ 0 \notin Key
  BY <1>1, QueryAssumption, FS_Subset
<1>3. CASE b.limit = 0
  BY <1>3 DEF ReadBy, LastEvaluated, Token
<1>4. CASE b.limit # 0
  <2>1. PICK A, n, R : A = Ahead(b) /\ n = b.limit /\ R = ReadBy(b)
    OBVIOUS
  <2>2. A \in SUBSET Nat /\ IsFiniteSet(A) /\ n \in Nat \ {0}
    BY <1>2, <1>4, <2>1
  <2>3. R = {k \in A : Rank(b, A, k) < n}
    BY <1>4, <2>1 DEF ReadBy, Rank, Under
  <2>4. IsFirst(b, A, n, R)
    BY <2>2, <2>3, FirstOnes
  <2>5. CASE Cardinality(R) = n
    <3>1. R # {}
      BY <2>2, <2>5, FS_EmptySet
    <3>2. LastEvaluated(b) \in ReadBy(b)
      BY <1>4, <2>1, <2>4, <2>5, <3>1 DEF LastEvaluated, IsFirst
    <3> QED BY <1>1, <1>2, <3>2 DEF ReadBy, Unset, Token
  <2>6. CASE Cardinality(R) # n
    BY <2>1, <2>4, <2>6 DEF IsFirst, LastEvaluated, Token
  <2> QED BY <2>5, <2>6
<1> QED BY <1>3, <1>4

-----------------------------------------------------------------------------
Asked(b) == IF b.filterCond THEN Scope(b) \cap Matching ELSE Scope(b)

QueryRecord ==
    [pc : {"none", "built", "page", "failed"}, builder : Builder \cup {[isScan |-> TRUE]},
     token : Token, seen : SUBSET Key, pages : 0..MaxPages, touched : SUBSET Key]

(* A builder never starts at a key: its page tokens do not survive the way *)
(* back, so an accepted page reads from the beginning; the page that ends  *)
(* without a token has all that the builder asks for.                      *)
Paged(q, t) ==
    /\ q.pc # "none" => q.builder \in Builder /\ q.builder.lastKey \notin Key
    /\ q.pc = "page" /\ q.token = Unset =>
          \A k \in Asked(q.builder) \ q.touched : t[k] # Absent => k \in q.seen

QueryInv ==
    /\ query \in [Client -> QueryRecord]
    /\ \A c \in Client : Paged(query[c], table)

LEMMA AskedAreKeys == \A b : Asked(b) \subseteq Key
BY QueryAssumption DEF Asked, Scope

LEMMA NoStartKey == Unset \notin Key /\ Hollow \notin Key /\ Unset \in Token /\ Key \subseteq Token
BY QueryAssumption DEF Unset, Hollow, Token

LEMMA NoQueryPaged == NoQuery \in QueryRecord /\ \A t : Paged(NoQuery, t)
<1>1. NoQuery \in QueryRecord
  BY NoStartKey, QueryAssumption DEF NoQuery, QueryRecord
<1> QED BY <1>1 DEF NoQuery, Paged

(* A client that builds, runs or drops its query leaves the others alone.  *)
LEMMA OwnQuery ==
    ASSUME QueryInv, NEW c \in Client, NEW q \in QueryRecord,
           query' = [query EXCEPT ![c] = q], Paged(q, table), table' = table
    PROVE  QueryInv'
<1>1. query' \in [Client -> QueryRecord] /\ query'[c] = q
  BY DEF QueryInv
<1>2. \A d \in Client : d # c => query'[d] = query[d]
  BY DEF QueryInv
<1> QED BY <1>1, <1>2 DEF QueryInv

LEMMA ApplyKeeps ==
    ASSUME NEW b \in Builder, NEW filters
    PROVE  Apply(b, filters) \in Builder /\ Apply(b, filters).lastKey = b.lastKey
<1>1. PICK x, y, z : /\ x = (b.keyCond \/ "WithKeyCondition" \in filters)
                     /\ y = (b.filterCond \/ "WithFilter" \in filters)
                     /\ z = (b.indexName \/ "WithIndex" \in filters)
  OBVIOUS
<1>2. x \in BOOLEAN /\ y \in BOOLEAN /\ z \in BOOLEAN
  BY <1>1, Zenon
<1>3. Apply(b, filters) = [b EXCEPT !.keyCond = x, !.filterCond = y, !.indexName = z]
  BY <1>1, Zenon DEF Apply
<1>4. Apply(b, filters) \in Builder
  BY <1>2, <1>3, Zenon DEF Builder
<1>5. Apply(b, filters).lastKey = b.lastKey
  BY <1>3, SMT DEF Builder
<1> QED BY <1>4, <1>5

LEMMA ExecKeeps ==
    ASSUME QueryInv, NEW c \in Client, Exec(c)
    PROVE  QueryInv'
<1>1. PICK q : q = query[c]
  OBVIOUS
<1>2. q \in QueryRecord /\ q.pc = "built" /\ Paged(q, table) /\ table' = table
  BY <1>1 DEF QueryInv, Exec
<1>3. q.builder \in Builder /\ q.builder.lastKey \notin Key
  BY <1>2 DEF Paged
<1>4. q.pages + 1 \in 0..MaxPages
  BY <1>1, <1>2, QueryAssumption DEF Exec, QueryRecord
<1>5. PICK filters \in Filters :
        \/ query' = [query EXCEPT ![c] =
                [query[c] EXCEPT !.pc = "page", !.builder = Apply(q.builder, filters),
                          !.pages = @ + 1, !.token = TokenOf(Apply(q.builder, filters)),
                          !.seen = @ \cup Shown(Apply(q.builder, filters))]]
        \/ query' = [query EXCEPT ![c] =
                [query[c] EXCEPT !.pc = "failed", !.builder = Apply(q.builder, filters), !.pages = @ + 1]]
  BY <1>1, Zenon DEF Exec
<1>6. PICK b : b = Apply(q.builder, filters)
  OBVIOUS
<1>7. b \in Builder /\ b.lastKey \notin Key /\ b.limit \in Nat
  BY <1>3, <1>6, ApplyKeeps, QueryAssumption DEF Builder
<1>8. Shown(b) \subseteq Key
  BY QueryAssumption DEF Shown, ReadBy, Ahead, Scope
<1>9. CASE query' = [query EXCEPT ![c] = [query[c] EXCEPT !.pc = "failed", !.builder = b, !.pages = @ + 1]]
  <2>2. PICK r : /\ query' = [query EXCEPT ![c] = r]
                 /\ r = [query[c] EXCEPT !.pc = "failed", !.builder = b, !.pages = @ + 1]
    BY <1>9, Zenon
  <2>1. r = [q EXCEPT !.pc = "failed", !.builder = b, !.pages = @ + 1]
    BY <1>1, <2>2, Zenon
  <2>3. r \in QueryRecord
    <3>1. "failed" \in {"none", "built", "page", "failed"}
      OBVIOUS
    <3> QED BY <1>2, <1>4, <1>7, <2>1, <3>1, Zenon DEF QueryRecord
  <2>4. r.pc = "failed" /\ r.builder = b
    BY <1>2, <2>1, SMT DEF QueryRecord
  <2>5. Paged(r, table)
    BY <1>7, <2>4 DEF Paged
  <2> QED BY <1>2, <2>2, <2>3, <2>5, OwnQuery
<1>10. CASE query' = [query EXCEPT ![c] =
                [query[c] EXCEPT !.pc = "page", !.builder = b, !.pages = @ + 1,
                          !.token = TokenOf(b), !.seen = @ \cup Shown(b)]]
  <2>2. PICK r : /\ query' = [query EXCEPT ![c] = r]
                 /\ r = [query[c] EXCEPT !.pc = "page", !.builder = b, !.pages = @ + 1,
                                         !.token = TokenOf(b), !.seen = @ \cup Shown(b)]
    BY <1>10, Zenon
  <2>1. r = [q EXCEPT !.pc = "page", !.builder = b, !.pages = @ + 1,
                      !.token = TokenOf(b), !.seen = @ \cup Shown(b)]
    BY <1>1, <2>2, Zenon
  <2>3. TokenOf(b) \in Token /\ (TokenOf(b) = Unset => ReadBy(b) = Ahead(b))
    BY <1>7, PageOrAll DEF TokenOf
  <2>4. r \in QueryRecord
    <3>1. "page" \in {"none", "built", "page", "failed"}
      OBVIOUS
    <3>2. q.seen \cup Shown(b) \in SUBSET Key
      BY <1>2, <1>8 DEF QueryRecord
    <3> QED BY <1>2, <1>4, <1>7, <2>1, <2>3, <3>1, <3>2, Zenon DEF QueryRecord
  <2>5. r.pc = "page" /\ r.builder = b /\ r.token = TokenOf(b) /\ r.seen = q.seen \cup Shown(b)
    BY <1>2, <2>1, SMT DEF QueryRecord
  <2>6. ASSUME TokenOf(b) = Unset, NEW k \in Asked(b), table[k] # Absent
        PROVE  k \in q.seen \cup Shown(b)
    <3>1. k \in Scope(b) /\ (b.filterCond => k \in Matching)
      BY <2>6 DEF Asked
    <3>2. k \in ReadBy(b)
      BY <1>7, <2>3, <2>6, <3>1 DEF Ahead
    <3>3. k \in Shown(b)
      BY <3>1, <3>2 DEF Shown
    <3> QED BY <3>3
  <2>7. Paged(r, table)
    BY <1>7, <2>5, <2>6 DEF Paged
  <2> QED BY <1>2, <2>2, <2>4, <2>7, OwnQuery
<1> QED BY <1>5, <1>6, <1>9, <1>10

LEMMA BuildKeeps ==
    ASSUME QueryInv, NEW c \in Client, Build(c)
    PROVE  QueryInv'
<1>1. PICK b \in Blueprints :
        query' = [query EXCEPT ![c] = [NoQuery EXCEPT !.pc = "built", !.builder = b]]
  BY DEF Build
<1>2. b \in Builder /\ b.lastKey \notin Key /\ table' = table
  BY QueryAssumption, NoStartKey DEF Build
<1>3. PICK r : r = [NoQuery EXCEPT !.pc = "built", !.builder = b]
  OBVIOUS
<1>4. r \in QueryRecord
  <2>1. "built" \in {"none", "built", "page", "failed"} /\ NoQuery \in QueryRecord
    BY NoQueryPaged
  <2> QED BY <1>2, <1>3, <2>1, Zenon DEF QueryRecord
<1>5. r.pc = "built" /\ r.builder = b
  BY <1>3, NoQueryPaged, SMT DEF QueryRecord
<1>6. Paged(r, table)
  BY <1>2, <1>5 DEF Paged
<1> QED BY <1>1, <1>2, <1>3, <1>4, <1>6, OwnQuery

LEMMA NextPageKeeps ==
    ASSUME QueryInv, NEW c \in Client, NextPage(c)
    PROVE  QueryInv'
<1>1. PICK q : q = query[c]
  OBVIOUS
<1>2. q \in QueryRecord /\ q.pc = "page" /\ q.token # Unset /\ Paged(q, table) /\ table' = table
  BY <1>1 DEF QueryInv, NextPage
<1>4. PICK r : /\ query' = [query EXCEPT ![c] = r]
               /\ r = [query[c] EXCEPT !.pc = "built", !.builder = StartFrom(@, query[c].token)]
  BY Zenon DEF NextPage
<1>3. PICK b : /\ b = StartFrom(q.builder, q.token)
               /\ r = [q EXCEPT !.pc = "built", !.builder = b]
  BY <1>1, <1>4, Zenon
<1>5. q.builder \in Builder
  BY <1>2 DEF Paged
<1>a. b = [q.builder EXCEPT !.lastKey = Hollow]
  BY <1>2, <1>3, Zenon DEF StartFrom
<1>6. b \in Builder
  <2>1. Hollow \in Token \cup {Hollow}
    OBVIOUS
  <2> QED BY <1>a, <1>5, <2>1, Zenon DEF Builder
<1>7. b.lastKey = Hollow
  BY <1>a, <1>5, SMT DEF Builder
<1>8. r \in QueryRecord
  <2>1. "built" \in {"none", "built", "page", "failed"}
    OBVIOUS
  <2> QED BY <1>2, <1>3, <1>6, <2>1, Zenon DEF QueryRecord
<1>9. r.pc = "built" /\ r.builder = b
  BY <1>2, <1>3, SMT DEF QueryRecord
<1>10. Paged(r, table)
  BY <1>6, <1>7, <1>9, NoStartKey DEF Paged
<1> QED BY <1>2, <1>4, <1>8, <1>10, OwnQuery

(* The store's steps are noticed: a key they change is touched.            *)
LEMMA StoreKeepsQueries ==
    ASSUME QueryInv, NEW c \in Client, StoreStep(c)
    PROVE  QueryInv'
<1>1. PICK S : S = {k \in Key : table'[k] # table[k]}
  OBVIOUS
<1>2. ASSUME NEW d \in Client
      PROVE  query'[d] = IF query[d].pc = "none" THEN query[d]
                         ELSE [query[d] EXCEPT !.touched = @ \cup S]
  BY <1>1 DEF StoreStep
<1>3. ASSUME NEW d \in Client
      PROVE  query'[d] \in QueryRecord /\ Paged(query'[d], table')
  <2>1. PICK q : q = query[d] /\ q \in QueryRecord /\ Paged(q, table)
    BY DEF QueryInv
  <2>2. CASE q.pc = "none"
    BY <1>2, <2>1, <2>2 DEF Paged
  <2>3. CASE q.pc # "none"
    <3>1. PICK T, r : T = q.touched \cup S /\ r = [q EXCEPT !.touched = T]
      OBVIOUS
    <3>2. query'[d] = r
      BY <1>2, <2>1, <2>3, <3>1
    <3>3. r \in QueryRecord
      <4>1. T \in SUBSET Key
        BY <1>1, <2>1, <3>1 DEF QueryRecord
      <4> QED BY <2>1, <3>1, <4>1, Zenon DEF QueryRecord
    <3>4. /\ r.pc = q.pc /\ r.builder = q.builder /\ r.token = q.token
          /\ r.seen = q.seen /\ r.touched = T
      BY <2>1, <3>1, SMT DEF QueryRecord
    <3>5. \A k \in Asked(q.builder) \ T : k \notin q.touched /\ table'[k] = table[k]
      BY <1>1, <3>1, AskedAreKeys
    <3>6. Paged(r, table')
      BY <2>1, <3>4, <3>5 DEF Paged
    <3> QED BY <3>2, <3>3, <3>6
  <2> QED BY <2>2, <2>3
<1>4. query' = [d \in Client |-> query'[d]]
  BY DEF StoreStep
<1> QED BY <1>3, <1>4 DEF QueryInv

LEMMA QueriesKept == Spec => []QueryInv
<1>1. Init => QueryInv
  BY NoQueryPaged DEF Init, QueryInv
<1>2. ASSUME QueryInv, NEW c \in Client, Forget(c) PROVE QueryInv'
  BY <1>2, NoQueryPaged, OwnQuery DEF Forget
<1>3. QueryInv /\ UNCHANGED vars => QueryInv'
  BY DEF vars, QueryInv
<1>4. QueryInv /\ [Next]_vars => QueryInv'
  BY <1>2, <1>3, StoreKeepsQueries, BuildKeeps, ExecKeeps, NextPageKeeps, Zenon DEF Next
<1> QED BY <1>1, <1>4, PTL DEF Spec

(* An Exec that gives back an empty token has handed out everything that   *)
(* was there throughout and that the builder asks for (query.go:184-189).  *)
THEOREM EmptyTokenIsComplete == Spec => []EmptyTokenMeansComplete
<1>1. QueryInv => EmptyTokenMeansComplete
  BY DEF QueryInv, Paged, Asked, EmptyTokenMeansComplete
<1> QED BY <1>1, QueriesKept, PTL

-----------------------------------------------------------------------------
(* New fills the names from texts with texts.                              *)
LEMMA LoadedTexts ==
    ASSUME NEW t \in Tables
    PROVE  LoadedConfig(t) \in Seq(Text) /\ Len(LoadedConfig(t)) = 4
<1>1. /\ t.caller \in Seq(Text) /\ Len(t.caller) = 4
      /\ \A i \in 1..4 : t.env[Fields[i]] \in Text
  BY TablesAssumption
<1>2. \A i \in 1..4 : t.caller[i] \in Text
  BY <1>1
<1>3. Blank \in Text
  BY DEF Blank, Text
<1>4. ASSUME NEW i \in 1..4
      PROVE  SetField(ConfigFields[i], t.env, t.caller[i]) \in Text
  <2>1. PICK f : f = ConfigFields[i]
    OBVIOUS
  <2>2. f.kind = "string" /\ f.bits = 0 /\ f.var = Fields[i] /\ f.default = Blank
    BY <2>1 DEF ConfigFields
  <2>3. TextFor(f, t.env) \in Text
    BY <1>1, <1>3, <2>2 DEF TextFor
  <2>4. Converted(f.kind, f.bits, TextFor(f, t.env)) = TextFor(f, t.env)
    BY <2>2 DEF Converted
  <2>5. SetField(f, t.env, t.caller[i]) \in {t.caller[i], TextFor(f, t.env)}
    BY <2>2, <2>4 DEF SetField
  <2> QED BY <1>2, <2>1, <2>3, <2>5
<1>5. DOMAIN ConfigFields = 1..4
  BY DEF ConfigFields
<1>6. LoadStruct(ConfigFields, t.env, t.caller) \in [1..4 -> Text]
  <2>1. LoadStruct(ConfigFields, t.env, t.caller) =
            [i \in 1..4 |-> IF Reached(ConfigFields, t.env, i)
                            THEN SetField(ConfigFields[i], t.env, t.caller[i])
                            ELSE t.caller[i]]
    BY <1>5, Zenon DEF LoadStruct
  <2> QED BY <1>2, <1>4, <2>1
<1>7. \A s : s \in [1..4 -> Text] => s \in Seq(Text) /\ Len(s) = 4
  OBVIOUS
<1>8. LoadedConfig(t) = LoadStruct(ConfigFields, t.env, t.caller) \/ LoadedConfig(t) = t.caller
  BY Zenon DEF LoadedConfig
<1> QED BY <1>1, <1>6, <1>7, <1>8

(* The configuration is the one New left; the last answer is a reply.      *)
ConfigInv ==
    /\ conf \in Tables /\ storeCfg \in Seq(Text) /\ Len(storeCfg) = 4
    /\ reply.whole \in BOOLEAN

LEMMA SingleAnswers ==
    ASSUME NEW c, Single(c)
    PROVE  \E op, given, res : Answer(op, given, res)
<1>1. PICK k \in Key :
        \/ Put(c, "put", k)
        \/ Create(c, k)
        \/ Update(c, k)
        \/ \E given \in {{}, {"hash"}, Part} :
            \/ Get(k, given)
            \/ Delete(c, "delete", k, given)
            \/ ServiceGet(k, given)
            \/ ServiceDelete(c, k, given)
        \/ \E name \in {"", "unknown", "known"} :
            RunCustomServiceMethod(name, k)
  BY Zenon DEF Single
<1>2. ASSUME NEW op, NEW given, NEW ok, NEW item, Write(c, op, given, ok, k, item)
      PROVE  \E res : Answer(op, given, res)
  BY <1>2, Zenon DEF Write
<1> QED
  BY <1>1, <1>2, Zenon
  DEF Put, Create, Update, Get, Delete, ServiceGet, ServiceDelete, RunCustomServiceMethod

LEMMA ConfigKept == Spec => []ConfigInv
<1>1. NoReply.whole \in BOOLEAN
  BY DEF NoReply
<1>2. Init => ConfigInv
  BY <1>1, LoadedTexts DEF Init, StoreInit, ConfigInv
<1>3. ASSUME NEW op, NEW given, NEW res, Answer(op, given, res)
      PROVE  reply'.whole \in BOOLEAN
  <2>1. reply' = [op |-> op, whole |-> given = Part, res |-> res] \/ reply' = NoReply
    BY <1>3, Zenon DEF Answer
  <2>2. (given = Part) \in BOOLEAN
    OBVIOUS
  <2>3. CASE reply' = [op |-> op, whole |-> given = Part, res |-> res]
    <3>1. reply'.whole = (given = Part)
      BY <2>3, Zenon
    <3> QED BY <2>2, <3>1, Zenon
  <2> QED BY <1>1, <2>1, <2>3
<1>4. ASSUME ConfigInv, [Next]_vars PROVE ConfigInv'
  <2>1. conf' = conf /\ storeCfg' = storeCfg
    BY <1>4, Zenon
    DEF Next, vars, StoreStep, StoreNext, Single, Begin, WriteGroup, ReadGroup, Return,
        Build, Exec, NextPage, Forget
  <2>2. \/ reply' = reply
        \/ reply' = NoReply
        \/ \E c \in Client : Single(c)
    BY <1>4, Zenon
    DEF Next, vars, StoreStep, StoreNext, Begin, WriteGroup, ReadGroup, Return, Build,
        Exec, NextPage, Forget
  <2>3. reply'.whole \in BOOLEAN
    BY <1>1, <1>3, <1>4, <2>2, SingleAnswers DEF ConfigInv
  <2> QED BY <1>4, <2>1, <2>3 DEF ConfigInv
<1> QED BY <1>2, <1>4, PTL DEF Spec

(* The store, its batches and its queries keep their types.                *)
THEOREM StoreTypes == Spec => []TypeOK
<1>1. ASSUME BatchInv, ConfigInv PROVE StoreTypeOK
  <2>1. ASSUME NEW c \in Client
        PROVE  /\ call[c].op \in {"idle", "writing", "written", "reading", "read"}
               /\ call[c].reqs \in Seq(Request)
               /\ call[c].next \in Nat
               /\ call[c].taken \cup call[c].unprocessed \subseteq
                       (1..(call[c].next - 1)) \cap DOMAIN call[c].reqs
               /\ call[c].taken \cap call[c].unprocessed = {}
               /\ call[c].found \subseteq Key
               /\ call[c].err \in BOOLEAN
               /\ call[c].before \in [Key -> Client \cup {Absent}]
               /\ call[c].touched \subseteq Key
    <3>1. PICK r : r = call[c] /\ r \in Call /\ Progress(r)
      BY <1>1 DEF BatchInv, CallInv
    <3>2. /\ r.op \in {"idle", "writing", "written", "reading", "read"}
          /\ r.reqs \in Seq(Request) /\ r.next \in Nat /\ r.found \subseteq Key
          /\ r.before \in Contents /\ r.touched \subseteq Key
      BY <3>1 DEF Call
    <3>3. r.err \in BOOLEAN
      BY <3>1, Zenon DEF Call
    <3>4. /\ r.taken \cup r.unprocessed \subseteq (1..(r.next - 1)) \cap DOMAIN r.reqs
          /\ r.taken \cap r.unprocessed = {}
      BY <3>1, Zenon DEF Progress, Answered
    <3> QED BY <3>1, <3>2, <3>3, <3>4, Zenon DEF Contents, Item
  <2> QED BY <1>1, <2>1, Zenon DEF StoreTypeOK, BatchInv, ConfigInv, Contents, Item
<1>2. ASSUME QueryInv, NEW c \in Client
      PROVE  /\ query[c].pc \in {"none", "built", "page", "failed"}
             /\ query[c].pc # "none" => query[c].builder \in Builder
             /\ query[c].token \in Token
             /\ query[c].seen \subseteq Key
             /\ query[c].touched \subseteq Key
             /\ query[c].pages \in 0..MaxPages
  BY <1>2 DEF QueryInv, QueryRecord, Paged
<1>3. BatchInv /\ ConfigInv /\ QueryInv => TypeOK
  BY <1>1, <1>2, Zenon DEF TypeOK
<1> QED BY <1>3, BatchesKept, ConfigKept, QueriesKept, PTL
=============================================================================
