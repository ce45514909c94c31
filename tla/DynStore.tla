------------------------------ MODULE DynStore ------------------------------
(***************************************************************************)
(* tools/dyndb/store.go and, above it, tools/easyrepo: clients of one      *)
(* DynamoDB table.  A batch is one call of DynamoDB per group of requests, *)
(* and the other clients act between them.  DynamoDB itself is external:   *)
(* it checks a key against the table's schema, may take part of a group    *)
(* and report the rest unprocessed, and may fail before or after it acted. *)
(***************************************************************************)
EXTENDS Integers, FiniteSets, Sequences, EnvLoader

CONSTANTS
    Client,         \* goroutines that use the store
    Batcher,        \* those of them that run batches and queries, the others
                    \* run single operations
    Key,            \* primary keys
    Absent,         \* "no item"
    Group,          \* requests per call: 25 in BatchWrite, 100 in BatchGet
    Writes,         \* the batches written: [puts, deletes], sequences of keys
    Lookups,        \* the sequences of keys looked up
    Tables          \* configurations: [caller, env, sorted]

ASSUME DynAssumption ==
    /\ Absent \notin Client
    /\ Batcher \subseteq Client
    /\ Group \in Nat \ {0}
    /\ Writes \subseteq [puts : Seq(Key), deletes : Seq(Key)]
    /\ Lookups \subseteq Seq(Key)

VARIABLES
    conf,           \* caller: the TableConfig passed; env; sorted: the schema
    storeCfg,       \* dynamoStore.cfg, as New left it
    table,          \* table[k]: the client whose item is there, or Absent
    call,           \* call[c]: the batch c is in, or has finished
    reply           \* the single operation that the last step turned down,
                    \* or any answer of Update

storeVars == <<conf, storeCfg, table, call, reply>>

(* TableConfig's fields, with their env tags; each holds a name or "".     *)
Fields == <<"TableName", "HashKey", "SortKey", "TTLAttribute">>
ConfigFields ==
    [i \in 1..4 |-> [kind |-> "string", bits |-> 0, var |-> Fields[i],
                     default |-> Blank]]

(* Every field has a text, and so has the variable its tag names.          *)
ASSUME TablesAssumption ==
    \A t \in Tables :
        /\ t.caller \in Seq(Text) /\ Len(t.caller) = 4
        /\ \A i \in 1..4 : t.env[Fields[i]] \in Text

Request == [what : {"put", "delete", "get"}, key : Key]

(* A batch that has made no call yet, over a table that holds `contents`.  *)
Fresh(op, reqs, err, contents) ==
    [op |-> op, reqs |-> reqs, next |-> 1, taken |-> {}, unprocessed |-> {},
     found |-> {}, err |-> err, before |-> contents, touched |-> {}]
NoCall == Fresh("idle", <<>>, FALSE, [k \in Key |-> Absent])
Part == {"hash", "sort"}
NoReply == [op |-> "none", whole |-> FALSE, res |-> "none"]

StoreTypeOK ==
    /\ conf \in Tables
    /\ storeCfg \in Seq(Text) /\ Len(storeCfg) = 4
    /\ table \in [Key -> Client \cup {Absent}]
    /\ \A c \in Client :
        /\ call[c].op \in {"idle", "writing", "written", "reading", "read"}
        /\ call[c].reqs \in Seq(Request)
        /\ call[c].next \in Nat
        /\ call[c].taken \cup call[c].unprocessed \subseteq
                (1..(call[c].next - 1)) \cap DOMAIN call[c].reqs
        /\ call[c].taken \cap call[c].unprocessed = {}
        /\ call[c].found \subseteq Key
        /\ call[c].err \in BOOLEAN
        /\ call[c].before \in [Key -> Client \cup {Absent}]
        /\ call[c].touched \subseteq Key
    /\ reply.whole \in BOOLEAN

(* New: without a table name the store loads its configuration from the    *)
(* environment.                                                            *)
LoadedConfig(c) ==
    IF c.caller[1] = Blank THEN LoadStruct(ConfigFields, c.env, c.caller)
                           ELSE c.caller

StoreInit ==
    /\ conf \in Tables
    /\ storeCfg = LoadedConfig(conf)
    /\ table \in [Key -> {Absent} \cup Client]
    /\ call = [c \in Client |-> NoCall]
    /\ reply = NoReply

-----------------------------------------------------------------------------
Named(cfg, i) == cfg[i] # Blank

(* DynamoDB: the table must be named, and a key has exactly the attributes *)
(* of the schema, none of them NULL.                                       *)
Schema == IF conf.sorted THEN Part ELSE {"hash"}
Accepts(key) ==
    /\ Named(storeCfg, 1)
    /\ DOMAIN key = Schema
    /\ \A a \in DOMAIN key : key[a] = "value"

(* attr: nil becomes NULL. *)
attr(part, given) == IF part \in given THEN "value" ELSE "NULL"

(* The attribute maps that Get and the batches send, and the one Delete    *)
(* sends: only Delete sends a sort key that it was not given.              *)
HashName == IF Named(storeCfg, 2) THEN "hash" ELSE ""
KeyOf(hasSort, given) ==
    [a \in {HashName} \cup (IF hasSort THEN {"sort"} ELSE {}) |->
        attr(IF a = "sort" THEN "sort" ELSE "hash", given)]
GetKey_AlwaysSorted(given) == KeyOf("sort" \in given, given)
GetKey(given) == KeyOf(Named(storeCfg, 3) /\ "sort" \in given, given)
DeleteKey(given) == KeyOf(Named(storeCfg, 3), given)

(* What a program has at hand: both parts on a table with a sort key.      *)
Whole == Schema

(* One item written or removed, seen by the batches of the others.         *)
Noticed(c, S) ==
    [d \in Client |-> IF d = c \/ call[d].op = "idle" THEN call[d]
                      ELSE [call[d] EXCEPT !.touched = @ \cup S]]
Change(c, k, item) ==
    /\ table' = [table EXCEPT ![k] = item]
    /\ call' = Noticed(c, {k})

Answer(op, given, res) ==
    reply' = IF op = "update" \/ res \in {"invalid", "refused"}
             THEN [op |-> op, whole |-> given = Part, res |-> res] ELSE NoReply
Unchanged == UNCHANGED <<table, call>>

(* A write that DynamoDB accepts if `ok`: done, failed, or done with the   *)
(* answer lost on the way.                                                 *)
Write(c, op, given, ok, k, item) ==
    \/ /\ ~ok
       /\ Answer(op, given, "refused")
       /\ Unchanged
    \/ /\ ok
       /\ \E res \in {"ok", "failed"} : Answer(op, given, res)
       /\ Change(c, k, item)
    \/ /\ Answer(op, given, "failed")
       /\ Unchanged

(* The results a GetItem can have. *)
Read(key, k) ==
    {"failed", IF ~Accepts(key) THEN "refused"
               ELSE IF table[k] = Absent THEN "absent" ELSE "ok"}

-----------------------------------------------------------------------------
(* Store.Get, Put and Delete; the parts of the key that are nil are the    *)
(* ones not `given`.  An item has all its key attributes.                  *)
Get(k, given) ==
    /\ \E res \in Read(GetKey(given), k) : Answer("get", given, res)
    /\ Unchanged
Put(c, op, k) == Write(c, op, Part, Named(storeCfg, 1), k, c)
Delete(c, op, k, given) ==
    Write(c, op, given, Accepts(DeleteKey(given)), k, Absent)

(* easyrepo: the repository keeps the configuration it was given, not the  *)
(* one the store loaded.                                                   *)
Missing(given) ==
    \/ Named(conf.caller, 2) /\ "hash" \notin given
    \/ Named(conf.caller, 3) /\ "sort" \notin given
Passed(given) == IF Named(conf.caller, 3) THEN given ELSE given \ {"sort"}

ServiceGet(k, given) ==
    /\ IF Missing(given) THEN Answer("service get", given, "invalid")
       ELSE \E res \in Read(GetKey(Passed(given)), k) :
                Answer("service get", given, res)
    /\ Unchanged

ServiceDelete(c, k, given) ==
    IF Missing(given)
    THEN Answer("service delete", given, "invalid") /\ Unchanged
    ELSE Write(c, "service delete", given, Accepts(DeleteKey(Passed(given))),
               k, Absent)

(* Create: the validator, the hooks, the put. *)
Create(c, k) ==
    \/ \E res \in {"invalid", "hook"} : Answer("create", Part, res) /\ Unchanged
    \/ Put(c, "create", k)

(* Update: validate, read "the" item with nil keys, run the hooks, and     *)
(* write back what was read.                                               *)
Update(c, k) ==
    \/ Answer("update", Part, "invalid") /\ Unchanged
    \/ \E res \in Read(GetKey({}), k) :
        IF res # "ok" THEN Answer("update", Part, res) /\ Unchanged
        ELSE \/ Answer("update", Part, "hook") /\ Unchanged
             \/ Put(c, "update", k)

(* RunCustomServiceMethod: an empty or unknown name is refused, a known    *)
(* method is given the repository, here to read with it.                   *)
RunCustomServiceMethod(name, k) ==
    IF name = "known" THEN Get(k, Whole)
    ELSE Answer("custom", Part, "invalid") /\ Unchanged

Single(c) ==
    /\ \E k \in Key :
        \/ Put(c, "put", k)
        \/ Create(c, k)
        \/ Update(c, k)
        \/ \E given \in {{}, {"hash"}, Part} :
            \/ Get(k, given)
            \/ Delete(c, "delete", k, given)
            \/ ServiceGet(k, given)
            \/ ServiceDelete(c, k, given)
        \/ \E name \in {"", "unknown", "known"} :
            RunCustomServiceMethod(name, k)
    /\ UNCHANGED <<conf, storeCfg>>

-----------------------------------------------------------------------------
(* `for i := 0; i < len(...); i += 25` and its end. *)
GroupAt_Cut(reqs, i) == i..(i + Group - 2)
GroupAt(reqs, i) ==
    i..(IF i + Group - 1 > Len(reqs) THEN Len(reqs) ELSE i + Group - 1)
LoopOp_OnlyWhole(reqs, i, doing, done) ==
    IF i + Group - 1 <= Len(reqs) THEN doing ELSE done
LoopOp(reqs, i, doing, done) == IF i <= Len(reqs) THEN doing ELSE done

(* The batch before its first call: puts, then deletes, in order.  An item *)
(* that cannot be marshalled ends it there.                                *)
Requests(what, keys) == [i \in DOMAIN keys |-> [what |-> what, key |-> keys[i]]]
BatchWrite(c, b, marshals) ==
    LET reqs == Requests("put", b.puts) \o Requests("delete", b.deletes)
        failed == b.puts # <<>> /\ ~marshals
        op == IF failed THEN "written" ELSE LoopOp(reqs, 1, "writing", "written")
    IN  call' = [call EXCEPT ![c] = Fresh(op, reqs, failed, table)]

BatchGet(c, keys) ==
    LET op == LoopOp(keys, 1, "reading", "read")
    IN  call' = [call EXCEPT ![c] = Fresh(op, Requests("get", keys), FALSE, table)]

Begin(c) ==
    /\ c \in Batcher
    /\ call[c].op = "idle"
    /\ \/ \E b \in Writes, marshals \in BOOLEAN : BatchWrite(c, b, marshals)
       \/ \E keys \in Lookups : BatchGet(c, keys)
    /\ reply' = NoReply
    /\ UNCHANGED <<conf, storeCfg, table>>

(* DynamoDB takes a group only if every key in it is whole and no two      *)
(* requests of it are for the same key.                                    *)
GroupAccepted(reqs, G) ==
    /\ Named(storeCfg, 1)
    /\ \A i \in G : reqs[i].what # "put" => Accepts(GetKey(Whole))
    /\ \A i, j \in G : reqs[i].key = reqs[j].key => i = j

(* The call of a group comes back well: its requests were taken or are     *)
(* reported unprocessed, which BatchWrite ignores and BatchGet only waits  *)
(* for; then the next group.                                               *)
GroupDone_AllUnprocessed(b, G, T, found, doing, done) ==
    [b EXCEPT !.next = @ + Group, !.taken = @ \cup T,
              !.unprocessed = @ \cup G, !.found = found,
              !.op = LoopOp(b.reqs, b.next + Group, doing, done)]
GroupDone(b, G, T, found, doing, done) ==
    [b EXCEPT !.next = @ + Group, !.taken = @ \cup T,
              !.unprocessed = @ \cup (G \ T), !.found = found,
              !.op = LoopOp(b.reqs, b.next + Group, doing, done)]
(* ... or with an error, and the batch ends. *)
GroupFailed(b, T, done) ==
    [b EXCEPT !.next = @ + Group, !.taken = @ \cup T, !.op = done, !.err = TRUE]

KeysOf(reqs, T) == {reqs[i].key : i \in T}
IsPut(reqs, T, k) == \E i \in T : reqs[i] = [what |-> "put", key |-> k]

WriteGroup(c) ==
    /\ call[c].op = "writing"
    /\ LET reqs == call[c].reqs
           G == GroupAt(reqs, call[c].next)
           ok == GroupAccepted(reqs, G)
       IN  \E T \in IF ok THEN SUBSET G ELSE {{}}, answered \in BOOLEAN :
            /\ answered => ok
            /\ table' = [k \in Key |->
                    IF k \notin KeysOf(reqs, T) THEN table[k]
                    ELSE IF IsPut(reqs, T, k) THEN c ELSE Absent]
            /\ call' = [Noticed(c, KeysOf(reqs, T)) EXCEPT ![c] =
                    IF answered
                    THEN GroupDone(call[c], G, T, {}, "writing", "written")
                    ELSE GroupFailed(call[c], T, "written")]
    /\ reply' = NoReply
    /\ UNCHANGED <<conf, storeCfg>>

ReadGroup(c) ==
    /\ call[c].op = "reading"
    /\ LET reqs == call[c].reqs
           G == GroupAt(reqs, call[c].next)
           ok == GroupAccepted(reqs, G)
           Items(T) == {k \in KeysOf(reqs, T) : table[k] # Absent}
       IN  \/ /\ ok
              /\ \E T \in SUBSET G :
                    call' = [call EXCEPT ![c] =
                        GroupDone(call[c], G, T, call[c].found \cup Items(T),
                                  "reading", "read")]
           \/ call' = [call EXCEPT ![c] =
                [GroupFailed(call[c], {}, "read") EXCEPT !.found = {}]]
    /\ reply' = NoReply
    /\ UNCHANGED <<conf, storeCfg, table>>

(* The caller has seen what the batch returned. *)
Return(c) ==
    /\ call[c].op \in {"written", "read"}
    /\ call' = [call EXCEPT ![c] = NoCall]
    /\ reply' = NoReply
    /\ UNCHANGED <<conf, storeCfg, table>>

StoreNext(c) ==
    \/ c \notin Batcher /\ Single(c)
    \/ Begin(c)
    \/ WriteGroup(c)
    \/ ReadGroup(c)
    \/ Return(c)
-----------------------------------------------------------------------------
(* store.go:177-189: what a BatchWrite that has returned did.  Without an  *)
(* error every request was taken or reported unprocessed; with one, those  *)
(* of the groups before the failing one were.  The table shows, for a key  *)
(* no other client wrote since, the last request on it that was taken: the *)
(* delete when it was both put and deleted.                                *)
BatchWriteAccounted ==
    \A c \in Client : call[c].op = "written" =>
        LET reqs == call[c].reqs
            answered == call[c].taken \cup call[c].unprocessed
            On(k) == {i \in call[c].taken : reqs[i].key = k}
            Last(k) == CHOOSE i \in On(k) : \A j \in On(k) : j <= i
        IN  /\ ~call[c].err => answered = DOMAIN reqs
            /\ \A i \in call[c].taken, j \in DOMAIN reqs :
                (j - 1) \div Group < (i - 1) \div Group => j \in answered
            /\ \A k \in Key \ call[c].touched :
                table[k] = IF On(k) = {} THEN call[c].before[k]
                           ELSE IF reqs[Last(k)].what = "put" THEN c ELSE Absent

(* store.go:237-249: a BatchGet without an error returns every item asked  *)
(* for that was there throughout, but for those DynamoDB reported as       *)
(* unprocessed, which are left out silently; never one that was not there; *)
(* and with an error, nothing.                                             *)
BatchGetAccounted ==
    \A c \in Client : call[c].op = "read" =>
        LET reqs == call[c].reqs
            There(k) == k \notin call[c].touched /\ table[k] # Absent
        IN  IF call[c].err THEN call[c].found = {}
            ELSE /\ \A i \in DOMAIN reqs :
                        There(reqs[i].key) => \/ reqs[i].key \in call[c].found
                                              \/ i \in call[c].unprocessed
                 /\ \A k \in call[c].found :
                        /\ k \in KeysOf(reqs, DOMAIN reqs)
                        /\ k \notin call[c].touched => table[k] # Absent

(* The names in the store's configuration are those of the table.          *)
WellConfigured ==
    /\ Named(storeCfg, 1) /\ Named(storeCfg, 2)
    /\ Named(storeCfg, 3) <=> conf.sorted

(* easyrepo: on a table whose names are known, a Get or Delete with the    *)
(* whole key reaches DynamoDB and is accepted, unless the sort key's name  *)
(* came from the environment, which the repository never sees.             *)
WholeKeyIsAccepted ==
    /\ WellConfigured
    /\ reply.op \in {"get", "delete", "service get", "service delete"}
    /\ reply.whole
    /\ reply.res \in {"invalid", "refused"}
    => /\ reply.op \in {"service get", "service delete"}
       /\ conf.sorted
       /\ ~Named(conf.caller, 3)
=============================================================================
