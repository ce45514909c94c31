------------------------------ MODULE DynQuery ------------------------------
(***************************************************************************)
(* tools/dyndb/query.go: the query builder and its pages, over the table   *)
(* of DynStore.  Keys are numbers in the order in which DynamoDB reads     *)
(* them; a client holds one builder and runs it once per page.             *)
(***************************************************************************)
EXTENDS DynStore

CONSTANTS
    Partition,      \* keys that satisfy the key condition
    Matching,       \* keys whose items satisfy the filter
    Indexed,        \* keys whose items are in the secondary index
    Limits,         \* the values given to Limit; 0: none
    Blueprints,     \* the builders considered, before a page token is set
    MaxPages        \* bound: pages read with one builder

VARIABLE query      \* query[c]: the builder of c and what its pages gave

vars == <<conf, storeCfg, table, call, reply, query>>

(* A start key: none, the key of an item, or a map whose attributes are    *)
(* nil; a token is the key it was made of, 0 for "".                       *)
Unset == 0
Hollow == -1
Token == Key \cup {Unset}

Builder == [isScan : BOOLEAN, keyCond : BOOLEAN, filterCond : BOOLEAN,
            indexName : BOOLEAN, forward : BOOLEAN, limit : Limits,
            lastKey : Token \cup {Hollow}]
NoQuery == [pc |-> "none", builder |-> [isScan |-> TRUE], token |-> Unset,
            seen |-> {}, pages |-> 0, touched |-> {}]

(* A table holds finitely many items; a builder is made without a page     *)
(* token.                                                                  *)
ASSUME QueryAssumption ==
    /\ Key \subseteq Nat \ {0} /\ IsFiniteSet(Key)
    /\ Partition \cup Matching \cup Indexed \subseteq Key
    /\ Limits \subseteq Nat
    /\ Blueprints \subseteq Builder /\ \A b \in Blueprints : b.lastKey = Unset
    /\ MaxPages \in Nat

TypeOK ==
    /\ StoreTypeOK
    /\ \A c \in Client :
        /\ query[c].pc \in {"none", "built", "page", "failed"}
        /\ query[c].pc # "none" => query[c].builder \in Builder
        /\ query[c].token \in Token
        /\ query[c].seen \subseteq Key
        /\ query[c].touched \subseteq Key
        /\ query[c].pages \in 0..MaxPages

Init == StoreInit /\ query = [c \in Client |-> NoQuery]

-----------------------------------------------------------------------------
(* Exec: a builder without a key condition scans, whatever it was made for; *)
(* execScan forgets the index and the direction.                            *)
Scans(b) == b.isScan \/ ~b.keyCond
Scope(b) == IF Scans(b) THEN Key
            ELSE Partition \cap (IF b.indexName THEN Indexed ELSE Key)
Before(b, k, l) == IF Scans(b) \/ b.forward THEN k < l ELSE k > l

(* DynamoDB reads from the start key on, up to `limit` items, and filters  *)
(* what it has read; the key it stopped at, if the limit stopped it.       *)
Ahead(b) ==
    {k \in Scope(b) : table[k] # Absent
                      /\ (b.lastKey \in Key => Before(b, b.lastKey, k))}
ReadBy(b) ==
    {k \in Ahead(b) :
        b.limit # 0 => Cardinality({l \in Ahead(b) : Before(b, l, k)}) < b.limit}
Shown(b) == IF b.filterCond THEN ReadBy(b) \cap Matching ELSE ReadBy(b)
LastEvaluated(b) ==
    IF b.limit # 0 /\ Cardinality(ReadBy(b)) = b.limit
    THEN CHOOSE k \in ReadBy(b) : \A l \in ReadBy(b) : ~Before(b, k, l)
    ELSE Unset

(* unmarshalResults: the token is the JSON of the last key. *)
TokenOf_NoItems(b) == IF Shown(b) = {} THEN Unset ELSE LastEvaluated(b)
TokenOf(b) == LastEvaluated(b)

(* LastKey, WithLastEvaluatedKey: an empty token changes nothing; any other *)
(* is read back into a map of interfaces, which json.Unmarshal leaves nil.  *)
StartFrom(b, token) ==
    IF token = Unset THEN b ELSE [b EXCEPT !.lastKey = Hollow]

(* The filters given to Exec are added to the builder, and stay.           *)
Apply(b, filters) ==
    [b EXCEPT !.keyCond = @ \/ "WithKeyCondition" \in filters,
              !.filterCond = @ \/ "WithFilter" \in filters,
              !.indexName = @ \/ "WithIndex" \in filters]
Filters == {{}, {"WithFilter"}, {"WithKeyCondition", "WithIndex"}}

(* Query, Scan and the fluent methods. *)
Build(c) ==
    /\ c \in Batcher
    /\ call[c].op = "idle" /\ query[c].pc = "none"
    /\ \E b \in Blueprints :
        query' = [query EXCEPT ![c] = [NoQuery EXCEPT !.pc = "built",
                                                      !.builder = b]]
    /\ reply' = NoReply
    /\ UNCHANGED <<conf, storeCfg, table, call>>

(* Exec.  DynamoDB refuses a start key that is not a key of the table, or  *)
(* an emulation of it reads from the beginning.                            *)
Exec(c) ==
    /\ query[c].pc = "built"
    /\ query[c].pages < MaxPages
    /\ \E filters \in Filters :
        LET b == Apply(query[c].builder, filters)
        IN  \/ /\ Named(storeCfg, 1)
               /\ query' = [query EXCEPT ![c] =
                    [query[c] EXCEPT !.pc = "page", !.builder = b, !.pages = @ + 1,
                              !.token = TokenOf(b), !.seen = @ \cup Shown(b)]]
            \/ query' = [query EXCEPT ![c] =
                    [query[c] EXCEPT !.pc = "failed", !.builder = b, !.pages = @ + 1]]
    /\ reply' = NoReply
    /\ UNCHANGED <<conf, storeCfg, table, call>>

(* The caller hands the token back for the next page. *)
NextPage(c) ==
    /\ query[c].pc = "page"
    /\ query[c].token # Unset
    /\ query' = [query EXCEPT ![c] =
        [query[c] EXCEPT !.pc = "built", !.builder = StartFrom(@, query[c].token)]]
    /\ reply' = NoReply
    /\ UNCHANGED <<conf, storeCfg, table, call>>

(* The caller is done with the builder. *)
Forget(c) ==
    /\ query[c].pc # "none"
    /\ query' = [query EXCEPT ![c] = NoQuery]
    /\ reply' = NoReply
    /\ UNCHANGED <<conf, storeCfg, table, call>>

(* A step of the store, seen by the queries of the others. *)
StoreStep(c) ==
    /\ query[c].pc = "none"
    /\ StoreNext(c)
    /\ query' = [d \in Client |->
        IF query[d].pc = "none" THEN query[d]
        ELSE [query[d] EXCEPT
                !.touched = @ \cup {k \in Key : table'[k] # table[k]}]]

Next ==
    \E c \in Client :
        \/ StoreStep(c)
        \/ Build(c)
        \/ Exec(c)
        \/ NextPage(c)
        \/ Forget(c)

Spec == Init /\ [][Next]_vars
-----------------------------------------------------------------------------
(* query.go:184-189: an Exec that gives back an empty token has finished:  *)
(* every item that was there throughout and that the builder asks for has  *)
(* been handed out, however many pages the filter left empty, and nothing  *)
(* outside the builder's conditions.                                       *)
EmptyTokenMeansComplete ==
    \A c \in Client : query[c].pc = "page" =>
        LET b == query[c].builder
            Asked == IF b.filterCond THEN Scope(b) \cap Matching ELSE Scope(b)
        IN  query[c].token = Unset =>
                \A k \in Asked \ query[c].touched :
                    table[k] # Absent => k \in query[c].seen

(* query.go:100-101: a token returned by Exec and handed to LastKey is     *)
(* where the next query starts.                                            *)
TokenContinuesPage ==
    \A c \in Client :
        query[c].pc = "built" /\ query[c].token # Unset =>
            query[c].builder.lastKey = query[c].token
=============================================================================
