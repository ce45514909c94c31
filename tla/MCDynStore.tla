----------------------------- MODULE MCDynStore -----------------------------
(* Configurations of DynStore and DynQuery for TLC. *)
EXTENDS DynQuery

CONSTANTS c1, c2

Keys == 1..2

(* Groups of two: one, exactly one, and more than one group; a key twice in *)
(* a group, in two groups, and both put and deleted.                        *)
SomeWrites ==
    {[puts |-> <<>>, deletes |-> <<>>],
     [puts |-> <<1, 1>>, deletes |-> <<2>>],
     [puts |-> <<1, 2>>, deletes |-> <<1>>],
     [puts |-> <<1, 2>>, deletes |-> <<2, 1>>]}
SomeLookups == {<<>>, <<2, 2>>, <<2, 1, 2>>}

Names(S) == [i \in 1..4 |-> IF i \in S THEN Word(i) ELSE Blank]
Env(S) == [v \in {"TableName", "HashKey", "SortKey", "TTLAttribute"} |->
            IF \E i \in S : Fields[i] = v THEN Word(9) ELSE Blank]
Given(S, T, sorted) == [caller |-> Names(S), env |-> Env(T), sorted |-> sorted]

(* Names from the caller, from the environment, some from each, or missing, *)
(* for tables with and without a sort key.                                  *)
SomeTables ==
    {Given({1, 2, 3}, {}, TRUE), Given({1, 2}, {1, 2, 3}, FALSE),
     Given({}, {1, 2, 3}, TRUE), Given({3}, {1}, TRUE)}

Made(scan, key, filter, index, forward, limit) ==
    [isScan |-> scan, keyCond |-> key, filterCond |-> filter,
     indexName |-> index, forward |-> forward, limit |-> limit, lastKey |-> 0]
SomeBuilders ==
    {Made(TRUE, FALSE, FALSE, FALSE, FALSE, 2),
     Made(TRUE, FALSE, TRUE, FALSE, FALSE, 1),
     Made(FALSE, FALSE, FALSE, TRUE, TRUE, 0),
     Made(FALSE, TRUE, FALSE, FALSE, FALSE, 1),
     Made(FALSE, TRUE, TRUE, FALSE, TRUE, 2)}

(* loadStruct as its loop runs: the fields one by one, until one fails.    *)
Walk(fields, env, old) ==
    LET step[n \in 0..Len(fields)] ==
            IF n = 0 THEN [val |-> old, failed |-> FALSE]
            ELSE LET s == step[n - 1] f == fields[n] IN
                 IF s.failed \/ Refuses(f, env) THEN [s EXCEPT !.failed = TRUE]
                 ELSE [s EXCEPT !.val[n] = SetField(f, env, @)]
    IN  step[Len(fields)]

Texts == {Blank, Word(1), Number(300), Number(-1), Truth(TRUE)}
SomeFields ==
    [kind : {"string", "int", "uint", "bool", "slice"}, bits : {8},
     var : {"", "X"}, default : {Blank, Number(1)}]
    \cup {[kind |-> "pointer", bits |-> 0, var |-> "", default |-> Blank]}
ASSUME EnvWalk ==
    \A f, g, h \in SomeFields, x \in Texts :
        LET fields == <<f, g, h>> env == [v \in {"X"} |-> x]
            old == <<Word(7), Word(8), Word(9)>>
        IN  Walk(fields, env, old) = [val |-> LoadStruct(fields, env, old),
                                      failed |-> LoadFails(fields, env)]
=============================================================================
