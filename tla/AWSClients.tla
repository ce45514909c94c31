----------------------------- MODULE AWSClients -----------------------------
(***************************************************************************)
(* pkg/enrichment/aws_shared.go and aws_data.go: the two process-wide      *)
(* values through which every AWS call goes.  GetAWSConfig fills `awsCfg`  *)
(* once, under a sync.Once; getDynamoClient fills `dynamoClient` when it   *)
(* finds nil, under nothing.                                               *)
(***************************************************************************)
EXTENDS Naturals, FiniteSets, Sequences

CONSTANTS
    Caller,         \* goroutines that may need AWS
    Region,         \* the regions they ask for
    Nil             \* no client, no configuration

ASSUME ClientsAssumption == Nil \notin Region

VARIABLES
    once,           \* awsOnce
    awsCfg,         \* the region of awsCfg; Nil: awsErr, or not yet filled
    dynamoClient,   \* the region of dynamoClient
    ask,            \* ask[c]: what c needs and how far it got
    used            \* history: what was asked for and what was handed out

clientVars == <<once, awsCfg, dynamoClient, ask, used>>

(* SSM, Secrets Manager and S3 share one configuration; DynamoDB has its   *)
(* client.                                                                 *)
Kind == {"config", "dynamo"}
Idle == [pc |-> "idle", kind |-> "config", region |-> Nil, got |-> Nil]

Ask == [pc : {"idle", "asked", "loading", "creating", "created", "ready", "failed"},
        kind : Kind, region : Region \cup {Nil}, got : Region \cup {Nil}]

ClientsTypeOK ==
    /\ once \in {"new", "running", "done"}
    /\ awsCfg \in Region \cup {Nil}
    /\ dynamoClient \in Region \cup {Nil}
    /\ ask \in [Caller -> Ask]
    /\ used \subseteq [kind : Kind, region : Region, got : Region \cup {Nil}]

ClientsInit ==
    /\ once = "new"
    /\ awsCfg = Nil
    /\ dynamoClient = Nil
    /\ ask = [c \in Caller |-> Idle]
    /\ used = {}

-----------------------------------------------------------------------------
(* A Process... function is called. *)
Asks(c, kind, region) ==
    ask' = [ask EXCEPT ![c] = [Idle EXCEPT !.pc = "asked", !.kind = kind,
                                           !.region = region]]

(* A client, or an error, is handed to c. *)
Hand(c, got) ==
    /\ ask' = [ask EXCEPT ![c].pc = IF got = Nil THEN "failed" ELSE "ready",
                          ![c].got = got]
    /\ used' = used \cup {[kind |-> ask[c].kind, region |-> ask[c].region,
                           got |-> got]}

(* awsOnce.Do: the first caller loads, with its region and its context; the *)
(* others wait until it is done.                                            *)
EnterOnce(c) ==
    /\ ask[c].pc = "asked" /\ ask[c].kind = "config"
    /\ once = "new"
    /\ once' = "running"
    /\ ask' = [ask EXCEPT ![c].pc = "loading"]
    /\ UNCHANGED <<awsCfg, dynamoClient, used>>

LoadDefaultConfig(c) ==
    /\ ask[c].pc = "loading"
    /\ once' = "done"
    /\ awsCfg' \in {ask[c].region, Nil}
    /\ ask' = [ask EXCEPT ![c].pc = "asked"]
    /\ UNCHANGED <<dynamoClient, used>>

GetAWSConfig(c) ==
    /\ ask[c].pc = "asked" /\ ask[c].kind = "config"
    /\ once = "done"
    /\ Hand(c, awsCfg)
    /\ UNCHANGED <<once, awsCfg, dynamoClient>>

(* getDynamoClient: the test for nil, the creation, and the return, which  *)
(* reads the variable again.                                               *)
FindClient(c) ==
    /\ ask[c].pc = "asked" /\ ask[c].kind = "dynamo"
    /\ IF dynamoClient # Nil
       THEN Hand(c, dynamoClient)
       ELSE ask' = [ask EXCEPT ![c].pc = "creating"] /\ UNCHANGED used
    /\ UNCHANGED <<once, awsCfg, dynamoClient>>

NewClient(c) ==
    /\ ask[c].pc = "creating"
    /\ \/ /\ dynamoClient' = ask[c].region
          /\ ask' = [ask EXCEPT ![c].pc = "created"]
          /\ UNCHANGED used
       \/ /\ Hand(c, Nil)
          /\ UNCHANGED dynamoClient
    /\ UNCHANGED <<once, awsCfg>>

ReturnClient(c) ==
    /\ ask[c].pc = "created"
    /\ Hand(c, dynamoClient)
    /\ UNCHANGED <<once, awsCfg, dynamoClient>>

ClientStep(c) ==
    \/ EnterOnce(c) \/ LoadDefaultConfig(c) \/ GetAWSConfig(c)
    \/ FindClient(c) \/ NewClient(c) \/ ReturnClient(c)
-----------------------------------------------------------------------------
(* README.md:40-42, 55-57, 68-71, 88-90 give every source a region of its   *)
(* own: a call goes to the region its caller asked for, unless there is no *)
(* client at all.  aws_shared.go:19 and aws_data.go:22 keep the first one. *)
RegionIsTheCallers == \A u \in used : u.got # Nil => u.got = u.region
=============================================================================
