------------------------- MODULE ServiceDataProofs --------------------------
(***************************************************************************)
(* What holds of the texts of any configuration, for any number of         *)
(* requests and regions.                                                   *)
(***************************************************************************)
EXTENDS ServiceData, TLAPS

(* The eight kinds of place, by name. *)
LEMMA Places ==
    /\ Len(Order) = 8
    /\ Order[1] = "name" /\ Order[2] = "secret" /\ Order[3] = "param" /\ Order[4] = "nested"
    /\ Order[5] = "body" /\ Order[6] = "prose" /\ Order[7] = "url" /\ Order[8] = "field"
    /\ Position = {"name", "secret", "param", "nested", "body", "prose", "url", "field"}
<1>1. /\ Len(Order) = 8
      /\ Order[1] = "name" /\ Order[2] = "secret" /\ Order[3] = "param" /\ Order[4] = "nested"
      /\ Order[5] = "body" /\ Order[6] = "prose" /\ Order[7] = "url" /\ Order[8] = "field"
  BY DEF Order
<1>2. 1..8 = {1, 2, 3, 4, 5, 6, 7, 8}
  OBVIOUS
<1> QED BY <1>1, <1>2 DEF Position

LEMMA AtPlace ==
    /\ \A i \in 1..8 : Order[i] \in Position
    /\ \A i, j \in 1..8 : Order[i] = Order[j] => i = j
<1>1. 1..8 = {1, 2, 3, 4, 5, 6, 7, 8}
  OBVIOUS
<1> QED BY <1>1, Places

(* A request with its end, and one whose source is asked. *)
LEMMA EndsAs ==
    ASSUME req \in [Request -> Served], NEW r \in Request, NEW result, Ends(r, result)
    PROVE  req' = [req EXCEPT ![r] = [req[r] EXCEPT !.pc = "done", !.result = result]]
BY DEF Ends, Served

LEMMA PcAs ==
    ASSUME req \in [Request -> Served], NEW r \in Request, NEW pc, req' = [req EXCEPT ![r].pc = pc]
    PROVE  req' = [req EXCEPT ![r] = [req[r] EXCEPT !.pc = pc]]
BY DEF Served

Move(r, new) == req' = [req EXCEPT ![r] = new]

-----------------------------------------------------------------------------
(* Goroutines that ask for a client: what a step of one of them changes.   *)
LEMMA AskChanges ==
    ASSUME ClientsTypeOK, NEW c \in Caller, ClientStep(c)
    PROVE  /\ \E pc \in {"asked", "loading", "creating", "created", "ready", "failed"},
                 got \in Region \cup {Nil} :
                ask' = [ask EXCEPT ![c].pc = pc, ![c].got = got]
           /\ ask[c].pc # "idle"
<1> USE DEF ClientsTypeOK, Ask
<1>1. ask[c] \in Ask /\ ask[c].got \in Region \cup {Nil}
  OBVIOUS
<1>2. ASSUME NEW pc, ask' = [ask EXCEPT ![c].pc = pc]
      PROVE  ask' = [ask EXCEPT ![c].pc = pc, ![c].got = ask[c].got]
  BY <1>1, <1>2
<1>3. CASE EnterOnce(c)
  BY <1>1, <1>2, <1>3 DEF EnterOnce
<1>4. CASE LoadDefaultConfig(c)
  BY <1>1, <1>2, <1>4 DEF LoadDefaultConfig
<1>5. CASE GetAWSConfig(c)
  BY <1>5 DEF GetAWSConfig, Hand
<1>6. CASE FindClient(c)
  BY <1>1, <1>2, <1>6 DEF FindClient, Hand
<1>7. CASE NewClient(c)
  BY <1>1, <1>2, <1>7 DEF NewClient, Hand
<1>8. CASE ReturnClient(c)
  BY <1>8 DEF ReturnClient, Hand
<1> QED BY <1>3, <1>4, <1>5, <1>6, <1>7, <1>8 DEF ClientStep

(* Whoever asks has a region in mind. *)
Asking == \A c \in Caller : ask[c].pc # "idle" => ask[c].region \in Region

LEMMA InitType == Init => TypeOK /\ Asking
<1> SUFFICES ASSUME Init PROVE TypeOK /\ Asking
  OBVIOUS
<1>1. ClientsTypeOK /\ Asking
  BY DEF Init, ClientsInit, ClientsTypeOK, Ask, Idle, Kind, Asking
<1>2. text \in [Position -> Text] /\ conf \in Configurations
  BY DataAssumption DEF Init, Text, Configuration
<1>3. NoRequest \in Served /\ NoRequest.pc = "none" /\ NoRequest.result = "none"
  BY DEF NoRequest, Served, Input, Body
<1>4. req \in [Request -> Served] /\ \A r \in Request : req[r].pc = "done" <=> req[r].result # "none"
  BY <1>3 DEF Init
<1> QED BY <1>1, <1>2, <1>4, Places DEF Init, TypeOK

LEMMA ClientType ==
    ASSUME ClientsTypeOK, Asking, NEW c \in Caller, ClientStep(c)
    PROVE  ClientsTypeOK' /\ Asking'
<1>1. PICK pc \in {"asked", "loading", "creating", "created", "ready", "failed"},
           got \in Region \cup {Nil} :
        ask' = [ask EXCEPT ![c].pc = pc, ![c].got = got]
  BY AskChanges
<1>2. ask[c] \in Ask /\ ask[c].pc # "idle" /\ ask[c].region \in Region /\ ask[c].kind \in Kind
  BY AskChanges DEF ClientsTypeOK, Ask, Asking
<1>3. ask' \in [Caller -> Ask] /\ Asking'
  BY <1>1, <1>2 DEF ClientsTypeOK, Ask, Asking
<1>4. ASSUME NEW given \in Region \cup {Nil}, Hand(c, given)
      PROVE  used' \subseteq [kind : Kind, region : Region, got : Region \cup {Nil}]
  BY <1>2, <1>4 DEF Hand, ClientsTypeOK
<1> USE <1>2, <1>3, <1>4 DEF ClientsTypeOK
<1>5. CASE EnterOnce(c)
  BY <1>5 DEF EnterOnce
<1>6. CASE LoadDefaultConfig(c)
  BY <1>6 DEF LoadDefaultConfig
<1>7. CASE GetAWSConfig(c)
  BY <1>7 DEF GetAWSConfig
<1>8. CASE FindClient(c)
  BY <1>8 DEF FindClient
<1>9. CASE NewClient(c)
  BY <1>9 DEF NewClient
<1>10. CASE ReturnClient(c)
  BY <1>10 DEF ReturnClient
<1> QED BY <1>5, <1>6, <1>7, <1>8, <1>9, <1>10 DEF ClientStep

LEMMA AsksType ==
    ASSUME ClientsTypeOK, Asking, NEW c \in Caller, NEW kind \in Kind, NEW region \in Region,
           Asks(c, kind, region), UNCHANGED <<once, awsCfg, dynamoClient, used>>
    PROVE  ClientsTypeOK' /\ Asking'
BY DEF Asks, Idle, ClientsTypeOK, Ask, Asking

LEMMA IdleType ==
    ASSUME ClientsTypeOK, Asking, NEW c \in Caller, ask' = [ask EXCEPT ![c] = Idle],
           UNCHANGED <<once, awsCfg, dynamoClient, used>>
    PROVE  ClientsTypeOK' /\ Asking'
BY DEF Idle, ClientsTypeOK, Ask, Asking, Kind

-----------------------------------------------------------------------------
(* Where the injector is, and what it made of the texts it has passed.     *)
Loaded == {"starting", "serving", "valid", "invalid", "crashed"}
After == Loaded \cup {"validating"}

From(p) ==
    \/ text[p] = conf.text[p]
    \/ ~Unseen(p) /\ conf.text[p] = "env" /\ text[p] = "value"
    \/ ~Unseen(p) /\ conf.text[p] = "unset" /\ text[p] = "blank"
    \/ ~Unseen(p) /\ conf.text[p] = "aws" /\ text[p] = "value"
    \/ ~Unseen(p) /\ p \notin Strict /\ conf.text[p] = "aws" /\ text[p] = "raw"

Progress ==
    /\ boot \in {"reading", "injecting"} => at \in 1..8
    /\ boot \in After => at = 9
    /\ boot \in Loaded => conf.steps \/ conf.graphql
    /\ boot = "serving" /\ conf.steps => text["body"] \notin {"raw", "aws"}
    /\ boot = "crashed" => ~conf.steps \/ conf.output # "texts"
    /\ boot = "valid" =>
            text["body"] \in {"plain", "value"} /\ conf.output = "texts" /\ conf.decodes
    /\ boot = "injecting" /\ ask[loader].pc # "idle" =>
            ~Unseen(Order[at]) /\ text[Order[at]] = "aws"
    /\ boot # "injecting" => ask[loader].pc = "idle"

Injections ==
    /\ \A p \in Position : From(p)
    /\ \A i \in 1..8 : i < at /\ ~Unseen(Order[i]) =>
            text[Order[i]] \notin {"env", "unset", "aws"}

(* What a request was made of, and what it passed on its way. *)
Passing ==
    \A r \in Request :
        /\ req[r].pc # "none" =>
            /\ boot = "serving"
            /\ req[r].payload = Payload(req[r].in) /\ req[r].name = NameOf(req[r].in)
        /\ ask[r].pc # "idle" => req[r].pc = "source"
        /\ req[r].pc \in {"source", "sourced"} =>
            IF req[r].in.via = "graphql" THEN FieldResolves(text["field"])
            ELSE conf.steps /\ conf.decodes /\ Resolves(text["param"], req[r].name)
        /\ req[r].pc = "sourced" => req[r].in.via # "graphql"

LEMMA InitLoads == Init => Progress /\ Injections /\ Passing
<1> SUFFICES ASSUME Init PROVE Progress /\ Injections /\ Passing
  OBVIOUS
<1>1. \A c \in Caller : ask[c].pc = "idle"
  BY DEF Init, ClientsInit, Idle
<1>2. boot = "reading" /\ at = 1 /\ text = conf.text /\ \A r \in Request : req[r].pc = "none"
  BY DEF Init, NoRequest
<1> QED BY <1>1, <1>2, DataAssumption DEF Progress, Injections, Passing, From, After, Loaded

(* Leave: one text replaced, and on to the next. *)
LEMMA LeaveStep ==
    ASSUME TypeOK, Progress, Injections, NEW new \in Text, Leave(new), boot = "injecting",
           UNCHANGED conf, ask'[loader].pc = "idle",
           \/ Unseen(Order[at]) /\ new = text[Order[at]]
           \/ ~Unseen(Order[at]) /\ text[Order[at]] # "aws" /\ new = Injected(text[Order[at]])
           \/ /\ ~Unseen(Order[at]) /\ text[Order[at]] = "aws"
              /\ (new = "value" \/ (new = "raw" /\ Order[at] \notin Strict))
    PROVE  Progress' /\ Injections' /\ text' \in [Position -> Text] /\ at' \in 1..9
           /\ boot' \in {"injecting", "validating"}
<1>0. at \in 1..8 /\ Order[at] \in Position
  BY AtPlace DEF Progress
<1>p. PICK p \in Position : p = Order[at]
  BY <1>0
<1>1. at \in 1..8 /\ Len(Order) = 8 /\ text \in [Position -> Text]
      /\ \A i \in 1..8 : Order[i] = p => i = at
  BY <1>0, <1>p, AtPlace, Places DEF TypeOK
<1>2. /\ text' = [text EXCEPT ![p] = new] /\ at' = at + 1
      /\ boot' = IF at = 8 THEN "validating" ELSE "injecting"
  BY <1>1, <1>p DEF Leave
<1>3. text'[p] = new /\ \A q \in Position : q # p => text'[q] = text[q]
  BY <1>1, <1>2
<1>4. From(p)
  BY <1>1 DEF Injections
<1>5. conf.text[p] \in Written
  BY <1>1, DataAssumption DEF TypeOK, Configuration
<1>6. Unseen(p) => new = text[p]
  BY <1>p
<1>7. ~Unseen(p) => \/ text[p] # "aws" /\ new = Injected(text[p])
                    \/ text[p] = "aws" /\ (new = "value" \/ (new = "raw" /\ p \notin Strict))
  BY <1>p
<1>8. From(p)'
  <2>1. CASE Unseen(p)
    BY <1>3, <1>4, <1>6, <2>1 DEF From, Unseen
  <2>2. CASE ~Unseen(p) /\ text[p] = "aws"
    BY <1>3, <1>4, <1>5, <1>7, <2>2 DEF From, Written, Unseen
  <2>3. CASE ~Unseen(p) /\ text[p] # "aws"
    BY <1>3, <1>4, <1>5, <1>7, <2>3 DEF From, Written, Injected, Unseen
  <2> QED BY <2>1, <2>2, <2>3
<1>9. \A q \in Position : From(q)'
  BY <1>3, <1>8 DEF Injections, From, Unseen
<1>10. ~Unseen(p) => new \notin {"env", "unset", "aws"}
  BY <1>7 DEF Injected
<1>11. ASSUME NEW i \in 1..8, i < at + 1, ~Unseen(Order[i])
       PROVE  text'[Order[i]] \notin {"env", "unset", "aws"}
  <2>1. CASE i = at
    BY <1>3, <1>10, <1>11, <1>p, <2>1
  <2>2. CASE i # at
    <3>1. i < at /\ Order[i] # p /\ Order[i] \in Position
      BY <1>1, <1>11, <2>2, AtPlace
    <3> QED BY <1>3, <1>11, <3>1 DEF Injections
  <2> QED BY <2>1, <2>2
<1>12. Injections'
  BY <1>2, <1>9, <1>11 DEF Injections, Unseen
<1>13. at' \in 1..9 /\ (at # 8 => at' \in 1..8) /\ (at = 8 => at' = 9)
  BY <1>1, <1>2
<1>14. Progress'
  BY <1>2, <1>13 DEF Progress, After, Loaded, Unseen
<1> QED BY <1>1, <1>2, <1>12, <1>13, <1>14

Inv == TypeOK /\ Asking /\ Progress /\ Injections /\ Passing

(* What leaves is a text with the place it had. *)
LEMMA Sends ==
    ASSUME text \in [Position -> Text], NEW to \in {"provider", "source", "target", "client"},
           NEW places \in SUBSET Position
    PROVE  Send(to, places) \subseteq Sending
<1>1. \A p \in places : Leaving(p) \in Text
  BY DEF Leaving, Text
<1> QED BY <1>1 DEF Send, Sending

(* No request is there before the service is. *)
LEMMA LoaderAlone ==
    ASSUME Inv, boot # "serving", UNCHANGED req, \A r \in Request : ask'[r] = ask[r]
    PROVE  Passing'
BY DEF Inv, Passing

LEMMA LoaderStep ==
    ASSUME Inv, ReadSource \/ Inject \/ LookUp \/ LookedUp \/ Validate \/ Analyze \/ StartService
    PROVE  Inv'
<1> USE DEF Inv
<1>0. /\ loader \in Caller /\ (\A r \in Request : r \in Caller /\ r # loader)
      /\ text \in [Position -> Text] /\ Idle.pc = "idle"
  BY DataAssumption DEF TypeOK, Idle
<1>1. CASE ReadSource
  BY <1>1, LoaderAlone DEF ReadSource, clientVars, TypeOK, ClientsTypeOK, Asking, Progress,
     Injections, From, Unseen, After, Loaded
<1>2. CASE Inject
  <2>1. at \in 1..8 /\ Order[at] \in Position /\ text[Order[at]] \in Text
    BY <1>0, <1>2, AtPlace DEF Inject, Progress
  <2>2. PICK new \in Text :
          /\ new = IF Unseen(Order[at]) THEN text[Order[at]] ELSE Injected(text[Order[at]])
          /\ Leave(new)
    BY <1>2, <2>1 DEF Inject, Injected, Text, Written
  <2>3. ask[loader].pc = "idle"
    BY <1>2 DEF Inject, Progress
  <2>4. /\ Progress' /\ Injections' /\ text' \in [Position -> Text] /\ at' \in 1..9
        /\ boot' \in {"injecting", "validating"}
    BY <1>2, <2>2, <2>3, LeaveStep DEF Inject, clientVars
  <2> QED BY <1>2, <2>4, Places, LoaderAlone DEF Inject, clientVars, TypeOK, ClientsTypeOK, Asking
<1>3. CASE LookUp
  <2>1. ClientsTypeOK' /\ Asking'
    BY <1>0, <1>3, AsksType, DataAssumption DEF LookUp, TypeOK, Kind
  <2>2. \A r \in Request : ask'[r] = ask[r]
    BY <1>0, <1>3 DEF LookUp, Asks
  <2> QED BY <1>3, <2>1, <2>2, LoaderAlone DEF LookUp, TypeOK, Progress, Injections, From, Unseen, After, Loaded
<1>4. CASE LookedUp
  <2>1. ClientsTypeOK' /\ Asking' /\ ask'[loader].pc = "idle" /\ \A r \in Request : ask'[r] = ask[r]
    <3>1. ClientsTypeOK' /\ Asking'
      BY <1>0, <1>4, IdleType DEF LookedUp, TypeOK
    <3> QED BY <1>0, <1>4, <3>1 DEF LookedUp, TypeOK, ClientsTypeOK
  <2>2. Passing'
    BY <1>4, <2>1, LoaderAlone DEF LookedUp
  <2>3. ~Unseen(Order[at]) /\ text[Order[at]] = "aws"
    BY <1>4 DEF LookedUp, Progress
  <2>4. ASSUME NEW new \in {"value", "raw"}, Leave(new), new = "raw" => Order[at] \notin Strict
        PROVE  Inv'
    <3>1. new \in Text /\ boot = "injecting" /\ UNCHANGED conf
      BY <1>4 DEF LookedUp, Text
    <3>2. /\ Progress' /\ Injections' /\ text' \in [Position -> Text] /\ at' \in 1..9
          /\ boot' \in {"injecting", "validating"}
      <4>1. new = "value" \/ (new = "raw" /\ Order[at] \notin Strict)
        BY <2>4
      <4>2. TypeOK /\ Progress /\ Injections /\ Leave(new) /\ ask'[loader].pc = "idle"
        BY <2>1, <2>4
      <4> HIDE DEF Inv
      <4> QED BY <2>3, <3>1, <4>1, <4>2, LeaveStep
    <3> QED BY <1>4, <2>1, <2>2, <3>2, Places DEF LookedUp, TypeOK
  <2>5. CASE boot' = "down" /\ UNCHANGED <<text, at>>
    BY <1>4, <2>1, <2>2, <2>5 DEF LookedUp, TypeOK, Progress, Injections, From, Unseen, After, Loaded
  <2> QED BY <1>4, <2>4, <2>5 DEF LookedUp, LookUpFails
<1>5. CASE Validate
  BY <1>5, LoaderAlone DEF Validate, clientVars, TypeOK, ClientsTypeOK, Asking, Progress,
     Injections, From, Unseen, After, Loaded
<1>6. CASE Analyze
  BY <1>6, LoaderAlone DEF Analyze, clientVars, TypeOK, ClientsTypeOK, Asking, Progress,
     Injections, From, Unseen, After, Loaded
<1>7. CASE StartService
  <2>1. boot = "starting" /\ boot' \in {"serving", "down"} /\ UNCHANGED <<conf, at, text, req, clientVars>>
        /\ (boot' = "serving" /\ conf.steps => text["body"] \notin {"raw", "aws"})
    BY <1>7 DEF StartService, Compiles
  <2>2. sent' \subseteq Sending
    <3>1. Send("provider", {"secret"}) \subseteq Sending
      BY <1>0, Sends, Places DEF TypeOK
    <3>2. sent' = sent \/ sent' = sent \cup Send("provider", {"secret"})
      BY <1>7 DEF StartService
    <3> QED BY <3>1, <3>2 DEF TypeOK
  <2> QED BY <2>1, <2>2, LoaderAlone DEF clientVars, TypeOK, ClientsTypeOK, Asking, Progress,
      Injections, From, Unseen, After, Loaded
<1> QED BY <1>1, <1>2, <1>3, <1>4, <1>5, <1>6, <1>7

LEMMA AskInv ==
    ASSUME Inv, NEW c \in Caller, AskStep(c)
    PROVE  Inv'
<1>1. ClientsTypeOK' /\ Asking'
  BY ClientType DEF Inv, TypeOK, AskStep
<1>2. /\ ask[c].pc # "idle"
      /\ \A d \in Caller : d # c => ask'[d] = ask[d]
      /\ ask'[c].pc # "idle"
  <2>1. PICK pc \in {"asked", "loading", "creating", "created", "ready", "failed"},
             got \in Region \cup {Nil} :
          ask' = [ask EXCEPT ![c].pc = pc, ![c].got = got]
    BY AskChanges DEF Inv, TypeOK, AskStep
  <2>2. ask[c] \in Ask /\ ask \in [Caller -> Ask] /\ ask[c].pc # "idle"
    BY AskChanges DEF Inv, TypeOK, ClientsTypeOK, AskStep
  <2> QED BY <2>1, <2>2 DEF Ask
<1>3. loader \in Caller /\ \A r \in Request : r \in Caller
  BY DataAssumption
<1>4. Passing'
  BY <1>2, <1>3 DEF AskStep, Inv, Passing
<1>5. Progress'
  BY <1>2, <1>3 DEF AskStep, Inv, Progress, Unseen
<1> QED BY <1>1, <1>4, <1>5 DEF AskStep, Inv, TypeOK, Injections, From, Unseen

(* A request moves on, and only it. *)
LEMMA MoveStep ==
    ASSUME Inv, NEW r \in Request, NEW new \in Served, Move(r, new), boot = "serving",
           UNCHANGED <<conf, boot, at, text>>,
           ClientsTypeOK', Asking', \A c \in Caller : c # r => ask'[c] = ask[c],
           new.pc = "done" <=> new.result # "none", new.pc # "none",
           new.payload = Payload(new.in), new.name = NameOf(new.in),
           ask'[r].pc # "idle" => new.pc = "source",
           new.pc \in {"source", "sourced"} =>
                IF new.in.via = "graphql" THEN FieldResolves(text["field"])
                ELSE conf.steps /\ conf.decodes /\ Resolves(text["param"], new.name),
           new.pc = "sourced" => new.in.via # "graphql",
           sent' \subseteq Sending
    PROVE  Inv'
<1>1. req'[r] = new /\ req' \in [Request -> Served] /\ \A s \in Request : s # r => req'[s] = req[s]
  BY DEF Inv, TypeOK, Move
<1>2. loader \in Caller /\ loader # r /\ \A s \in Request : s \in Caller
  BY DataAssumption
<1>3. TypeOK'
  BY <1>1 DEF Inv, TypeOK
<1>4. Passing'
  BY <1>1, <1>2 DEF Inv, Passing
<1>5. Progress'
  BY <1>2 DEF Inv, Progress
<1> QED BY <1>3, <1>4, <1>5 DEF Inv, Injections, From, Unseen

LEMMA EndStep ==
    ASSUME Inv, NEW r \in Request, NEW result \in {"400", "500", "rejected", "200", "502", "data", "field error"},
           Ends(r, result), req[r].pc # "none", UNCHANGED <<conf, boot, at, text>>,
           ClientsTypeOK', Asking', \A c \in Caller : c # r => ask'[c] = ask[c], ask'[r].pc = "idle",
           sent' \subseteq Sending
    PROVE  Inv'
<1> DEFINE new == [req[r] EXCEPT !.pc = "done", !.result = result]
<1>1. req[r] \in Served /\ boot = "serving"
      /\ req[r].payload = Payload(req[r].in) /\ req[r].name = NameOf(req[r].in)
  BY DEF Inv, TypeOK, Passing
<1>2. new \in Served /\ new.pc = "done" /\ new.result = result /\ new.payload = req[r].payload
      /\ new.name = req[r].name /\ new.in = req[r].in
  BY <1>1 DEF Served
<1>3. Move(r, new)
  BY EndsAs DEF Move, Inv, TypeOK
<1> HIDE DEF new
<1> QED BY <1>1, <1>2, <1>3, MoveStep

(* The source of r is asked for. *)
LEMMA SourceStep ==
    ASSUME Inv, NEW r \in Request, NEW kind \in Kind, NEW region \in Region,
           req[r].pc = "received", req' = [req EXCEPT ![r].pc = "source"], Asks(r, kind, region),
           UNCHANGED <<conf, boot, at, text, sent, once, awsCfg, dynamoClient, used>>,
           IF req[r].in.via = "graphql" THEN FieldResolves(text["field"])
           ELSE conf.steps /\ conf.decodes /\ Resolves(text["param"], req[r].name)
    PROVE  Inv'
<1> DEFINE new == [req[r] EXCEPT !.pc = "source"]
<1>1. req[r] \in Served /\ boot = "serving" /\ req[r].result = "none" /\ r \in Caller
      /\ req[r].payload = Payload(req[r].in) /\ req[r].name = NameOf(req[r].in)
  BY DataAssumption DEF Inv, TypeOK, Passing
<1>2. new \in Served /\ new.pc = "source" /\ new.result = "none" /\ new.payload = req[r].payload
      /\ new.name = req[r].name /\ new.in = req[r].in
  BY <1>1 DEF Served
<1>3. ClientsTypeOK' /\ Asking' /\ \A c \in Caller : c # r => ask'[c] = ask[c]
  <2>1. ClientsTypeOK' /\ Asking'
    BY <1>1, AsksType DEF Inv, TypeOK
  <2> QED BY <2>1 DEF Asks, Inv, TypeOK, ClientsTypeOK
<1>4. sent' \subseteq Sending
  BY DEF Inv, TypeOK
<1>5. Move(r, new)
  BY PcAs DEF Move, Inv, TypeOK
<1> HIDE DEF new
<1> QED BY <1>1, <1>2, <1>3, <1>4, <1>5, MoveStep

LEMMA RequestStep ==
    ASSUME Inv, NEW r \in Request, Receive(r) \/ Execute(r) \/ Resolve(r) \/ Sourced(r) \/ Finish(r)
    PROVE  Inv'
<1>0. /\ r \in Caller /\ ClientsTypeOK /\ Asking /\ text \in [Position -> Text] /\ req[r] \in Served
      /\ sent \subseteq Sending
      /\ conf.kind \in Kind /\ conf.steps \in BOOLEAN
  BY DataAssumption DEF Inv, TypeOK, Configuration
<1>1. CASE Receive(r)
  <2>1. PICK in \in Inputs :
          Move(r, [NoRequest EXCEPT
                !.in = in, !.payload = Payload(in), !.name = NameOf(in),
                !.pc = IF HandlerPanics(in) THEN "done" ELSE "received",
                !.result = IF HandlerPanics(in) THEN "panic" ELSE "none"])
    BY <1>1 DEF Receive, Move
  <2>2. in \in Input /\ Payload(in) \in Body /\ NameOf(in) \in {"absent", "body", "query", "path"}
    BY DataAssumption DEF Input, Payload, NameOf, Merged, Body
  <2> DEFINE new == [NoRequest EXCEPT
                !.in = in, !.payload = Payload(in), !.name = NameOf(in),
                !.pc = IF HandlerPanics(in) THEN "done" ELSE "received",
                !.result = IF HandlerPanics(in) THEN "panic" ELSE "none"]
  <2>3. /\ new \in Served /\ new.in = in /\ new.payload = Payload(in) /\ new.name = NameOf(in)
        /\ new.pc \in {"done", "received"} /\ (new.pc = "done" <=> new.result # "none")
    BY <2>2 DEF Served, NoRequest
  <2>4. Move(r, new)
    BY <2>1
  <2>5. /\ boot = "serving" /\ UNCHANGED <<conf, boot, at, text, sent, ask>> /\ ClientsTypeOK' /\ Asking'
        /\ ask[r].pc = "idle"
    BY <1>0, <1>1 DEF Receive, clientVars, ClientsTypeOK, Asking, Inv, Passing
  <2> HIDE DEF new
  <2> QED BY <1>0, <2>3, <2>4, <2>5, MoveStep
<1>2. CASE Execute(r)
  <2>1. CASE UNCHANGED ask /\ \E result \in {"400", "500"} : Ends(r, result)
    <3>1. UNCHANGED <<conf, boot, at, text, sent>> /\ ClientsTypeOK' /\ Asking' /\ ask[r].pc = "idle"
          /\ req[r].pc # "none"
      BY <1>0, <1>2, <2>1 DEF Execute, ClientsTypeOK, Asking, Inv, Passing
    <3> QED BY <1>0, <2>1, <3>1, EndStep
  <2>2. CASE /\ conf.steps /\ conf.decodes /\ Resolves(text["param"], req[r].name)
             /\ req' = [req EXCEPT ![r].pc = "source"]
             /\ \E region \in Region : Asks(r, conf.kind, region)
    BY <1>0, <1>2, <2>2, SourceStep DEF Execute
  <2> QED BY <1>2, <2>1, <2>2 DEF Execute, Enrich
<1>3. CASE Resolve(r)
  <2>1. CASE UNCHANGED ask /\ \E result \in {"400", "field error"} : Ends(r, result)
    <3>1. UNCHANGED <<conf, boot, at, text, sent>> /\ ClientsTypeOK' /\ Asking' /\ ask[r].pc = "idle"
          /\ req[r].pc # "none"
      BY <1>0, <1>3, <2>1 DEF Resolve, ClientsTypeOK, Asking, Inv, Passing
    <3> QED BY <1>0, <2>1, <3>1, EndStep
  <2>2. CASE /\ FieldResolves(text["field"])
             /\ req' = [req EXCEPT ![r].pc = "source"]
             /\ \E region \in Region : Asks(r, "dynamo", region)
    BY <1>0, <1>3, <2>2, SourceStep DEF Resolve, Kind
  <2> QED BY <1>3, <2>1, <2>2 DEF Resolve
<1>4. CASE Sourced(r)
  <2>1. ClientsTypeOK' /\ Asking' /\ ask'[r].pc = "idle" /\ \A c \in Caller : c # r => ask'[c] = ask[c]
    <3>1. ClientsTypeOK' /\ Asking'
      BY <1>0, <1>4, IdleType DEF Sourced
    <3> QED BY <1>0, <1>4, <3>1 DEF Sourced, Idle, ClientsTypeOK
  <2>2. sent' \subseteq Sending
    <3>1. \A places \in SUBSET Position : Send("source", places) \subseteq Sending
      BY <1>0, Sends
    <3>2. \E places \in {{"field"}, {"param", "nested"}} :
            sent' \subseteq sent \cup Send("source", places)
      BY <1>4 DEF Sourced
    <3> QED BY <1>0, <3>1, <3>2, Places
  <2>3. CASE \E result \in {"data", "field error"} : Ends(r, result)
    BY <1>4, <2>1, <2>2, <2>3, EndStep DEF Sourced
  <2>4. CASE req[r].in.via # "graphql" /\ req' = [req EXCEPT ![r].pc = "sourced"]
    <3> DEFINE new == [req[r] EXCEPT !.pc = "sourced"]
    <3>1. /\ new \in Served /\ new.in = req[r].in /\ new.payload = req[r].payload
          /\ new.name = req[r].name /\ new.pc = "sourced" /\ new.result = req[r].result
      BY <1>0 DEF Served
    <3>2. /\ boot = "serving" /\ req[r].result = "none" /\ conf.steps /\ conf.decodes
          /\ Resolves(text["param"], req[r].name)
          /\ req[r].payload = Payload(req[r].in) /\ req[r].name = NameOf(req[r].in)
          /\ UNCHANGED <<conf, boot, at, text>>
      BY <1>4, <2>4 DEF Sourced, Inv, TypeOK, Passing
    <3>3. Move(r, new)
      BY <2>4, PcAs DEF Move, Inv, TypeOK
    <3> HIDE DEF new
    <3> QED BY <2>1, <2>2, <2>4, <3>1, <3>2, <3>3, MoveStep
  <2> QED BY <1>4, <2>3, <2>4 DEF Sourced
<1>5. CASE Finish(r)
  <2>1. \E result \in {"500", "rejected", "200", "502"} : Ends(r, result)
    BY <1>5 DEF Finish, Judge, BuildFails
  <2>2. /\ UNCHANGED <<conf, boot, at, text, ask>> /\ ClientsTypeOK' /\ Asking' /\ req[r].pc # "none"
        /\ ask[r].pc = "idle"
    BY <1>0, <1>5 DEF Finish, clientVars, ClientsTypeOK, Asking, Inv, Passing
  <2>3. sent' \subseteq Sending
    <3>1. \A places \in SUBSET Position :
            Send("client", places) \subseteq Sending /\ Send("target", places) \subseteq Sending
      BY <1>0, Sends
    <3>2. \/ sent' = sent
          \/ sent' = sent \cup Send("client", {"body", "prose"})
          \/ sent' = sent \cup Send("target", {"body", "prose", "url"})
      BY <1>5 DEF Finish, Judge, BuildFails
    <3> QED BY <1>0, <3>1, <3>2, Places
  <2> QED BY <2>1, <2>2, <2>3, EndStep
<1> QED BY <1>1, <1>2, <1>3, <1>4, <1>5

LEMMA NextInv == Inv /\ [Next]_vars => Inv'
<1> SUFFICES ASSUME Inv, [Next]_vars PROVE Inv'
  OBVIOUS
<1>1. CASE UNCHANGED vars
  BY <1>1 DEF vars, Inv, TypeOK, ClientsTypeOK, Asking, Progress, Injections, From, Unseen, Passing
<1> QED BY <1>1, LoaderStep, AskInv, RequestStep DEF Next

LEMMA Inductive == Spec => []Inv
<1>1. Init => Inv
  BY InitType, InitLoads DEF Inv
<1> QED BY <1>1, NextInv, PTL DEF Spec

(* The clients, the texts and the requests keep their types, for any       *)
(* configurations, inputs and regions.                                     *)
THEOREM TypeCorrect == Spec => []TypeOK
<1>1. Inv => TypeOK
  BY DEF Inv
<1> QED BY <1>1, Inductive, PTL

-----------------------------------------------------------------------------
(* What an injected text can be, once the service runs. *)
LEMMA InjectedText ==
    ASSUME Inv, boot \in Loaded
    PROVE  /\ \A p \in {"name", "secret", "url"} : text[p] \notin {"env", "unset", "aws"}
           /\ \A p \in {"body", "prose"} :
                text[p] \in {"env", "unset", "aws"} => conf.output = "nested"
           /\ \A p \in {"param", "nested", "field"} : text[p] = conf.text[p]
           /\ \A p \in Position : conf.text[p] \in Written /\ From(p) /\ text[p] \in Text
           /\ text["url"] # "raw"
<1>1. \A p \in Position : conf.text[p] \in Written /\ From(p) /\ text[p] \in Text
  BY DataAssumption DEF Inv, TypeOK, Injections, Configuration
<1>2. at = 9 /\ \A i \in 1..8 : i < at
  BY DEF Inv, Progress, After
<1>3. \A i \in 1..8 : ~Unseen(Order[i]) => text[Order[i]] \notin {"env", "unset", "aws"}
  BY <1>2 DEF Inv, Injections
<1>4. \A p \in Position : ~Unseen(p) => text[p] \notin {"env", "unset", "aws"}
  BY <1>3, Places DEF Position
<1>5. \A p \in {"name", "secret", "url"} : ~Unseen(p)
  BY DEF Unseen, Blind
<1>6. \A p \in {"body", "prose"} : Unseen(p) => conf.output = "nested"
  BY DEF Unseen, Blind
<1>7. \A p \in {"param", "nested", "field"} : text[p] = conf.text[p]
  BY <1>1, Places DEF From, Unseen, Blind
<1>8. text["url"] # "raw"
  BY <1>1, Places DEF From, Strict, Written
<1> QED BY <1>1, <1>4, <1>5, <1>6, <1>7, <1>8, Places

(* What may leave with a placeholder. *)
Delimited(s) ==
    s.text \in Held =>
        \/ /\ s.to = "provider" /\ s.place = "secret"
           /\ \/ s.text = "raw" /\ conf.text["secret"] = "aws"
              \/ s.text = "cel"
        \/ s.to = "source" /\ s.place = "nested"
        \/ /\ s.to \in {"client", "target"} /\ s.place = "prose"
           /\ s.text \in {"raw", "cel"} \/ conf.output = "nested"

(* A text that is resolved holds nothing, one among other words what the   *)
(* injector left.                                                          *)
LEMMA LeavingResolved ==
    ASSUME NEW p \in Interpolated, text[p] \in {"plain", "value", "blank", "env", "cel"}
    PROVE  Leaving(p) \notin Held
BY DEF Leaving, Held

LEMMA LeavingProse ==
    ASSUME Inv, boot \in Loaded
    PROVE  Leaving("prose") \in Held =>
                Leaving("prose") \in {"raw", "cel"} \/ conf.output = "nested"
<1>1. text["prose"] \in {"env", "unset", "aws"} => conf.output = "nested"
  BY InjectedText
<1> QED BY <1>1 DEF Leaving, Held, Interpolated

LEMMA SendStep ==
    ASSUME Inv, PlaceholdersAreDelimited, [Next]_vars
    PROVE  PlaceholdersAreDelimited'
<1>0. PlaceholdersAreDelimited <=> \A s \in sent : Delimited(s)
  BY DEF PlaceholdersAreDelimited, Delimited
<1>1. CASE UNCHANGED <<sent, conf>>
  BY <1>1 DEF PlaceholdersAreDelimited
<1>2. ASSUME UNCHANGED conf, NEW to, NEW places, sent' \subseteq sent \cup Send(to, places),
             \A p \in places : Delimited([to |-> to, place |-> p, text |-> Leaving(p)])
      PROVE  PlaceholdersAreDelimited'
  <2>1. \A s \in Send(to, places) : Delimited(s)
    BY <1>2 DEF Send
  <2>2. \A s \in sent' : Delimited(s)
    BY <1>0, <1>2, <2>1
  <2> QED BY <1>2, <2>2 DEF PlaceholdersAreDelimited, Delimited
<1>3. CASE StartService
  <2>1. boot \in Loaded /\ UNCHANGED conf /\ sent' \subseteq sent \cup Send("provider", {"secret"})
    BY <1>3 DEF StartService, Loaded
  <2>2. text["secret"] \notin {"env", "unset", "aws"} /\ conf.text["secret"] \in Written /\ From("secret")
    BY <2>1, InjectedText, Places
  <2>3. text["secret"] = "raw" => conf.text["secret"] = "aws"
    BY <2>2 DEF From, Written
  <2>4. Leaving("secret") = text["secret"]
    BY DEF Leaving, Interpolated
  <2>5. Delimited([to |-> "provider", place |-> "secret", text |-> Leaving("secret")])
    BY <2>2, <2>3, <2>4 DEF Delimited, Held
  <2> QED BY <1>2, <2>1, <2>5
<1>4. ASSUME NEW r \in Request, Sourced(r) PROVE PlaceholdersAreDelimited'
  <2>1. Delimited([to |-> "source", place |-> "nested", text |-> Leaving("nested")])
    BY DEF Delimited
  <2>2. UNCHANGED conf
    BY <1>4 DEF Sourced
  <2>3. CASE req[r].in.via = "graphql"
    <3>1. text["field"] \in {"plain", "value", "blank", "cel"}
      BY <1>4, <2>3 DEF Sourced, Inv, Passing, FieldResolves
    <3>2. Delimited([to |-> "source", place |-> "field", text |-> Leaving("field")])
      BY <3>1, LeavingResolved DEF Delimited, Interpolated
    <3>3. sent' \subseteq sent \cup Send("source", {"field"})
      BY <1>4, <2>3 DEF Sourced
    <3> QED BY <1>2, <2>2, <3>2, <3>3
  <2>4. CASE req[r].in.via # "graphql"
    <3>1. text["param"] \in {"plain", "value", "blank", "env", "cel"}
      BY <1>4, <2>4 DEF Sourced, Inv, Passing, Resolves
    <3>2. Delimited([to |-> "source", place |-> "param", text |-> Leaving("param")])
      BY <3>1, LeavingResolved DEF Delimited, Interpolated
    <3>3. sent' \subseteq sent \cup Send("source", {"param", "nested"})
      BY <1>4, <2>4 DEF Sourced
    <3>4. \A p \in {"param", "nested"} :
            Delimited([to |-> "source", place |-> p, text |-> Leaving(p)])
      BY <2>1, <3>2
    <3> QED BY <1>2, <2>2, <3>3, <3>4
  <2> QED BY <2>3, <2>4
<1>5. ASSUME NEW r \in Request, Finish(r) PROVE PlaceholdersAreDelimited'
  <2>1. UNCHANGED conf /\ boot \in Loaded
    BY <1>5 DEF Finish, Inv, Passing, Loaded
  <2>2. CASE UNCHANGED sent
    BY <1>1, <2>1, <2>2
  <2>3. ASSUME NEW p \in Interpolated, Resolves(text[p], req[r].name), NEW to
        PROVE  Delimited([to |-> to, place |-> p, text |-> Leaving(p)])
    BY <2>3, LeavingResolved DEF Delimited, Resolves
  <2>4. ASSUME NEW to \in {"client", "target"}
        PROVE  Delimited([to |-> to, place |-> "prose", text |-> Leaving("prose")])
    BY <2>1, <2>4, LeavingProse DEF Delimited
  <2>5. CASE Resolves(text["body"], req[r].name) /\ sent' = sent \cup Send("client", {"body", "prose"})
    <3>1. \A p \in {"body", "prose"} :
            Delimited([to |-> "client", place |-> p, text |-> Leaving(p)])
      BY <2>3, <2>4, <2>5 DEF Interpolated
    <3> QED BY <1>2, <2>1, <2>5, <3>1
  <2>6. CASE /\ \A p \in {"body", "url"} : Resolves(text[p], req[r].name)
             /\ sent' = sent \cup Send("target", {"body", "prose", "url"})
    <3>1. \A p \in {"body", "prose", "url"} :
            Delimited([to |-> "target", place |-> p, text |-> Leaving(p)])
      BY <2>3, <2>4, <2>6 DEF Interpolated
    <3> QED BY <1>2, <2>1, <2>6, <3>1
  <2> QED BY <1>5, <2>2, <2>5, <2>6 DEF Finish, Judge, BuildFails
<1>6. CASE ReadSource \/ Inject \/ LookUp \/ LookedUp \/ Validate \/ Analyze \/ UNCHANGED vars
  BY <1>1, <1>6 DEF ReadSource, Inject, LookUp, LookedUp, Validate, Analyze, vars
<1>7. ASSUME NEW c \in Caller, AskStep(c) PROVE PlaceholdersAreDelimited'
  BY <1>1, <1>7 DEF AskStep
<1>8. ASSUME NEW r \in Request, Receive(r) \/ Execute(r) \/ Resolve(r) PROVE PlaceholdersAreDelimited'
  BY <1>1, <1>8 DEF Receive, Execute, Resolve
<1> QED BY <1>3, <1>4, <1>5, <1>6, <1>7, <1>8 DEF Next

(* For any configuration and any requests: a placeholder leaves in a       *)
(* secret, inside a parameter that is no text, or among other words of the *)
(* output, and in no other of the texts.                                   *)
THEOREM PlaceholdersStayDelimited == Spec => []PlaceholdersAreDelimited
<1>1. Init => PlaceholdersAreDelimited
  BY DEF Init, PlaceholdersAreDelimited
<1> QED BY <1>1, SendStep, Inductive, PTL DEF Spec

-----------------------------------------------------------------------------
(* What a request's result says of the configuration and of its input. *)
Cause(in, result) ==
    LET absent == in.body # "object" /\ (in.via = "http" => ~in.query /\ ~in.path)
    IN  CASE result = "400" -> in.via # "http" /\ in.body # "object"
          [] result = "500" ->
                \/ ~conf.steps \/ ~conf.decodes \/ "rules" \in conf.fragile
                \/ conf.text["param"] \in {"unset", "aws"}
                \/ conf.text["body"] = "unset" /\ conf.output = "nested"
                \/ \E p \in {"param", "body", "url"} :
                        conf.text[p] = "cel" /\ (absent \/ p \in conf.fragile)
          [] result = "rejected" -> conf.rules
          [] result = "panic" -> in.via = "http" /\ in.body = "null" /\ (in.query \/ in.path)
          [] result \in {"200", "502"} ->
                conf.decodes /\ conf.text["param"] \in {"plain", "env", "cel"}
          [] result = "data" -> conf.text["field"] \in {"plain", "cel"}
          [] OTHER -> TRUE

Causes == \A r \in Request : Cause(req[r].in, req[r].result)

LEMMA NoName ==
    ASSUME NEW in \in Input, NameOf(in) = "absent"
    PROVE  in.body # "object" /\ (in.via = "http" => ~in.query /\ ~in.path)
BY DEF NameOf, Merged, Input

LEMMA CauseStep ==
    ASSUME Inv, Causes, [Next]_vars
    PROVE  Causes'
<1>1. UNCHANGED conf
  BY DEF Next, vars, ReadSource, Inject, LookUp, LookedUp, Validate, Analyze, StartService, AskStep,
     Receive, Execute, Resolve, Sourced, Finish
<1>2. ASSUME NEW r \in Request, NEW new, Move(r, new), Cause(new.in, new.result)
      PROVE  Causes'
  <2>1. req' = [req EXCEPT ![r] = new] /\ req \in [Request -> Served]
    BY <1>2 DEF Move, Inv, TypeOK
  <2>2. \A s \in Request : req'[s] = IF s = r THEN new ELSE req[s]
    BY <2>1
  <2> QED BY <1>1, <1>2, <2>2 DEF Causes, Cause
<1>3. ASSUME NEW r \in Request, NEW result, Ends(r, result), Cause(req[r].in, result)
      PROVE  Causes'
  <2> DEFINE new == [req[r] EXCEPT !.pc = "done", !.result = result]
  <2>1. req[r] \in Served
    BY DEF Inv, TypeOK
  <2>2. new.in = req[r].in /\ new.result = result /\ Move(r, new)
    BY <1>3, <2>1, EndsAs DEF Move, Served, Inv, TypeOK
  <2> HIDE DEF new
  <2> QED BY <1>2, <1>3, <2>2
<1>4. ASSUME NEW r \in Request, req[r].pc # "none"
      PROVE  /\ boot \in Loaded /\ req[r].in \in Input
             /\ req[r].payload = Payload(req[r].in) /\ req[r].name = NameOf(req[r].in)
  BY <1>4 DEF Inv, Passing, Loaded, TypeOK, Served
<1>5. CASE UNCHANGED req
  BY <1>1, <1>5 DEF Causes, Cause
<1>6. ASSUME NEW r \in Request, Receive(r) PROVE Causes'
  <2>1. PICK in \in Inputs :
          Move(r, [NoRequest EXCEPT
                !.in = in, !.payload = Payload(in), !.name = NameOf(in),
                !.pc = IF HandlerPanics(in) THEN "done" ELSE "received",
                !.result = IF HandlerPanics(in) THEN "panic" ELSE "none"])
    BY <1>6 DEF Receive, Move
  <2> DEFINE new == [NoRequest EXCEPT
                !.in = in, !.payload = Payload(in), !.name = NameOf(in),
                !.pc = IF HandlerPanics(in) THEN "done" ELSE "received",
                !.result = IF HandlerPanics(in) THEN "panic" ELSE "none"]
  <2>2. /\ new.in = in /\ Move(r, new)
        /\ new.result = IF HandlerPanics(in) THEN "panic" ELSE "none"
    BY <2>1 DEF NoRequest
  <2> HIDE DEF new
  <2>3. Cause(new.in, new.result)
    BY <2>2 DEF Cause, HandlerPanics
  <2> QED BY <1>2, <2>2, <2>3
<1>7. ASSUME NEW r \in Request, Execute(r) PROVE Causes'
  <2>1. /\ boot \in Loaded /\ req[r].in \in Input
        /\ req[r].payload = Payload(req[r].in) /\ req[r].name = NameOf(req[r].in)
    BY <1>4, <1>7 DEF Execute
  <2>2. CASE ~conf.steps /\ Ends(r, "500")
    BY <1>3, <2>2 DEF Cause
  <2>3. CASE req[r].payload \in {"array", "invalid"} /\ Ends(r, "400")
    <3>1. req[r].in.via # "http" /\ req[r].in.body # "object"
      BY <2>1, <2>3 DEF Payload
    <3> QED BY <1>3, <2>3, <3>1 DEF Cause
  <2>4. CASE (~conf.decodes \/ Fails("param", req[r].name)) /\ Ends(r, "500")
    <3>1. text["param"] = conf.text["param"] /\ conf.text["param"] \in Written
      BY <2>1, InjectedText, Places
    <3>2. \/ ~conf.decodes \/ conf.text["param"] \in {"unset", "aws"}
          \/ conf.text["param"] = "cel" /\ (NameOf(req[r].in) = "absent" \/ "param" \in conf.fragile)
      BY <2>1, <2>4, <3>1 DEF Fails, Resolves, Written
    <3>3. Cause(req[r].in, "500")
      BY <2>1, <3>2, NoName DEF Cause
    <3> QED BY <1>3, <2>4, <3>3
  <2>5. CASE req' = [req EXCEPT ![r].pc = "source"]
    <3>1. req[r] \in Served /\ req[r].result = "none"
      BY <1>7 DEF Execute, Inv, TypeOK
    <3> DEFINE new == [req[r] EXCEPT !.pc = "source"]
    <3>2. new.in = req[r].in /\ new.result = req[r].result /\ Move(r, new)
      BY <2>5, <3>1, PcAs DEF Move, Served, Inv, TypeOK
    <3> HIDE DEF new
    <3> QED BY <1>2, <3>1, <3>2 DEF Cause
  <2> QED BY <1>7, <2>2, <2>3, <2>4, <2>5 DEF Execute, Enrich
<1>8. ASSUME NEW r \in Request, Resolve(r) PROVE Causes'
  <2>1. CASE req[r].in.via = "graphql" /\ Refused(req[r].in) /\ Ends(r, "400")
    BY <1>3, <2>1 DEF Cause, Refused
  <2>2. CASE Ends(r, "field error")
    BY <1>3, <2>2 DEF Cause
  <2>3. CASE req' = [req EXCEPT ![r].pc = "source"]
    <3>1. req[r] \in Served /\ req[r].result = "none"
      BY <1>8 DEF Resolve, Inv, TypeOK
    <3> DEFINE new == [req[r] EXCEPT !.pc = "source"]
    <3>2. new.in = req[r].in /\ new.result = req[r].result /\ Move(r, new)
      BY <2>3, <3>1, PcAs DEF Move, Served, Inv, TypeOK
    <3> HIDE DEF new
    <3> QED BY <1>2, <3>1, <3>2 DEF Cause
  <2> QED BY <1>8, <2>1, <2>2, <2>3 DEF Resolve
<1>9. ASSUME NEW r \in Request, Sourced(r) PROVE Causes'
  <2>1. CASE req[r].in.via = "graphql" /\ Ends(r, "data")
    <3>1. FieldResolves(text["field"]) /\ boot \in Loaded
      BY <1>4, <1>9, <2>1 DEF Sourced, Inv, Passing
    <3>2. text["field"] = conf.text["field"] /\ conf.text["field"] \in Written
      BY <3>1, InjectedText, Places
    <3>3. conf.text["field"] \in {"plain", "cel"}
      BY <3>1, <3>2 DEF FieldResolves, Written
    <3> QED BY <1>3, <2>1, <3>3 DEF Cause
  <2>2. CASE Ends(r, "field error")
    BY <1>3, <2>2 DEF Cause
  <2>3. CASE req' = [req EXCEPT ![r].pc = "sourced"]
    <3>1. req[r] \in Served /\ req[r].result = "none"
      BY <1>9 DEF Sourced, Inv, TypeOK
    <3> DEFINE new == [req[r] EXCEPT !.pc = "sourced"]
    <3>2. new.in = req[r].in /\ new.result = req[r].result /\ Move(r, new)
      BY <2>3, <3>1, PcAs DEF Move, Served, Inv, TypeOK
    <3> HIDE DEF new
    <3> QED BY <1>2, <3>1, <3>2 DEF Cause
  <2> QED BY <1>9, <2>1, <2>2, <2>3 DEF Sourced
<1>10. ASSUME NEW r \in Request, Finish(r) PROVE Causes'
  <2>1. /\ boot \in Loaded /\ req[r].in \in Input /\ req[r].name = NameOf(req[r].in)
        /\ conf.steps /\ conf.decodes /\ boot = "serving" /\ Resolves(text["param"], req[r].name)
    BY <1>4, <1>10 DEF Finish, Inv, Passing
  <2>2. /\ text["body"] \notin {"raw", "aws"} /\ From("body") /\ text["body"] \in Text
        /\ text["body"] \in {"env", "unset"} => conf.output = "nested"
        /\ text["url"] \notin {"env", "unset", "aws", "raw"} /\ From("url") /\ text["url"] \in Text
        /\ text["param"] = conf.text["param"] /\ conf.text["param"] \in Written
    BY <2>1, InjectedText, Places DEF Inv, Progress
  <2>3. CASE \E p \in {"body", "url"} : Fails(p, req[r].name) /\ Ends(r, "500")
    <3>1. PICK p \in {"body", "url"} : Fails(p, req[r].name) /\ Ends(r, "500")
      BY <2>3
    <3>2. \/ text[p] = "cel" /\ (NameOf(req[r].in) = "absent" \/ p \in conf.fragile)
          \/ p = "body" /\ text[p] = "unset" /\ conf.output = "nested"
      BY <2>1, <2>2, <3>1 DEF Fails, Resolves, Text, Written
    <3>3. text[p] \in {"cel", "unset"} => conf.text[p] = text[p]
      BY <2>2 DEF From
    <3>4. Cause(req[r].in, "500")
      BY <2>1, <3>2, <3>3, NoName DEF Cause
    <3> QED BY <1>3, <3>1, <3>4
  <2>4. CASE \E result \in {"200", "502"} : Ends(r, result)
    <3>1. conf.text["param"] \in {"plain", "env", "cel"}
      BY <2>1, <2>2 DEF Resolves, Written
    <3> QED BY <1>3, <2>1, <2>4, <3>1 DEF Cause
  <2>5. CASE Judge(r)
    <3>1. CASE "rules" \in conf.fragile /\ Ends(r, "500")
      BY <1>3, <3>1 DEF Cause
    <3>2. CASE conf.rules /\ Ends(r, "rejected")
      BY <1>3, <3>2 DEF Cause
    <3> QED BY <2>5, <3>1, <3>2 DEF Judge
  <2> QED BY <1>10, <2>3, <2>4, <2>5 DEF Finish, BuildFails
<1>11. CASE ReadSource \/ Inject \/ LookUp \/ LookedUp \/ Validate \/ Analyze \/ StartService \/ UNCHANGED vars
  BY <1>5, <1>11 DEF ReadSource, Inject, LookUp, LookedUp, Validate, Analyze, StartService, vars
<1>12. ASSUME NEW c \in Caller, AskStep(c) PROVE Causes'
  BY <1>5, <1>12 DEF AskStep
<1> QED BY <1>6, <1>7, <1>8, <1>9, <1>10, <1>11, <1>12 DEF Next

(* Every failure of a request is one that its configuration or its input   *)
(* gives, every success shows a decoded enrichment and a source whose      *)
(* parameters hold no placeholder that CEL does not know, and the analyzer *)
(* crashes for want of steps or of an output of texts only.                *)
THEOREM FailuresAreCaused == Spec => []FailureHasACause
<1>1. Init => Causes
  BY DEF Init, NoRequest, Causes, Cause
<1>2. Inv /\ Causes => FailureHasACause
  <2> SUFFICES ASSUME Inv, Causes PROVE FailureHasACause
    OBVIOUS
  <2>1. boot = "crashed" => IF conf.steps THEN conf.output # "texts" ELSE conf.graphql
    BY DEF Inv, Progress, Loaded
  <2>2. boot = "valid" =>
            /\ conf.text["body"] \in {"plain", "env", "aws"}
            /\ conf.output = "texts" /\ conf.decodes
    <3> SUFFICES ASSUME boot = "valid"
                 PROVE  /\ conf.text["body"] \in {"plain", "env", "aws"}
                        /\ conf.output = "texts" /\ conf.decodes
      OBVIOUS
    <3>1. text["body"] \in {"plain", "value"} /\ conf.output = "texts" /\ conf.decodes
      BY DEF Inv, Progress
    <3>2. From("body") /\ conf.text["body"] \in Written
      BY InjectedText, Places DEF Loaded
    <3> QED BY <3>1, <3>2 DEF From, Written
  <2>3. \A r \in Request : Cause(req[r].in, req[r].result)
    BY DEF Causes
  <2> QED BY <2>1, <2>2, <2>3 DEF FailureHasACause, Cause
<1> QED BY <1>1, <1>2, CauseStep, Inductive, PTL DEF Spec
=============================================================================
