----------------------------- MODULE HcpProxyProofs -----------------------------
(***************************************************************************)
(* Theorems about HcpProxy, for any number of requests and of failures,    *)
(* and any names: its types, and that the answers of concurrent requests   *)
(* are true, no edit is lost, a HostedCluster comes after its Secrets, and *)
(* a deletion takes the NodePools of its cluster and of no other.          *)
(*                                                                         *)
(* The handlers share only the spoke.  So most of the inductive invariant  *)
(* is about one handler, and the rest says what a request that may still   *)
(* create or replace an object has not done yet: no object, no bundle and  *)
(* no list made for a deletion carries its number.                         *)
(***************************************************************************)
EXTENDS HcpProxy, FiniteSetTheorems, TLAPS

USE ConstantsAssumption DEF ConstantsAssumption

-----------------------------------------------------------------------------
(* The inductive invariant.                                                *)

WorldType ==
  /\ nspace \in BOOLEAN
  /\ secret \in [Secrets -> Requests \cup {None}]
  /\ spoke \in [Objects -> Object \cup {None}]
ControlType ==
  /\ pc \in [Requests -> Steps]
  /\ code \in [Requests -> {0, 200, 201, 400, 404, 500, 502}]
LoopType ==
  /\ at \in [Requests -> Secrets \cup {None}]
  /\ todo \in [Requests -> SUBSET (Secrets \cup Pools)]
SentType ==
  /\ req \in [Requests -> Request \cup {None}]
  /\ old \in [Requests -> SUBSET (Pools \X (Requests \cup {None}))]
DoneType ==
  /\ wrote \in [Requests -> SUBSET Objects]
  /\ told \in [Requests -> SUBSET Pools]
  /\ warned \in [Requests -> SUBSET Pools]
BundleType == bundle \in [Requests -> [Objects -> Object \cup {None}]]
FaultType == hurt \in [Requests -> BOOLEAN] /\ faults \in 0 .. MaxFaults

Typed ==
  WorldType /\ ControlType /\ LoopType /\ SentType /\ DoneType /\ BundleType /\ FaultType

Creating == {"namespace", "secrets", "putsecret", "pools"}
Deleting == {"list", "drop"}
Updating == {"puthc", "putpools"}
Reading == {"gethc", "getpools"}

\* Which handler a request is in, and what its loop goes through.
InPhase(r) ==
  /\ pc[r] = "unsent" => req[r] = None
  /\ pc[r] \in Creating => req[r] \in Request /\ req[r].op = "create"
  /\ pc[r] \in Deleting => req[r] \in Request /\ req[r].op = "delete"
  /\ pc[r] \in Updating => req[r] \in Request /\ req[r].op = "update"
  /\ pc[r] \in Reading => req[r] \in Request /\ req[r].op \in {"get", "update"}
  /\ pc[r] \in {"secrets", "putsecret"} => todo[r] \subseteq Secrets
  /\ pc[r] \in {"pools", "drop", "putpools"} => todo[r] \subseteq Pools
  /\ pc[r] = "putsecret" => at[r] \in todo[r]
  /\ pc[r] = "putpools" => todo[r] \subseteq req[r].parts

\* A bundle has the HostedCluster asked for and no other, and so have the
\* objects of an update.
OneCluster(r) ==
  /\ \A c \in Clusters : bundle[r][c] # None => pc[r] # "unsent" /\ c = req[r].cluster
  /\ pc[r] \in Updating =>
       /\ req[r].parts \subseteq Pools \cup {req[r].cluster}
       /\ pc[req[r].base] = "answered"
       /\ \A o \in req[r].parts : bundle[req[r].base][o] # None

\* The answer it will give is true of what it has done.
AnswerIsTrue(r) ==
  /\ pc[r] \in {"unsent", "namespace", "secrets", "putsecret"} => told[r] = {} /\ warned[r] = {}
  /\ pc[r] = "pools" =>
       /\ req[r].cluster \in wrote[r] /\ told[r] \subseteq wrote[r]
       /\ req[r].pools = told[r] \cup warned[r] \cup todo[r]
  /\ pc[r] = "putpools" => req[r].parts \subseteq wrote[r] \cup todo[r]
  /\ pc[r] \in Reading /\ req[r].op = "update" => req[r].parts \subseteq wrote[r]
  /\ pc[r] = "answered" /\ req[r] # None =>
       /\ code[r] = 201 =>
            /\ req[r].cluster \in wrote[r] /\ told[r] \subseteq wrote[r]
            /\ req[r].pools = told[r] \cup warned[r]
       /\ code[r] = 200 /\ req[r].op = "update" => req[r].parts \subseteq wrote[r]
       /\ code[r] = 200 /\ req[r].op = "delete" => req[r].cluster \in wrote[r]

\* The Secrets it is done with are there, and so is the namespace.
SecretsDone(r) ==
  pc[r] \in {"secrets", "putsecret"} =>
    nspace /\ \A s \in req[r].secrets \ todo[r] : secret[s] # None

HandlerInv ==
  \A r \in Requests : InPhase(r) /\ OneCluster(r) /\ AnswerIsTrue(r) /\ SecretsDone(r)

\* A request may still create, or replace, an object.
MayPost(r, o) ==
  pc[r] \in {"unsent", "namespace", "secrets", "putsecret"} \/ (pc[r] = "pools" /\ o \in todo[r])
MayPut(r, o) ==
  pc[r] \in {"unsent", "puthc"} \/ (pc[r] = "putpools" /\ o \in todo[r])

\* A version of an object carries no request that may do so.
Signed(o, x) ==
  x # None =>
    /\ x.by \in Requests => ~MayPost(x.by, o)
    /\ \A r \in x.edits : ~MayPut(r, o)

SignedInv ==
  /\ \A o \in Objects : Signed(o, spoke[o])
  /\ \A r \in Requests, o \in Objects : Signed(o, bundle[r][o])
  /\ \A r, q \in Requests, p \in Pools : <<p, q>> \in old[r] => ~MayPost(q, p)

\* What was read of an object is not newer than the object, and if it has its
\* resourceVersion it has its edits.
Older(x, y) ==
  x # None /\ y # None /\ x.by = y.by =>
    x.writes <= y.writes /\ (x.writes = y.writes => x.edits = y.edits)

VersionInv ==
  /\ \A r \in Requests, o \in Objects : Older(bundle[r][o], spoke[o])
  /\ NoEditLost

\* A deletion under way: the NodePools it has to take are those it will delete,
\* and of those that were there when it was sent, it deletes only them.
Left(r, p) ==
  ~Absent(p) /\ <<p, spoke[p].by>> \in old[r] /\ spoke[p].of = req[r].cluster /\ ~spoke[p].deleting

Deletes(r) ==
  /\ pc[r] \in {"drop", "answered"} /\ req[r] # None /\ req[r].op = "delete" /\ ~hurt[r] =>
       \A p \in Pools : Left(r, p) => pc[r] = "drop" /\ p \in todo[r]
  /\ pc[r] = "drop" =>
       \A p \in todo[r] :
         ~Absent(p) /\ <<p, spoke[p].by>> \in old[r] => spoke[p].of = req[r].cluster

DeleteInv == \A r \in Requests : Deletes(r)

\* A HostedCluster and the Secrets of the request that created it.
SecretInv ==
  \A c \in Clusters : ~Absent(c) /\ spoke[c].by # None =>
    /\ nspace /\ req[spoke[c].by].secrets \subseteq Secrets
    /\ \A s \in req[spoke[c].by].secrets : secret[s] # None

ProxyInv == Typed /\ HandlerInv /\ SignedInv /\ VersionInv /\ DeleteInv /\ SecretInv

-----------------------------------------------------------------------------
(* What is used of requests and objects.                                   *)

LEMMA RequestFacts ==
  ASSUME NEW q \in Request
  PROVE  /\ q.op \in {"create", "get", "update", "delete"}
         /\ q.cluster \in Clusters /\ q.cluster \in Objects /\ q.cluster \notin Pools
         /\ q.op = "create" => q.secrets \subseteq Secrets /\ q.pools \subseteq Pools
         /\ q.op = "update" => q.parts \subseteq Objects /\ q.base \in Requests
  BY DEF Request, Objects

LEMMA NoneFacts ==
  /\ None \notin Requests
  /\ Clusters \subseteq Objects /\ Pools \subseteq Objects
  BY DEF Requests, Objects

LEMMA NewTyped ==
  ASSUME NEW r \in Requests \cup {None}, NEW c \in Clusters
  PROVE  New(r, c) \in Object
  BY DEF New, Object

LEMMA ObjectWrites ==
  ASSUME NEW x \in Object
  PROVE  /\ x.by \in Requests \cup {None} /\ x.of \in Clusters /\ x.writes \in Nat
         /\ x.edits \subseteq Requests /\ x.deleting \in BOOLEAN
  BY DEF Object

LEMMA PoolsOfTyped ==
  ASSUME NEW c
  PROVE  PoolsOf(c) \subseteq Pools
  BY DEF PoolsOf

LEMMA RefusalsTyped == Refusals \subseteq {200, 400}
<1>1. ASSUME NEW q \in Route
      PROVE  RouteStatus(q) \in {0, 200, 400}
  BY DEF RouteStatus
<1> QED
  BY <1>1 DEF Refusals

LEMMA FirstStepFacts ==
  ASSUME NEW op \in {"create", "get", "update", "delete"}
  PROVE  /\ op = "create" => FirstStep(op) = "namespace"
         /\ op = "get" => FirstStep(op) = "gethc"
         /\ op = "update" => FirstStep(op) = "puthc"
         /\ op = "delete" => FirstStep(op) = "list"
  BY DEF FirstStep

\* Marking and replacing an object keep who created it and for which cluster.
LEMMA MarkedFacts ==
  ASSUME Typed, NEW o \in Objects, ~Absent(o)
  PROVE  /\ Marked(o) \in [Objects -> Object \cup {None}]
         /\ \A x \in Objects \ {o} : Marked(o)[x] = spoke[x]
         /\ Marked(o)[o] = [spoke[o] EXCEPT !.deleting = TRUE]
         /\ Marked(o)[o] \in Object
         /\ Marked(o)[o].by = spoke[o].by /\ Marked(o)[o].of = spoke[o].of
         /\ Marked(o)[o].writes = spoke[o].writes /\ Marked(o)[o].edits = spoke[o].edits
         /\ Marked(o)[o].deleting
<1>1. spoke[o] \in Object /\ spoke \in [Objects -> Object \cup {None}]
  BY DEF Typed, WorldType, Absent
<1>2. Marked(o) = [spoke EXCEPT ![o] = [spoke[o] EXCEPT !.deleting = TRUE]]
  BY DEF Marked
<1>3. [spoke[o] EXCEPT !.deleting = TRUE] \in Object
  BY <1>1 DEF Object
<1> QED
  BY <1>1, <1>2, <1>3 DEF Object

LEMMA ReplacedFacts ==
  ASSUME Typed, NEW o \in Objects, ~Absent(o), NEW r \in Requests, Sent(r, o) \in Object
  PROVE  /\ Replaced(r, o) \in [Objects -> Object \cup {None}]
         /\ \A x \in Objects \ {o} : Replaced(r, o)[x] = spoke[x]
         /\ Replaced(r, o)[o] \in Object
         /\ Replaced(r, o)[o].by = spoke[o].by /\ Replaced(r, o)[o].of = spoke[o].of
         /\ Replaced(r, o)[o].deleting = spoke[o].deleting
         /\ Replaced(r, o)[o].writes = spoke[o].writes + 1
         /\ Replaced(r, o)[o].edits = Sent(r, o).edits \cup {r}
<1>1. spoke[o] \in Object /\ spoke \in [Objects -> Object \cup {None}]
  BY DEF Typed, WorldType, Absent
<1> DEFINE x == [spoke[o] EXCEPT !.writes = spoke[o].writes + 1]
           y == [x EXCEPT !.edits = Sent(r, o).edits \cup {r}]
<1>2. Replaced(r, o) = [spoke EXCEPT ![o] = y]
  BY <1>1 DEF Replaced
<1>3. Sent(r, o).edits \cup {r} \subseteq Requests /\ spoke[o].writes + 1 \in Nat
  BY <1>1, ObjectWrites
<1>4. /\ x \in Object /\ x.by = spoke[o].by /\ x.of = spoke[o].of /\ x.deleting = spoke[o].deleting
      /\ x.writes = spoke[o].writes + 1
  BY <1>1, <1>3 DEF Object
<1> HIDE DEF x
<1>5. /\ y \in Object /\ y.by = x.by /\ y.of = x.of /\ y.deleting = x.deleting
      /\ y.writes = x.writes /\ y.edits = Sent(r, o).edits \cup {r}
  BY <1>3, <1>4 DEF Object
<1> HIDE DEF y
<1> QED
  BY <1>1, <1>2, <1>4, <1>5

-----------------------------------------------------------------------------
(* Types, and what a step leaves alone.                                    *)

LEMMA InitTyped == Init => Typed
<1> SUFFICES ASSUME Init PROVE Typed
  OBVIOUS
<1>1. spoke \in [Objects -> Object \cup {None}]
  <2>1. ASSUME NEW of \in [Pools -> Clusters]
        PROVE  [o \in Objects |-> New(None, IF o \in Clusters THEN o ELSE of[o])]
                 \in [Objects -> Object \cup {None}]
    <3>1. \A o \in Objects : (IF o \in Clusters THEN o ELSE of[o]) \in Clusters
      BY DEF Objects
    <3> QED
      BY <3>1, NewTyped
  <2> QED
    BY <2>1 DEF Init, Before
<1>2. /\ nspace \in BOOLEAN /\ secret \in [Secrets -> Requests \cup {None}]
      /\ req \in [Requests -> Request \cup {None}]
      /\ at \in [Requests -> Secrets \cup {None}]
      /\ todo \in [Requests -> SUBSET (Secrets \cup Pools)]
  BY DEF Init
<1>3. bundle \in [Requests -> [Objects -> Object \cup {None}]]
  BY DEF Init
<1>4. /\ told \in [Requests -> SUBSET Pools] /\ warned \in [Requests -> SUBSET Pools]
      /\ wrote \in [Requests -> SUBSET Objects] /\ faults \in 0 .. MaxFaults
      /\ pc \in [Requests -> Steps]
  BY DEF Init, Steps
<1>5. /\ code \in [Requests -> {0, 200, 201, 400, 404, 500, 502}]
      /\ old \in [Requests -> SUBSET (Pools \X (Requests \cup {None}))]
  BY DEF Init
<1>6. hurt \in [Requests -> BOOLEAN]
  BY DEF Init
<1> QED
  BY <1>1, <1>2, <1>3, <1>4, <1>5, <1>6
     DEF Typed, WorldType, ControlType, LoopType, SentType, DoneType, BundleType, FaultType

Acts(r) == Refuse(r) \/ Accept(r) \/ Handle(r) \/ Abandon(r)

\* A step is one request's, and the other handlers are left alone.
Others(r) == Requests \ {r}
ControlKept(r) == \A q \in Others(r) : pc'[q] = pc[q] /\ code'[q] = code[q]
LoopKept(r) == \A q \in Others(r) : todo'[q] = todo[q] /\ at'[q] = at[q]
SentKept(r) == \A q \in Others(r) : req'[q] = req[q] /\ old'[q] = old[q]
DoneKept(r) ==
  \A q \in Others(r) : wrote'[q] = wrote[q] /\ told'[q] = told[q] /\ warned'[q] = warned[q]
BundleKept(r) == \A q \in Others(r) : bundle'[q] = bundle[q]
FaultKept(r) == \A q \in Others(r) : hurt'[q] = hurt[q]
OthersKept(r) ==
  ControlKept(r) /\ LoopKept(r) /\ SentKept(r) /\ DoneKept(r) /\ BundleKept(r) /\ FaultKept(r)

LEMMA SetOne ==
  ASSUME NEW S, NEW f \in [Requests -> S], NEW r \in Requests, NEW v \in S
  PROVE  /\ [f EXCEPT ![r] = v] \in [Requests -> S]
         /\ [f EXCEPT ![r] = v][r] = v
         /\ \A q \in Others(r) : [f EXCEPT ![r] = v][q] = f[q]
  BY DEF Others

LEMMA GoToTyped ==
  ASSUME ControlType, NEW r \in Requests, NEW step \in Steps, GoTo(r, step)
  PROVE  ControlType' /\ ControlKept(r) /\ pc'[r] = step /\ code' = code
  BY DEF GoTo, ControlType, ControlKept, Others

LEMMA AnswerTyped ==
  ASSUME ControlType, NEW r \in Requests,
         NEW status \in {200, 201, 400, 404, 500, 502}, Answer(r, status)
  PROVE  ControlType' /\ ControlKept(r) /\ pc'[r] = "answered" /\ code'[r] = status
<1>1. "answered" \in Steps /\ pc \in [Requests -> Steps]
  BY DEF Steps, ControlType
<1>2. pc' \in [Requests -> Steps] /\ pc'[r] = "answered" /\ \A q \in Others(r) : pc'[q] = pc[q]
  BY <1>1 DEF Answer, Others
<1>3. /\ code' \in [Requests -> {0, 200, 201, 400, 404, 500, 502}] /\ code'[r] = status
      /\ \A q \in Others(r) : code'[q] = code[q]
  BY DEF Answer, Others, ControlType
<1> QED
  BY <1>2, <1>3 DEF ControlType, ControlKept

LEMMA LoopTyped ==
  ASSUME LoopType, NEW r \in Requests, NEW names \in SUBSET (Secrets \cup Pools),
         Loop(r, names), UNCHANGED at
  PROVE  LoopType' /\ LoopKept(r) /\ todo'[r] = names
  BY DEF Loop, LoopType, LoopKept, Others

LEMMA WroteTyped ==
  ASSUME DoneType, NEW r \in Requests, NEW o \in Objects, Wrote(r, o)
  PROVE  /\ wrote' \in [Requests -> SUBSET Objects] /\ wrote'[r] = wrote[r] \cup {o}
         /\ \A q \in Others(r) : wrote'[q] = wrote[q]
  BY DEF Wrote, DoneType, Others

LEMMA FaultTyped ==
  ASSUME FaultType, NEW r \in Requests, Fails(r) \/ Served
  PROVE  FaultType' /\ FaultKept(r) /\ (hurt[r] => hurt'[r]) /\ (Fails(r) => hurt'[r])
<1>1. Fails(r) => hurt'[r]
  BY DEF Fails, FaultType
<1>2. CASE Served
  BY <1>1, <1>2 DEF Served, FaultType, FaultKept
<1>3. CASE Fails(r)
  <2>1. faults' \in 0 .. MaxFaults
    BY <1>3 DEF Fails, FaultType
  <2>2. hurt' \in [Requests -> BOOLEAN] /\ \A q \in Others(r) : hurt'[q] = hurt[q]
    <3>1. hurt \in [Requests -> BOOLEAN] /\ TRUE \in BOOLEAN
      BY DEF FaultType
    <3>2. hurt' = [hurt EXCEPT ![r] = TRUE]
      BY <1>3 DEF Fails
    <3>3. \A q \in Others(r) : hurt'[q] = hurt[q]
      BY <3>1, <3>2 DEF Others
    <3>4. hurt' \in [Requests -> BOOLEAN]
      BY <3>1, <3>2
    <3> QED
      BY <3>3, <3>4
  <2> QED
    BY <1>1, <1>3, <2>1, <2>2 DEF FaultType, FaultKept
<1> QED
  BY <1>2, <1>3

\* What a step does not mention is as it was.
LEMMA KeptTyped ==
  ASSUME Typed, NEW r \in Requests
  PROVE  /\ UNCHANGED <<nspace, secret, spoke>> => WorldType'
         /\ UNCHANGED <<pc, code>> => ControlType' /\ ControlKept(r)
         /\ UNCHANGED <<at, todo>> => LoopType' /\ LoopKept(r)
         /\ UNCHANGED <<req, old>> => SentType' /\ SentKept(r)
         /\ UNCHANGED <<wrote, told, warned>> => DoneType' /\ DoneKept(r)
         /\ UNCHANGED bundle => BundleType' /\ BundleKept(r)
         /\ UNCHANGED <<hurt, faults>> => FaultType' /\ FaultKept(r)
<1> USE DEF Typed
<1>1. UNCHANGED <<nspace, secret, spoke>> => WorldType'
  BY DEF WorldType
<1>2. UNCHANGED <<pc, code>> => ControlType' /\ ControlKept(r)
  BY DEF ControlType, ControlKept
<1>3. UNCHANGED <<at, todo>> => LoopType' /\ LoopKept(r)
  BY DEF LoopType, LoopKept
<1>4. UNCHANGED <<req, old>> => SentType' /\ SentKept(r)
  BY DEF SentType, SentKept
<1>5. UNCHANGED <<wrote, told, warned>> => DoneType' /\ DoneKept(r)
  BY DEF DoneType, DoneKept
<1>6. UNCHANGED bundle => BundleType' /\ BundleKept(r)
  BY DEF BundleType, BundleKept
<1>7. UNCHANGED <<hurt, faults>> => FaultType' /\ FaultKept(r)
  BY DEF FaultType, FaultKept
<1> QED
  BY <1>1, <1>2, <1>3, <1>4, <1>5, <1>6, <1>7

LEMMA ControlStep ==
  ASSUME Typed, NEW r \in Requests,
         \/ \E step \in Steps : GoTo(r, step)
         \/ \E status \in {200, 201, 400, 404, 500, 502} : Answer(r, status)
         \/ UNCHANGED <<pc, code>>
  PROVE  ControlType' /\ ControlKept(r)
  BY GoToTyped, AnswerTyped, KeptTyped DEF Typed

LEMMA LoopStep ==
  ASSUME Typed, NEW r \in Requests, UNCHANGED at,
         UNCHANGED todo \/ \E names \in SUBSET (Secrets \cup Pools) : Loop(r, names)
  PROVE  LoopType' /\ LoopKept(r)
  BY LoopTyped, KeptTyped DEF Typed

LEMMA FaultStep ==
  ASSUME Typed, NEW r \in Requests, Fails(r) \/ Served
  PROVE  FaultType' /\ FaultKept(r)
  BY FaultTyped DEF Typed

LEMMA SpokeStep ==
  ASSUME Typed, UNCHANGED <<nspace, secret>>,
         \/ UNCHANGED spoke
         \/ \E o \in Objects, x \in Object : spoke' = [spoke EXCEPT ![o] = x]
         \/ \E o \in Objects : ~Absent(o) /\ spoke' = Marked(o)
  PROVE  WorldType'
<1>1. spoke' \in [Objects -> Object \cup {None}]
  BY MarkedFacts DEF Typed, WorldType
<1> QED
  BY <1>1 DEF Typed, WorldType

LEMMA WroteStep ==
  ASSUME Typed, NEW r \in Requests, UNCHANGED <<told, warned>>,
         UNCHANGED wrote \/ \E o \in Objects : Wrote(r, o)
  PROVE  DoneType' /\ DoneKept(r)
<1>1. CASE UNCHANGED wrote
  BY <1>1, KeptTyped
<1>2. CASE \E o \in Objects : Wrote(r, o)
  BY <1>2, WroteTyped DEF Typed, DoneType, DoneKept
<1> QED
  BY <1>1, <1>2

LEMMA ArrivesTyped ==
  ASSUME Typed, NEW r \in Requests, Refuse(r) \/ Accept(r)
  PROVE  Typed' /\ OthersKept(r)
<1>1. CASE Refuse(r)
  <2>1. \E status \in {200, 201, 400, 404, 500, 502} : Answer(r, status)
    BY <1>1, RefusalsTyped DEF Refuse
  <2>2. UNCHANGED <<nspace, secret, spoke, req, at, todo, bundle, told, warned, wrote, old, hurt, faults>>
    BY <1>1 DEF Refuse
  <2> QED
    BY <2>1, <2>2, ControlStep, KeptTyped DEF Typed, OthersKept
<1>2. CASE Accept(r)
  <2>1. PICK q \in Request :
          /\ req' = [req EXCEPT ![r] = q] /\ GoTo(r, FirstStep(q.op))
          /\ old' = [old EXCEPT ![r] =
               IF q.op = "delete" THEN {<<p, spoke[p].by>> : p \in {p \in Pools : ~Absent(p)}} ELSE {}]
    BY <1>2 DEF Accept
  <2>2. FirstStep(q.op) \in Steps
    BY RequestFacts, FirstStepFacts DEF Steps
  <2>3. {<<p, spoke[p].by>> : p \in {p \in Pools : ~Absent(p)}} \in SUBSET (Pools \X (Requests \cup {None}))
    BY ObjectWrites, NoneFacts DEF Typed, WorldType, Absent
  <2>4. UNCHANGED <<nspace, secret, spoke, at, todo, bundle, told, warned, wrote, hurt, faults>>
    BY <1>2 DEF Accept
  <2>5. SentType' /\ SentKept(r)
    BY <2>1, <2>3 DEF Typed, SentType, SentKept, Others
  <2>6. ControlType' /\ ControlKept(r)
    BY <2>1, <2>2, ControlStep
  <2> QED
    BY <2>4, <2>5, <2>6, KeptTyped DEF Typed, OthersKept
<1> QED
  BY <1>1, <1>2

LEMMA SecretsTyped ==
  ASSUME Typed, HandlerInv, NEW r \in Requests,
         CreateNamespace(r) \/ PostSecret(r) \/ PutSecret(r)
  PROVE  Typed' /\ OthersKept(r)
<1>1. InPhase(r) /\ "secrets" \in Steps /\ "putsecret" \in Steps /\ 500 \in {200, 201, 400, 404, 500, 502}
  BY DEF HandlerInv, Steps
<1>2. CASE CreateNamespace(r)
  <2>1. req[r].secrets \in SUBSET (Secrets \cup Pools)
    BY <1>1, <1>2, RequestFacts DEF CreateNamespace, InPhase, Creating
  <2>2. /\ GoTo(r, "secrets") \/ Answer(r, 500)
        /\ Loop(r, req[r].secrets) \/ UNCHANGED todo
        /\ Fails(r) \/ Served
    BY <1>2 DEF CreateNamespace
  <2>3. nspace' \in BOOLEAN /\ UNCHANGED <<secret, spoke, req, at, bundle, told, warned, wrote, old>>
    BY <1>2 DEF CreateNamespace, Typed, WorldType
  <2>4. WorldType'
    BY <2>3 DEF Typed, WorldType
  <2> QED
    BY <1>1, <2>1, <2>2, <2>3, <2>4, ControlStep, LoopStep, FaultStep, KeptTyped DEF Typed, OthersKept
<1>3. CASE PostSecret(r)
  <2>1. PICK s \in todo[r] :
          \/ /\ secret[s] = None /\ secret' = [secret EXCEPT ![s] = r]
             /\ Served /\ GoTo(r, "secrets") /\ Loop(r, todo[r] \ {s}) /\ UNCHANGED at
          \/ /\ secret[s] # None /\ Served
             /\ GoTo(r, "putsecret") /\ at' = [at EXCEPT ![r] = s]
             /\ UNCHANGED <<secret, todo>>
          \/ /\ Fails(r) /\ Answer(r, 500)
             /\ secret' \in {secret} \cup {[secret EXCEPT ![s] = r] : x \in {y \in {s} : secret[y] = None}}
             /\ UNCHANGED <<at, todo>>
    BY <1>3 DEF PostSecret
  <2>2. s \in Secrets /\ todo[r] \ {s} \in SUBSET (Secrets \cup Pools)
    BY <1>1, <1>3 DEF PostSecret, InPhase
  <2>3. secret' \in [Secrets -> Requests \cup {None}]
    BY <2>1 DEF Typed, WorldType
  <2>4. LoopType' /\ LoopKept(r)
    <3>1. CASE UNCHANGED at
      BY <2>1, <2>2, <3>1, LoopStep
    <3>2. CASE at' = [at EXCEPT ![r] = s] /\ UNCHANGED todo
      BY <2>2, <3>2 DEF Typed, LoopType, LoopKept, Others
    <3> QED
      BY <2>1, <3>1, <3>2
  <2>5. /\ GoTo(r, "secrets") \/ GoTo(r, "putsecret") \/ Answer(r, 500)
        /\ Fails(r) \/ Served
    BY <2>1
  <2>6. UNCHANGED <<nspace, spoke, req, bundle, told, warned, wrote, old>>
    BY <1>3 DEF PostSecret
  <2>7. WorldType'
    BY <2>3, <2>6 DEF Typed, WorldType
  <2> QED
    BY <1>1, <2>4, <2>5, <2>6, <2>7, ControlStep, FaultStep, KeptTyped DEF Typed, OthersKept
<1>4. CASE PutSecret(r)
  <2>1. at[r] \in Secrets /\ todo[r] \ {at[r]} \in SUBSET (Secrets \cup Pools)
    BY <1>1, <1>4 DEF PutSecret, InPhase
  <2>2. secret' \in [Secrets -> Requests \cup {None}]
    BY <1>4, <2>1 DEF PutSecret, Typed, WorldType
  <2>3. /\ GoTo(r, "secrets") \/ Answer(r, 500)
        /\ Loop(r, todo[r] \ {at[r]}) \/ UNCHANGED todo
        /\ Fails(r) \/ Served
        /\ at' = [at EXCEPT ![r] = None]
    BY <1>4 DEF PutSecret
  <2>4. LoopType' /\ LoopKept(r)
    BY <2>1, <2>3 DEF Loop, Typed, LoopType, LoopKept, Others
  <2>5. UNCHANGED <<nspace, spoke, req, bundle, told, warned, wrote, old>>
    BY <1>4 DEF PutSecret
  <2>6. WorldType'
    BY <2>2, <2>5 DEF Typed, WorldType
  <2> QED
    BY <1>1, <2>3, <2>4, <2>5, <2>6, ControlStep, FaultStep, KeptTyped DEF Typed, OthersKept
<1> QED
  BY <1>2, <1>3, <1>4

LEMMA PostTyped ==
  ASSUME Typed, HandlerInv, NEW r \in Requests,
         PostHostedCluster(r) \/ PostNodePool(r) \/ Created(r)
  PROVE  Typed' /\ OthersKept(r)
<1>1. InPhase(r) /\ "pools" \in Steps
  BY DEF HandlerInv, Steps
<1>2. CASE PostHostedCluster(r)
  <2> DEFINE c == req[r].cluster
  <2>2. c \in Objects /\ New(r, c) \in Object /\ req[r].pools \in SUBSET (Secrets \cup Pools)
    BY <1>1, <1>2, RequestFacts, NewTyped DEF PostHostedCluster, InPhase, Creating
  <2>3. /\ UNCHANGED spoke \/ spoke' = [spoke EXCEPT ![c] = New(r, c)]
        /\ UNCHANGED wrote \/ Wrote(r, c)
        /\ GoTo(r, "pools") \/ Answer(r, 500)
        /\ Loop(r, req[r].pools) \/ UNCHANGED todo
        /\ Fails(r) \/ Served
    BY <1>2 DEF PostHostedCluster, PerhapsCreates
  <2>4. UNCHANGED <<nspace, secret, req, at, bundle, told, warned, old>>
    BY <1>2 DEF PostHostedCluster
  <2> HIDE DEF c
  <2>5. WorldType'
    BY <2>2, <2>3, <2>4, SpokeStep
  <2>6. DoneType' /\ DoneKept(r)
    BY <2>2, <2>3, <2>4, WroteStep
  <2> QED
    BY <1>1, <2>2, <2>3, <2>4, <2>5, <2>6, ControlStep, LoopStep, FaultStep, KeptTyped
       DEF Typed, OthersKept
<1>3. CASE PostNodePool(r)
  <2>1. PICK p \in todo[r], c \in Clusters :
          /\ LET x == New(r, c)
             IN  \/ /\ Absent(p) /\ spoke' = [spoke EXCEPT ![p] = x] /\ Wrote(r, p) /\ Served
                    /\ told' = [told EXCEPT ![r] = @ \cup {p}] /\ UNCHANGED warned
                 \/ /\ \/ ~Absent(p) /\ Served /\ UNCHANGED <<spoke, wrote>>
                       \/ Fails(r) /\ PerhapsCreates(r, p, x)
                    /\ warned' = [warned EXCEPT ![r] = @ \cup {p}] /\ UNCHANGED told
          /\ Loop(r, todo[r] \ {p})
    BY <1>3 DEF PostNodePool
  <2>2. /\ p \in Pools /\ p \in Objects /\ New(r, c) \in Object
        /\ todo[r] \ {p} \in SUBSET (Secrets \cup Pools)
    BY <1>1, <1>3, RequestFacts, NewTyped, NoneFacts DEF PostNodePool, InPhase, Creating
  <2>3. /\ UNCHANGED spoke \/ spoke' = [spoke EXCEPT ![p] = New(r, c)]
        /\ UNCHANGED wrote \/ Wrote(r, p)
        /\ UNCHANGED told \/ told' = [told EXCEPT ![r] = @ \cup {p}]
        /\ UNCHANGED warned \/ warned' = [warned EXCEPT ![r] = @ \cup {p}]
        /\ Fails(r) \/ Served
    BY <2>1 DEF PerhapsCreates
  <2>4. UNCHANGED <<nspace, secret, req, pc, at, bundle, code, old>>
    BY <1>3 DEF PostNodePool
  <2>5. WorldType'
    BY <2>2, <2>3, <2>4, SpokeStep
  <2>6. DoneType' /\ DoneKept(r)
    <3>1. wrote' \in [Requests -> SUBSET Objects] /\ \A q \in Others(r) : wrote'[q] = wrote[q]
      BY <2>2, <2>3, WroteTyped DEF Typed, DoneType
    <3>2. told' \in [Requests -> SUBSET Pools] /\ \A q \in Others(r) : told'[q] = told[q]
      BY <2>2, <2>3 DEF Typed, DoneType, Others
    <3>3. warned' \in [Requests -> SUBSET Pools] /\ \A q \in Others(r) : warned'[q] = warned[q]
      BY <2>2, <2>3 DEF Typed, DoneType, Others
    <3> QED
      BY <3>1, <3>2, <3>3 DEF DoneType, DoneKept
  <2> QED
    BY <2>1, <2>2, <2>3, <2>4, <2>5, <2>6, LoopStep, FaultStep, KeptTyped DEF Typed, OthersKept
<1>4. CASE Created(r)
  <2>1. Answer(r, 201)
    BY <1>4 DEF Created
  <2>2. UNCHANGED <<nspace, secret, spoke, req, at, todo, bundle, told, warned, wrote, old, hurt, faults>>
    BY <1>4 DEF Created
  <2> QED
    BY <2>1, <2>2, ControlStep, KeptTyped DEF Typed, OthersKept
<1> QED
  BY <1>2, <1>3, <1>4

LEMMA DeleteTyped ==
  ASSUME Typed, HandlerInv, NEW r \in Requests,
         ListNodePools(r) \/ DeleteNodePool(r) \/ DeleteHostedCluster(r)
  PROVE  Typed' /\ OthersKept(r)
<1>1. InPhase(r) /\ "drop" \in Steps
  BY DEF HandlerInv, Steps
<1>2. CASE ListNodePools(r)
  <2>1. /\ PoolsOf(req[r].cluster) \in SUBSET (Secrets \cup Pools)
        /\ {} \in SUBSET (Secrets \cup Pools)
    BY PoolsOfTyped
  <2>2. /\ Loop(r, PoolsOf(req[r].cluster)) \/ Loop(r, {})
        /\ Fails(r) \/ Served
        /\ GoTo(r, "drop")
    BY <1>2 DEF ListNodePools
  <2>3. UNCHANGED <<nspace, secret, spoke, req, at, bundle, told, warned, wrote, old>>
    BY <1>2 DEF ListNodePools
  <2> QED
    BY <1>1, <2>1, <2>2, <2>3, ControlStep, LoopStep, FaultStep, KeptTyped DEF Typed, OthersKept
<1>3. CASE DeleteNodePool(r)
  <2>1. PICK p \in todo[r] :
          /\ UNCHANGED spoke \/ (~Absent(p) /\ spoke' = Marked(p))
          /\ UNCHANGED wrote \/ Wrote(r, p)
          /\ Fails(r) \/ Served
          /\ Loop(r, todo[r] \ {p})
    BY <1>3 DEF DeleteNodePool
  <2>2. p \in Objects /\ todo[r] \ {p} \in SUBSET (Secrets \cup Pools)
    BY <1>1, <1>3, NoneFacts DEF DeleteNodePool, InPhase
  <2>3. UNCHANGED <<nspace, secret, req, pc, at, bundle, told, warned, code, old>>
    BY <1>3 DEF DeleteNodePool
  <2>4. WorldType'
    BY <2>1, <2>2, <2>3, SpokeStep
  <2>5. DoneType' /\ DoneKept(r)
    BY <2>1, <2>2, <2>3, WroteStep
  <2> QED
    BY <2>1, <2>2, <2>3, <2>4, <2>5, LoopStep, FaultStep, KeptTyped DEF Typed, OthersKept
<1>4. CASE DeleteHostedCluster(r)
  <2> DEFINE c == req[r].cluster
  <2>1. /\ UNCHANGED spoke \/ (~Absent(c) /\ spoke' = Marked(c))
        /\ UNCHANGED wrote \/ Wrote(r, c)
        /\ Fails(r) \/ Served
        /\ \E status \in {200, 404, 502} : Answer(r, status)
    BY <1>4 DEF DeleteHostedCluster
  <2>2. c \in Objects
    BY <1>1, <1>4, RequestFacts DEF DeleteHostedCluster, InPhase, Deleting
  <2>3. UNCHANGED <<nspace, secret, req, at, todo, bundle, told, warned, old>>
    BY <1>4 DEF DeleteHostedCluster
  <2> HIDE DEF c
  <2>4. WorldType'
    BY <2>1, <2>2, <2>3, SpokeStep
  <2>5. DoneType' /\ DoneKept(r)
    BY <2>1, <2>2, <2>3, WroteStep
  <2> QED
    BY <2>1, <2>3, <2>4, <2>5, ControlStep, FaultStep, KeptTyped DEF Typed, OthersKept
<1> QED
  BY <1>2, <1>3, <1>4

\* What an update sends was read by another request.
LEMMA SentFacts ==
  ASSUME Typed, HandlerInv, NEW r \in Requests, pc[r] \in Updating, NEW o \in req[r].parts
  PROVE  /\ req[r] \in Request /\ req[r].base \in Others(r) /\ o \in Objects
         /\ bundle[req[r].base][o] # None /\ Sent(r, o) \in Object
<1>1. req[r] \in Request /\ req[r].op = "update" /\ pc[req[r].base] = "answered"
      /\ bundle[req[r].base][o] # None
  BY DEF HandlerInv, InPhase, OneCluster
<1>2. req[r].base \in Requests /\ req[r].base # r /\ o \in Objects
  BY <1>1, RequestFacts DEF Updating
<1> QED
  BY <1>1, <1>2 DEF Sent, Typed, BundleType, Others

LEMMA PutStep ==
  ASSUME Typed, HandlerInv, NEW r \in Requests, pc[r] \in Updating, NEW o \in req[r].parts,
         Put(r, o) \/ Refused(r, o), UNCHANGED <<nspace, secret, told, warned>>
  PROVE  WorldType' /\ DoneType' /\ DoneKept(r) /\ (Fails(r) \/ Served)
<1>1. /\ UNCHANGED spoke \/ (~Absent(o) /\ spoke' = Replaced(r, o))
      /\ UNCHANGED wrote \/ Wrote(r, o)
      /\ Fails(r) \/ Served
  BY DEF Put, Refused, Current
<1>2. o \in Objects /\ Sent(r, o) \in Object
  BY SentFacts
<1>3. spoke' \in [Objects -> Object \cup {None}]
  BY <1>1, <1>2, ReplacedFacts DEF Typed, WorldType
<1>4. WorldType'
  BY <1>3 DEF Typed, WorldType
<1> QED
  BY <1>1, <1>2, <1>4, WroteStep

LEMMA UpdateTyped ==
  ASSUME Typed, HandlerInv, NEW r \in Requests, PutHostedCluster(r) \/ PutNodePool(r)
  PROVE  Typed' /\ OthersKept(r)
<1>1. InPhase(r) /\ "putpools" \in Steps
  BY DEF HandlerInv, Steps
<1>2. CASE PutHostedCluster(r)
  <2> DEFINE c == req[r].cluster
  <2>1. /\ \/ UNCHANGED <<spoke, wrote>> /\ Served
           \/ c \in req[r].parts /\ (Put(r, c) \/ Refused(r, c))
        /\ GoTo(r, "putpools") \/ Answer(r, 502)
        /\ Loop(r, req[r].parts \cap Pools)
    BY <1>2 DEF PutHostedCluster
  <2>2. UNCHANGED <<nspace, secret, req, at, bundle, told, warned, old>>
    BY <1>2 DEF PutHostedCluster
  <2>3. pc[r] \in Updating /\ req[r].parts \cap Pools \in SUBSET (Secrets \cup Pools)
    BY <1>2 DEF PutHostedCluster, Updating
  <2> HIDE DEF c
  <2>4. WorldType' /\ DoneType' /\ DoneKept(r) /\ (Fails(r) \/ Served)
    <3>1. CASE UNCHANGED <<spoke, wrote>> /\ Served
      BY <2>2, <3>1, KeptTyped
    <3>2. CASE c \in req[r].parts /\ (Put(r, c) \/ Refused(r, c))
      BY <2>2, <2>3, <3>2, PutStep
    <3> QED
      BY <2>1, <3>1, <3>2
  <2> QED
    BY <1>1, <2>1, <2>2, <2>3, <2>4, ControlStep, LoopStep, FaultStep, KeptTyped DEF Typed, OthersKept
<1>3. CASE PutNodePool(r)
  <2>1. PICK p \in todo[r] :
          \/ Put(r, p) /\ GoTo(r, "putpools") /\ Loop(r, todo[r] \ {p})
          \/ Refused(r, p) /\ Answer(r, 502) /\ UNCHANGED todo
    BY <1>3 DEF PutNodePool
  <2>2. UNCHANGED <<nspace, secret, req, at, bundle, told, warned, old>>
    BY <1>3 DEF PutNodePool
  <2>3. pc[r] \in Updating /\ p \in req[r].parts /\ todo[r] \ {p} \in SUBSET (Secrets \cup Pools)
    BY <1>3, <1>1 DEF PutNodePool, Updating, InPhase
  <2>4. WorldType' /\ DoneType' /\ DoneKept(r) /\ (Fails(r) \/ Served)
    BY <2>1, <2>2, <2>3, PutStep
  <2> QED
    BY <1>1, <2>1, <2>2, <2>3, <2>4, ControlStep, LoopStep, FaultStep, KeptTyped DEF Typed, OthersKept
<1> QED
  BY <1>2, <1>3

\* What a read adds to the bundle is on the spoke, and of the cluster asked for.
LEMMA ReadStep ==
  ASSUME Typed, HandlerInv, NEW r \in Requests, GetHostedCluster(r) \/ GetNodePools(r)
  PROVE  /\ BundleType' /\ BundleKept(r)
         /\ req[r] \in Request
         /\ \A o \in Objects :
              \/ bundle'[r][o] = bundle[r][o]
              \/ bundle'[r][o] = spoke[o] /\ ~Absent(o) /\ (o \in Clusters => o = req[r].cluster)
<1>1. req[r] \in Request
  BY DEF HandlerInv, InPhase, GetHostedCluster, GetNodePools, Replacing, Reading, Updating
<1>2. CASE UNCHANGED bundle
  BY <1>1, <1>2, KeptTyped
<1>3. CASE /\ ~Absent(req[r].cluster)
           /\ bundle' = [bundle EXCEPT ![r][req[r].cluster] = spoke[req[r].cluster]]
  <2>1. req[r].cluster \in Objects
    BY <1>1, RequestFacts
  <2> QED
    BY <1>1, <1>3, <2>1 DEF Typed, BundleType, BundleKept, WorldType, Others
<1>4. CASE bundle' = [bundle EXCEPT ![r] =
             [o \in Objects |-> IF o \in PoolsOf(req[r].cluster) THEN spoke[o] ELSE @[o]]]
  <2> DEFINE b == [o \in Objects |-> IF o \in PoolsOf(req[r].cluster) THEN spoke[o] ELSE bundle[r][o]]
  <2>1. b \in [Objects -> Object \cup {None}]
    BY DEF Typed, BundleType, WorldType
  <2>2. bundle' = [bundle EXCEPT ![r] = b]
    BY <1>4
  <2>3. \A o \in PoolsOf(req[r].cluster) : o \in Pools /\ ~Absent(o) /\ o \notin Clusters
    BY DEF PoolsOf
  <2>4. \A o \in Objects :
          \/ b[o] = bundle[r][o]
          \/ b[o] = spoke[o] /\ ~Absent(o) /\ (o \in Clusters => o = req[r].cluster)
    BY <2>3
  <2> HIDE DEF b
  <2>5. BundleType' /\ BundleKept(r) /\ bundle'[r] = b
    BY <2>1, <2>2, SetOne DEF Typed, BundleType, BundleKept, Others
  <2> QED
    BY <1>1, <2>4, <2>5
<1> QED
  BY <1>2, <1>3, <1>4 DEF GetHostedCluster, GetNodePools

LEMMA ReadTyped ==
  ASSUME Typed, HandlerInv, NEW r \in Requests,
         GetHostedCluster(r) \/ GetNodePools(r)
  PROVE  Typed' /\ OthersKept(r)
<1>1. /\ GoTo(r, "getpools") \/ \E status \in {200, 404, 502} : Answer(r, status)
      /\ Fails(r) \/ Served
  BY DEF GetHostedCluster, GetNodePools
<1>2. UNCHANGED <<nspace, secret, spoke, req, at, todo, told, warned, wrote, old>>
  BY DEF GetHostedCluster, GetNodePools
<1>3. "getpools" \in Steps
  BY DEF Steps
<1> QED
  BY <1>1, <1>2, <1>3, ReadStep, ControlStep, FaultStep, KeptTyped DEF Typed, OthersKept

LEMMA AbandonTyped ==
  ASSUME Typed, NEW r \in Requests, Abandon(r)
  PROVE  Typed' /\ OthersKept(r)
<1>1. GoTo(r, "gone") /\ Loop(r, {}) /\ at' = [at EXCEPT ![r] = None] /\ "gone" \in Steps
  BY DEF Abandon, Steps
<1>2. UNCHANGED <<nspace, secret, spoke, req, bundle, told, warned, wrote, old, hurt>>
  BY DEF Abandon
<1>3. LoopType' /\ LoopKept(r)
  BY <1>1 DEF Loop, Typed, LoopType, LoopKept, Others
<1>4. FaultType' /\ FaultKept(r)
  BY <1>2 DEF Abandon, Typed, FaultType, FaultKept
<1> QED
  BY <1>1, <1>2, <1>3, <1>4, ControlStep, KeptTyped DEF Typed, OthersKept

LEMMA ActsTyped ==
  ASSUME Typed, HandlerInv, NEW r \in Requests, Acts(r)
  PROVE  Typed' /\ OthersKept(r)
  BY ArrivesTyped, SecretsTyped, PostTyped, DeleteTyped, UpdateTyped, ReadTyped, AbandonTyped
     DEF Acts, Handle

LEMMA FinalizeTyped ==
  ASSUME Typed, Finalize
  PROVE  Typed'
<1>1. spoke' \in [Objects -> Object \cup {None}]
  BY DEF Finalize, Typed, WorldType
<1> QED
  BY <1>1 DEF Finalize, handler, Typed, WorldType, ControlType, LoopType, SentType, DoneType,
              BundleType, FaultType

-----------------------------------------------------------------------------
(* What a step makes of its own request.                                   *)

LEMMA Values ==
  ASSUME Typed, NEW r \in Requests
  PROVE  /\ \A step : GoTo(r, step) => pc'[r] = step
         /\ \A status : Answer(r, status) => pc'[r] = "answered" /\ code'[r] = status
         /\ \A names : Loop(r, names) => todo'[r] = names
         /\ \A o : Wrote(r, o) => wrote'[r] = wrote[r] \cup {o}
  BY DEF GoTo, Answer, Loop, Wrote, Typed, ControlType, LoopType, DoneType

\* A request moves on, and creates and replaces nothing twice.
MovesOn(r) ==
  /\ pc[r] \notin {"answered", "gone"} /\ pc'[r] # "unsent"
  /\ pc'[r] \in Updating => pc[r] \in Updating \cup {"unsent"}
  /\ \A o \in Objects : (MayPost(r, o)' => MayPost(r, o)) /\ (MayPut(r, o)' => MayPut(r, o))
  /\ nspace => nspace'
  /\ \A s \in Secrets : secret[s] # None => secret'[s] # None

OwnInv(r) == InPhase(r) /\ AnswerIsTrue(r) /\ SecretsDone(r)

LEMMA ArrivesOwn ==
  ASSUME Typed, HandlerInv, NEW r \in Requests, Refuse(r) \/ Accept(r)
  PROVE  OwnInv(r)' /\ MovesOn(r)
<1>1. OwnInv(r) /\ pc[r] = "unsent" /\ UNCHANGED <<nspace, secret, todo, told, warned, wrote>>
  BY DEF HandlerInv, OwnInv, Refuse, Accept, Arrives
<1>2. req[r] = None /\ told[r] = {} /\ warned[r] = {}
  BY <1>1 DEF OwnInv, InPhase, AnswerIsTrue
<1>3. CASE Refuse(r)
  <2>1. pc'[r] = "answered" /\ req' = req
    BY <1>3, Values DEF Refuse
  <2> QED
    BY <1>1, <1>2, <2>1
       DEF OwnInv, InPhase, AnswerIsTrue, SecretsDone, MovesOn, MayPost, MayPut,
           Creating, Deleting, Updating, Reading
<1>4. CASE Accept(r)
  <2>1. PICK q \in Request : req' = [req EXCEPT ![r] = q] /\ GoTo(r, FirstStep(q.op))
    BY <1>4 DEF Accept
  <2>2. pc'[r] = FirstStep(q.op) /\ req'[r] = q
    BY <2>1, Values DEF Typed, SentType
  <2>3. /\ q.op \in {"create", "get", "update", "delete"}
        /\ q.op = "create" => pc'[r] = "namespace"
        /\ q.op = "get" => pc'[r] = "gethc"
        /\ q.op = "update" => pc'[r] = "puthc"
        /\ q.op = "delete" => pc'[r] = "list"
    BY <2>2, RequestFacts, FirstStepFacts
  <2>4. InPhase(r)'
    BY <2>2, <2>3 DEF InPhase, Creating, Deleting, Updating, Reading
  <2>5. AnswerIsTrue(r)'
    BY <1>1, <1>2, <2>2, <2>3 DEF AnswerIsTrue, Reading
  <2>6. SecretsDone(r)' /\ MovesOn(r)
    BY <1>1, <2>3 DEF SecretsDone, MovesOn, MayPost, MayPut, Updating
  <2> QED
    BY <2>4, <2>5, <2>6 DEF OwnInv
<1> QED
  BY <1>3, <1>4

LEMMA SecretsOwn ==
  ASSUME Typed, HandlerInv, NEW r \in Requests,
         CreateNamespace(r) \/ PostSecret(r) \/ PutSecret(r)
  PROVE  OwnInv(r)' /\ MovesOn(r)
<1>1. OwnInv(r) /\ pc[r] \in {"namespace", "secrets", "putsecret"} /\ UNCHANGED <<req, told, warned, wrote>>
  BY DEF HandlerInv, OwnInv, CreateNamespace, PostSecret, PutSecret
<1>2. req[r] \in Request /\ req[r].op = "create" /\ req[r].secrets \subseteq Secrets
  BY <1>1, RequestFacts DEF OwnInv, InPhase, Creating
<1>3. \A s \in Secrets : secret[s] # None => secret'[s] # None
  BY NoneFacts DEF CreateNamespace, PostSecret, PutSecret, Typed, WorldType
<1>4. nspace => nspace'
  BY DEF CreateNamespace, PostSecret, PutSecret
<1>10. ASSUME PostSecret(r)
      PROVE  \E s \in todo[r] :
               /\ pc[r] = "secrets" /\ s \in Secrets /\ UNCHANGED nspace
               /\ \/ pc'[r] = "secrets" /\ secret' = [secret EXCEPT ![s] = r] /\ todo'[r] = todo[r] \ {s}
                  \/ pc'[r] = "putsecret" /\ at'[r] = s /\ UNCHANGED <<secret, todo>>
                  \/ pc'[r] = "answered" /\ code'[r] = 500
  <2>1. PICK s \in todo[r] :
          \/ /\ secret' = [secret EXCEPT ![s] = r] /\ GoTo(r, "secrets") /\ Loop(r, todo[r] \ {s})
          \/ GoTo(r, "putsecret") /\ at' = [at EXCEPT ![r] = s] /\ UNCHANGED <<secret, todo>>
          \/ Answer(r, 500)
    BY <1>10 DEF PostSecret
  <2>2. pc[r] = "secrets" /\ UNCHANGED nspace /\ s \in Secrets
    BY <1>1, <1>10 DEF PostSecret, OwnInv, InPhase
  <2>3. at' = [at EXCEPT ![r] = s] => at'[r] = s
    BY DEF Typed, LoopType
  <2> QED
    BY <2>1, <2>2, <2>3, Values
<1>11. ASSUME CreateNamespace(r)
      PROVE  \/ pc'[r] = "secrets" /\ todo'[r] = req[r].secrets /\ nspace'
             \/ pc'[r] = "answered" /\ code'[r] = 500
  <2>1. CASE nspace' = TRUE /\ GoTo(r, "secrets") /\ Loop(r, req[r].secrets)
    BY <2>1, Values
  <2>2. CASE Answer(r, 500)
    BY <2>2, Values
  <2> QED
    BY <1>11, <2>1, <2>2 DEF CreateNamespace
<1>5. \/ pc'[r] = "answered" /\ code'[r] = 500
      \/ pc'[r] \in {"secrets", "putsecret"} /\ todo'[r] \subseteq Secrets
           /\ (pc'[r] = "putsecret" => at'[r] \in todo'[r])
  <2>1. CASE CreateNamespace(r)
    BY <2>1, <1>2, <1>11
  <2>2. CASE PostSecret(r)
    BY <2>2, <1>1, <1>10 DEF OwnInv, InPhase
  <2>3. CASE PutSecret(r)
    BY <2>3, <1>1, Values DEF PutSecret, OwnInv, InPhase
  <2> QED
    BY <2>1, <2>2, <2>3
<1>6. InPhase(r)'
  BY <1>1, <1>2, <1>5 DEF InPhase, Creating, Deleting, Updating, Reading
<1>7. AnswerIsTrue(r)'
  BY <1>1, <1>2, <1>5 DEF OwnInv, AnswerIsTrue, Reading
<1>8. SecretsDone(r)'
  <2>1. CASE CreateNamespace(r)
    BY <2>1, <1>1, <1>11 DEF SecretsDone
  <2>2. CASE PostSecret(r)
    BY <2>2, <1>1, <1>2, <1>3, <1>10, NoneFacts DEF OwnInv, SecretsDone, Typed, WorldType
  <2>3. CASE PutSecret(r)
    <3>1. pc'[r] = "secrets" => /\ secret' = [secret EXCEPT ![at[r]] = r]
                                /\ todo'[r] = todo[r] \ {at[r]}
      BY <2>3, Values DEF PutSecret
    <3>2. pc[r] = "putsecret" /\ UNCHANGED nspace
      BY <2>3 DEF PutSecret
    <3> QED
      BY <1>1, <1>2, <1>3, <1>5, <2>3, <3>1, <3>2, NoneFacts, Values
         DEF PutSecret, OwnInv, SecretsDone, Typed, WorldType
  <2> QED
    BY <2>1, <2>2, <2>3
<1>9. MovesOn(r)
  BY <1>1, <1>3, <1>4, <1>5 DEF MovesOn, MayPost, MayPut, Updating
<1> QED
  BY <1>6, <1>7, <1>8, <1>9 DEF OwnInv

LEMMA PostOwn ==
  ASSUME Typed, HandlerInv, NEW r \in Requests,
         PostHostedCluster(r) \/ PostNodePool(r) \/ Created(r)
  PROVE  OwnInv(r)' /\ MovesOn(r)
<1>1. OwnInv(r) /\ pc[r] \in {"secrets", "pools"} /\ UNCHANGED <<nspace, secret, req>>
  BY DEF HandlerInv, OwnInv, PostHostedCluster, PostNodePool, Created
<1>2. req[r] \in Request /\ req[r].op = "create" /\ req[r].pools \subseteq Pools
  BY <1>1, RequestFacts DEF OwnInv, InPhase, Creating
<1>3. CASE PostHostedCluster(r)
  <2>1. \/ /\ wrote'[r] = wrote[r] \cup {req[r].cluster}
           /\ pc'[r] = "pools" /\ todo'[r] = req[r].pools
        \/ pc'[r] = "answered" /\ code'[r] = 500
    BY <1>3, Values DEF PostHostedCluster
  <2>2. pc[r] = "secrets" /\ UNCHANGED <<told, warned>>
    BY <1>3 DEF PostHostedCluster
  <2>3. told[r] = {} /\ warned[r] = {}
    BY <1>1, <2>2 DEF OwnInv, AnswerIsTrue
  <2>4. InPhase(r)'
    BY <1>1, <1>2, <2>1 DEF InPhase, Creating, Deleting, Updating, Reading
  <2>5. AnswerIsTrue(r)'
    BY <1>1, <1>2, <2>1, <2>2, <2>3 DEF AnswerIsTrue, Reading
  <2>6. SecretsDone(r)' /\ MovesOn(r)
    BY <1>1, <2>1, <2>2 DEF SecretsDone, MovesOn, MayPost, MayPut, Updating
  <2> QED
    BY <2>4, <2>5, <2>6 DEF OwnInv
<1>4. CASE PostNodePool(r)
  <2>1. PICK p \in todo[r] :
          /\ \/ /\ told' = [told EXCEPT ![r] = @ \cup {p}] /\ UNCHANGED warned /\ Wrote(r, p)
             \/ /\ warned' = [warned EXCEPT ![r] = @ \cup {p}] /\ UNCHANGED told
                /\ UNCHANGED wrote \/ Wrote(r, p)
          /\ Loop(r, todo[r] \ {p})
    BY <1>4 DEF PostNodePool, PerhapsCreates
  <2>2. /\ \/ told'[r] = told[r] \cup {p} /\ warned'[r] = warned[r] /\ wrote'[r] = wrote[r] \cup {p}
           \/ /\ warned'[r] = warned[r] \cup {p} /\ told'[r] = told[r]
              /\ wrote'[r] \in {wrote[r], wrote[r] \cup {p}}
        /\ todo'[r] = todo[r] \ {p}
    BY <2>1, Values DEF Typed, DoneType
  <2>3. pc[r] = "pools" /\ pc' = pc
    BY <1>4 DEF PostNodePool
  <2>4. InPhase(r)'
    BY <1>1, <2>2, <2>3 DEF OwnInv, InPhase, Creating, Deleting, Updating, Reading
  <2>5. AnswerIsTrue(r)'
    BY <1>1, <2>2, <2>3 DEF OwnInv, AnswerIsTrue, Reading
  <2>6. SecretsDone(r)' /\ MovesOn(r)
    BY <1>1, <2>2, <2>3 DEF SecretsDone, MovesOn, MayPost, MayPut, Updating
  <2> QED
    BY <2>4, <2>5, <2>6 DEF OwnInv
<1>5. CASE Created(r)
  <2>1. pc'[r] = "answered" /\ code'[r] = 201
    BY <1>5, Values DEF Created
  <2>2. pc[r] = "pools" /\ todo[r] = {} /\ UNCHANGED <<todo, told, warned, wrote>>
    BY <1>5 DEF Created
  <2>3. InPhase(r)'
    BY <2>1 DEF InPhase, Creating, Deleting, Updating, Reading
  <2>4. AnswerIsTrue(r)'
    BY <1>1, <1>2, <2>1, <2>2 DEF OwnInv, AnswerIsTrue, Reading
  <2>5. SecretsDone(r)' /\ MovesOn(r)
    BY <1>1, <2>1, <2>2 DEF SecretsDone, MovesOn, MayPost, MayPut, Updating
  <2> QED
    BY <2>3, <2>4, <2>5 DEF OwnInv
<1> QED
  BY <1>3, <1>4, <1>5

LEMMA DeleteOwn ==
  ASSUME Typed, HandlerInv, NEW r \in Requests,
         ListNodePools(r) \/ DeleteNodePool(r) \/ DeleteHostedCluster(r)
  PROVE  OwnInv(r)' /\ MovesOn(r)
<1>1. OwnInv(r) /\ pc[r] \in {"list", "drop"} /\ UNCHANGED <<nspace, secret, req>>
  BY DEF HandlerInv, OwnInv, ListNodePools, DeleteNodePool, DeleteHostedCluster
<1>2. req[r] \in Request /\ req[r].op = "delete"
  BY <1>1 DEF OwnInv, InPhase, Deleting
<1>3. \/ pc'[r] = "drop" /\ todo'[r] \subseteq Pools
      \/ pc'[r] = "answered" /\ (code'[r] = 200 => req[r].cluster \in wrote'[r]) /\ code'[r] # 201
  <2>1. CASE ListNodePools(r)
    BY <2>1, Values, PoolsOfTyped DEF ListNodePools
  <2>2. CASE DeleteNodePool(r)
    <3>1. PICK p \in todo[r] : Loop(r, todo[r] \ {p})
      BY <2>2 DEF DeleteNodePool
    <3>2. pc[r] = "drop" /\ pc' = pc
      BY <2>2 DEF DeleteNodePool
    <3> QED
      BY <1>1, <3>1, <3>2, Values DEF OwnInv, InPhase
  <2>3. CASE DeleteHostedCluster(r)
    <3>1. \/ Answer(r, 200) /\ Wrote(r, req[r].cluster)
          \/ Answer(r, 404) \/ Answer(r, 502)
      BY <2>3 DEF DeleteHostedCluster
    <3> QED
      BY <3>1, Values
  <2> QED
    BY <2>1, <2>2, <2>3
<1>4. InPhase(r)'
  BY <1>1, <1>2, <1>3 DEF InPhase, Creating, Deleting, Updating, Reading
<1>5. AnswerIsTrue(r)'
  BY <1>1, <1>2, <1>3 DEF AnswerIsTrue, Reading
<1>6. SecretsDone(r)' /\ MovesOn(r)
  BY <1>1, <1>3 DEF SecretsDone, MovesOn, MayPost, MayPut, Updating
<1> QED
  BY <1>4, <1>5, <1>6 DEF OwnInv

LEMMA UpdateOwn ==
  ASSUME Typed, HandlerInv, NEW r \in Requests, PutHostedCluster(r) \/ PutNodePool(r)
  PROVE  OwnInv(r)' /\ MovesOn(r)
<1>1. OwnInv(r) /\ OneCluster(r) /\ pc[r] \in Updating /\ UNCHANGED <<nspace, secret, req>>
  BY DEF HandlerInv, OwnInv, Updating, PutHostedCluster, PutNodePool
<1>2. req[r] \in Request /\ req[r].op = "update" /\ req[r].parts \subseteq Pools \cup {req[r].cluster}
  BY <1>1 DEF OwnInv, InPhase, OneCluster
<1>3. /\ \/ pc'[r] = "putpools" /\ req[r].parts \subseteq wrote'[r] \cup todo'[r]
         \/ pc'[r] = "answered" /\ code'[r] = 502
      /\ todo'[r] \subseteq req[r].parts \cap Pools
      /\ pc[r] = "putpools" => todo'[r] \subseteq todo[r]
  <2>1. CASE PutHostedCluster(r)
    <3>1. /\ \/ req[r].cluster \notin req[r].parts /\ GoTo(r, "putpools")
             \/ Wrote(r, req[r].cluster) /\ GoTo(r, "putpools")
             \/ Answer(r, 502)
          /\ Loop(r, req[r].parts \cap Pools)
          /\ pc[r] = "puthc"
      BY <2>1 DEF PutHostedCluster, Put
    <3> QED
      BY <1>2, <3>1, Values
  <2>2. CASE PutNodePool(r)
    <3>1. PICK p \in todo[r] :
            \/ Wrote(r, p) /\ GoTo(r, "putpools") /\ Loop(r, todo[r] \ {p})
            \/ Answer(r, 502) /\ UNCHANGED todo
      BY <2>2 DEF PutNodePool, Put
    <3>2. pc[r] = "putpools"
      BY <2>2 DEF PutNodePool
    <3>3. req[r].parts \subseteq wrote[r] \cup todo[r] /\ todo[r] \subseteq req[r].parts \cap Pools
      BY <1>1, <3>2 DEF OwnInv, AnswerIsTrue, InPhase
    <3> QED
      BY <3>1, <3>3, Values
  <2> QED
    BY <2>1, <2>2
<1>4. InPhase(r)'
  BY <1>1, <1>2, <1>3 DEF InPhase, Creating, Deleting, Updating, Reading
<1>5. AnswerIsTrue(r)'
  BY <1>1, <1>2, <1>3 DEF AnswerIsTrue, Reading
<1>6. SecretsDone(r)' /\ MovesOn(r)
  BY <1>1, <1>3 DEF SecretsDone, MovesOn, MayPost, MayPut, Updating
<1> QED
  BY <1>4, <1>5, <1>6 DEF OwnInv

LEMMA ReadOwn ==
  ASSUME Typed, HandlerInv, NEW r \in Requests, GetHostedCluster(r) \/ GetNodePools(r)
  PROVE  OwnInv(r)' /\ MovesOn(r)
<1>1. /\ OwnInv(r) /\ pc[r] \in Reading \cup {"putpools"} /\ (pc[r] = "putpools" => todo[r] = {})
      /\ UNCHANGED <<nspace, secret, req, todo, told, warned, wrote>>
  BY DEF HandlerInv, OwnInv, Reading, GetHostedCluster, GetNodePools, Replacing
<1>2. /\ req[r] \in Request /\ req[r].op \in {"get", "update"}
      /\ req[r].op = "update" => req[r].parts \subseteq wrote[r]
  BY <1>1 DEF OwnInv, InPhase, AnswerIsTrue, Updating, Reading
<1>3. pc'[r] = "getpools" \/ (pc'[r] = "answered" /\ code'[r] \in {200, 404, 502})
  <2>1. GoTo(r, "getpools") \/ \E status \in {200, 404, 502} : Answer(r, status)
    BY DEF GetHostedCluster, GetNodePools
  <2> QED
    BY <2>1, Values
<1>4. InPhase(r)'
  BY <1>1, <1>2, <1>3 DEF InPhase, Creating, Deleting, Updating, Reading
<1>5. AnswerIsTrue(r)'
  BY <1>1, <1>2, <1>3 DEF AnswerIsTrue, Reading
<1>6. SecretsDone(r)' /\ MovesOn(r)
  BY <1>1, <1>3 DEF SecretsDone, MovesOn, MayPost, MayPut, Updating, Reading
<1> QED
  BY <1>4, <1>5, <1>6 DEF OwnInv

LEMMA AbandonOwn ==
  ASSUME Typed, NEW r \in Requests, Abandon(r)
  PROVE  OwnInv(r)' /\ MovesOn(r)
<1>1. pc'[r] = "gone" /\ pc[r] \notin Handled /\ UNCHANGED <<nspace, secret>>
  BY Values DEF Abandon
<1>2. InPhase(r)'
  BY <1>1 DEF InPhase, Creating, Deleting, Updating, Reading
<1>3. AnswerIsTrue(r)'
  BY <1>1 DEF AnswerIsTrue, Reading
<1>4. SecretsDone(r)' /\ MovesOn(r)
  BY <1>1 DEF SecretsDone, MovesOn, MayPost, MayPut, Updating, Handled
<1> QED
  BY <1>2, <1>3, <1>4 DEF OwnInv

LEMMA ActsOwn ==
  ASSUME Typed, HandlerInv, NEW r \in Requests, Acts(r)
  PROVE  OwnInv(r)' /\ MovesOn(r)
  BY ArrivesOwn, SecretsOwn, PostOwn, DeleteOwn, UpdateOwn, ReadOwn, AbandonOwn DEF Acts, Handle

LEMMA SentOnce ==
  ASSUME NEW r, Acts(r)
  PROVE  /\ Accept(r) \/ UNCHANGED <<req, old>>
         /\ GetHostedCluster(r) \/ GetNodePools(r) \/ UNCHANGED bundle
<1> USE DEF Acts, Handle
<1>1. Accept(r) \/ UNCHANGED <<req, old>>
  BY DEF Refuse, CreateNamespace, PostSecret, PutSecret, PostHostedCluster, PostNodePool, Created,
         ListNodePools, DeleteNodePool, DeleteHostedCluster, PutHostedCluster, PutNodePool,
         GetHostedCluster, GetNodePools, Abandon
<1>2. GetHostedCluster(r) \/ GetNodePools(r) \/ UNCHANGED bundle
  BY DEF Refuse, Accept, CreateNamespace, PostSecret, PutSecret, PostHostedCluster, PostNodePool, Created,
         ListNodePools, DeleteNodePool, DeleteHostedCluster, PutHostedCluster, PutNodePool, Abandon
<1> QED
  BY <1>1, <1>2

LEMMA AcceptedUpdate ==
  ASSUME Typed, HandlerInv, NEW r \in Requests, Accept(r)
  PROVE  /\ pc[r] = "unsent" /\ req'[r] \in Request
         /\ pc'[r] \in Updating =>
              /\ req'[r].op = "update" /\ req'[r].base \in Others(r) /\ pc[req'[r].base] = "answered"
              /\ req'[r].parts \subseteq Pools \cup {req'[r].cluster}
              /\ \A o \in req'[r].parts : bundle[req'[r].base][o] # None
<1>1. pc[r] = "unsent"
  BY DEF Accept, Arrives
<1>2. PICK q \in Request : MaySend(q) /\ req' = [req EXCEPT ![r] = q] /\ GoTo(r, FirstStep(q.op))
  BY DEF Accept
<1>3. req'[r] = q /\ pc'[r] = FirstStep(q.op)
  BY <1>2, Values DEF Typed, SentType
<1>4. pc'[r] \in Updating => q.op = "update"
  BY <1>3, RequestFacts, FirstStepFacts DEF Updating
<1>5. ASSUME q.op = "update"
      PROVE  /\ q.base \in Others(r) /\ pc[q.base] = "answered"
             /\ q.parts \subseteq Pools \cup {q.cluster}
             /\ \A o \in q.parts : bundle[q.base][o] # None
  <2>1. /\ pc[q.base] = "answered" /\ req[q.base].cluster = q.cluster
        /\ \A o \in q.parts : bundle[q.base][o] # None
    BY <1>2, <1>5 DEF MaySend
  <2>2. q.base \in Requests /\ q.base # r /\ q.parts \subseteq Objects
    BY <1>1, <1>5, <2>1, RequestFacts
  <2>3. \A c \in q.parts : c \in Clusters => c = q.cluster
    BY <2>1, <2>2 DEF HandlerInv, OneCluster
  <2> QED
    BY <2>1, <2>2, <2>3 DEF Others, Objects
<1> QED
  BY <1>1, <1>3, <1>4, <1>5

LEMMA OneClusterKept ==
  ASSUME Typed, HandlerInv, NEW r \in Requests, Acts(r), NEW q \in Requests
  PROVE  OneCluster(q)'
<1>1. OthersKept(r) /\ MovesOn(r)
  BY ActsTyped, ActsOwn
<1>2. OneCluster(q) /\ OneCluster(r)
  BY DEF HandlerInv
<1>3. \A x \in Others(r) : pc'[x] = pc[x] /\ req'[x] = req[x] /\ bundle'[x] = bundle[x]
  BY <1>1 DEF OthersKept, ControlKept, SentKept, BundleKept
<1>4. CASE q # r
  <2>1. pc[q] \in Updating => req[q].base \in Others(r)
    <3>1. pc[q] \in Updating => req[q] \in Request /\ req[q].op = "update" /\ pc[req[q].base] = "answered"
      BY <1>2 DEF HandlerInv, InPhase, OneCluster
    <3> QED
      BY <1>1, <3>1, RequestFacts DEF MovesOn, Others
  <2> QED
    BY <1>2, <1>3, <1>4, <2>1 DEF OneCluster, Others
<1>5. CASE q = r
  <2>1. \A c \in Clusters : bundle'[r][c] # None => pc'[r] # "unsent" /\ c = req'[r].cluster
    <3>1. CASE Accept(r)
      <4>1. UNCHANGED bundle /\ pc[r] = "unsent"
        BY <3>1 DEF Accept, Arrives
      <4> QED
        BY <1>1, <1>2, <4>1 DEF OneCluster
    <3>2. CASE UNCHANGED req /\ (GetHostedCluster(r) \/ GetNodePools(r))
      BY <1>1, <1>2, <3>2, ReadStep, NoneFacts DEF MovesOn, OneCluster
    <3>3. CASE UNCHANGED <<req, bundle>>
      BY <1>1, <1>2, <3>3 DEF MovesOn, OneCluster
    <3> QED
      BY <3>1, <3>2, <3>3, SentOnce
  <2>2. pc'[r] \in Updating =>
          /\ req'[r].base \in Others(r) /\ pc[req'[r].base] = "answered"
          /\ req'[r].parts \subseteq Pools \cup {req'[r].cluster}
          /\ \A o \in req'[r].parts : bundle[req'[r].base][o] # None
    <3>1. CASE Accept(r)
      BY <3>1, AcceptedUpdate
    <3>2. CASE UNCHANGED req /\ pc[r] # "unsent"
      <4>1. pc'[r] \in Updating => pc[r] \in Updating
        BY <1>1, <3>2 DEF MovesOn
      <4>2. pc[r] \in Updating => req[r] \in Request /\ req[r].op = "update" /\ pc[req[r].base] = "answered"
        BY <1>2 DEF HandlerInv, InPhase, OneCluster
      <4>3. pc[r] \in Updating => req[r].base \in Others(r)
        BY <4>2, RequestFacts DEF Others, Updating
      <4> QED
        BY <1>2, <3>2, <4>1, <4>3 DEF OneCluster
    <3>3. CASE Refuse(r)
      BY <3>3, Values DEF Refuse, Updating
    <3>4. pc[r] = "unsent" => Accept(r) \/ Refuse(r)
      BY DEF Acts, Handle, CreateNamespace, PostSecret, PutSecret, PostHostedCluster, PostNodePool,
             Created, ListNodePools, DeleteNodePool, DeleteHostedCluster, PutHostedCluster, PutNodePool,
             GetHostedCluster, GetNodePools, Replacing, Abandon, Handled
    <3> QED
      BY <3>1, <3>2, <3>3, <3>4, SentOnce
  <2> QED
    BY <1>3, <1>5, <2>1, <2>2 DEF OneCluster
<1> QED
  BY <1>4, <1>5

\* Nothing a handler relies on is disturbed by another one.
LEMMA ActsHandlers ==
  ASSUME Typed, HandlerInv, NEW r \in Requests, Acts(r)
  PROVE  HandlerInv'
<1>1. OthersKept(r) /\ OwnInv(r)' /\ MovesOn(r)
  BY ActsTyped, ActsOwn
<1>2. ASSUME NEW q \in Others(r)
      PROVE  InPhase(q)' /\ AnswerIsTrue(q)' /\ SecretsDone(q)'
  <2>1. InPhase(q) /\ AnswerIsTrue(q) /\ SecretsDone(q)
    BY DEF HandlerInv, Others
  <2>2. /\ pc'[q] = pc[q] /\ req'[q] = req[q] /\ todo'[q] = todo[q] /\ at'[q] = at[q]
        /\ told'[q] = told[q] /\ warned'[q] = warned[q] /\ code'[q] = code[q] /\ wrote'[q] = wrote[q]
    BY <1>1 DEF OthersKept, ControlKept, SentKept, LoopKept, DoneKept
  <2>3. InPhase(q)'
    BY <2>1, <2>2 DEF InPhase
  <2>4. AnswerIsTrue(q)'
    BY <2>1, <2>2 DEF AnswerIsTrue
  <2>5. SecretsDone(q)'
    <3>1. pc[q] \in {"secrets", "putsecret"} => req[q].secrets \subseteq Secrets
      BY <2>1, RequestFacts DEF InPhase, Creating
    <3> QED
      BY <1>1, <2>1, <2>2, <3>1 DEF SecretsDone, MovesOn
  <2> QED
    BY <2>3, <2>4, <2>5
<1>3. \A q \in Requests : InPhase(q)' /\ AnswerIsTrue(q)' /\ SecretsDone(q)'
  BY <1>1, <1>2 DEF OwnInv, Others
<1> QED
  BY <1>3, OneClusterKept DEF HandlerInv

LEMMA FinalizeHandlers ==
  ASSUME HandlerInv, Finalize
  PROVE  HandlerInv'
  BY DEF Finalize, handler, HandlerInv, InPhase, OneCluster, AnswerIsTrue, SecretsDone

-----------------------------------------------------------------------------
(* What a step makes of the spoke.                                         *)

Creates(r, o) ==
  /\ o \in Objects /\ Absent(o) /\ MayPost(r, o) /\ ~MayPost(r, o)'
  /\ req[r] \in Request /\ req[r].op = "create"
  /\ o \in Clusters => pc[r] = "secrets" /\ todo[r] = {}
  /\ \E c \in Clusters : spoke' = [spoke EXCEPT ![o] = New(r, c)]
Marks(o) == o \in Objects /\ ~Absent(o) /\ spoke' = Marked(o)
Replaces(r, o) ==
  /\ pc[r] \in Updating /\ o \in req[r].parts /\ Current(r, o)
  /\ MayPut(r, o) /\ ~MayPut(r, o)'
  /\ spoke' = Replaced(r, o)

\* A step creates an object once, marks one, or replaces one once.
WritesSpoke(r) ==
  \/ UNCHANGED spoke
  \/ \E o \in Objects : Creates(r, o) \/ Marks(o) \/ Replaces(r, o)

LEMMA PostsOnce ==
  ASSUME Typed, HandlerInv, NEW r \in Requests, PostHostedCluster(r) \/ PostNodePool(r)
  PROVE  WritesSpoke(r)
<1>1. InPhase(r)
  BY DEF HandlerInv
<1>2. CASE PostHostedCluster(r)
  <2> DEFINE c == req[r].cluster
  <2>1. /\ pc[r] = "secrets" /\ todo[r] = {}
        /\ UNCHANGED spoke \/ (Absent(c) /\ spoke' = [spoke EXCEPT ![c] = New(r, c)])
        /\ (GoTo(r, "pools") /\ Loop(r, req[r].pools)) \/ Answer(r, 500)
    BY <1>2 DEF PostHostedCluster, PerhapsCreates
  <2>2. /\ req[r] \in Request /\ req[r].op = "create" /\ c \in Objects /\ c \notin req[r].pools
    BY <1>1, <2>1, RequestFacts DEF InPhase, Creating
  <2>3. ~MayPost(r, c)' /\ MayPost(r, c)
    <3>1. (pc'[r] = "pools" /\ todo'[r] = req[r].pools) \/ pc'[r] = "answered"
      BY <2>1, Values
    <3>2. UNCHANGED req
      BY <1>2 DEF PostHostedCluster
    <3> QED
      BY <2>1, <2>2, <3>1, <3>2 DEF MayPost
  <2>4. UNCHANGED spoke \/ Creates(r, c)
    <3>1. c \in Clusters
      BY <2>2, RequestFacts
    <3> QED
      BY <2>1, <2>2, <2>3, <3>1 DEF Creates
  <2> HIDE DEF c
  <2> QED
    BY <2>2, <2>4 DEF WritesSpoke
<1>3. CASE PostNodePool(r)
  <2>1. PICK p \in todo[r] :
          /\ \/ UNCHANGED spoke
             \/ Absent(p) /\ \E c \in Clusters : spoke' = [spoke EXCEPT ![p] = New(r, c)]
          /\ Loop(r, todo[r] \ {p})
    BY <1>3 DEF PostNodePool, PerhapsCreates
  <2>2. /\ pc[r] = "pools" /\ UNCHANGED pc /\ p \in Objects /\ p \notin Clusters
        /\ req[r] \in Request /\ req[r].op = "create"
    BY <1>1, <1>3, NoneFacts DEF PostNodePool, InPhase, Creating
  <2>3. ~MayPost(r, p)' /\ MayPost(r, p)
    BY <2>1, <2>2, Values DEF MayPost
  <2> QED
    BY <2>1, <2>2, <2>3 DEF WritesSpoke, Creates
<1> QED
  BY <1>2, <1>3

LEMMA PutsOnce ==
  ASSUME Typed, HandlerInv, NEW r \in Requests, PutHostedCluster(r) \/ PutNodePool(r)
  PROVE  WritesSpoke(r)
<1>1. InPhase(r)
  BY DEF HandlerInv
<1>2. CASE PutHostedCluster(r)
  <2> DEFINE c == req[r].cluster
  <2>1. /\ \/ UNCHANGED spoke
           \/ c \in req[r].parts /\ Current(r, c) /\ spoke' = Replaced(r, c)
        /\ GoTo(r, "putpools") \/ Answer(r, 502)
        /\ Loop(r, req[r].parts \cap Pools)
        /\ pc[r] = "puthc" /\ UNCHANGED req
    BY <1>2 DEF PutHostedCluster, Put, Refused
  <2>2. c \in Objects /\ c \notin Pools
    BY <1>1, <2>1, RequestFacts DEF InPhase, Updating
  <2>3. ~MayPut(r, c)' /\ MayPut(r, c) /\ pc[r] \in Updating
    <3>1. pc'[r] \in {"putpools", "answered"} /\ todo'[r] = req[r].parts \cap Pools
      BY <2>1, Values
    <3> QED
      BY <2>1, <2>2, <3>1 DEF MayPut, Updating
  <2> QED
    BY <2>1, <2>2, <2>3 DEF WritesSpoke, Replaces
<1>3. CASE PutNodePool(r)
  <2>1. PICK p \in todo[r] :
          /\ UNCHANGED spoke \/ (Current(r, p) /\ spoke' = Replaced(r, p))
          /\ (GoTo(r, "putpools") /\ Loop(r, todo[r] \ {p})) \/ Answer(r, 502)
    BY <1>3 DEF PutNodePool, Put, Refused
  <2>2. pc[r] = "putpools" /\ p \in req[r].parts /\ p \in Objects
    BY <1>1, <1>3, NoneFacts DEF PutNodePool, InPhase
  <2>3. ~MayPut(r, p)' /\ MayPut(r, p) /\ pc[r] \in Updating
    <3>1. (pc'[r] = "putpools" /\ todo'[r] = todo[r] \ {p}) \/ pc'[r] = "answered"
      BY <2>1, Values
    <3> QED
      BY <2>2, <3>1 DEF MayPut, Updating
  <2> QED
    BY <2>1, <2>2, <2>3 DEF WritesSpoke, Replaces
<1> QED
  BY <1>2, <1>3

LEMMA ActsSpoke ==
  ASSUME Typed, HandlerInv, NEW r \in Requests, Acts(r)
  PROVE  WritesSpoke(r)
<1>1. CASE DeleteNodePool(r)
  <2>1. PICK p \in todo[r] : UNCHANGED spoke \/ (~Absent(p) /\ spoke' = Marked(p))
    BY <1>1 DEF DeleteNodePool
  <2>2. p \in Objects
    BY <1>1, NoneFacts DEF DeleteNodePool, HandlerInv, InPhase
  <2> QED
    BY <2>1, <2>2 DEF WritesSpoke, Marks
<1>2. CASE DeleteHostedCluster(r)
  <2>1. req[r].cluster \in Objects
    BY <1>2, RequestFacts DEF DeleteHostedCluster, HandlerInv, InPhase, Deleting
  <2>2. UNCHANGED spoke \/ (~Absent(req[r].cluster) /\ spoke' = Marked(req[r].cluster))
    BY <1>2 DEF DeleteHostedCluster
  <2> QED
    BY <2>1, <2>2 DEF WritesSpoke, Marks
<1>3. CASE PostHostedCluster(r) \/ PostNodePool(r)
  BY <1>3, PostsOnce
<1>4. CASE PutHostedCluster(r) \/ PutNodePool(r)
  BY <1>4, PutsOnce
<1> QED
  BY <1>1, <1>2, <1>3, <1>4
     DEF Acts, Handle, WritesSpoke, Refuse, Accept, CreateNamespace, PostSecret, PutSecret, Created,
         ListNodePools, GetHostedCluster, GetNodePools, Abandon

LEMMA NothingTwice ==
  ASSUME Typed, HandlerInv, NEW r \in Requests, Acts(r), NEW q \in Requests, NEW o \in Objects
  PROVE  (MayPost(q, o)' => MayPost(q, o)) /\ (MayPut(q, o)' => MayPut(q, o))
<1>1. OthersKept(r) /\ MovesOn(r)
  BY ActsTyped, ActsOwn
<1>2. CASE q = r
  BY <1>1, <1>2 DEF MovesOn
<1>3. CASE q # r
  BY <1>1, <1>3 DEF OthersKept, ControlKept, LoopKept, Others, MayPost, MayPut
<1> QED
  BY <1>2, <1>3

\* What a step makes of one object: nothing, or it is new, marked or replaced.
IsNew(r, o) ==
  /\ Absent(o) /\ MayPost(r, o) /\ ~MayPost(r, o)' /\ req[r] \in Request /\ req[r].op = "create"
  /\ o \in Clusters => pc[r] = "secrets" /\ todo[r] = {}
  /\ spoke'[o] \in Object /\ spoke'[o].by = r
  /\ spoke'[o].writes = 0 /\ spoke'[o].edits = {}
IsMarked(o) ==
  /\ ~Absent(o) /\ spoke'[o] \in Object /\ spoke'[o].deleting
  /\ spoke'[o].by = spoke[o].by /\ spoke'[o].of = spoke[o].of
  /\ spoke'[o].writes = spoke[o].writes /\ spoke'[o].edits = spoke[o].edits
IsReplaced(r, o) ==
  /\ ~Absent(o) /\ spoke'[o] \in Object /\ spoke'[o].deleting = spoke[o].deleting
  /\ spoke'[o].by = spoke[o].by /\ spoke'[o].of = spoke[o].of
  /\ pc[r] \in Updating /\ o \in req[r].parts /\ Current(r, o) /\ MayPut(r, o) /\ ~MayPut(r, o)'
  /\ Sent(r, o) \in Object
  /\ spoke'[o].writes = spoke[o].writes + 1 /\ spoke'[o].edits = Sent(r, o).edits \cup {r}

LEMMA SpokeAt ==
  ASSUME Typed, HandlerInv, NEW r \in Requests, Acts(r), NEW o \in Objects
  PROVE  spoke'[o] = spoke[o] \/ IsNew(r, o) \/ IsMarked(o) \/ IsReplaced(r, o)
<1>1. spoke \in [Objects -> Object \cup {None}]
  BY DEF Typed, WorldType
<1>2. WritesSpoke(r)
  BY ActsSpoke
<1>3. CASE UNCHANGED spoke
  BY <1>3
<1>4. ASSUME NEW x \in Objects, Creates(r, x)
      PROVE  spoke'[o] = spoke[o] \/ IsNew(r, o)
  <2>1. PICK c \in Clusters : spoke' = [spoke EXCEPT ![x] = New(r, c)]
    BY <1>4 DEF Creates
  <2>2. New(r, c) \in Object
    BY NewTyped
  <2>3. x # o => spoke'[o] = spoke[o]
    BY <1>1, <2>1
  <2>4. spoke'[x] = New(r, c)
    BY <1>1, <2>1
  <2>5. CASE x = o
    BY <1>4, <2>2, <2>4, <2>5 DEF Creates, IsNew, New
  <2> QED
    BY <2>3, <2>5
<1>5. ASSUME NEW x \in Objects, Marks(x)
      PROVE  spoke'[o] = spoke[o] \/ IsMarked(o)
  <2>1. ~Absent(x) /\ spoke' = Marked(x)
    BY <1>5 DEF Marks
  <2>2. x # o => spoke'[o] = spoke[o]
    BY <2>1, MarkedFacts
  <2>3. x = o => IsMarked(o)
    BY <2>1, MarkedFacts DEF IsMarked
  <2> QED
    BY <2>2, <2>3
<1>6. ASSUME NEW x \in Objects, Replaces(r, x)
      PROVE  spoke'[o] = spoke[o] \/ IsReplaced(r, o)
  <2>1. ~Absent(x) /\ spoke' = Replaced(r, x) /\ Sent(r, x) \in Object
    BY <1>6, SentFacts DEF Replaces, Current
  <2>2. x # o => spoke'[o] = spoke[o]
    BY <2>1, ReplacedFacts
  <2>3. x = o => IsReplaced(r, o)
    BY <1>6, <2>1, ReplacedFacts DEF IsReplaced, Replaces
  <2> QED
    BY <2>2, <2>3
<1> QED
  BY <1>2, <1>3, <1>4, <1>5, <1>6 DEF WritesSpoke

-----------------------------------------------------------------------------
(* No version of an object carries a request that may still write it.      *)

LEMMA SignedStays ==
  ASSUME Typed, HandlerInv, NEW r \in Requests, Acts(r),
         NEW o \in Objects, NEW x \in Object \cup {None}, Signed(o, x)
  PROVE  Signed(o, x)'
<1>1. CASE x = None
  BY <1>1 DEF Signed
<1>2. CASE x \in Object
  <2>1. x.edits \subseteq Requests
    BY <1>2, ObjectWrites
  <2> QED
    BY <1>2, <2>1, NothingTwice DEF Signed
<1> QED
  BY <1>1, <1>2

LEMMA ActsSigned ==
  ASSUME Typed, HandlerInv, SignedInv, NEW r \in Requests, Acts(r)
  PROVE  SignedInv'
<1>1. ASSUME NEW o \in Objects
      PROVE  Signed(o, spoke[o])'
  <2>1. spoke[o] \in Object \cup {None} /\ Signed(o, spoke[o])
    BY DEF Typed, WorldType, SignedInv
  <2>2. PICK x \in Object \cup {None} : x = spoke[o]
    BY <2>1
  <2>3. Signed(o, x)'
    BY <2>1, <2>2, SignedStays
  <2>4. CASE spoke'[o] = spoke[o]
    BY <2>2, <2>3, <2>4 DEF Signed, MayPost, MayPut
  <2>5. CASE IsNew(r, o)
    BY <2>5 DEF IsNew, Signed, MayPost, MayPut
  <2>6. CASE IsMarked(o)
    BY <2>2, <2>3, <2>6 DEF IsMarked, Signed, MayPost, MayPut, Absent
  <2>7. CASE IsReplaced(r, o)
    <3>1. /\ req[r].base \in Requests /\ Sent(r, o) = bundle[req[r].base][o]
          /\ Sent(r, o) \in Object /\ Sent(r, o) # None
      BY <2>7, SentFacts DEF IsReplaced, Others, Sent
    <3>2. PICK y \in Object : y = Sent(r, o)
      BY <3>1
    <3>3. Signed(o, y)'
      BY <3>1, <3>2, SignedStays DEF SignedInv
    <3>4. /\ spoke'[o].by = x.by /\ x # None /\ y # None
          /\ spoke'[o].edits = y.edits \cup {r} /\ ~MayPut(r, o)'
      BY <2>2, <2>7, <3>1, <3>2 DEF IsReplaced, Absent
    <3> QED
      BY <2>3, <3>3, <3>4 DEF Signed, MayPost, MayPut
  <2> QED
    BY <2>4, <2>5, <2>6, <2>7, SpokeAt
<1>2. ASSUME NEW q \in Requests, NEW o \in Objects
      PROVE  Signed(o, bundle[q][o])'
  <2>1. bundle[q][o] \in Object \cup {None} /\ Signed(o, bundle[q][o])
    BY DEF Typed, BundleType, SignedInv
  <2>2. spoke[o] \in Object \cup {None} /\ Signed(o, spoke[o])
    BY DEF Typed, WorldType, SignedInv
  <2>3. bundle'[q][o] = bundle[q][o] \/ bundle'[q][o] = spoke[o]
    <3>1. CASE UNCHANGED bundle
      BY <3>1
    <3>2. CASE GetHostedCluster(r) \/ GetNodePools(r)
      BY <3>2, ReadStep DEF BundleKept, Others
    <3> QED
      BY <3>1, <3>2, SentOnce
  <2>4. PICK x \in Object \cup {None} : x = bundle'[q][o] /\ (x = bundle[q][o] \/ x = spoke[o])
    BY <2>1, <2>2, <2>3
  <2>5. Signed(o, x)
    BY <2>1, <2>2, <2>4
  <2>6. Signed(o, x)'
    BY <2>5, SignedStays
  <2> QED
    BY <2>4, <2>6 DEF Signed, MayPost, MayPut
<1>3. ASSUME NEW q \in Requests, NEW w \in Requests, NEW p \in Pools, <<p, w>> \in old'[q]
      PROVE  ~MayPost(w, p)'
  <2>1. p \in Objects
    BY NoneFacts
  <2>2. ~MayPost(w, p)
    <3>1. CASE <<p, w>> \in old[q]
      BY <3>1 DEF SignedInv
    <3>2. CASE Accept(r) /\ <<p, w>> \notin old[q]
      <4>1. PICK y : old' = [old EXCEPT ![r] = y] /\
                     y \subseteq {<<x, spoke[x].by>> : x \in {x \in Pools : ~Absent(x)}}
        BY <3>2 DEF Accept
      <4>2. <<p, w>> \in y
        BY <1>3, <3>2, <4>1 DEF Typed, SentType
      <4>3. ~Absent(p) /\ w = spoke[p].by
        BY <4>1, <4>2
      <4> QED
        BY <2>1, <4>3 DEF SignedInv, Signed, Absent
    <3> QED
      BY <1>3, <3>1, <3>2, SentOnce
  <2> QED
    BY <2>1, <2>2, NothingTwice
<1> QED
  BY <1>1, <1>2, <1>3 DEF SignedInv

-----------------------------------------------------------------------------
(* What was read is not newer than what is there, and no edit is lost.     *)

LEMMA SomeRequests ==
  ASSUME NEW S \in SUBSET Requests
  PROVE  IsFiniteSet(S)
<1>1. IsFiniteSet(Requests)
  BY FS_Interval DEF Requests
<1> QED
  BY <1>1, FS_Subset

LEMMA ActsVersions ==
  ASSUME Typed, HandlerInv, SignedInv, VersionInv, NEW r \in Requests, Acts(r)
  PROVE  VersionInv'
<1>1. ASSUME NEW q \in Requests, NEW o \in Objects
      PROVE  Older(bundle[q][o], spoke[o])'
  <2>1. Older(bundle[q][o], spoke[o]) /\ Signed(o, bundle[q][o])
    BY DEF VersionInv, SignedInv
  <2>2. bundle[q][o] \in Object \cup {None} /\ spoke[o] \in Object \cup {None}
    BY DEF Typed, WorldType, BundleType
  <2>3. CASE bundle'[q][o] = bundle[q][o]
    <3>1. CASE spoke'[o] = spoke[o]
      BY <2>1, <2>3, <3>1 DEF Older
    <3>2. CASE IsNew(r, o)
      <4>1. bundle[q][o] # None => bundle[q][o].by # r
        BY <2>1, <3>2 DEF Signed, IsNew
      <4>2. spoke'[o].by = r
        BY <3>2 DEF IsNew
      <4> QED
        BY <2>3, <4>1, <4>2 DEF Older
    <3>3. CASE IsMarked(o)
      BY <2>1, <2>3, <3>3 DEF Older, IsMarked, Absent
    <3>4. CASE IsReplaced(r, o)
      <4>1. /\ spoke[o] # None /\ spoke'[o].by = spoke[o].by
            /\ spoke'[o].writes = spoke[o].writes + 1
        BY <3>4 DEF IsReplaced, Absent
      <4>2. bundle[q][o] # None => bundle[q][o].writes \in Nat
        BY <2>2, ObjectWrites
      <4>3. spoke[o].writes \in Nat
        BY <2>2, <4>1, ObjectWrites
      <4> QED
        BY <2>1, <2>3, <4>1, <4>2, <4>3 DEF Older
    <3> QED
      BY <3>1, <3>2, <3>3, <3>4, SpokeAt
  <2>4. CASE bundle'[q][o] = spoke[o] /\ spoke'[o] = spoke[o]
    BY <2>2, <2>4, ObjectWrites DEF Older
  <2>5. CASE UNCHANGED bundle
    BY <2>3, <2>5
  <2>6. CASE GetHostedCluster(r) \/ GetNodePools(r)
    <3>1. UNCHANGED spoke
      BY <2>6 DEF GetHostedCluster, GetNodePools
    <3> QED
      BY <2>3, <2>4, <2>6, <3>1, ReadStep DEF BundleKept, Others
  <2> QED
    BY <2>5, <2>6, SentOnce
<1>2. ASSUME NEW o \in Objects, ~Absent(o)'
      PROVE  spoke'[o].writes = Cardinality(spoke'[o].edits)
  <2>1. ~Absent(o) => spoke[o] \in Object /\ spoke[o].writes = Cardinality(spoke[o].edits)
    BY DEF VersionInv, NoEditLost, Absent, Typed, WorldType
  <2>2. CASE spoke'[o] = spoke[o]
    BY <1>2, <2>1, <2>2 DEF Absent
  <2>3. CASE IsNew(r, o)
    BY <2>3, FS_EmptySet DEF IsNew
  <2>4. CASE IsMarked(o)
    BY <2>1, <2>4 DEF IsMarked
  <2>5. CASE IsReplaced(r, o)
    <3>1. /\ req[r].base \in Requests /\ Sent(r, o) = bundle[req[r].base][o]
          /\ Sent(r, o) # None /\ spoke[o] # None
      BY <2>5, SentFacts DEF IsReplaced, Others, Sent, Absent
    <3>2. Sent(r, o).by = spoke[o].by /\ Sent(r, o).writes = spoke[o].writes
      BY <2>5 DEF IsReplaced, Current, ResourceVersion
    <3>3. Sent(r, o).edits = spoke[o].edits
      BY <3>1, <3>2 DEF VersionInv, Older
    <3>4. spoke[o].edits \in SUBSET Requests /\ r \notin spoke[o].edits
      BY <2>1, <2>5, <3>1, ObjectWrites DEF IsReplaced, SignedInv, Signed
    <3>5. Cardinality(spoke[o].edits \cup {r}) = Cardinality(spoke[o].edits) + 1
      BY <3>4, SomeRequests, FS_AddElement
    <3> QED
      BY <2>1, <2>5, <3>3, <3>5 DEF IsReplaced
  <2> QED
    BY <2>2, <2>3, <2>4, <2>5, SpokeAt
<1> QED
  BY <1>1, <1>2 DEF VersionInv, NoEditLost

-----------------------------------------------------------------------------
(* A HostedCluster comes after its Secrets.                                *)

\* A request that is sent stays what it is.
LEMMA SentStays ==
  ASSUME Typed, HandlerInv, NEW r \in Requests, Acts(r), NEW q \in Requests, pc[q] # "unsent"
  PROVE  req'[q] = req[q] /\ old'[q] = old[q]
<1>1. OthersKept(r)
  BY ActsTyped
<1>2. CASE q # r
  BY <1>1, <1>2 DEF OthersKept, SentKept, Others
<1>3. CASE q = r
  BY <1>3, SentOnce DEF Accept, Arrives
<1> QED
  BY <1>2, <1>3

LEMMA ActsSecrets ==
  ASSUME Typed, HandlerInv, SignedInv, SecretInv, NEW r \in Requests, Acts(r)
  PROVE  SecretInv'
<1> SUFFICES ASSUME NEW c \in Clusters, ~Absent(c)', spoke'[c].by # None
             PROVE  /\ nspace' /\ req'[spoke'[c].by].secrets \subseteq Secrets
                    /\ \A s \in req'[spoke'[c].by].secrets : secret'[s] # None
  BY DEF SecretInv
<1>1. c \in Objects /\ MovesOn(r)
  BY NoneFacts, ActsOwn
<1>2. CASE IsNew(r, c)
  <2>1. /\ pc[r] = "secrets" /\ todo[r] = {} /\ spoke'[c].by = r
        /\ req[r] \in Request /\ req[r].op = "create"
    BY <1>2 DEF IsNew
  <2>2. req[r].secrets \subseteq Secrets /\ req'[r] = req[r]
    BY <2>1, RequestFacts, SentStays
  <2>3. nspace /\ \A s \in req[r].secrets : secret[s] # None
    BY <2>1 DEF HandlerInv, SecretsDone
  <2> QED
    BY <1>1, <2>1, <2>2, <2>3 DEF MovesOn
<1>3. CASE ~Absent(c) /\ spoke'[c].by = spoke[c].by
  <2>1. PICK w \in Requests : w = spoke[c].by
    BY <1>1, <1>3, ObjectWrites DEF Typed, WorldType, Absent
  <2>2. req'[w] = req[w]
    BY <1>1, <1>3, <2>1, SentStays DEF SignedInv, Signed, MayPost, Absent
  <2>3. nspace /\ req[w].secrets \subseteq Secrets /\ \A s \in req[w].secrets : secret[s] # None
    BY <1>3, <2>1 DEF SecretInv
  <2> QED
    BY <1>1, <1>3, <2>1, <2>2, <2>3 DEF MovesOn
<1> QED
  BY <1>1, <1>2, <1>3, SpokeAt DEF IsMarked, IsReplaced, Absent

-----------------------------------------------------------------------------
(* A deletion takes the NodePools of its cluster and of no other.          *)

\* A NodePool that was there when a deletion was sent, and is there, was there.
LEMMA OldStays ==
  ASSUME Typed, HandlerInv, SignedInv, NEW r \in Requests, Acts(r),
         NEW q \in Requests, NEW p \in Pools, old'[q] = old[q],
         ~Absent(p)', <<p, spoke'[p].by>> \in old[q]
  PROVE  /\ ~Absent(p) /\ spoke'[p].by = spoke[p].by /\ spoke'[p].of = spoke[p].of
         /\ spoke'[p].deleting \/ spoke'[p].deleting = spoke[p].deleting
<1>1. ~IsNew(r, p)
  BY DEF IsNew, SignedInv
<1>2. p \in Objects
  BY NoneFacts
<1>3. CASE spoke'[p] = spoke[p]
  BY <1>3 DEF Absent
<1>4. CASE IsMarked(p)
  BY <1>4 DEF IsMarked
<1>5. CASE IsReplaced(r, p)
  BY <1>5 DEF IsReplaced
<1> QED
  BY <1>1, <1>2, <1>3, <1>4, <1>5, SpokeAt

LEMMA LeftBefore ==
  ASSUME Typed, HandlerInv, SignedInv, NEW r \in Requests, Acts(r),
         NEW q \in Requests, NEW p \in Pools, old'[q] = old[q], req'[q] = req[q], Left(q, p)'
  PROVE  Left(q, p)
  BY OldStays DEF Left

LEMMA DeletesOfOthers ==
  ASSUME Typed, HandlerInv, SignedInv, DeleteInv, NEW r \in Requests, Acts(r), NEW q \in Others(r)
  PROVE  Deletes(q)'
<1>1. /\ pc'[q] = pc[q] /\ req'[q] = req[q] /\ old'[q] = old[q]
      /\ todo'[q] = todo[q] /\ hurt'[q] = hurt[q]
  BY ActsTyped DEF OthersKept, ControlKept, SentKept, LoopKept, FaultKept
<1>2. Deletes(q) /\ q \in Requests
  BY DEF DeleteInv, Others
<1>3. \A p \in Pools : Left(q, p)' => Left(q, p)
  BY <1>1, <1>2, LeftBefore
<1>4. pc[q] = "drop" => todo[q] \subseteq Pools
  BY <1>2 DEF HandlerInv, InPhase
<1>5. ASSUME pc'[q] = "drop", NEW p \in todo'[q], ~Absent(p)', <<p, spoke'[p].by>> \in old'[q]
      PROVE  spoke'[p].of = req'[q].cluster
  <2>1. /\ p \in todo[q] /\ p \in Pools /\ ~Absent(p)
        /\ spoke'[p].by = spoke[p].by /\ spoke'[p].of = spoke[p].of
    BY <1>1, <1>2, <1>4, <1>5, OldStays
  <2> QED
    BY <1>1, <1>2, <1>5, <2>1 DEF Deletes
<1>6. ASSUME pc'[q] \in {"drop", "answered"}, req'[q] # None, req'[q].op = "delete", ~hurt'[q],
             NEW p \in Pools, Left(q, p)'
      PROVE  pc'[q] = "drop" /\ p \in todo'[q]
  <2>1. Left(q, p) /\ ~hurt[q]
    BY <1>1, <1>3, <1>6
  <2> QED
    BY <1>1, <1>2, <1>6, <2>1 DEF Deletes
<1> QED
  BY <1>5, <1>6 DEF Deletes

LEMMA NoDeletion ==
  ASSUME NEW r, InPhase(r)', req'[r].op # "delete"
  PROVE  Deletes(r)'
<1>1. pc'[r] # "drop"
  BY DEF InPhase, Deleting
<1> QED
  BY <1>1 DEF Deletes

LEMMA DeletesOfOwn ==
  ASSUME Typed, HandlerInv, SignedInv, DeleteInv, NEW r \in Requests, Acts(r)
  PROVE  Deletes(r)'
<1>1. /\ OthersKept(r) /\ InPhase(r)' /\ InPhase(r) /\ Deletes(r)
  BY ActsTyped, ActsOwn DEF OwnInv, HandlerInv, DeleteInv
<1>2. CASE Refuse(r)
  <2>1. req'[r] = None /\ pc'[r] = "answered"
    BY <1>1, <1>2, Values DEF Refuse, Arrives, InPhase
  <2> QED
    BY <2>1 DEF Deletes
<1>3. CASE Accept(r)
  <2>1. PICK q \in Request : GoTo(r, FirstStep(q.op))
    BY <1>3 DEF Accept
  <2>2. pc'[r] \in {"namespace", "gethc", "puthc", "list"}
    BY <2>1, RequestFacts, FirstStepFacts, Values
  <2> QED
    BY <2>2 DEF Deletes
<1>4. CASE ListNodePools(r)
  <2>1. /\ (Served /\ Loop(r, PoolsOf(req[r].cluster))) \/ (Fails(r) /\ Loop(r, {}))
        /\ UNCHANGED <<spoke, req, old>>
    BY <1>4 DEF ListNodePools
  <2>2. GoTo(r, "drop")
    BY <1>4 DEF ListNodePools
  <2>3. pc'[r] = "drop" /\ \A p \in todo'[r] : spoke[p].of = req[r].cluster
    BY <2>1, <2>2, Values DEF PoolsOf
  <2>4. hurt'[r] \/ todo'[r] = PoolsOf(req[r].cluster)
    BY <2>1, Values, FaultTyped DEF Typed
  <2>5. ASSUME ~hurt'[r], NEW p \in Pools, Left(r, p)'
        PROVE  p \in todo'[r]
    BY <2>1, <2>4, <2>5 DEF Left, PoolsOf, Absent
  <2> QED
    BY <2>1, <2>3, <2>5 DEF Deletes
<1>5. CASE DeleteNodePool(r)
  <2>1. PICK p0 \in todo[r] :
          /\ \/ Served /\ ~Absent(p0) /\ spoke' = Marked(p0)
             \/ Served /\ Absent(p0) /\ UNCHANGED spoke
             \/ Fails(r)
          /\ Loop(r, todo[r] \ {p0})
    BY <1>5 DEF DeleteNodePool
  <2>2. pc[r] = "drop" /\ pc'[r] = "drop" /\ req'[r] = req[r] /\ old'[r] = old[r]
    BY <1>5 DEF DeleteNodePool
  <2>3. todo'[r] = todo[r] \ {p0} /\ todo[r] \subseteq Pools /\ p0 \in Pools /\ p0 \in Objects
    BY <1>1, <2>1, <2>2, Values, NoneFacts DEF InPhase
  <2>5. ASSUME req'[r] # None, req'[r].op = "delete", ~hurt'[r], NEW p \in Pools, Left(r, p)'
        PROVE  p \in todo'[r]
    <3>1. Left(r, p)
      BY <2>2, <2>5, LeftBefore
    <3>2. ~Fails(r) /\ Served
      BY <2>1, <2>5, FaultTyped DEF Typed
    <3>3. ~hurt[r]
      BY <2>5, <3>2 DEF Served
    <3>4. p \in todo[r]
      BY <1>1, <2>2, <2>5, <3>1, <3>3 DEF Deletes
    <3>5. p # p0
      <4>1. CASE ~Absent(p0) /\ spoke' = Marked(p0)
        <5>1. spoke'[p0].deleting
          BY <2>3, <4>1, MarkedFacts
        <5> QED
          BY <2>5, <5>1 DEF Left
      <4>2. CASE Absent(p0) /\ UNCHANGED spoke
        BY <2>5, <4>2 DEF Left, Absent
      <4> QED
        BY <2>1, <3>2, <4>1, <4>2
    <3> QED
      BY <2>3, <3>4, <3>5
  <2>6. ASSUME NEW p \in todo'[r], ~Absent(p)', <<p, spoke'[p].by>> \in old'[r]
        PROVE  spoke'[p].of = req'[r].cluster
    <3>1. p \in todo[r] /\ p \in Pools
      BY <2>3
    <3>2. ~Absent(p) /\ spoke'[p].by = spoke[p].by /\ spoke'[p].of = spoke[p].of
      BY <2>2, <2>6, <3>1, OldStays
    <3> QED
      BY <1>1, <2>2, <2>6, <3>1, <3>2 DEF Deletes
  <2> QED
    BY <2>2, <2>5, <2>6 DEF Deletes
<1>6. CASE DeleteHostedCluster(r)
  <2>1. pc[r] = "drop" /\ todo[r] = {} /\ req'[r] = req[r] /\ old'[r] = old[r]
    BY <1>6 DEF DeleteHostedCluster
  <2>2. pc'[r] = "answered" /\ (Fails(r) \/ Served)
    <3>1. \E status \in {200, 404, 502} : Answer(r, status)
      BY <1>6 DEF DeleteHostedCluster
    <3>2. Fails(r) \/ Served
      BY <1>6 DEF DeleteHostedCluster
    <3> QED
      BY <3>1, <3>2, Values
  <2>3. hurt[r] => hurt'[r]
    BY <2>2, FaultTyped DEF Typed
  <2>4. ASSUME req'[r] # None, req'[r].op = "delete", ~hurt'[r], NEW p \in Pools, Left(r, p)'
        PROVE  FALSE
    <3>1. Left(r, p) /\ ~hurt[r]
      BY <2>1, <2>3, <2>4, LeftBefore
    <3> QED
      BY <1>1, <2>1, <2>4, <3>1 DEF Deletes
  <2> QED
    BY <2>2, <2>4 DEF Deletes
<1>7. CASE Abandon(r)
  BY <1>7, Values DEF Abandon, Deletes
<1>8. CASE /\ req'[r] = req[r]
           /\ pc[r] \in Creating \cup Updating \cup Reading
  BY <1>1, <1>8, NoDeletion DEF InPhase
<1>9. Acts(r) => \/ Refuse(r) \/ Accept(r) \/ Abandon(r)
                 \/ ListNodePools(r) \/ DeleteNodePool(r) \/ DeleteHostedCluster(r)
                 \/ pc[r] \in Creating \cup Updating \cup Reading
  BY DEF Acts, Handle, CreateNamespace, PostSecret, PutSecret, PostHostedCluster, PostNodePool, Created,
         PutHostedCluster, PutNodePool, GetHostedCluster, GetNodePools, Replacing,
         Creating, Updating, Reading
<1>10. pc[r] \in Creating \cup Updating \cup Reading => req'[r] = req[r]
  BY SentStays DEF Creating, Updating, Reading
<1> QED
  BY <1>2, <1>3, <1>4, <1>5, <1>6, <1>7, <1>8, <1>9, <1>10

-----------------------------------------------------------------------------
(* The invariant is inductive.                                             *)

LEMMA InitProxy == Init => ProxyInv
<1> SUFFICES ASSUME Init PROVE ProxyInv
  OBVIOUS
<1>1. Typed
  BY InitTyped
<1>2. /\ \A r \in Requests : /\ req[r] = None /\ pc[r] = "unsent" /\ told[r] = {} /\ warned[r] = {}
                             /\ old[r] = {} /\ \A o \in Objects : bundle[r][o] = None
  BY DEF Init
<1>3. \A o \in Objects : ~Absent(o) =>
        spoke[o].by = None /\ spoke[o].writes = 0 /\ spoke[o].edits = {}
  BY DEF Init, Before, New, Absent
<1>4. HandlerInv
  <2> SUFFICES ASSUME NEW r \in Requests
               PROVE  InPhase(r) /\ OneCluster(r) /\ AnswerIsTrue(r) /\ SecretsDone(r)
    BY DEF HandlerInv
  <2>1. pc[r] = "unsent" /\ req[r] = None /\ told[r] = {} /\ warned[r] = {}
    BY <1>2
  <2>2. InPhase(r) /\ SecretsDone(r)
    BY <2>1 DEF InPhase, SecretsDone, Creating, Deleting, Updating, Reading
  <2>3. OneCluster(r) /\ AnswerIsTrue(r)
    BY <1>2, <2>1, NoneFacts DEF OneCluster, AnswerIsTrue, Updating, Reading
  <2> QED
    BY <2>2, <2>3
<1>5. SignedInv
  BY <1>2, <1>3, NoneFacts DEF SignedInv, Signed, Absent
<1>6. VersionInv
  BY <1>2, <1>3, FS_EmptySet DEF VersionInv, NoEditLost, Older
<1>7. DeleteInv
  BY <1>2 DEF DeleteInv, Deletes
<1>8. SecretInv
  BY <1>3, NoneFacts DEF SecretInv
<1> QED
  BY <1>1, <1>4, <1>5, <1>6, <1>7, <1>8 DEF ProxyInv

\* The operator of the spoke takes objects away and changes none.
LEMMA FinalizeProxy ==
  ASSUME ProxyInv, Finalize
  PROVE  ProxyInv'
<1>1. Typed' /\ HandlerInv'
  BY FinalizeTyped, FinalizeHandlers DEF ProxyInv
<1>2. UNCHANGED <<nspace, secret, req, pc, at, todo, bundle, code, old, hurt>>
  BY DEF Finalize, handler
<1>3. \A o \in Objects : spoke'[o] = spoke[o] \/ spoke'[o] = None
  BY DEF Finalize, ProxyInv, Typed, WorldType
<1>4. SignedInv'
  <2>1. ASSUME NEW o \in Objects
        PROVE  Signed(o, spoke[o])'
    <3>1. Signed(o, spoke[o])
      BY DEF ProxyInv, SignedInv
    <3> QED
      BY <1>2, <1>3, <3>1 DEF Signed, MayPost, MayPut
  <2>2. ASSUME NEW r \in Requests, NEW o \in Objects
        PROVE  Signed(o, bundle[r][o])'
    <3>1. Signed(o, bundle[r][o])
      BY DEF ProxyInv, SignedInv
    <3> QED
      BY <1>2, <3>1 DEF Signed, MayPost, MayPut
  <2>3. ASSUME NEW r \in Requests, NEW q \in Requests, NEW p \in Pools, <<p, q>> \in old'[r]
        PROVE  ~MayPost(q, p)'
    BY <1>2, <2>3 DEF ProxyInv, SignedInv, MayPost
  <2> QED
    BY <2>1, <2>2, <2>3 DEF SignedInv
<1>5. VersionInv'
  BY <1>2, <1>3 DEF ProxyInv, VersionInv, Older, NoEditLost, Absent
<1>6. DeleteInv'
  <2> SUFFICES ASSUME NEW r \in Requests
               PROVE  Deletes(r)'
    BY DEF DeleteInv
  <2>1. Deletes(r) /\ (pc[r] = "drop" => todo[r] \subseteq Pools)
    BY DEF ProxyInv, DeleteInv, HandlerInv, InPhase
  <2>2. \A p \in Pools : ~Absent(p)' => ~Absent(p) /\ spoke'[p] = spoke[p]
    BY <1>3, NoneFacts DEF Absent
  <2>3. \A p \in Pools : Left(r, p)' => Left(r, p)
    BY <1>2, <2>2 DEF Left
  <2> QED
    BY <1>2, <2>1, <2>2, <2>3 DEF Deletes
<1>7. SecretInv'
  <2>1. \A c \in Clusters : ~Absent(c)' => ~Absent(c) /\ spoke'[c] = spoke[c]
    BY <1>3, NoneFacts DEF Absent
  <2> QED
    BY <1>2, <2>1 DEF ProxyInv, SecretInv
<1> QED
  BY <1>1, <1>4, <1>5, <1>6, <1>7 DEF ProxyInv

LEMMA StutterProxy ==
  ASSUME ProxyInv, UNCHANGED vars
  PROVE  ProxyInv'
<1>1. Typed'
  BY DEF vars, handler, ProxyInv, Typed, WorldType, ControlType, LoopType, SentType, DoneType,
         BundleType, FaultType
<1>2. HandlerInv'
  BY DEF vars, handler, ProxyInv, HandlerInv, InPhase, OneCluster, AnswerIsTrue, SecretsDone
<1>3. SignedInv'
  BY DEF vars, handler, ProxyInv, SignedInv, Signed, MayPost, MayPut
<1>4. VersionInv'
  BY DEF vars, handler, ProxyInv, VersionInv, Older, NoEditLost, Absent
<1>5. DeleteInv'
  BY DEF vars, handler, ProxyInv, DeleteInv, Deletes, Left, Absent
<1>6. SecretInv'
  BY DEF vars, handler, ProxyInv, SecretInv, Absent
<1> QED
  BY <1>1, <1>2, <1>3, <1>4, <1>5, <1>6 DEF ProxyInv

LEMMA NextProxy == ProxyInv /\ [Next]_vars => ProxyInv'
<1> SUFFICES ASSUME ProxyInv, [Next]_vars PROVE ProxyInv'
  OBVIOUS
<1>1. ASSUME NEW r \in Requests, Acts(r)
      PROVE  ProxyInv'
  <2> USE DEF ProxyInv
  <2>1. Typed' /\ HandlerInv'
    BY <1>1, ActsTyped, ActsHandlers
  <2>2. SignedInv' /\ VersionInv' /\ SecretInv'
    BY <1>1, ActsSigned, ActsVersions, ActsSecrets
  <2>3. DeleteInv'
    BY <1>1, DeletesOfOwn, DeletesOfOthers DEF DeleteInv, Others
  <2> QED
    BY <2>1, <2>2, <2>3
<1> QED
  BY <1>1, FinalizeProxy, StutterProxy DEF Next, Acts

LEMMA ProxyHolds == Spec => []ProxyInv
  BY InitProxy, NextProxy, PTL DEF Spec

-----------------------------------------------------------------------------
(* The theorems.                                                           *)

\* Every variable keeps its type: a loop of a handler goes through Secrets or
\* through NodePools, never through both (handleCreate, handleDelete,
\* handlePatchResources).
THEOREM TypeCorrect == Spec => []TypeOK
<1>1. ProxyInv => TypeOK
  <2> SUFFICES ASSUME ProxyInv PROVE TypeOK
    OBVIOUS
  <2>1. \A o \in Objects : ~Absent(o) => spoke[o] \in Object
    BY DEF ProxyInv, Typed, WorldType, Absent
  <2>2. /\ nspace \in BOOLEAN /\ secret \in [Secrets -> Requests \cup {None}]
        /\ faults \in 0 .. MaxFaults
    BY DEF ProxyInv, Typed, WorldType, FaultType
  <2>3. ASSUME NEW r \in Requests
        PROVE  /\ pc[r] \in Steps /\ code[r] \in {0, 200, 201, 400, 404, 500, 502}
               /\ req[r] \in Request \cup {None}
               /\ old[r] \subseteq Pools \X (Requests \cup {None})
    BY DEF ProxyInv, Typed, ControlType, SentType
  <2>4. ASSUME NEW r \in Requests
        PROVE  /\ pc[r] \in {"secrets", "putsecret"} => todo[r] \subseteq Secrets
               /\ pc[r] \in {"pools", "drop", "putpools"} => todo[r] \subseteq Pools
               /\ pc[r] = "putsecret" => at[r] \in todo[r]
    BY DEF ProxyInv, HandlerInv, InPhase
  <2>5. ASSUME NEW r \in Requests
        PROVE  \A o \in Objects : bundle[r][o] # None => bundle[r][o] \in Object
    BY DEF ProxyInv, Typed, BundleType
  <2>6. ASSUME NEW r \in Requests
        PROVE  told[r] \cup warned[r] \subseteq Pools /\ wrote[r] \subseteq Objects
    BY DEF ProxyInv, Typed, DoneType
  <2>7. ASSUME NEW r \in Requests
        PROVE  hurt[r] \in BOOLEAN
    BY DEF ProxyInv, Typed, FaultType
  <2> QED
    BY <2>1, <2>2, <2>3, <2>4, <2>5, <2>6, <2>7 DEF TypeOK
<1> QED
  BY <1>1, ProxyHolds, PTL

\* A HostedCluster never exists without the namespace and the Secrets of the
\* request that created it (handleCreate, createOrUpdateSecretOnSpoke).
THEOREM SecretsComeFirst == Spec => []SecretsFirst
<1>1. ProxyInv => SecretsFirst
  BY DEF ProxyInv, SecretInv, SecretsFirst
<1> QED
  BY <1>1, ProxyHolds, PTL

\* A 201 or a 200 says what its request has done to the spoke, whatever other
\* requests did meanwhile (handleCreate, handlePatchResources, handleDelete).
THEOREM AnswersHold == Spec => []AnswersAreTrue
<1>1. ProxyInv => AnswersAreTrue
  BY DEF ProxyInv, HandlerInv, AnswerIsTrue, AnswersAreTrue
<1> QED
  BY <1>1, ProxyHolds, PTL

\* An object carries the edits of every update written to it: an update of a
\* version that is not the present one is refused (putOnSpoke).
THEOREM EditsKept == Spec => []NoEditLost
<1>1. ProxyInv => NoEditLost
  BY DEF ProxyInv, VersionInv
<1> QED
  BY <1>1, ProxyHolds, PTL

\* A deletion whose calls all succeeded and that was answered 200 has deleted
\* the NodePools its cluster had when it was sent (handleDelete,
\* fetchNodePoolsForHC).
THEOREM DeletionComplete == Spec => []DeletionTakesNodePools
<1>1. ProxyInv => DeletionTakesNodePools
  <2> SUFFICES ASSUME ProxyInv, NEW r \in Requests, Deleted(r), ~hurt[r], NEW p \in Pools, Left(r, p)
               PROVE  FALSE
    BY DEF DeletionTakesNodePools, LeftBehind, Left
  <2>1. Deletes(r)
    BY DEF ProxyInv, DeleteInv
  <2> QED
    BY <2>1 DEF Deletes, Deleted
<1> QED
  BY <1>1, ProxyHolds, PTL

\* A deletion does not touch a NodePool of another cluster that was there when
\* it was sent, though it deletes by name and other requests create and delete
\* NodePools of those names meanwhile (handleDelete, deleteNodePool).
THEOREM OthersStay == Spec => OtherClustersKept
<1>1. ASSUME ProxyInv, NEW r \in Requests, NEW p \in Pools, DeleteNodePool(r),
             spoke'[p] # spoke[p], <<p, spoke[p].by>> \in old[r]
      PROVE  spoke[p].of = req[r].cluster
  <2>1. PICK p0 \in todo[r] : UNCHANGED spoke \/ (~Absent(p0) /\ spoke' = Marked(p0))
    BY <1>1 DEF DeleteNodePool
  <2>2. pc[r] = "drop" /\ p0 \in Objects /\ p \in Objects /\ Typed
    BY <1>1, NoneFacts DEF DeleteNodePool, ProxyInv, HandlerInv, InPhase
  <2>3. ~Absent(p0) /\ spoke' = Marked(p0)
    BY <1>1, <2>1
  <2>4. p = p0
    BY <1>1, <2>2, <2>3, MarkedFacts
  <2> QED
    BY <1>1, <2>2, <2>3, <2>4 DEF ProxyInv, DeleteInv, Deletes
<1>2. ProxyInv /\ [Next]_vars =>
        [\A r \in Requests, p \in Pools :
           DeleteNodePool(r) /\ spoke'[p] # spoke[p] /\ <<p, spoke[p].by>> \in old[r] =>
             spoke[p].of = req[r].cluster]_vars
  BY <1>1
<1> QED
  BY <1>2, ProxyHolds, PTL DEF Spec, OtherClustersKept
=================================================================================
