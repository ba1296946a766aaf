-------------------------------- MODULE HcpProxy --------------------------------
(***************************************************************************)
(* The HCP proxy of the manager (pkg/manager/hcp_proxy.go): requests for   *)
(* HostedClusters of a hosting cluster, each handled in several calls to   *)
(* that cluster's API server (the spoke), which it reaches through         *)
(* cluster-proxy.  The proxy keeps no state and no lock: requests for the  *)
(* same cluster interleave between their calls, a call may fail before or  *)
(* after it took effect, and a client may go away in the middle.           *)
(*                                                                         *)
(* One namespace of one spoke.  An object of the spoke carries the request *)
(* that created it and the edits made to it since; the number of its       *)
(* writes, with its creator, is its resourceVersion.                       *)
(***************************************************************************)
EXTENDS Naturals, FiniteSets

CONSTANTS
  MaxRequests, \* requests that clients send
  Clusters,   \* names of HostedClusters
  Asked,      \* the ones requests are for
  Pools,      \* names of NodePools
  Secrets,    \* names of Secrets
  Ops,        \* the operations clients ask for
  SkipHubPermissionCheck, \* that variable is set, for kind
  MaxFaults,  \* calls that may fail and clients that may go away
  None

ASSUME ConstantsAssumption ==
  /\ Ops \subseteq {"create", "get", "update", "delete"}
  /\ Clusters \cap Pools = {}
  /\ Asked \subseteq Clusters
  /\ SkipHubPermissionCheck \in BOOLEAN
  /\ MaxFaults \in Nat
  /\ MaxRequests \in Nat
  /\ None \notin Nat \cup Secrets

\* Numbered in the order they arrive.
Requests == 1 .. MaxRequests

VARIABLES
  nspace,   \* the namespace exists on the spoke
  secret,   \* the request whose data each Secret holds, or None
  spoke,    \* the HostedClusters and NodePools of the spoke
  req,      \* what each request asks for
  pc,       \* where its handler is
  at,       \* the Secret it replaces
  todo,     \* names the loop it is in has still to handle
  bundle,   \* the objects read for its response
  told,     \* NodePools its response lists as created
  warned,   \* NodePools its response warns of
  code,     \* the status of its response
  wrote,    \* history: objects its calls created, replaced or deleted
  old,      \* history: the NodePools there were when a deletion was sent
  hurt,     \* history: one of its calls failed
  faults    \* calls that failed and clients that went away

handler == <<req, pc, at, todo, bundle, told, warned, code, wrote, old, hurt>>
vars == <<nspace, secret, spoke, handler, faults>>

Objects == Clusters \cup Pools

\* spec.clusterName of a NodePool is its cluster; a HostedCluster is its own.
Object ==
  [by: Requests \cup {None}, of: Clusters, writes: Nat, edits: SUBSET Requests, deleting: BOOLEAN]

Absent(o) == spoke[o] = None
ResourceVersion(x) == <<x.by, x.writes>>

New(r, c) == [by |-> r, of |-> c, writes |-> 0, edits |-> {}, deleting |-> FALSE]

\* What the NodePool list of the spoke holds for a cluster.
\* (Mutant: spec.clusterName is not compared.)
BugPoolsOf(c) == {p \in Pools : ~Absent(p)}

PoolsOf(c) == {p \in Pools : ~Absent(p) /\ spoke[p].of = c}

\* The spoke is empty, or holds what earlier requests created.
Before ==
  {[o \in Objects |-> None]}
    \cup {[o \in Objects |-> New(None, IF o \in Clusters THEN o ELSE of[o])] :
             of \in [Pools -> Clusters]}

Request ==
  [op: {"create"}, cluster: Asked, secrets: SUBSET Secrets, pools: SUBSET Pools]
    \cup [op: {"get", "delete"}, cluster: Asked]
    \cup [op: {"update"}, cluster: Asked, parts: SUBSET Objects, base: Requests]

Steps ==
  {"unsent", "namespace", "secrets", "putsecret", "pools", "list", "drop",
   "puthc", "putpools", "gethc", "getpools", "answered", "gone"}
Handled == {"unsent", "answered", "gone"}

TypeOK ==
  /\ nspace \in BOOLEAN
  /\ secret \in [Secrets -> Requests \cup {None}]
  /\ \A o \in Objects : ~Absent(o) => spoke[o] \in Object
  /\ \A r \in Requests :
       /\ pc[r] \in Steps
       /\ req[r] \in Request \cup {None}
       /\ pc[r] \in {"secrets", "putsecret"} => todo[r] \subseteq Secrets
       /\ pc[r] \in {"pools", "drop", "putpools"} => todo[r] \subseteq Pools
       /\ pc[r] = "putsecret" => at[r] \in todo[r]
       /\ \A o \in Objects : bundle[r][o] # None => bundle[r][o] \in Object
       /\ told[r] \cup warned[r] \subseteq Pools
       /\ code[r] \in {0, 200, 201, 400, 404, 500, 502}
       /\ wrote[r] \subseteq Objects
       /\ old[r] \subseteq Pools \X (Requests \cup {None})
       /\ hurt[r] \in BOOLEAN
  /\ faults \in 0 .. MaxFaults

Init ==
  /\ spoke \in Before
  /\ nspace \in {TRUE, \E o \in Objects : ~Absent(o)}
  /\ secret = [s \in Secrets |-> None]
  /\ req = [r \in Requests |-> None]
  /\ pc = [r \in Requests |-> "unsent"]
  /\ at = [r \in Requests |-> None]
  /\ todo = [r \in Requests |-> {}]
  /\ bundle = [r \in Requests |-> [o \in Objects |-> None]]
  /\ told = [r \in Requests |-> {}] /\ warned = [r \in Requests |-> {}]
  /\ code = [r \in Requests |-> 0]
  /\ wrote = [r \in Requests |-> {}]
  /\ old = [r \in Requests |-> {}]
  /\ hurt = [r \in Requests |-> FALSE]
  /\ faults = 0

-----------------------------------------------------------------------------
\* What the steps share.

GoTo(r, step) == pc' = [pc EXCEPT ![r] = step] /\ UNCHANGED code
Answer(r, status) == pc' = [pc EXCEPT ![r] = "answered"] /\ code' = [code EXCEPT ![r] = status]
Loop(r, names) == todo' = [todo EXCEPT ![r] = names]
Wrote(r, o) == wrote' = [wrote EXCEPT ![r] = @ \cup {o}]

\* A call fails: refused by the spoke, or not answered within 30 seconds.
Fails(r) ==
  /\ faults < MaxFaults /\ faults' = faults + 1
  /\ hurt' = [hurt EXCEPT ![r] = TRUE]
Served == UNCHANGED <<faults, hurt>>

\* A call that was not answered may have taken effect all the same.
PerhapsCreates(r, o, x) ==
  \/ Absent(o) /\ spoke' = [spoke EXCEPT ![o] = x] /\ Wrote(r, o)
  \/ UNCHANGED <<spoke, wrote>>

\* The bundle the client sends was read by an earlier request and edited.
\* Its resourceVersion has to be the present one for the spoke to accept it.
Sent(r, o) == bundle[req[r].base][o]
\* (Mutant: the resourceVersion is not passed on.)
BugCurrent(r, o) == ~Absent(o)

Current(r, o) == ~Absent(o) /\ ResourceVersion(Sent(r, o)) = ResourceVersion(spoke[o])
Replaced(r, o) ==
  [spoke EXCEPT ![o].writes = @ + 1, ![o].edits = Sent(r, o).edits \cup {r}]

Marked(o) == [spoke EXCEPT ![o].deleting = TRUE]

-----------------------------------------------------------------------------
\* A request arrives (handleRoute, dispatchCollection, dispatchNamed).

\* What handleRoute looks at: the URL, and what the hub says of the hosting
\* cluster and of the caller, by two reads of its UserPermission (the probe with
\* the proxy's own identity, the other with the caller's).
Route ==
  [watch: BOOLEAN, hosting: {"missing", "invalid", "valid"},
   path: {"everywhere", "collection", "named", "other"},
   method: {"GET", "POST", "PUT", "DELETE", "PATCH"}, available: BOOLEAN,
   user: BOOLEAN, probe: {"found", "notfound", "noapi", "error"}, bound: BOOLEAN]

\* checkHubPermission: without the API only SKIP_HUB_PERMISSION_CHECK helps.
HubPermission(q) ==
  /\ q.user
  /\ \/ q.probe = "noapi" /\ SkipHubPermissionCheck
     \/ q.probe \in {"found", "notfound"} /\ q.bound

Dispatched(q) ==
  \/ q.path = "collection" /\ q.method = "POST"
  \/ q.path = "named" /\ q.method \in {"GET", "PUT", "DELETE"}

\* The status of the response, or 0 if a handler is called: 200 with an empty list
\* for the namespace controller, and 400 stands for 400, 403, 404, 405 and 503.
RouteStatus(q) ==
  CASE q.watch -> 400
    [] ~q.watch /\ q.hosting = "missing" /\ q.path \in {"everywhere", "collection"}
         /\ q.method \in {"GET", "DELETE"} -> 200
    [] OTHER ->
         IF q.hosting = "valid" /\ q.available /\ HubPermission(q) /\ Dispatched(q)
         THEN 0 ELSE 400
Refusals == {RouteStatus(q) : q \in Route} \ {0}

Arrives(r) == pc[r] = "unsent" /\ \A q \in 1 .. r - 1 : pc[q] # "unsent"

\* Answered before any call to the spoke.
Refuse(r) ==
  /\ Arrives(r)
  /\ \E status \in Refusals : Answer(r, status)
  /\ UNCHANGED <<nspace, secret, spoke, req, at, todo, bundle, told, warned, wrote, old, hurt, faults>>

\* What a client may send.  An update edits a bundle that a request for the
\* same cluster returned; the response of a creation has no resourceVersions.
MaySend(q) ==
  /\ q.op \in Ops
  /\ q.op = "update" =>
       /\ pc[q.base] = "answered" /\ code[q.base] = 200 /\ req[q.base] # None
       /\ req[q.base].op \in {"get", "update"} /\ req[q.base].cluster = q.cluster
       /\ q.parts # {} /\ \A o \in q.parts : bundle[q.base][o] # None

FirstStep(op) ==
  CASE op = "create" -> "namespace" [] op = "get" -> "gethc"
    [] op = "update" -> "puthc" [] OTHER -> "list"

Accept(r) ==
  /\ Arrives(r)
  /\ \E q \in Request :
       /\ MaySend(q)
       /\ req' = [req EXCEPT ![r] = q]
       /\ GoTo(r, FirstStep(q.op))
       /\ old' = [old EXCEPT ![r] =
            IF q.op = "delete" THEN {<<p, spoke[p].by>> : p \in {p \in Pools : ~Absent(p)}} ELSE {}]
  /\ UNCHANGED <<nspace, secret, spoke, at, todo, bundle, told, warned, wrote, hurt, faults>>

-----------------------------------------------------------------------------
\* handleCreate

\* The namespace is created, or exists (409); any other error ends the request.
CreateNamespace(r) ==
  /\ pc[r] = "namespace"
  /\ \/ nspace' = TRUE /\ Served /\ GoTo(r, "secrets") /\ Loop(r, req[r].secrets)
     \/ Fails(r) /\ nspace' \in {nspace, TRUE} /\ Answer(r, 500) /\ UNCHANGED todo
  /\ UNCHANGED <<secret, spoke, req, at, bundle, told, warned, wrote, old>>

\* createOrUpdateSecretOnSpoke: POST, and PUT if that is answered with 409.
\* (Mutant: the error of the POST is not looked at.)
BugPostSecret(r) ==
  /\ pc[r] = "secrets"
  /\ \E s \in todo[r] :
       /\ \/ secret[s] = None /\ secret' = [secret EXCEPT ![s] = r] /\ Served
          \/ UNCHANGED secret /\ Fails(r)
       /\ GoTo(r, "secrets") /\ Loop(r, todo[r] \ {s})
  /\ UNCHANGED <<nspace, spoke, req, at, bundle, told, warned, wrote, old>>

PostSecret(r) ==
  /\ pc[r] = "secrets"
  /\ \E s \in todo[r] :
       \/ /\ secret[s] = None /\ secret' = [secret EXCEPT ![s] = r]
          /\ Served /\ GoTo(r, "secrets") /\ Loop(r, todo[r] \ {s}) /\ UNCHANGED at
       \/ /\ secret[s] # None /\ Served
          /\ GoTo(r, "putsecret") /\ at' = [at EXCEPT ![r] = s]
          /\ UNCHANGED <<secret, todo>>
       \/ /\ Fails(r) /\ Answer(r, 500)
          /\ secret' \in {secret} \cup {[secret EXCEPT ![s] = r] : x \in {y \in {s} : secret[y] = None}}
          /\ UNCHANGED <<at, todo>>
  /\ UNCHANGED <<nspace, spoke, req, bundle, told, warned, wrote, old>>

PutSecret(r) ==
  /\ pc[r] = "putsecret"
  /\ LET written == [secret EXCEPT ![at[r]] = r]
     IN  \/ secret' = written /\ Served /\ GoTo(r, "secrets") /\ Loop(r, todo[r] \ {at[r]})
         \/ Fails(r) /\ secret' \in {secret, written} /\ Answer(r, 500) /\ UNCHANGED todo
  /\ at' = [at EXCEPT ![r] = None]
  /\ UNCHANGED <<nspace, spoke, req, bundle, told, warned, wrote, old>>

\* A HostedCluster of that name, or any other error, ends the request.
\* (Mutant: a HostedCluster that exists is taken for one's own, like a namespace.)
BugPostHostedCluster(r) ==
  /\ pc[r] = "secrets" /\ todo[r] = {}
  /\ LET c == req[r].cluster
     IN  \/ Absent(c) /\ spoke' = [spoke EXCEPT ![c] = New(r, c)] /\ Wrote(r, c)
         \/ ~Absent(c) /\ UNCHANGED <<spoke, wrote>>
  /\ Served /\ GoTo(r, "pools") /\ Loop(r, req[r].pools)
  /\ UNCHANGED <<nspace, secret, req, at, bundle, told, warned, old>>

PostHostedCluster(r) ==
  /\ pc[r] = "secrets" /\ todo[r] = {}
  /\ LET c == req[r].cluster
     IN  \/ /\ Absent(c) /\ spoke' = [spoke EXCEPT ![c] = New(r, c)] /\ Wrote(r, c)
            /\ Served /\ GoTo(r, "pools") /\ Loop(r, req[r].pools)
         \/ ~Absent(c) /\ Served /\ Answer(r, 500) /\ UNCHANGED <<spoke, wrote, todo>>
         \/ Fails(r) /\ PerhapsCreates(r, c, New(r, c)) /\ Answer(r, 500) /\ UNCHANGED todo
  /\ UNCHANGED <<nspace, secret, req, at, bundle, told, warned, old>>

\* The client may send a NodePool with spec.clusterName, of whatever cluster;
\* one without gets that of the request.  An error with a NodePool becomes a
\* warning of the response.
PostNodePool(r) ==
  /\ pc[r] = "pools"
  /\ \E p \in todo[r], c \in Clusters :
       /\ LET x == New(r, c)
          IN  \/ /\ Absent(p) /\ spoke' = [spoke EXCEPT ![p] = x] /\ Wrote(r, p) /\ Served
                 /\ told' = [told EXCEPT ![r] = @ \cup {p}] /\ UNCHANGED warned
              \/ /\ \/ ~Absent(p) /\ Served /\ UNCHANGED <<spoke, wrote>>
                    \/ Fails(r) /\ PerhapsCreates(r, p, x)
                 /\ warned' = [warned EXCEPT ![r] = @ \cup {p}] /\ UNCHANGED told
       /\ Loop(r, todo[r] \ {p})
  /\ UNCHANGED <<nspace, secret, req, pc, at, bundle, code, old>>

Created(r) ==
  /\ pc[r] = "pools" /\ todo[r] = {}
  /\ Answer(r, 201)
  /\ UNCHANGED <<nspace, secret, spoke, req, at, todo, bundle, told, warned, wrote, old, hurt, faults>>

-----------------------------------------------------------------------------
\* handleDelete

\* (Mutant: only the NodePools that carry the proxy's label are deleted.)
BugListNodePools(r) ==
  /\ pc[r] = "list"
  /\ Served /\ Loop(r, {p \in PoolsOf(req[r].cluster) : spoke[p].by # None})
  /\ GoTo(r, "drop")
  /\ UNCHANGED <<nspace, secret, spoke, req, at, bundle, told, warned, wrote, old>>

\* fetchNodePoolsForHC: if the list fails there are none.
ListNodePools(r) ==
  /\ pc[r] = "list"
  /\ \/ Served /\ Loop(r, PoolsOf(req[r].cluster))
     \/ Fails(r) /\ Loop(r, {})
  /\ GoTo(r, "drop")
  /\ UNCHANGED <<nspace, secret, spoke, req, at, bundle, told, warned, wrote, old>>

\* deleteNodePool: by name, and whatever the answer is.
DeleteNodePool(r) ==
  /\ pc[r] = "drop"
  /\ \E p \in todo[r] :
       /\ \/ Served /\ ~Absent(p) /\ spoke' = Marked(p) /\ Wrote(r, p)
          \/ Served /\ Absent(p) /\ UNCHANGED <<spoke, wrote>>
          \/ Fails(r) /\ UNCHANGED <<spoke, wrote>>
          \/ Fails(r) /\ ~Absent(p) /\ spoke' = Marked(p) /\ Wrote(r, p)
       /\ Loop(r, todo[r] \ {p})
  /\ UNCHANGED <<nspace, secret, req, pc, at, bundle, told, warned, code, old>>

\* The spoke's answer is the response.
DeleteHostedCluster(r) ==
  /\ pc[r] = "drop" /\ todo[r] = {}
  /\ LET c == req[r].cluster
     IN  \/ Served /\ ~Absent(c) /\ spoke' = Marked(c) /\ Wrote(r, c) /\ Answer(r, 200)
         \/ Served /\ Absent(c) /\ UNCHANGED <<spoke, wrote>> /\ Answer(r, 404)
         \/ Fails(r) /\ UNCHANGED <<spoke, wrote>> /\ Answer(r, 502)
         \/ Fails(r) /\ ~Absent(c) /\ spoke' = Marked(c) /\ Wrote(r, c) /\ Answer(r, 502)
  /\ UNCHANGED <<nspace, secret, req, at, todo, bundle, told, warned, old>>

-----------------------------------------------------------------------------
\* handlePatchResources, then handleGetResources

\* putOnSpoke: a stale resourceVersion (409) or a missing object (404) is an
\* error like a call that fails.
Put(r, o) ==
  \/ Current(r, o) /\ spoke' = Replaced(r, o) /\ Wrote(r, o) /\ Served
Refused(r, o) ==
  \/ ~Current(r, o) /\ UNCHANGED <<spoke, wrote>> /\ Served
  \/ Fails(r) /\ UNCHANGED <<spoke, wrote>>
  \/ Fails(r) /\ Current(r, o) /\ spoke' = Replaced(r, o) /\ Wrote(r, o)

\* (Mutant: every object of the bundle is sent as a NodePool.)
BugPutHostedCluster(r) ==
  /\ pc[r] = "puthc"
  /\ GoTo(r, "putpools") /\ Loop(r, req[r].parts)
  /\ UNCHANGED <<nspace, secret, spoke, req, at, bundle, told, warned, wrote, old, hurt, faults>>

PutHostedCluster(r) ==
  /\ pc[r] = "puthc"
  /\ LET c == req[r].cluster
     IN  \/ c \notin req[r].parts /\ UNCHANGED <<spoke, wrote>> /\ Served /\ GoTo(r, "putpools")
         \/ c \in req[r].parts /\ Put(r, c) /\ GoTo(r, "putpools")
         \/ c \in req[r].parts /\ Refused(r, c) /\ Answer(r, 502)
  /\ Loop(r, req[r].parts \cap Pools)
  /\ UNCHANGED <<nspace, secret, req, at, bundle, told, warned, old>>

PutNodePool(r) ==
  /\ pc[r] = "putpools"
  /\ \E p \in todo[r] :
       \/ Put(r, p) /\ GoTo(r, "putpools") /\ Loop(r, todo[r] \ {p})
       \/ Refused(r, p) /\ Answer(r, 502) /\ UNCHANGED todo
  /\ UNCHANGED <<nspace, secret, req, at, bundle, told, warned, old>>

Replacing(r) == pc[r] = "putpools" /\ todo[r] = {}

GetHostedCluster(r) ==
  /\ pc[r] = "gethc" \/ Replacing(r)
  /\ LET c == req[r].cluster
     IN  \/ /\ ~Absent(c) /\ Served
            /\ bundle' = [bundle EXCEPT ![r][c] = spoke[c]] /\ GoTo(r, "getpools")
         \/ Absent(c) /\ Served /\ UNCHANGED bundle /\ Answer(r, 404)
         \/ Fails(r) /\ UNCHANGED bundle /\ Answer(r, 502)
  /\ UNCHANGED <<nspace, secret, spoke, req, at, todo, told, warned, wrote, old>>

\* If the list fails the bundle has no NodePools.
GetNodePools(r) ==
  /\ pc[r] = "getpools"
  /\ \/ /\ Served
        /\ bundle' = [bundle EXCEPT ![r] =
             [o \in Objects |-> IF o \in PoolsOf(req[r].cluster) THEN spoke[o] ELSE @[o]]]
     \/ Fails(r) /\ UNCHANGED bundle
  /\ Answer(r, 200)
  /\ UNCHANGED <<nspace, secret, spoke, req, at, todo, told, warned, wrote, old>>

-----------------------------------------------------------------------------
\* The client goes away, or the manager restarts: no further call is made.
Abandon(r) ==
  /\ pc[r] \notin Handled
  /\ faults < MaxFaults /\ faults' = faults + 1
  /\ GoTo(r, "gone") /\ Loop(r, {}) /\ at' = [at EXCEPT ![r] = None]
  /\ UNCHANGED <<nspace, secret, spoke, req, bundle, told, warned, wrote, old, hurt>>

\* The HyperShift operator has cleaned up after a deleted object.
Finalize ==
  /\ \E o \in Objects :
       /\ ~Absent(o) /\ spoke[o].deleting
       /\ spoke' = [spoke EXCEPT ![o] = None]
  /\ UNCHANGED <<nspace, secret, handler, faults>>

Handle(r) ==
  \/ CreateNamespace(r) \/ PostSecret(r) \/ PutSecret(r) \/ PostHostedCluster(r)
  \/ PostNodePool(r) \/ Created(r)
  \/ ListNodePools(r) \/ DeleteNodePool(r) \/ DeleteHostedCluster(r)
  \/ PutHostedCluster(r) \/ PutNodePool(r) \/ GetHostedCluster(r) \/ GetNodePools(r)

Next ==
  \/ \E r \in Requests : Refuse(r) \/ Accept(r) \/ Handle(r) \/ Abandon(r)
  \/ Finalize

Spec == Init /\ [][Next]_vars

-----------------------------------------------------------------------------
\* Properties

\* A HostedCluster never exists without the namespace and the Secrets of the
\* request that created it, whoever else creates, retries or fails meanwhile
\* (handleCreate :948-980, createOrUpdateSecretOnSpoke :1344-1363).
SecretsFirst ==
  \A c \in Clusters : ~Absent(c) /\ spoke[c].by # None =>
    nspace /\ \A s \in req[spoke[c].by].secrets : secret[s] # None

\* A response says what was done.  Of two creations of one HostedCluster only the
\* one whose object the spoke holds is answered 201; its NodePools are created
\* and listed, or warned of (:969-1022).  A 200 to an update means that the edits
\* of every object sent were made (:1122-1155), and to a deletion that the
\* HostedCluster was deleted.
AnswersAreTrue ==
  \A r \in Requests : pc[r] = "answered" /\ req[r] # None =>
    /\ code[r] = 201 =>
         /\ req[r].cluster \in wrote[r] /\ told[r] \subseteq wrote[r]
         /\ req[r].pools = told[r] \cup warned[r]
    /\ code[r] = 200 /\ req[r].op = "update" => req[r].parts \subseteq wrote[r]
    /\ code[r] = 200 /\ req[r].op = "delete" => req[r].cluster \in wrote[r]

\* No edit is lost: an object carries the edits of all the updates written to it
\* since it was created.  An update that read it before another one wrote it is
\* refused, for the proxy passes on the resourceVersion its client read
\* (handlePatchResources :1122-1152, putOnSpoke :1158-1184).
NoEditLost ==
  \A o \in Objects : ~Absent(o) => spoke[o].writes = Cardinality(spoke[o].edits)

\* A NodePool of the cluster that existed when its deletion was sent.
LeftBehind(r) ==
  \E p \in Pools :
    /\ ~Absent(p) /\ <<p, spoke[p].by>> \in old[r]
    /\ spoke[p].of = req[r].cluster /\ ~spoke[p].deleting
Deleted(r) == pc[r] = "answered" /\ req[r] # None /\ req[r].op = "delete" /\ code[r] = 200

\* A deletion whose calls all succeeded and that was answered 200 has deleted
\* every NodePool of the cluster that existed when it was sent, whatever other
\* requests did meanwhile (handleDelete :1025-1058, fetchNodePoolsForHC :1277-1309).
DeletionTakesNodePools == \A r \in Requests : Deleted(r) /\ ~hurt[r] => ~LeftBehind(r)

\* A NodePool of another cluster that existed when the deletion was sent is not
\* deleted.  (One that takes over the name of a deleted NodePool afterwards may
\* be: the loop deletes by name.)
OtherClustersKept ==
  [][\A r \in Requests, p \in Pools :
       DeleteNodePool(r) /\ spoke'[p] # spoke[p] /\ <<p, spoke[p].by>> \in old[r] =>
         spoke[p].of = req[r].cluster]_vars
=============================================================================
