--------------------------- MODULE PlacementScore ---------------------------
(***************************************************************************)
(* The hosted cluster count the agent publishes (pkg/agent/agent.go        *)
(* SyncAddOnPlacementScore, pkg/agent/clusterclaim.go): an                 *)
(* AddOnPlacementScore on the hub, and the cluster claims full, above      *)
(* (threshold) and zero on the hosting cluster, which placements read.     *)
(*                                                                         *)
(* The agent syncs once when it starts, then at the head of every          *)
(* reconcile of a HostedCluster (HC).  Reconciles of different HCs run at  *)
(* the same time; every call they make to an API server is one action.     *)
(***************************************************************************)
EXTENDS Integers, FiniteSets

CONSTANTS
  HCs,           \* HostedClusters; also the keys of the work queue
  Startup,       \* the sync RunManager makes before it starts the controllers
  MaxConcurrentReconciles,
  MaxScore,      \* the highest value the AddOnPlacementScore API accepts (100)
  EnvMax,        \* HC_MAX_NUMBER, or NotANumber when Atoi rejects it
  EnvThreshold,  \* HC_THRESHOLD_NUMBER, likewise
  NotANumber,
  Changes,       \* what may happen around the agent: see Change
  MaxChanges     \* bound: how often

ASSUME ConstantsAssumption ==
  /\ IsFiniteSet(HCs)
  /\ Startup \notin HCs
  /\ MaxConcurrentReconciles \in Nat
  /\ MaxScore \in Nat
  /\ NotANumber \notin Int
  /\ EnvMax \in Int \cup {NotANumber}
  /\ EnvThreshold \in Int \cup {NotANumber}
  /\ Changes \subseteq {"create", "delete", "touch", "crd", "callFails", "listFails", "restart"}
  /\ MaxChanges \in Nat

VARIABLES
  hcs,      \* the HCs that exist
  crd,      \* whether the HostedCluster CRD is installed
  score,    \* the AddOnPlacementScore
  claims,   \* the three cluster claims
  phase,    \* "starting" until the startup sync returned, then "running"
  queue,    \* the work queue
  pc,       \* per sync: the call it makes next
  count,    \* per sync: len(hcList.Items)
  claim,    \* per sync: the claim it works on
  fresh,    \* the syncs whose copy has the stored object's resourceVersion
  solo,     \* history: the last sync to start ran alone so far, and listed
  missed,   \* history: an HC went while no watch was there to tell
  shrunk,   \* history: an HC was deleted, or the List of one sync failed
  changes   \* what happened so far (bounds the model)

vars == <<hcs, crd, score, claims, phase, queue, pc, count, claim, fresh, solo, missed, shrunk, changes>>

-----------------------------------------------------------------------------
(* getMaxAndThresholdHCCount *)

DefaultMax == 80
DefaultThreshold == 60

LimitOr(env, default) == IF env \in Int /\ env >= 1 THEN env ELSE default

LimitsUsable == LimitOr(EnvMax, DefaultMax) >= LimitOr(EnvThreshold, DefaultThreshold)
MaxHostedClusterCount ==
  IF LimitsUsable THEN LimitOr(EnvMax, DefaultMax) ELSE DefaultMax
ThresholdHostedClusterCount ==
  IF LimitsUsable THEN LimitOr(EnvThreshold, DefaultThreshold) ELSE DefaultThreshold

-----------------------------------------------------------------------------
Syncs == HCs \cup {Startup}
ClaimNames == {"full", "above", "zero"}
ClaimState == {"absent", "true", "false"}
ScoreState == [value: 0..MaxScore, updated: {"unset", "true", "false"}]
NoScore == [value |-> 0, updated |-> "unset"]

\* The steps that hold a copy of the score.
ScoreSteps == {"listHCs", "putScore", "putFailure"}
Steps == {"idle", "getClaim", "putClaim"} \cup ScoreSteps

TypeOK ==
  /\ hcs \subseteq HCs
  /\ crd \in BOOLEAN
  /\ score \in ScoreState
  /\ claims \in [ClaimNames -> ClaimState]
  /\ phase \in {"starting", "running"}
  /\ queue \subseteq HCs
  /\ pc \in [Syncs -> Steps]
  /\ count \in [Syncs -> Nat]
  /\ claim \in [Syncs -> ClaimNames]
  /\ fresh \subseteq Syncs
  /\ solo \in BOOLEAN
  /\ missed \in BOOLEAN
  /\ shrunk \in BOOLEAN
  /\ changes \in Nat

Active == {s \in Syncs : pc[s] # "idle"}

\* Definitions named Bug... are the plausible mistakes that show what each
\* property would catch; no specification uses them.
BugUncapped(n) == n
ScoreValue(n) == IF n > MaxScore THEN MaxScore ELSE n

FormatBool(b) == IF b THEN "true" ELSE "false"
ClaimValue(c, n) ==
  FormatBool(CASE c = "full"  -> n >= MaxHostedClusterCount
               [] c = "above" -> n >= ThresholdHostedClusterCount
               [] c = "zero"  -> n = 0)

-----------------------------------------------------------------------------
(* How a sync ends.  After an error its request is queued again, and the   *)
(* startup sync ends the process, which is started again.                  *)

Rest(s) ==
  /\ pc' = [pc EXCEPT ![s] = "idle"]
  /\ count' = [count EXCEPT ![s] = 0]
  /\ claim' = [claim EXCEPT ![s] = "full"]

BugFail(s) == Rest(s) /\ UNCHANGED <<queue, phase>>
Fail(s) ==
  /\ Rest(s)
  /\ queue' = queue \cup ({s} \ {Startup})
  /\ UNCHANGED phase

\* After the startup sync the controllers start, and their first list of the
\* HCs queues them all.
BugReturn(s) ==
  /\ Rest(s)
  /\ phase' = "running"
  /\ queue' = IF s = Startup THEN hcs ELSE queue \cup {s}
Return(s) ==
  /\ Rest(s)
  /\ phase' = "running"
  /\ queue' = IF s = Startup THEN hcs ELSE queue

MayStart(s) ==
  \/ s = Startup /\ phase = "starting"
  \/ /\ s \in queue /\ phase = "running"
     /\ Cardinality(Active) < MaxConcurrentReconciles

(***************************************************************************)
(* CreateOrUpdate of the score with a mutation that changes nothing: it is *)
(* created when missing, else only read, together with its version.        *)
(***************************************************************************)
GetScore(s) ==
  /\ pc[s] = "idle" /\ MayStart(s)
  /\ solo' = (Active = {})
  /\ pc' = [pc EXCEPT ![s] = "listHCs"]
  /\ queue' = queue \ {s}
  /\ fresh' = fresh \cup {s}
  /\ UNCHANGED <<hcs, crd, score, claims, phase, count, claim, missed, shrunk, changes>>

\* At startup a missing CRD counts as no HC.
ListHCs(s) ==
  /\ pc[s] = "listHCs"
  /\ crd \/ s = Startup
  /\ count' = [count EXCEPT ![s] = Cardinality(hcs)]
  /\ pc' = [pc EXCEPT ![s] = "putScore"]
  /\ missed' = FALSE
  /\ UNCHANGED <<hcs, crd, score, claims, phase, queue, claim, fresh, solo, shrunk, changes>>

(***************************************************************************)
(* Status().Update of the score, which conflicts unless the copy is fresh. *)
(* An update that changes nothing is not stored, so it leaves the version  *)
(* as it is and other copies stay fresh.                                   *)
(***************************************************************************)
StoreScore(s, new) ==
  /\ score' = new
  /\ fresh' = {v \in fresh \ {s} : new = score \/ pc[v] \notin ScoreSteps}

BugPutScore(s) ==
  /\ pc[s] = "putScore"
  /\ StoreScore(s, [value |-> ScoreValue(count[s]), updated |-> "true"])
  /\ pc' = [pc EXCEPT ![s] = "getClaim"]
  /\ UNCHANGED <<hcs, crd, claims, phase, queue, count, claim, solo, missed, shrunk, changes>>
PutScore(s) ==
  /\ pc[s] = "putScore" /\ s \in fresh
  /\ StoreScore(s, [value |-> ScoreValue(count[s]), updated |-> "true"])
  /\ pc' = [pc EXCEPT ![s] = "getClaim"]
  /\ UNCHANGED <<hcs, crd, claims, phase, queue, count, claim, solo, missed, shrunk, changes>>

\* After a failed List only the condition changes, and the sync returns no
\* error.
PutFailure(s) ==
  /\ pc[s] = "putFailure" /\ s \in fresh
  /\ StoreScore(s, [score EXCEPT !.updated = "false"])
  /\ Return(s)
  /\ UNCHANGED <<hcs, crd, claims, solo, missed, shrunk, changes>>

Conflict(s) ==
  /\ pc[s] \in {"putScore", "putFailure", "putClaim"} /\ s \notin fresh
  /\ Fail(s)
  /\ UNCHANGED <<hcs, crd, score, claims, fresh, solo, missed, shrunk, changes>>

-----------------------------------------------------------------------------
(* createOrUpdate of the claims, in the order full, above, zero.           *)

NextClaim(s) ==
  \/ /\ claim[s] # "zero"
     /\ claim' = [claim EXCEPT ![s] = IF @ = "full" THEN "above" ELSE "zero"]
     /\ pc' = [pc EXCEPT ![s] = "getClaim"]
     /\ UNCHANGED <<phase, queue, count>>
  \/ claim[s] = "zero" /\ Return(s)

Wanted(s) == ClaimValue(claim[s], count[s])

GetClaim(s) ==
  /\ pc[s] = "getClaim"
  /\ \/ /\ claims[claim[s]] = Wanted(s)
        /\ NextClaim(s)
        /\ UNCHANGED fresh
     \/ /\ claims[claim[s]] # Wanted(s)
        /\ pc' = [pc EXCEPT ![s] = "putClaim"]
        /\ fresh' = fresh \cup {s}
        /\ UNCHANGED <<phase, queue, count, claim>>
  /\ UNCHANGED <<hcs, crd, score, claims, solo, missed, shrunk, changes>>

\* Create or Update; both fail when another sync stored the claim meanwhile.
PutClaim(s) ==
  /\ pc[s] = "putClaim" /\ s \in fresh
  /\ claims' = [claims EXCEPT ![claim[s]] = Wanted(s)]
  /\ fresh' = {v \in fresh : ~(pc[v] = "putClaim" /\ claim[v] = claim[s])}
  /\ NextClaim(s)
  /\ UNCHANGED <<hcs, crd, score, solo, missed, shrunk, changes>>

Sync(s) ==
  \/ GetScore(s) \/ ListHCs(s) \/ PutScore(s) \/ PutFailure(s)
  \/ GetClaim(s) \/ PutClaim(s) \/ Conflict(s)

-----------------------------------------------------------------------------
(* What happens around the agent.  Each call can fail.                     *)

Change(what) == what \in Changes /\ changes < MaxChanges /\ changes' = changes + 1

NoSync == UNCHANGED <<score, claims, phase, pc, count, claim, fresh, solo>>

\* The watch of the HCs starts with the controllers.
Notify(h) == queue' = IF phase = "running" THEN queue \cup {h} ELSE queue

CreateHC(h) ==
  /\ Change("create") /\ crd /\ h \notin hcs
  /\ hcs' = hcs \cup {h}
  /\ Notify(h)
  /\ UNCHANGED <<crd, missed, shrunk>> /\ NoSync

DeleteHC(h) ==
  /\ Change("delete") /\ h \in hcs
  /\ hcs' = hcs \ {h}
  /\ Notify(h)
  /\ missed' = (missed \/ phase = "starting")
  /\ shrunk' = TRUE
  /\ UNCHANGED crd /\ NoSync

\* An update the event filter passes, or a retry of the rest of a reconcile.
TouchHC(h) ==
  /\ Change("touch") /\ h \in hcs
  /\ Notify(h)
  /\ UNCHANGED <<hcs, crd, missed, shrunk>> /\ NoSync

\* The hypershift operator is installed or removed.
ToggleCRD ==
  /\ Change("crd") /\ hcs = {}
  /\ crd' = ~crd
  /\ UNCHANGED <<hcs, queue, missed, shrunk>> /\ NoSync

ListFails(s) ==
  /\ pc[s] = "listHCs"
  /\ \/ Change("listFails")
     \/ ~crd /\ s # Startup /\ UNCHANGED changes
  /\ pc' = [pc EXCEPT ![s] = "putFailure"]
  /\ solo' = FALSE /\ shrunk' = TRUE
  /\ UNCHANGED <<hcs, crd, score, claims, phase, queue, count, claim, fresh, missed>>

CallFails(s) ==
  /\ Change("callFails") /\ pc[s] \notin {"idle", "listHCs"}
  /\ Fail(s)
  /\ fresh' = fresh \ {s}
  /\ UNCHANGED <<hcs, crd, score, claims, solo, missed, shrunk>>

Restart ==
  /\ Change("restart") /\ phase = "running"
  /\ phase' = "starting"
  /\ pc' = [s \in Syncs |-> "idle"]
  /\ count' = [s \in Syncs |-> 0]
  /\ claim' = [s \in Syncs |-> "full"]
  /\ fresh' = {} /\ queue' = {}
  /\ UNCHANGED <<hcs, crd, score, claims, solo, missed, shrunk>>

Init ==
  /\ crd \in BOOLEAN
  /\ hcs \in SUBSET (IF crd THEN HCs ELSE {})
  /\ score = NoScore
  /\ claims = [c \in ClaimNames |-> "absent"]
  /\ phase = "starting" /\ queue = {}
  /\ pc = [s \in Syncs |-> "idle"]
  /\ count = [s \in Syncs |-> 0]
  /\ claim = [s \in Syncs |-> "full"]
  /\ fresh = {}
  /\ solo = FALSE /\ missed = FALSE /\ shrunk = FALSE /\ changes = 0

Next ==
  \/ \E s \in Syncs : Sync(s) \/ ListFails(s) \/ CallFails(s)
  \/ \E h \in HCs : CreateHC(h) \/ DeleteHC(h) \/ TouchHC(h)
  \/ ToggleCRD \/ Restart

Spec == Init /\ [][Next]_vars

\* Every request that is queued is worked on, and every call returns.
FairSpec == Spec /\ \A s \in Syncs : WF_vars(Sync(s) \/ ListFails(s))

-----------------------------------------------------------------------------
(* Properties.                                                             *)

\* The agent is up, nothing is queued and no reconcile runs.
Settled == phase = "running" /\ queue = {} /\ Active = {}

ScoreExact == score = [value |-> ScoreValue(Cardinality(hcs)), updated |-> "true"]
ClaimsExact ==
  LET n == Cardinality(hcs)
  IN  /\ claims["full"]  = FormatBool(n >= MaxHostedClusterCount)
      /\ claims["above"] = FormatBool(n >= ThresholdHostedClusterCount)
      /\ claims["zero"]  = FormatBool(n = 0)

\* A sync that ran alone and listed the HCs repairs everything, whatever
\* races, failures and restarts came before: once the agent rests, the score
\* and all three claims show the HCs there are (SyncAddOnPlacementScore).
\* (An HC deleted before the watches start is set apart.)
SoloSyncRepairs == Settled /\ solo /\ ~missed => ScoreExact /\ ClaimsExact

\* docs/optional/scheduling_hosted_cluster.md:57 "The hypershift addon agent
\* constantly updates this AddOnPlacementScore": once the agent rests, the score
\* is the number of HCs, however many reconciles ran at the same time.  (A
\* deletion can restore the stored count, which bumps no version: an older
\* count may then be stored after the right one, see shrunk.)
SettledScore == Settled /\ ~shrunk => ScoreExact

\* Conflicts requeue, yet the syncs come to rest after the last change.
Drains == <>[]Settled
=============================================================================
