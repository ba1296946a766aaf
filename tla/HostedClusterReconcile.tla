------------------------ MODULE HostedClusterReconcile ------------------------
(***************************************************************************)
(* The reconcile of a HostedCluster (HC) in pkg/agent/agent.go, with the   *)
(* two controllers that wake it: HcpKubeconfigChangeWatcher and            *)
(* ExternalSecretController.                                               *)
(*                                                                         *)
(* For an available HC it mirrors two secrets to the hub, the admin        *)
(* kubeconfig and the kubeadmin password, and writes the kubeconfig where  *)
(* the registration agent of an imported cluster looks for it              *)
(* (external-managed-kubeconfig in the klusterlet's namespace).  For an HC *)
(* that is deleted it deletes the ManagedCluster (MC), lets go of the      *)
(* klusterlet, and deletes the mirrored secrets.                           *)
(*                                                                         *)
(* Every access to an API server is one action.  Reconciles of different   *)
(* HCs overlap; a request that arrives during the reconcile of its own HC  *)
(* waits in the queue.  The score sync each reconcile starts with is       *)
(* module PlacementScore's.                                                *)
(***************************************************************************)
EXTENDS Naturals, FiniteSets

CONSTANTS
  HCs,             \* HCs (namespace and name), numbered in the order of a List
  Names,           \* names of HCs, MCs and klusterlets
  NoName,          \* no managedcluster-name annotation
  NameOf,          \* the name of each HC
  AnnosOf,         \* the names users annotate each HC with
  Remote,          \* whether this cluster's HCs are imported by discovery
  DiscoveredName,  \* getDiscoveredClusterName, which honours DISCOVERY_PREFIX
  PrefixedName,    \* the cluster's name, "-" and the HC's: the watcher's prefix
  Versions,        \* the contents a secret may have
  Changes,         \* the kinds of changes that may happen
  MaxChanges       \* bound: how many of them

ASSUME ConstantsAssumption ==
  /\ HCs \subseteq Nat \ {0}
  /\ NoName \notin Names
  /\ NameOf \in [HCs -> Names]
  /\ AnnosOf \in [HCs -> SUBSET Names]
  /\ Remote \in BOOLEAN
  /\ DiscoveredName \in [Names -> Names] /\ PrefixedName \in [Names -> Names]
  /\ Versions \subseteq Nat \ {0}
  /\ Changes \subseteq {"create", "unavailable", "password", "annotate", "rotate", "delete",
                        "import", "detach", "callFails", "restart"}
  /\ MaxChanges \in Nat

VARIABLES
  hcs,         \* the HCs
  kube,        \* the admin kubeconfig secret of each HC, 0 when there is none
  mirror,      \* the mirrored secrets on the hub
  mc,          \* the MCs on the hub
  klusterlet,  \* the klusterlets on this cluster, by MC name
  ns,          \* the MC names whose klusterlet has its namespace
  ext,         \* external-managed-kubeconfig in that namespace, 0 when missing
  joined,      \* per HC: the MC name it joined as, which gives it the ClusterClaim CRD
  queue,       \* the work queue of the reconcile
  pc,          \* per HC: the call its reconcile makes next
  seen,        \* per HC: the reconcile's copy of the HC
  data,        \* per HC: the secret data the reconcile read last
  failed,      \* per HC: lastErr is set
  kubeCache,   \* the informer's copy of each admin kubeconfig secret
  kwatch,      \* the work queue of HcpKubeconfigChangeWatcher
  ewatch,      \* the work queue of ExternalSecretController
  missed,      \* history: HCs whose deletion no agent was there to see
  lost,        \* history: HCs something of which a failed call left for good
  changes      \* changes so far (bounds the model)

clusterVars == <<hcs, kube, klusterlet, ns, joined>>
hubVars == <<mirror, mc>>
workVars == <<pc, seen, data, failed>>
watchVars == <<kubeCache, kwatch, ewatch>>
historyVars == <<missed, lost>>
vars == <<clusterVars, hubVars, ext, queue, workVars, watchVars, historyVars, changes>>

Kinds == {"kubeconfig", "password"}
Data  == Versions \cup {0}
HCState == [phase: {"absent", "pending", "available", "deleting"},
            anno: Names \cup {NoName}, password: Data, complete: BOOLEAN]
NoHC == [phase |-> "absent", anno |-> NoName, password |-> 0, complete |-> FALSE]

\* A mirrored secret carries the labels of one HC: its owner (0: no secret).
MirrorState == [owner: HCs \cup {0}, data: Data]
NoMirror == [owner |-> 0, data |-> 0]

ClusterSteps == {"getMC", "deleteMC", "release"}
MirrorSteps == {"kubeconfig", "external", "push", "password", "pushPassword", "claim"}
Steps == {"idle", "deleteMirrors"} \cup ClusterSteps \cup MirrorSteps

TypeOK ==
  /\ hcs \in [HCs -> HCState]
  /\ kube \in [HCs -> Data]
  /\ mirror \in [Names \X Kinds -> MirrorState]
  /\ mc \in [Names -> {"absent", "hosted", "other", "deleting"}]
  /\ klusterlet \in [Names -> {"absent", "held", "free"}]
  /\ ns \subseteq Names
  /\ ext \in [Names -> Data]
  /\ joined \in [HCs -> Names \cup {NoName}]
  /\ queue \subseteq HCs
  /\ pc \in [HCs -> Steps]
  /\ seen \in [HCs -> HCState]
  /\ data \in [HCs -> Data]
  /\ failed \in [HCs -> BOOLEAN]
  /\ kubeCache \in [HCs -> Data]
  /\ kwatch \subseteq HCs
  /\ ewatch \subseteq Names
  /\ missed \subseteq HCs
  /\ lost \subseteq HCs
  /\ changes \in Nat

Existing == {h \in HCs : hcs[h].phase # "absent"}
Live(h) == hcs[h].phase \in {"pending", "available"}

\* The managedcluster-name annotation, else the name of the HC.
MCName(h, hc) == IF hc.anno = NoName THEN NameOf[h] ELSE hc.anno

\* Where generateExtManagedKubeconfigSecret looks for the klusterlet.
KlusterletName(h, hc) == IF Remote THEN DiscoveredName[NameOf[h]] ELSE MCName(h, hc)

Owned(h) == {key \in Names \X Kinds : mirror[key].owner = h}
OwnedPasswords(h) == {key \in Owned(h) : key[2] = "password"}

-----------------------------------------------------------------------------
(* hostedClusterEventFilters: every creation and deletion is a request,    *)
(* and so is a change of status or annotations, unless the HC is being     *)
(* deleted.  Definitions named Bug... are the plausible mistakes that show *)
(* what each property would catch; no specification uses them.             *)

BugDeleted(h) == UNCHANGED queue
Deleted(h) == queue' = queue \cup {h}
Created(h) == queue' = queue \cup {h}
Updated(h) == queue' = IF hcs[h].phase = "deleting" THEN queue ELSE queue \cup {h}

-----------------------------------------------------------------------------
(* Reconcile, call by call.                                                *)

Goto(h, step) == pc' = [pc EXCEPT ![h] = step]

Rest(h) ==
  /\ Goto(h, "idle")
  /\ seen' = [seen EXCEPT ![h] = NoHC]
  /\ data' = [data EXCEPT ![h] = 0]
  /\ failed' = [failed EXCEPT ![h] = FALSE]

BugNoNamespace(h) == Rest(h) /\ queue' = queue \cup {NameOf[h]}
Requeue(h) == Rest(h) /\ queue' = queue \cup {h}

FirstStep == [absent |-> "getMC", deleting |-> "getMC", available |-> "kubeconfig"]

\* Get of the HC.  The reconcile of an HC that is not available is over.
GetHC(h) ==
  /\ h \in queue /\ pc[h] = "idle"
  /\ queue' = queue \ {h}
  /\ \/ /\ hcs[h].phase = "pending"
        /\ UNCHANGED <<workVars, historyVars>>
     \/ /\ hcs[h].phase # "pending"
        /\ Goto(h, FirstStep[hcs[h].phase])
        /\ seen' = [seen EXCEPT ![h] = hcs[h]]
        /\ missed' = IF hcs[h].phase = "absent" THEN missed \ {h} ELSE missed
        /\ lost' = IF hcs[h].phase = "absent" THEN lost \ {h} ELSE lost
        /\ UNCHANGED <<data, failed>>
  /\ UNCHANGED <<clusterVars, hubVars, ext, watchVars, changes>>

(* deleteManagedCluster.  Its error is only logged.                        *)

\* What follows: an HC that is gone has its mirrored secrets deleted.
AfterCluster(h) ==
  \/ /\ seen[h].phase = "absent"
     /\ Goto(h, "deleteMirrors")
     /\ UNCHANGED <<seen, data, failed>>
  \/ seen[h].phase # "absent" /\ Rest(h)

GetMC(h) ==
  /\ pc[h] = "getMC"
  /\ Goto(h, IF mc[MCName(h, seen[h])] \in {"absent", "other"} THEN "release" ELSE "deleteMC")
  /\ UNCHANGED <<clusterVars, hubVars, ext, queue, seen, data, failed, watchVars, historyVars, changes>>

\* An MC that went since it was read is an error: the klusterlet is left.
DeleteMC(h) ==
  /\ pc[h] = "deleteMC"
  /\ LET name == MCName(h, seen[h])
     IN  \/ /\ mc[name] # "absent"
            /\ mc' = [mc EXCEPT ![name] = "deleting"]
            /\ Goto(h, "release")
            /\ UNCHANGED <<seen, data, failed>>
         \/ mc[name] = "absent" /\ AfterCluster(h) /\ UNCHANGED mc
  /\ UNCHANGED <<clusterVars, mirror, ext, queue, watchVars, historyVars, changes>>

\* The finalizer that waits for a clean-up of the hosted cluster is removed.
BugRelease(h) ==
  /\ pc[h] = "release"
  /\ AfterCluster(h)
  /\ UNCHANGED <<clusterVars, hubVars, ext, queue, watchVars, historyVars, changes>>
Release(h) ==
  /\ pc[h] = "release"
  /\ klusterlet' = [klusterlet EXCEPT ![MCName(h, seen[h])] = IF @ = "held" THEN "free" ELSE @]
  /\ AfterCluster(h)
  /\ UNCHANGED <<hcs, kube, ns, joined, hubVars, ext, queue, watchVars, historyVars, changes>>

(* deleteMirrorSecrets: the secrets with the labels of the HC.             *)

Delete(keys) == mirror' = [key \in Names \X Kinds |-> IF key \in keys THEN NoMirror ELSE mirror[key]]

DeleteMirrors(h) ==
  /\ pc[h] = "deleteMirrors"
  /\ Delete(Owned(h))
  /\ Rest(h)
  /\ UNCHANGED <<clusterVars, mc, ext, queue, watchVars, historyVars, changes>>

(* createOrUpdateMirrorSecrets.                                            *)

BugStoreOnce(h, kind) ==
  mirror' = [mirror EXCEPT ![<<MCName(h, seen[h]), kind>>] =
               IF @.owner = 0 THEN [owner |-> h, data |-> data[h]] ELSE @]
\* CreateOrUpdate writes the data, and keeps the labels a secret has.
Store(h, kind) ==
  mirror' = [mirror EXCEPT ![<<MCName(h, seen[h]), kind>>] =
               [owner |-> IF @.owner = 0 THEN h ELSE @.owner, data |-> data[h]]]

\* Get of the admin kubeconfig, from the informer's copy.
GetKubeconfig(h) ==
  /\ pc[h] = "kubeconfig"
  /\ \/ /\ kubeCache[h] = 0
        /\ failed' = [failed EXCEPT ![h] = TRUE]
        /\ Goto(h, "password")
        /\ UNCHANGED data
     \/ /\ kubeCache[h] # 0
        /\ data' = [data EXCEPT ![h] = kubeCache[h]]
        /\ Goto(h, "external")
        /\ UNCHANGED failed
  /\ UNCHANGED <<clusterVars, hubVars, ext, queue, seen, watchVars, historyVars, changes>>

\* A missing klusterlet namespace is no error.
PutExternal(h) ==
  /\ pc[h] = "external"
  /\ LET name == KlusterletName(h, seen[h])
     IN  \/ name \in ns /\ ext' = [ext EXCEPT ![name] = data[h]]
         \/ name \notin ns /\ UNCHANGED ext
  /\ Goto(h, "push")
  /\ UNCHANGED <<clusterVars, hubVars, queue, seen, data, failed, watchVars, historyVars, changes>>

PushKubeconfig(h) ==
  /\ pc[h] = "push"
  /\ Store(h, "kubeconfig")
  /\ Goto(h, "password")
  /\ UNCHANGED <<clusterVars, mc, ext, queue, seen, data, failed, watchVars, historyVars, changes>>

\* With no password in the HC's status its mirror is deleted; else the secret
\* is read, which fails when it went since.
GetPassword(h) ==
  /\ pc[h] = "password"
  /\ \/ /\ seen[h].password = 0
        /\ Delete(OwnedPasswords(h))
        /\ Goto(h, "claim")
        /\ lost' = lost \ {h}
        /\ UNCHANGED <<data, failed>>
     \/ /\ seen[h].password # 0 /\ hcs[h].password # 0
        /\ data' = [data EXCEPT ![h] = hcs[h].password]
        /\ Goto(h, "pushPassword")
        /\ UNCHANGED <<mirror, failed, lost>>
     \/ /\ seen[h].password # 0 /\ hcs[h].password = 0
        /\ failed' = [failed EXCEPT ![h] = TRUE]
        /\ Goto(h, "claim")
        /\ UNCHANGED <<mirror, data, lost>>
  /\ UNCHANGED <<clusterVars, mc, ext, queue, seen, watchVars, missed, changes>>

PushPassword(h) ==
  /\ pc[h] = "pushPassword"
  /\ Store(h, "password")
  /\ Goto(h, "claim")
  /\ UNCHANGED <<clusterVars, mc, ext, queue, seen, data, failed, watchVars, historyVars, changes>>

BugClaim(h) ==
  /\ pc[h] = "claim"
  /\ \/ ~failed[h] /\ Rest(h) /\ UNCHANGED queue
     \/ failed[h] /\ Requeue(h)
  /\ UNCHANGED <<clusterVars, hubVars, ext, watchVars, historyVars, changes>>
\* An error so far is tried again in a minute.  So is a claim that cannot be
\* created in the hosted cluster, which is when that is not imported.
Claim(h) ==
  /\ pc[h] = "claim"
  /\ \/ /\ ~failed[h] /\ (seen[h].complete => joined[h] # NoName)
        /\ Rest(h) /\ UNCHANGED queue
     \/ /\ failed[h] \/ (seen[h].complete /\ joined[h] = NoName)
        /\ Requeue(h)
  /\ UNCHANGED <<clusterVars, hubVars, ext, watchVars, historyVars, changes>>

Reconcile(h) ==
  \/ GetHC(h) \/ GetMC(h) \/ DeleteMC(h) \/ Release(h) \/ DeleteMirrors(h)
  \/ GetKubeconfig(h) \/ PutExternal(h) \/ PushKubeconfig(h)
  \/ GetPassword(h) \/ PushPassword(h) \/ Claim(h)

-----------------------------------------------------------------------------
(* The controllers that touch an annotation of an HC to have it            *)
(* reconciled.  The annotation is a time; it is taken to differ.           *)

\* The informer of secrets catches up.  Only an update wakes the watcher.
SeeSecret(h) ==
  /\ kubeCache[h] # kube[h]
  /\ kubeCache' = [kubeCache EXCEPT ![h] = kube[h]]
  /\ kwatch' = IF 0 \in {kube[h], kubeCache[h]} THEN kwatch ELSE kwatch \cup {h}
  /\ UNCHANGED <<clusterVars, hubVars, ext, queue, workVars, ewatch, historyVars, changes>>

\* HcpKubeconfigChangeWatcher.  A secret or an HC that went ends the request.
WatchKubeconfig(h) ==
  /\ h \in kwatch
  /\ kwatch' = kwatch \ {h}
  /\ IF kubeCache[h] = 0 \/ hcs[h].phase = "absent" THEN UNCHANGED queue ELSE Updated(h)
  /\ UNCHANGED <<clusterVars, hubVars, ext, workVars, kubeCache, ewatch, historyVars, changes>>

\* The HCs of a klusterlet: by name, else by what follows the cluster's name in
\* it; that is the name it was discovered under unless DISCOVERY_PREFIX is set.
Named(name) == {h \in Existing : NameOf[h] = name}
Discovered(name) == {h \in Existing : Remote /\ PrefixedName[NameOf[h]] = name}
HCsOf(name) == IF Named(name) # {} THEN Named(name) ELSE Discovered(name)

\* ExternalSecretController touches the first of them.  With no klusterlet or
\* no HC the request comes again.
WatchKlusterlet(name) ==
  /\ name \in ewatch /\ klusterlet[name] # "absent"
  /\ \E h \in HCsOf(name) : (\A g \in HCsOf(name) : h <= g) /\ Updated(h)
  /\ ewatch' = ewatch \ {name}
  /\ UNCHANGED <<clusterVars, hubVars, ext, workVars, kubeCache, kwatch, historyVars, changes>>

-----------------------------------------------------------------------------
(* Users, the hypershift operator, failures.                               *)

Change(what) == what \in Changes /\ changes < MaxChanges /\ changes' = changes + 1

NoReconcile == UNCHANGED <<mirror, ext, workVars, watchVars, historyVars>>

CreateHC(h) ==
  /\ Change("create") /\ hcs[h].phase = "absent"
  /\ \E anno \in AnnosOf[h] \cup {NoName} :
       hcs' = [hcs EXCEPT ![h] = [NoHC EXCEPT !.phase = "pending", !.anno = anno]]
  /\ Created(h)
  /\ UNCHANGED <<kube, klusterlet, ns, joined, mc>> /\ NoReconcile

\* The secret of an earlier HC of that name is long forgotten by then.
PublishKubeconfig(h, v) ==
  /\ Live(h) /\ kube[h] = 0 /\ kubeCache[h] = 0
  /\ kube' = [kube EXCEPT ![h] = v]
  /\ Updated(h)
  /\ UNCHANGED <<hcs, klusterlet, ns, joined, mc, changes>> /\ NoReconcile

\* Only the change to "available" is a request.
BecomeAvailable(h) ==
  /\ hcs[h].phase = "pending" /\ kube[h] # 0
  /\ hcs' = [hcs EXCEPT ![h].phase = "available"]
  /\ Updated(h)
  /\ UNCHANGED <<kube, klusterlet, ns, joined, mc, changes>> /\ NoReconcile

BecomeUnavailable(h) ==
  /\ Change("unavailable") /\ hcs[h].phase = "available"
  /\ hcs' = [hcs EXCEPT ![h].phase = "pending"]
  /\ UNCHANGED <<kube, klusterlet, ns, joined, mc, queue>> /\ NoReconcile

CompleteVersion(h) ==
  /\ Live(h) /\ ~hcs[h].complete
  /\ hcs' = [hcs EXCEPT ![h].complete = TRUE]
  /\ Updated(h)
  /\ UNCHANGED <<kube, klusterlet, ns, joined, mc, changes>> /\ NoReconcile

\* The password comes, or goes when an identity provider is configured.
SetPassword(h, v) ==
  /\ Change("password") /\ Live(h) /\ (hcs[h].password = 0 <=> v # 0)
  /\ hcs' = [hcs EXCEPT ![h].password = v]
  /\ Updated(h)
  /\ UNCHANGED <<kube, klusterlet, ns, joined, mc>> /\ NoReconcile

Annotate(h, anno) ==
  /\ Change("annotate") /\ Live(h) /\ hcs[h].anno # anno
  /\ hcs' = [hcs EXCEPT ![h].anno = anno]
  /\ Updated(h)
  /\ UNCHANGED <<kube, klusterlet, ns, joined, mc>> /\ NoReconcile

\* New certificates; the HC only names the secret and does not change.
Rotate(h, v) ==
  /\ Change("rotate") /\ Live(h) /\ kube[h] \notin {0, v}
  /\ kube' = [kube EXCEPT ![h] = v]
  /\ UNCHANGED <<hcs, klusterlet, ns, joined, mc, queue>> /\ NoReconcile

\* The HC gets a deletion timestamp, which is no request, and goes later.
DeleteHC(h) ==
  /\ Change("delete") /\ Live(h)
  /\ hcs' = [hcs EXCEPT ![h].phase = "deleting"]
  /\ UNCHANGED <<kube, klusterlet, ns, joined, mc, queue>> /\ NoReconcile

Vanish(h) ==
  /\ hcs[h].phase = "deleting"
  /\ hcs' = [hcs EXCEPT ![h] = NoHC]
  /\ kube' = [kube EXCEPT ![h] = 0]
  /\ joined' = [joined EXCEPT ![h] = NoName]
  /\ Deleted(h)
  /\ UNCHANGED <<klusterlet, ns, mc, changes>> /\ NoReconcile

\* The MC names an HC may be imported under, and the HCs a name may import.
ImportNames(h) == {NameOf[h], hcs[h].anno, KlusterletName(h, hcs[h])} \ {NoName}
Reachable(name) == {h \in HCs : hcs[h].phase = "available" /\ name \in ImportNames(h)}

\* An available HC that is not imported is imported in Hosted mode, or an MC
\* of another kind takes its name.
Import(name) ==
  /\ Change("import") /\ mc[name] = "absent"
  /\ \E h \in Reachable(name) : joined[h] = NoName /\ \A n \in ImportNames(h) : mc[n] = "absent"
  /\ \E kind \in {"hosted", "other"} : mc' = [mc EXCEPT ![name] = kind]
  /\ UNCHANGED <<clusterVars, queue>> /\ NoReconcile

\* The import creates a klusterlet, and its operator the namespace.
Deploy(name) ==
  /\ mc[name] = "hosted" /\ klusterlet[name] = "absent"
  /\ klusterlet' = [klusterlet EXCEPT ![name] = "held"]
  /\ ewatch' = ewatch \cup {name}
  /\ UNCHANGED <<hcs, kube, ns, joined, hubVars, ext, queue, workVars, kubeCache, kwatch, historyVars, changes>>

AddNamespace(name) ==
  /\ klusterlet[name] # "absent" /\ name \notin ns
  /\ ns' = ns \cup {name}
  /\ UNCHANGED <<hcs, kube, klusterlet, joined, mc, queue, changes>> /\ NoReconcile

\* With its kubeconfig in place the hosted cluster joins and gets the CRDs.
Join(h) ==
  LET name == KlusterletName(h, hcs[h])
  IN  /\ hcs[h].phase = "available" /\ joined[h] = NoName /\ kube[h] # 0
      /\ mc[name] = "hosted" /\ ext[name] = kube[h]
      /\ joined' = [joined EXCEPT ![h] = name]
      /\ UNCHANGED <<hcs, kube, klusterlet, ns, mc, queue, changes>> /\ NoReconcile

Detach(name) ==
  /\ Change("detach") /\ mc[name] \in {"hosted", "other"}
  /\ mc' = [mc EXCEPT ![name] = "deleting"]
  /\ UNCHANGED <<clusterVars, queue>> /\ NoReconcile

\* An MC goes once its klusterlet has cleaned up the hosted cluster, which
\* takes an available one, or need not.  Nothing of the import stays.
RemoveMC(name) ==
  /\ mc[name] = "deleting"
  /\ klusterlet[name] # "held" \/ Reachable(name) # {}
  /\ mc' = [mc EXCEPT ![name] = "absent"]
  /\ klusterlet' = [klusterlet EXCEPT ![name] = "absent"]
  /\ ns' = ns \ {name}
  /\ ext' = [ext EXCEPT ![name] = 0]
  /\ joined' = [h \in HCs |-> IF joined[h] = name THEN NoName ELSE joined[h]]
  /\ UNCHANGED <<hcs, kube, mirror, queue, workVars, watchVars, historyVars, changes>>

(* Failing calls.                                                          *)

\* Where createOrUpdateMirrorSecrets goes on after an error.
NextStep == [external |-> "push", push |-> "password", password |-> "claim",
             pushPassword |-> "claim", claim |-> "claim"]

MirrorFails(h) ==
  /\ Change("callFails") /\ pc[h] \in DOMAIN NextStep
  /\ pc[h] = "external" => KlusterletName(h, seen[h]) \in ns
  /\ pc[h] = "password" => seen[h].password # 0
  /\ failed' = [failed EXCEPT ![h] = TRUE]
  /\ Goto(h, NextStep[pc[h]])
  /\ UNCHANGED <<clusterVars, hubVars, ext, queue, seen, data, watchVars, historyVars>>

\* Some secrets could not be deleted.
DeleteMirrorsFails(h) ==
  /\ Change("callFails") /\ pc[h] = "deleteMirrors"
  /\ \E keys \in SUBSET Owned(h) : keys # Owned(h) /\ Delete(keys)
  /\ Requeue(h)
  /\ UNCHANGED <<clusterVars, mc, ext, watchVars, historyVars>>

\* The only error nobody looks at.
DeletePasswordFails(h) ==
  /\ Change("callFails") /\ pc[h] = "password" /\ seen[h].password = 0
  /\ \E keys \in SUBSET OwnedPasswords(h) : keys # OwnedPasswords(h) /\ Delete(keys)
  /\ lost' = lost \cup {h}
  /\ Goto(h, "claim")
  /\ UNCHANGED <<clusterVars, mc, ext, queue, seen, data, failed, watchVars, missed>>

ClusterFails(h) ==
  /\ Change("callFails") /\ pc[h] \in ClusterSteps
  /\ lost' = IF seen[h].phase = "absent" THEN lost \cup {h} ELSE lost
  /\ AfterCluster(h)
  /\ UNCHANGED <<clusterVars, hubVars, ext, queue, watchVars, missed>>

\* A new agent's informers list what there is; each object is a creation.
Restart ==
  /\ Change("restart")
  /\ LET gone == {h \in HCs \ Existing : h \in queue \/ pc[h] # "idle"}
     IN  missed' = missed \cup gone /\ lost' = lost \cup gone
  /\ pc' = [h \in HCs |-> "idle"]
  /\ seen' = [h \in HCs |-> NoHC]
  /\ data' = [h \in HCs |-> 0]
  /\ failed' = [h \in HCs |-> FALSE]
  /\ queue' = Existing
  /\ kubeCache' = kube /\ kwatch' = {}
  /\ ewatch' = {name \in Names : klusterlet[name] # "absent"}
  /\ UNCHANGED <<clusterVars, hubVars, ext>>

\* The first start of the agent, beside HCs that may be there already.
Init ==
  /\ hcs \in [HCs -> {NoHC} \cup [phase: {"available"}, anno: {NoName}, password: Data, complete: BOOLEAN]]
  /\ kube \in [HCs -> Data]
  /\ \A h \in HCs : kube[h] = 0 <=> hcs[h] = NoHC
  /\ mirror = [key \in Names \X Kinds |-> NoMirror]
  /\ mc = [name \in Names |-> "absent"]
  /\ klusterlet = [name \in Names |-> "absent"]
  /\ ns = {}
  /\ joined = [h \in HCs |-> NoName]
  /\ ext = [name \in Names |-> 0]
  /\ queue = Existing
  /\ pc = [h \in HCs |-> "idle"]
  /\ seen = [h \in HCs |-> NoHC]
  /\ data = [h \in HCs |-> 0]
  /\ failed = [h \in HCs |-> FALSE]
  /\ kubeCache = kube
  /\ kwatch = {} /\ ewatch = {}
  /\ missed = {} /\ lost = {}
  /\ changes = 0

World(h) ==
  \/ CreateHC(h) \/ BecomeAvailable(h) \/ BecomeUnavailable(h) \/ CompleteVersion(h)
  \/ DeleteHC(h) \/ Vanish(h) \/ Join(h)
  \/ \E v \in Versions : PublishKubeconfig(h, v) \/ Rotate(h, v)
  \/ \E v \in Data : SetPassword(h, v)
  \/ \E anno \in AnnosOf[h] \cup {NoName} : Annotate(h, anno)

Fails(h) == MirrorFails(h) \/ DeleteMirrorsFails(h) \/ DeletePasswordFails(h) \/ ClusterFails(h)

Next ==
  \/ \E h \in HCs : Reconcile(h) \/ SeeSecret(h) \/ WatchKubeconfig(h) \/ World(h) \/ Fails(h)
  \/ \E name \in Names : \/ WatchKlusterlet(name) \/ Import(name) \/ Deploy(name)
                         \/ AddNamespace(name) \/ Detach(name) \/ RemoveMC(name)
  \/ Restart

Spec == Init /\ [][Next]_vars

\* Requests are worked on, calls return, informers catch up.
Fairness ==
  /\ \A h \in HCs : /\ WF_vars(Reconcile(h))
                    /\ WF_vars(SeeSecret(h))
                    /\ WF_vars(WatchKubeconfig(h))
  /\ \A name \in Names : WF_vars(WatchKlusterlet(name))

FairSpec == Spec /\ Fairness

-----------------------------------------------------------------------------
(* Properties.                                                             *)

\* Nothing is left to do for the HC.
Settled(h) ==
  /\ h \notin queue /\ pc[h] = "idle" /\ h \notin kwatch /\ kubeCache[h] = kube[h]
  /\ \A name \in ewatch : klusterlet[name] = "absent" \/ h \notin HCsOf(name)

\* No other HC ever has the same MC name.
Candidates(h) == AnnosOf[h] \cup {NameOf[h]}
Alone(h) == \A g \in HCs \ {h} : Candidates(g) \cap Candidates(h) = {}

KubeconfigMirrored(h) ==
  mirror[<<MCName(h, hcs[h]), "kubeconfig">>] = [owner |-> h, data |-> kube[h]]
PasswordMirrored(h) ==
  IF hcs[h].password = 0 THEN h \in lost \/ OwnedPasswords(h) = {}
  ELSE mirror[<<MCName(h, hcs[h]), "password">>] = [owner |-> h, data |-> hcs[h].password]

\* docs/ARCHITECTURE.md:27 "copies kubeconfig/kubeadmin secrets": at rest, the
\* hub has the current secrets of an available HC whose MC name is its own,
\* and no password the HC no longer reports, whatever was rotated, renamed,
\* re-created, restarted or failed before (createOrUpdateMirrorSecrets).
\* (A deletion of the password that failed is not tried again, line 808.)
SettledMirrors ==
  \A h \in HCs : Settled(h) /\ Alone(h) /\ hcs[h].phase = "available" /\ kube[h] # 0 =>
    KubeconfigMirrored(h) /\ PasswordMirrored(h)

\* Line 744 "remove hostedcluster(%s) secrets on hub, since hostedcluster is
\* gone": at rest, no mirrored secret is left of an HC that is gone, even when
\* a reconcile that read the HC earlier was still writing, or when HCs share
\* secrets.  (Unless it went while the agent was restarted.)
SettledOwners ==
  \A key \in Names \X Kinds : \A h \in HCs :
    mirror[key].owner = h /\ hcs[h].phase = "absent" /\ h \notin missed =>
      h \in queue \/ pc[h] # "idle"

\* deleteManagedCluster: at rest, an HC that is gone leaves no hosted MC of its
\* name, and no klusterlet that waits for a clean-up that cannot come, unless a
\* call failed or the agent was restarted.
SettledGone ==
  \A h \in HCs : Settled(h) /\ hcs[h].phase = "absent" /\ h \notin lost /\ Alone(h) =>
    mc[NameOf[h]] # "hosted" /\ klusterlet[NameOf[h]] # "held"

\* generateExtManagedKubeconfigSecret tolerates a namespace that is not there
\* yet: still, once an HC that is up waits to be imported under its name, the
\* registration agent gets the current kubeconfig, through imports, detaches
\* and rotations.
Importable(h) ==
  /\ hcs[h].phase = "available" /\ hcs[h].complete /\ kube[h] # 0 /\ Alone(h)
  /\ Remote \/ MCName(h, hcs[h]) = NameOf[h]
  /\ KlusterletName(h, hcs[h]) \in ns
Exported(h) == Importable(h) => ext[KlusterletName(h, hcs[h])] = kube[h]

EventuallyExternal == <>[](\A h \in HCs : Exported(h))
=============================================================================
