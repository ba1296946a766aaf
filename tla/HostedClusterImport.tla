-------------------------- MODULE HostedClusterImport --------------------------
(***************************************************************************)
(* How a HostedCluster (HC) becomes known to the hub.                      *)
(*                                                                         *)
(* The agent of the hub's own cluster (local) imports an HC:               *)
(* AutoImportController, pkg/agent/auto_import_controller.go, creates a    *)
(* ManagedCluster (MC) and, where ACM is installed, a                      *)
(* KlusterletAddonConfig in the namespace the hub then makes for it.  It   *)
(* is woken by HCs that are created, and repeats a request only while the  *)
(* HC is not available.                                                    *)
(*                                                                         *)
(* Any other agent announces an HC: DiscoveryAgent,                        *)
(* pkg/agent/discovery_agent.go, keeps one DiscoveredCluster (DC) per HC   *)
(* on the hub, named by the HC's ClusterID and found by labels with its    *)
(* name.  It is woken by the events the HC reconcile has, and repeats each *)
(* request that failed.                                                    *)
(*                                                                         *)
(* Each controller has a single worker, and each of its calls is one       *)
(* action.  HCs are read from the API server, not from a cache.            *)
(***************************************************************************)
EXTENDS Naturals, FiniteSets

CONSTANTS
  HCs,         \* HCs, by namespace and name
  NoJob,       \* no request is being worked on
  Urls,        \* the URLs an API server may have
  MaxVersion,  \* bound: the versions of an HC
  Changes,     \* the kinds of changes that may happen
  MaxChanges   \* bound: how many of them

ASSUME ConstantsAssumption ==
  /\ NoJob \notin HCs
  /\ MaxVersion \in Nat
  /\ Changes \subseteq {"unavailable", "version", "url", "touch", "delete", "acm", "import", "detach",
                        "dc", "callFails", "restart"}
  /\ MaxChanges \in Nat

VARIABLES
  local,    \* this agent is that of the hub's own cluster
  hcs,      \* the HCs
  acm,      \* ACM is installed
  mc,       \* the MC of each HC
  ns,       \* the HCs whose MC has its namespace
  kac,      \* the HCs whose MC has a KlusterletAddonConfig
  dcs,      \* the DCs on the hub
  queue,    \* the work queue of the agent's controller
  job,      \* the HC whose request is being worked on
  pc,       \* the next call for it
  seen,     \* the controller's copy of that HC
  dc,       \* its copy of that HC's DC
  cleanup,  \* HCs whose deletion the HC reconcile has yet to see
  gaveUp,   \* history: per HC, what a request left undone and none will do
  blind,    \* history: HCs with a change that raised no event
  missed,   \* history: HCs whose deletion no agent was there to see
  changes   \* changes so far (bounds the model)

hubVars == <<mc, ns, kac, dcs>>
workVars == <<job, pc, seen, dc>>
historyVars == <<gaveUp, blind, missed>>
vars == <<local, hcs, acm, hubVars, queue, workVars, cleanup, historyVars, changes>>

\* version 0: no version status; 1: an installation under way; else completed.
HCState == [phase: {"absent", "live", "deleting"}, available: BOOLEAN,
            id: Nat, url: Urls, version: 0 .. MaxVersion]

\* The DC of an HC: its name is the HC's ClusterID (one per creation of the
\* HC), its labels are the HC's name.
DCState == [hc: HCs, id: Nat, url: Urls, version: 0 .. MaxVersion]
NoDC == [hc |-> NoJob]

LocalSteps == {"getMC", "createMC", "acm", "namespace", "createKAC"}
RemoteSteps == {"list", "createDC", "updateDC", "deleteDC"}

TypeOK ==
  /\ local \in BOOLEAN
  /\ hcs \in [HCs -> HCState]
  /\ acm \in BOOLEAN
  /\ mc \in [HCs -> {"absent", "present", "deleting"}]
  /\ ns \subseteq HCs
  /\ kac \subseteq ns
  /\ dcs \subseteq DCState
  /\ queue \subseteq HCs
  /\ job \in HCs \cup {NoJob}
  /\ pc \in {"idle"} \cup (IF local THEN LocalSteps ELSE RemoteSteps)
  /\ pc = "idle" <=> job = NoJob
  /\ job # NoJob => seen \in HCState
  /\ dc \in DCState \cup {NoDC}
  /\ cleanup \subseteq HCs
  /\ gaveUp \in [HCs -> SUBSET {"mc", "kac"}]
  /\ blind \subseteq HCs
  /\ missed \subseteq HCs
  /\ changes \in Nat

Live(h) == hcs[h].phase = "live"

\* getOCPVersion: nothing before a version is complete.
Reported(version) == IF version <= 1 THEN 0 ELSE version

DCsOf(h) == {d \in dcs : d.hc = h}

-----------------------------------------------------------------------------
(* The event filters: AutoImportPredicateFunctions of the local agent,     *)
(* hostedClusterEventFilters of another.  Definitions named Bug... are the *)
(* plausible mistakes that show what each property would catch; no         *)
(* specification uses them.                                                *)

Created(h) == queue' = queue \cup {h}
Updated(h) == queue' = IF local \/ hcs[h].phase = "deleting" THEN queue ELSE queue \cup {h}
Deleted(h) == queue' = IF local THEN queue ELSE queue \cup {h}

-----------------------------------------------------------------------------
Done ==
  /\ job' = NoJob /\ pc' = "idle"
  /\ seen' = NoDC /\ dc' = NoDC

Goto(step) == pc' = step /\ UNCHANGED <<job, seen, dc>>

Undone(what) == gaveUp' = [gaveUp EXCEPT ![job] = @ \cup what]

(* AutoImportController.Reconcile.                                         *)

Take(h) == job = NoJob /\ h \in queue

\* Get of the HC.  One that is not available is looked at again in a minute.
GetLocal(h) ==
  /\ local /\ Take(h)
  /\ \/ /\ hcs[h].phase = "absent" \/ (hcs[h].phase = "deleting" /\ hcs[h].available)
        /\ queue' = queue \ {h}
        /\ UNCHANGED <<workVars, gaveUp>>
     \/ /\ hcs[h].phase # "absent" /\ ~hcs[h].available
        /\ UNCHANGED <<queue, workVars, gaveUp>>
     \/ /\ Live(h) /\ hcs[h].available
        /\ queue' = queue \ {h}
        /\ job' = h /\ pc' = "getMC" /\ seen' = hcs[h]
        /\ gaveUp' = [gaveUp EXCEPT ![h] = {}]
        /\ UNCHANGED dc
  /\ UNCHANGED <<local, hcs, acm, hubVars, cleanup, blind, missed, changes>>

\* createManagedCluster.  An MC that is being deleted is an MC.
GetMC ==
  /\ pc = "getMC"
  /\ Goto(IF mc[job] = "absent" THEN "createMC" ELSE "acm")
  /\ IF mc[job] = "deleting" THEN Undone({"mc", "kac"}) ELSE UNCHANGED gaveUp
  /\ UNCHANGED <<local, hcs, acm, hubVars, queue, cleanup, blind, missed, changes>>

BugCreateMC ==
  /\ pc = "createMC"
  /\ mc' = [mc EXCEPT ![job] = IF @ = "absent" THEN "present" ELSE @]
  /\ IF mc[job] = "absent" THEN Goto("acm") ELSE Done
  /\ UNCHANGED <<local, hcs, acm, ns, kac, dcs, queue, cleanup, historyVars, changes>>
\* An MC that exists by now is no error.
CreateMC ==
  /\ pc = "createMC"
  /\ mc' = [mc EXCEPT ![job] = IF @ = "absent" THEN "present" ELSE @]
  /\ Goto("acm")
  /\ UNCHANGED <<local, hcs, acm, ns, kac, dcs, queue, cleanup, historyVars, changes>>

\* isACMInstalled.
CheckACM ==
  /\ pc = "acm"
  /\ \/ acm /\ Goto("namespace") /\ UNCHANGED gaveUp
     \/ ~acm /\ Done /\ Undone({"kac"})
  /\ UNCHANGED <<local, hcs, acm, hubVars, queue, cleanup, blind, missed, changes>>

\* waitForNamespace, which the worker does for a minute at most.
FindNamespace ==
  /\ pc = "namespace" /\ job \in ns
  /\ Goto("createKAC")
  /\ UNCHANGED <<local, hcs, acm, hubVars, queue, cleanup, historyVars, changes>>

TimeOut ==
  /\ pc = "namespace" /\ job \notin ns
  /\ Done /\ Undone({"kac"})
  /\ UNCHANGED <<local, hcs, acm, hubVars, queue, cleanup, blind, missed, changes>>

BugPutKAC ==
  /\ pc = "createKAC"
  /\ kac' = kac \cup {job}
  /\ Done
  /\ UNCHANGED <<local, hcs, acm, mc, ns, dcs, queue, cleanup, historyVars, changes>>
\* Its error is only logged: the namespace may be going or gone.
CreateKAC ==
  /\ pc = "createKAC"
  /\ LET possible == job \in ns /\ mc[job] # "deleting"
     IN  /\ kac' = IF possible THEN kac \cup {job} ELSE kac
         /\ IF possible THEN UNCHANGED gaveUp ELSE Undone({"kac"})
  /\ Done
  /\ UNCHANGED <<local, hcs, acm, mc, ns, dcs, queue, cleanup, blind, missed, changes>>

AutoImport(h) ==
  \/ GetLocal(h)
  \/ job = h /\ (GetMC \/ CreateMC \/ CheckACM \/ FindNamespace \/ TimeOut \/ CreateKAC)

-----------------------------------------------------------------------------
(* DiscoveryAgent.Reconcile.                                               *)

Retry == Done /\ queue' = queue \cup {job}

\* Get of the HC.  What is not available is left: an event will come.
GetRemote(h) ==
  /\ ~local /\ Take(h)
  /\ queue' = queue \ {h}
  /\ blind' = blind \ {h}
  /\ \/ /\ hcs[h].phase # "absent" /\ ~hcs[h].available
        /\ UNCHANGED <<workVars, missed>>
     \/ /\ hcs[h].phase = "absent" \/ hcs[h].available
        /\ job' = h /\ pc' = "list" /\ seen' = hcs[h]
        /\ missed' = IF hcs[h].phase = "absent" THEN missed \ {h} ELSE missed
        /\ UNCHANGED dc
  /\ UNCHANGED <<local, hcs, acm, hubVars, cleanup, gaveUp, changes>>

NewDC == [hc |-> job, id |-> seen.id, url |-> seen.url, version |-> Reported(seen.version)]

\* Only URL and version of a DC are compared and updated.
UpToDate(d) == d.url = NewDC.url /\ d.version = NewDC.version

\* The step that follows the one DC there is.
StepFor(d) ==
  CASE seen.phase = "absent"                 -> "deleteDC"
    [] seen.phase # "absent" /\ UpToDate(d)  -> "idle"
    [] seen.phase # "absent" /\ ~UpToDate(d) -> "updateDC"

\* getDiscoveredClusterList.
List ==
  /\ pc = "list"
  /\ \/ /\ DCsOf(job) = {}
        /\ IF seen.phase = "absent" THEN Done ELSE Goto("createDC")
        /\ UNCHANGED queue
     \/ \E d \in dcs :
          /\ DCsOf(job) = {d}
          /\ IF StepFor(d) = "idle" THEN Done
             ELSE pc' = StepFor(d) /\ dc' = d /\ UNCHANGED <<job, seen>>
          /\ UNCHANGED queue
     \/ /\ Cardinality(DCsOf(job)) > 1
        /\ Retry
  /\ UNCHANGED <<local, hcs, acm, hubVars, cleanup, historyVars, changes>>

\* A DC with the ClusterID's name is there already: an error.
CreateDC ==
  /\ pc = "createDC"
  /\ IF \E d \in dcs : d.id = seen.id /\ d.hc = job
     THEN Retry /\ UNCHANGED dcs
     ELSE dcs' = dcs \cup {NewDC} /\ Done /\ UNCHANGED queue
  /\ UNCHANGED <<local, hcs, acm, mc, ns, kac, cleanup, historyVars, changes>>

\* With the version read: somebody else's change or deletion is an error.
BugUpdateDC ==
  /\ pc = "updateDC"
  /\ \/ /\ dc \in dcs
        /\ dcs' = (dcs \ {dc}) \cup {[dc EXCEPT !.url = NewDC.url, !.version = NewDC.version]}
     \/ /\ dc \notin dcs
        /\ UNCHANGED dcs
  /\ Done /\ UNCHANGED queue
  /\ UNCHANGED <<local, hcs, acm, mc, ns, kac, cleanup, historyVars, changes>>
UpdateDC ==
  /\ pc = "updateDC"
  /\ \/ /\ dc \in dcs
        /\ dcs' = (dcs \ {dc}) \cup {[dc EXCEPT !.url = NewDC.url, !.version = NewDC.version]}
        /\ Done /\ UNCHANGED queue
     \/ /\ dc \notin dcs
        /\ Retry /\ UNCHANGED dcs
  /\ UNCHANGED <<local, hcs, acm, mc, ns, kac, cleanup, historyVars, changes>>

DeleteDC ==
  /\ pc = "deleteDC"
  /\ \/ dc \in dcs /\ Done /\ UNCHANGED queue
     \/ dc \notin dcs /\ Retry
  /\ dcs' = dcs \ {dc}
  /\ UNCHANGED <<local, hcs, acm, mc, ns, kac, cleanup, historyVars, changes>>

Discover(h) ==
  \/ GetRemote(h)
  \/ job = h /\ (List \/ CreateDC \/ UpdateDC \/ DeleteDC)

-----------------------------------------------------------------------------
(* Users, the hypershift operator, the hub's import controller, the HC     *)
(* reconcile of the local agent, failures.                                 *)

Change(what) == what \in Changes /\ changes < MaxChanges /\ changes' = changes + 1

Observe(h, hc) ==
  /\ hcs' = [hcs EXCEPT ![h] = hc]
  /\ UNCHANGED <<local, acm, hubVars, workVars>>

CreateHC(h) ==
  /\ hcs[h].phase = "absent"
  /\ \E url \in Urls :
       Observe(h, [phase |-> "live", available |-> FALSE, id |-> hcs[h].id + 1,
                   url |-> url, version |-> 0])
  /\ Created(h)
  /\ UNCHANGED <<cleanup, historyVars, changes>>

BecomeAvailable(h) ==
  /\ Live(h) /\ ~hcs[h].available
  /\ Observe(h, [hcs[h] EXCEPT !.available = TRUE])
  /\ Updated(h)
  /\ UNCHANGED <<cleanup, historyVars, changes>>

BecomeUnavailable(h) ==
  /\ Change("unavailable")
  /\ hcs[h].phase # "absent" /\ hcs[h].available
  /\ Observe(h, [hcs[h] EXCEPT !.available = FALSE])
  /\ UNCHANGED <<queue, cleanup, historyVars>>

\* The first version status raises no event; it is that of an installation
\* under way.
NextVersion(h) ==
  /\ Live(h) /\ hcs[h].version < MaxVersion
  /\ hcs[h].version >= 2 => Change("version")
  /\ hcs[h].version < 2 => UNCHANGED changes
  /\ Observe(h, [hcs[h] EXCEPT !.version = @ + 1])
  /\ IF hcs[h].version = 0 THEN UNCHANGED queue ELSE Updated(h)
  /\ UNCHANGED <<cleanup, historyVars>>

\* The API server's address is in no event filter.
ChangeUrl(h) ==
  /\ Change("url")
  /\ Live(h)
  /\ \E url \in Urls \ {hcs[h].url} : Observe(h, [hcs[h] EXCEPT !.url = url])
  /\ blind' = blind \cup {h}
  /\ UNCHANGED <<queue, cleanup, gaveUp, missed>>

\* An annotation or a secret's name changes.
Touch(h) ==
  /\ Change("touch")
  /\ hcs[h].phase # "absent"
  /\ Updated(h)
  /\ UNCHANGED <<local, hcs, acm, hubVars, workVars, cleanup, historyVars>>

DeleteHC(h) ==
  /\ Change("delete")
  /\ Live(h)
  /\ Observe(h, [hcs[h] EXCEPT !.phase = "deleting"])
  /\ UNCHANGED <<queue, cleanup, historyVars>>

Vanish(h) ==
  /\ hcs[h].phase = "deleting"
  /\ Observe(h, [hcs[h] EXCEPT !.phase = "absent", !.available = FALSE])
  /\ Deleted(h)
  /\ cleanup' = cleanup \cup {h}
  /\ UNCHANGED <<historyVars, changes>>

\* The HC reconcile, on the deletion of an HC, deletes its MC.
CleanUp(h) ==
  /\ h \in cleanup
  /\ cleanup' = cleanup \ {h}
  /\ mc' = [mc EXCEPT ![h] = IF @ = "present" /\ hcs[h].phase = "absent" THEN "deleting" ELSE @]
  /\ UNCHANGED <<local, hcs, acm, ns, kac, dcs, queue, workVars, historyVars, changes>>

\* The hub's import controller.
AddNamespace(h) ==
  /\ mc[h] = "present" /\ h \notin ns
  /\ ns' = ns \cup {h}
  /\ UNCHANGED <<local, hcs, acm, mc, kac, dcs, queue, workVars, cleanup, historyVars, changes>>

RemoveMC(h) ==
  /\ mc[h] = "deleting"
  /\ mc' = [mc EXCEPT ![h] = "absent"]
  /\ ns' = ns \ {h}
  /\ kac' = kac \ {h}
  /\ UNCHANGED <<local, hcs, acm, dcs, queue, workVars, cleanup, historyVars, changes>>

\* A user imports the HC, under its own name.
ImportByUser(h) ==
  /\ Change("import")
  /\ local /\ mc[h] = "absent"
  /\ mc' = [mc EXCEPT ![h] = "present"]
  /\ UNCHANGED <<local, hcs, acm, ns, kac, dcs, queue, workVars, cleanup, historyVars>>

\* A user detaches the cluster: it is not imported again.
Detach(h) ==
  /\ Change("detach")
  /\ mc[h] = "present"
  /\ mc' = [mc EXCEPT ![h] = "deleting"]
  /\ gaveUp' = [gaveUp EXCEPT ![h] = {"mc", "kac"}]
  /\ UNCHANGED <<local, hcs, acm, ns, kac, dcs, queue, workVars, cleanup, blind, missed>>

FlipACM ==
  /\ Change("acm")
  /\ acm' = ~acm
  /\ UNCHANGED <<local, hcs, hubVars, queue, workVars, cleanup, historyVars>>

\* Somebody else deletes a DC, or creates one with the labels of an HC.
EditDC(h) ==
  /\ Change("dc")
  /\ ~local
  /\ \/ \E d \in DCsOf(h) :
          /\ dcs' = dcs \ {d}
          /\ blind' = IF dc = d THEN blind ELSE blind \cup {h}
     \/ /\ \A d \in DCsOf(h) : d.id # 0
        /\ \E url \in Urls : dcs' = dcs \cup {[hc |-> h, id |-> 0, url |-> url, version |-> 0]}
        /\ blind' = blind \cup {h}
  /\ UNCHANGED <<local, hcs, acm, mc, ns, kac, queue, workVars, cleanup, gaveUp, missed>>

\* A call returns an error.  AutoImportController drops the request when its Get
\* of the HC fails; it looks at its MC's error no further: after a failed Get it
\* goes on as if there were one, after a failed Create it ends.  DiscoveryAgent
\* tries again.
CallFails ==
  /\ Change("callFails")
  /\ \/ /\ local /\ pc = "idle"
        /\ \E h \in queue :
             queue' = queue \ {h} /\ gaveUp' = [gaveUp EXCEPT ![h] = {"mc", "kac"}]
        /\ UNCHANGED workVars
     \/ /\ pc = "getMC"
        /\ Goto("acm") /\ Undone({"mc", "kac"})
        /\ UNCHANGED queue
     \/ /\ pc \in LocalSteps \ {"getMC"}
        /\ Done /\ Undone(IF pc = "createMC" THEN {"mc", "kac"} ELSE {"kac"})
        /\ UNCHANGED queue
     \/ /\ pc \in RemoteSteps
        /\ Retry
        /\ UNCHANGED gaveUp
  /\ UNCHANGED <<local, hcs, acm, hubVars, cleanup, blind, missed>>

\* The agent restarts: each HC that exists is an event.
Restart ==
  /\ Change("restart")
  /\ Done
  /\ queue' = {h \in HCs : hcs[h].phase # "absent"}
  /\ cleanup' = {}
  /\ missed' = missed \cup {h \in HCs : hcs[h].phase = "absent"}
  /\ UNCHANGED <<local, hcs, acm, hubVars, gaveUp, blind>>

EnvironmentOf(h) ==
  \/ CreateHC(h) \/ BecomeAvailable(h) \/ BecomeUnavailable(h) \/ NextVersion(h)
  \/ ChangeUrl(h) \/ Touch(h) \/ DeleteHC(h) \/ Vanish(h)
  \/ CleanUp(h) \/ AddNamespace(h) \/ RemoveMC(h) \/ ImportByUser(h) \/ Detach(h) \/ EditDC(h)

Init ==
  /\ local \in BOOLEAN
  /\ acm \in BOOLEAN
  /\ \E url \in Urls :
       hcs = [h \in HCs |-> [phase |-> "absent", available |-> FALSE, id |-> 0, url |-> url, version |-> 0]]
  /\ mc = [h \in HCs |-> "absent"]
  /\ ns = {} /\ kac = {} /\ dcs = {}
  /\ queue = {} /\ cleanup = {}
  /\ job = NoJob /\ pc = "idle" /\ seen = NoDC /\ dc = NoDC
  /\ gaveUp = [h \in HCs |-> {}]
  /\ blind = {} /\ missed = {}
  /\ changes = 0

Next ==
  \/ \E h \in HCs : AutoImport(h) \/ Discover(h) \/ EnvironmentOf(h)
  \/ FlipACM \/ CallFails \/ Restart

Spec == Init /\ [][Next]_vars

\* Workers serve each request in the end, and the hub's controllers work.
Fairness ==
  \A h \in HCs :
    /\ WF_vars(AutoImport(h)) /\ WF_vars(Discover(h))
    /\ WF_vars(CleanUp(h)) /\ WF_vars(AddNamespace(h)) /\ WF_vars(RemoveMC(h))

FairSpec == Spec /\ Fairness

-----------------------------------------------------------------------------
Resting(h) == job # h /\ h \notin queue
Ready(h) == Live(h) /\ hcs[h].available

\* What another agent has nothing left to do for is announced as it is: an
\* available HC by one DC with its current address and version, an HC that went
\* by none (createUpdateDiscoveredCluster and deleteDiscoveredCluster, lines
\* 97-195), despite DCs that others delete or add, conflicts, failed calls and
\* restarts, unless a change raised no event.
Announced(h) ==
  \E d \in dcs : /\ DCsOf(h) = {d}
                 /\ d.url = hcs[h].url /\ d.version = Reported(hcs[h].version)
SettledDiscovered ==
  \A h \in HCs : ~local /\ Resting(h) /\ h \notin blind =>
    /\ Ready(h) => Announced(h)
    /\ hcs[h].phase = "absent" /\ h \notin missed => DCsOf(h) = {}

\* An HC that stays available is imported in the end, with its
\* KlusterletAddonConfig, although its creation came long before and its MC and
\* namespace may go and come meanwhile (AutoImportController.Reconcile, lines
\* 72-131).  What failed calls and timeouts left undone for good is gaveUp.
Imported(h) ==
  /\ mc[h] = "present" \/ "mc" \in gaveUp[h]
  /\ h \in kac \/ "kac" \in gaveUp[h]
EventuallyImported == \A h \in HCs : (local /\ Ready(h)) ~> (Imported(h) \/ ~Ready(h))
=============================================================================
