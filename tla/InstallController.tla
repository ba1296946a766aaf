-------------------------- MODULE InstallController --------------------------
(***************************************************************************)
(* The agent's upgrade controller (pkg/install/upgrade.go, hypershift.go,  *)
(* install_job.go).  Every two minutes it compares what the hub configures *)
(* for the HyperShift operator with the copies it keeps in memory, and     *)
(* installs the operator when something differs, when it has just started, *)
(* and after a failed installation.  An installation copies credentials to *)
(* the cluster, runs "hypershift install" as a Kubernetes Job, waits two   *)
(* minutes for it (the Job may run for ten), and saves the configuration   *)
(* on the cluster, so that a restarted agent can see that nothing changed. *)
(*                                                                         *)
(* Every call to an API server is one action.  A piece of configuration is *)
(* a version number.  The agent runs with image overrides (withOverride)   *)
(* and manages the operator (DISABLE_HO_MANAGEMENT is not set).            *)
(***************************************************************************)
EXTENDS Naturals, FiniteSets, Sequences

CONSTANTS
  Used,       \* the configuration the hub may hold: a subset of Items
  MaxVersion, \* bound: versions of each item
  Malformed,  \* versions an installation refuses
  AzureFlags, \* versions of the flags that ask for the Azure private platform
  Jobs,       \* bound: the install Jobs that exist at a time
  NoJob,
  Changes,    \* what may happen around the agent: see Change
  MaxChanges  \* bound: how often

Options == {"bucket", "privateLink", "azurePrivate", "extDns", "flags"}
Items == Options \cup {"images"}
Absent == 0
Version == Absent..MaxVersion

ASSUME ConstantsAssumption ==
  /\ Used \subseteq Items
  /\ MaxVersion \in Nat
  /\ Malformed \subseteq 1..MaxVersion
  /\ AzureFlags \subseteq 1..MaxVersion
  /\ NoJob \notin Jobs
  /\ Changes \subseteq {"edit", "revert", "delete", "annotate", "strip", "readFails", "localFails",
                        "callFails", "jobFails", "timeout", "restart", "idleRestart"}
  /\ MaxChanges \in Nat

VARIABLES
  hub,           \* the secrets and configmaps in the cluster's hub namespace
  cache,         \* the controller's copies, in memory
  saved,         \* the copies of the last installation, on the cluster
  credentials,   \* the secrets in the operator's namespace
  imageStream,   \* the configmap that install Jobs mount
  operator,      \* the operator's deployment
  jobs,          \* the install Jobs
  startup,       \* c.startup
  installfailed, \* c.installfailed
  pc,            \* the step of Script the controller makes next, 0: it sleeps
  read,          \* what this installation read from the hub
  found,         \* the deployment this installation found
  job,           \* the Job it waits for
  disturbed,     \* history: why the deployment may differ, unknown to the agent
  changes        \* what happened so far (bounds the model)

memory == <<startup, installfailed, pc, read, found, job>>
cluster == <<saved, credentials, imageStream, operator, jobs>>
vars == <<hub, cache, cluster, memory, disturbed, changes>>

Configuration == [Items -> Version]
Nothing == [i \in Items |-> Absent]

Operator == [exists : BOOLEAN, notByMCE : BOOLEAN, with : Configuration]
NoOperator == [exists |-> FALSE, notByMCE |-> FALSE, with |-> Nothing]

JobStates == {"none", "pending", "running", "succeeded", "failed"}
Job == [state : JobStates, with : Configuration]
FreeJob == [state |-> "none", with |-> Nothing]

(***************************************************************************)
(* The controller's steps in order: installOptionsChanged and              *)
(* upgradeImageCheck ("check"), then runHypershiftInstall.  To "use" an    *)
(* item is to validate it and to copy its credentials.                     *)
(***************************************************************************)
Script == <<
  <<"check", "bucket">>, <<"check", "extDns">>, <<"check", "privateLink">>,
  <<"check", "azurePrivate">>, <<"check", "flags">>, <<"check", "images">>,
  <<"upgradable">>,
  <<"read", "bucket">>, <<"read", "privateLink">>, <<"read", "azurePrivate">>,
  <<"use", "bucket">>, <<"use", "privateLink">>,
  <<"read", "extDns">>, <<"use", "extDns">>,
  <<"read", "flags">>, <<"use", "flags">>,
  <<"read", "images">>, <<"use", "images">>,
  <<"decide">>, <<"stream">>, <<"create">>, <<"wait">>,
  <<"save", "bucket">>, <<"save", "privateLink">>, <<"save", "azurePrivate">>,
  <<"save", "extDns">>, <<"save", "flags">>, <<"done">> >>

Op(k) == Script[k][1]
ItemAt(k) == Script[k][2]

\* Steps about an item the hub never holds do nothing and are passed over.
Idle(k) == Len(Script[k]) = 2 /\ ItemAt(k) \notin Used
After(k) == CHOOSE n \in (k + 1)..Len(Script) : ~Idle(n) /\ \A m \in (k + 1)..(n - 1) : Idle(m)
UpgradableStep == 7

Do(op) == pc # 0 /\ Op(pc) = op
Item == ItemAt(pc)

TypeOK ==
  /\ hub \in Configuration
  /\ cache \in Configuration
  /\ saved \in [Options -> Version]
  /\ credentials \in [Options -> Version]
  /\ imageStream \in Version
  /\ operator \in Operator
  /\ jobs \in [Jobs -> Job]
  /\ startup \in BOOLEAN
  /\ installfailed \in BOOLEAN
  /\ pc \in 0..Len(Script)
  /\ read \in Configuration
  /\ found \in Operator
  /\ job \in Jobs \cup {NoJob}
  /\ job # NoJob => Do("wait") /\ jobs[job].state # "none"
  /\ disturbed \subseteq {"late", "ignored", "stripped"}
  /\ changes \in Nat

Change(what) == what \in Changes /\ changes < MaxChanges /\ changes' = changes + 1

-----------------------------------------------------------------------------
(* How a cycle of the controller ends.                                     *)

\* Definitions named Bug... are the plausible mistakes that show what each
\* property would catch; no specification uses them.
BugSleep == pc' = 0 /\ read' = Nothing /\ found' = NoOperator /\ UNCHANGED job
Sleep == pc' = 0 /\ read' = Nothing /\ found' = NoOperator /\ job' = NoJob

BugFail == Sleep /\ UNCHANGED <<startup, installfailed>>
Fail == Sleep /\ installfailed' = TRUE /\ UNCHANGED startup

Finish == Sleep /\ installfailed' = FALSE /\ startup' = FALSE

Advance ==
  /\ pc' = After(pc)
  /\ UNCHANGED <<startup, installfailed, read, found, job>>

Goto(k) ==
  /\ pc' = k
  /\ UNCHANGED <<startup, installfailed, read, found, job>>

-----------------------------------------------------------------------------
(* Looking for changes, every two minutes.                                 *)

BugTick ==
  /\ pc = 0
  /\ Goto(IF startup THEN UpgradableStep ELSE After(0))
  /\ UNCHANGED <<hub, cache, cluster, disturbed, changes>>
Tick ==
  /\ pc = 0
  /\ Goto(IF startup \/ installfailed THEN UpgradableStep ELSE After(0))
  /\ UNCHANGED <<hub, cache, cluster, disturbed, changes>>

NextCheck == Goto(IF Op(After(pc)) = "check" THEN After(pc) ELSE 0)

\* The first item that differs is remembered at once and causes an
\* installation; an item that cannot be read is passed over.
Check ==
  /\ Do("check")
  /\ \/ /\ hub[Item] # cache[Item]
        /\ cache' = [cache EXCEPT ![Item] = hub[Item]]
        /\ Goto(UpgradableStep)
        /\ UNCHANGED changes
     \/ /\ (hub[Item] = cache[Item] /\ UNCHANGED changes) \/ Change("readFails")
        /\ NextCheck
        /\ UNCHANGED cache
  /\ UNCHANGED <<hub, cluster, disturbed>>

-----------------------------------------------------------------------------
(* runHypershiftInstall.                                                   *)

\* An operator annotated not-by-mce is left alone, which counts as success.
OperatorUpgradable ==
  /\ Do("upgradable")
  /\ IF operator.notByMCE
     THEN Finish /\ disturbed' = disturbed \cup {"ignored"}
     ELSE /\ found' = operator
          /\ pc' = After(pc)
          /\ disturbed' = disturbed \ {"stripped"}
          /\ UNCHANGED <<startup, installfailed, read, job>>
  /\ UNCHANGED <<hub, cache, cluster, changes>>

\* These two are remembered only once they have been validated.
CachedWhenUsed == {"extDns", "images"}

\* Whatever the error, what cannot be read counts as absent.
Read ==
  /\ Do("read")
  /\ \E v \in {hub[Item], Absent} :
       /\ (v = hub[Item] /\ UNCHANGED changes) \/ (v = Absent /\ Change("readFails"))
       /\ read' = [read EXCEPT ![Item] = v]
       /\ cache' = IF Item \in CachedWhenUsed THEN cache ELSE [cache EXCEPT ![Item] = v]
  /\ pc' = After(pc)
  /\ UNCHANGED <<hub, cluster, startup, installfailed, found, job, disturbed>>

AwsPlatform == read["bucket"] # Absent \/ read["privateLink"] # Absent

\* createAwsSpokeSecret, getUpdatedImageStream and the checks of the flags.
Rejects(i) ==
  \/ (read[i] \in Malformed /\ (i = "extDns" => AwsPlatform))
  \/ i = "flags" /\ read[i] \in AzureFlags /\ read["azurePrivate"] = Absent

Copies(i) ==
  CASE i = "flags"  -> IF read[i] \in AzureFlags THEN {"azurePrivate"} ELSE {}
    [] i = "images" -> {}
    [] OTHER        -> IF read[i] # Absent THEN {i} ELSE {}

Use ==
  /\ Do("use")
  /\ IF Rejects(Item)
     THEN Fail /\ UNCHANGED <<cache, credentials>>
     ELSE /\ credentials' = [s \in Options |-> IF s \in Copies(Item) THEN read[s] ELSE credentials[s]]
          /\ cache' = IF Item \in CachedWhenUsed THEN [cache EXCEPT ![Item] = read[Item]] ELSE cache
          /\ Advance
  /\ UNCHANGED <<hub, saved, imageStream, operator, jobs, disturbed, changes>>

\* A first installation, a change and a retry always install.
ReinstallCheckRequired == found.exists /\ startup /\ ~installfailed
HasOIDCArgs == found.with["bucket"] # Absent

\* secretDataUpdated, configmapDataUpdated and operatorImagesUpdated against
\* the local copies.
Skips(local) ==
  /\ ReinstallCheckRequired
  /\ read["images"] = found.with["images"]
  /\ \A i \in Options : read[i] = local[i]
  /\ read["bucket"] = Absent \/ HasOIDCArgs

\* A local copy that cannot be read counts as empty.
BugDecide ==
  /\ Do("decide")
  /\ IF ReinstallCheckRequired THEN Finish ELSE Advance
  /\ UNCHANGED <<hub, cache, cluster, disturbed, changes>>
Decide ==
  /\ Do("decide")
  /\ \/ UNCHANGED changes /\ (IF Skips(saved) THEN Finish ELSE Advance)
     \/ /\ Change("localFails")
        /\ \E i \in Options \cap Used :
             IF Skips([saved EXCEPT ![i] = Absent]) THEN Finish ELSE Advance
  /\ UNCHANGED <<hub, cache, cluster, disturbed>>

-----------------------------------------------------------------------------
(* runHyperShiftInstallJob and what follows a successful Job.              *)

WriteImageStream ==
  /\ Do("stream")
  /\ imageStream' = read["images"]
  /\ Advance
  /\ UNCHANGED <<hub, cache, saved, credentials, operator, jobs, disturbed, changes>>

\* The Job's arguments are fixed when it is created.  The answer of the API
\* server may be lost.
CreateJob ==
  /\ Do("create")
  /\ \E j \in Jobs :
       /\ jobs[j].state = "none"
       /\ jobs' = [jobs EXCEPT ![j] = [state |-> "pending", with |-> read]]
       /\ \/ /\ pc' = After(pc) /\ job' = j
             /\ UNCHANGED <<startup, installfailed, read, found, changes>>
          \/ Fail /\ Change("callFails")
  /\ UNCHANGED <<hub, cache, saved, credentials, imageStream, operator, disturbed>>

AwaitJob ==
  /\ Do("wait") /\ jobs[job].state \in {"succeeded", "failed"}
  /\ jobs' = [jobs EXCEPT ![job] = FreeJob]
  /\ IF jobs[job].state = "succeeded"
     THEN pc' = After(pc) /\ job' = NoJob /\ UNCHANGED <<startup, installfailed, read, found>>
     ELSE Fail
  /\ UNCHANGED <<hub, cache, saved, credentials, imageStream, operator, disturbed, changes>>

\* An item the hub does not hold is not saved: an older copy stays.
Save ==
  /\ Do("save")
  /\ saved' = IF read[Item] = Absent THEN saved ELSE [saved EXCEPT ![Item] = read[Item]]
  /\ Advance
  /\ UNCHANGED <<hub, cache, credentials, imageStream, operator, jobs, disturbed, changes>>

Done ==
  /\ Do("done") /\ Finish
  /\ UNCHANGED <<hub, cache, cluster, disturbed, changes>>

Agent ==
  \/ Tick \/ Check \/ OperatorUpgradable \/ Read \/ Use \/ Decide
  \/ WriteImageStream \/ CreateJob \/ AwaitJob \/ Save \/ Done

-----------------------------------------------------------------------------
(* The install Jobs run by themselves, also when nobody waits for them any *)
(* more.  A Job nobody waits for is forgotten when it ends.                *)

End(j, outcome) ==
  jobs' = [jobs EXCEPT ![j] = IF j = job THEN [@ EXCEPT !.state = outcome] ELSE FreeJob]

Apply(j) ==
  /\ operator' = [operator EXCEPT !.exists = TRUE, !.with = jobs[j].with]
  /\ disturbed' = IF j = job THEN {} ELSE disturbed \cup {"late"}

\* Its pod starts: only now is the image stream mounted.
StartJob(j) ==
  /\ jobs[j].state = "pending"
  /\ jobs' = [jobs EXCEPT ![j].state = "running", ![j].with["images"] = imageStream]
  /\ UNCHANGED <<hub, cache, saved, credentials, imageStream, operator, memory, disturbed, changes>>

JobSucceeds(j) ==
  /\ jobs[j].state = "running"
  /\ End(j, "succeeded") /\ Apply(j)
  /\ UNCHANGED <<hub, cache, saved, credentials, imageStream, memory, changes>>

\* It may have changed the deployment already when it fails.
JobFails(j) ==
  /\ Change("jobFails") /\ jobs[j].state \in {"pending", "running"}
  /\ End(j, "failed")
  /\ \/ UNCHANGED <<operator, disturbed>>
     \/ /\ jobs[j].state = "running"
        /\ Apply(j)
  /\ UNCHANGED <<hub, cache, saved, credentials, imageStream, memory>>

-----------------------------------------------------------------------------
(* What happens around the controller.                                     *)

SetHub(i, v) ==
  /\ hub' = [hub EXCEPT ![i] = v]
  /\ UNCHANGED <<cache, cluster, memory, disturbed>>

Edit(i) == Change("edit") /\ \E v \in Version : v > hub[i] /\ SetHub(i, v)
Revert(i) == Change("revert") /\ \E v \in Version : v < hub[i] /\ v # Absent /\ SetHub(i, v)
Delete(i) == Change("delete") /\ hub[i] # Absent /\ SetHub(i, Absent)

\* A user sets or removes the not-by-mce annotation.
Annotate ==
  /\ Change("annotate") /\ operator.exists
  /\ operator' = [operator EXCEPT !.notByMCE = ~@]
  /\ UNCHANGED <<hub, cache, saved, credentials, imageStream, jobs, memory, disturbed>>

\* MCE overwrites the deployment without the OIDC arguments (ACM-35409).
StripOIDC ==
  /\ Change("strip") /\ operator.with["bucket"] # Absent
  /\ operator' = [operator EXCEPT !.with["bucket"] = Absent]
  /\ disturbed' = disturbed \cup {"stripped"}
  /\ UNCHANGED <<hub, cache, saved, credentials, imageStream, jobs, memory>>

\* The Job goes on, unless it had ended before the last look at it.
Abandon == jobs' = [j \in Jobs |-> IF jobs[j].state \in {"pending", "running"} THEN jobs[j] ELSE FreeJob]

Timeout ==
  /\ Do("wait") /\ Change("timeout")
  /\ Abandon /\ Fail
  /\ UNCHANGED <<hub, cache, saved, credentials, imageStream, operator, disturbed>>

\* Any other call to the cluster's API server fails, among them the seeding of
\* the operator's namespace and pull secret, and the read of MCE's image stream.
CallFails ==
  /\ Change("callFails")
  /\ \/ pc # 0 /\ Op(pc) \in {"upgradable", "stream", "create", "wait", "save"}
     \/ Do("use") /\ (Copies(Item) # {} \/ Item = "images")
  /\ Abandon /\ Fail
  /\ UNCHANGED <<hub, cache, saved, credentials, imageStream, operator, disturbed>>

\* The agent is stopped at any step (or only while it sleeps) and started again.
Restart ==
  /\ \/ Change("restart")
     \/ pc = 0 /\ Change("idleRestart")
  /\ cache' = Nothing
  /\ startup' = TRUE /\ installfailed' = FALSE /\ Sleep
  /\ Abandon
  /\ UNCHANGED <<hub, saved, credentials, imageStream, operator, disturbed>>

Environment ==
  \/ \E i \in Used : Edit(i) \/ Revert(i) \/ Delete(i)
  \/ Annotate \/ StripOIDC \/ Timeout \/ CallFails \/ Restart

Init ==
  /\ hub \in {h \in Configuration : \A i \in Items : h[i] \in (IF i \in Used THEN {Absent, 1} ELSE {Absent})}
  /\ cache = Nothing
  /\ saved = [i \in Options |-> Absent]
  /\ credentials = [i \in Options |-> Absent]
  /\ imageStream = Absent
  /\ operator = NoOperator
  /\ jobs = [j \in Jobs |-> FreeJob]
  /\ startup = TRUE /\ installfailed = FALSE
  /\ pc = 0 /\ read = Nothing /\ found = NoOperator /\ job = NoJob
  /\ disturbed = {} /\ changes = 0

Next ==
  \/ Agent
  \/ \E j \in Jobs : StartJob(j) \/ JobSucceeds(j) \/ JobFails(j)
  \/ Environment

Spec == Init /\ [][Next]_vars

\* The agent's loop goes on, its calls return, and Jobs end within their
\* deadline.
FairSpec ==
  /\ Spec /\ WF_vars(Agent)
  /\ \A j \in Jobs : WF_vars(StartJob(j)) /\ WF_vars(JobSucceeds(j))

-----------------------------------------------------------------------------
(* Properties.                                                             *)

\* The controller sleeps after a success, no Job runs, and everything the hub
\* holds is what the controller remembers: it will not do anything.
Resting ==
  /\ pc = 0 /\ ~startup /\ ~installfailed
  /\ \A j \in Jobs : jobs[j].state = "none"
  /\ hub = cache

\* The operator runs with what the hub holds.
NeedsAzure == hub["flags"] \in AzureFlags
Installed ==
  /\ operator.exists
  /\ operator.with = hub
  /\ \A s \in {"bucket", "privateLink", "extDns"} \cup (IF NeedsAzure THEN {"azurePrivate"} ELSE {}) :
       hub[s] # Absent => credentials[s] = hub[s]

\* docs/configuration/disable_hypershift_operator_management.md:11
\* "Reinstalls the HyperShift operator if configuration changes are detected":
\* a controller that has nothing left to do has installed what the hub holds,
\* whatever changes came in the middle of an installation, whatever calls and
\* Jobs failed, unless the deployment changed behind its back (disturbed).
RestingInstalled == Resting /\ disturbed = {} => Installed

\* docs/optional/prometheus_metrics.md:11 "the agent tries the installation
\* again every 2 minutes until successful": after the last change the operator
\* ends up with what the hub holds, if an installation accepts it (and unless
\* a Job nobody waits for overtook it).
Acceptable ==
  /\ \A i \in Items : hub[i] \notin Malformed
  /\ NeedsAzure => hub["azurePrivate"] # Absent
TriesUntilSuccessful == <>[](Acceptable /\ disturbed = {} => Installed)
=============================================================================
