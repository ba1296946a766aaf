------------------------------- MODULE CLIDownload -------------------------------
(***************************************************************************)
(* The hcp CLI download of the manager                                     *)
(* (pkg/manager/cli_download_install.go): when it starts, the manager      *)
(* looks for the image of the CLI and applies a Deployment, a Service, a   *)
(* Route and a ConsoleCLIDownload for it, owned by its own Deployment and  *)
(* ClusterRole so that they go when HyperShift is disabled.  It does so    *)
(* once: what fails is logged, and repeated when the manager starts again. *)
(*                                                                         *)
(* A release of MCE is its minor version, and so are the images and links  *)
(* that belong to it.                                                      *)
(***************************************************************************)
EXTENDS Integers, FiniteSets

CONSTANTS
  Minors,      \* minor versions of MCE
  NoImage,     \* the ones whose ClusterServiceVersion has no hypershift_cli image
  Pinned,      \* the image HYPERSHIFT_CLI_IMAGE_NAME names
  MaxTries,    \* attempts to find the ClusterServiceVersion
  MaxChanges,  \* changes and faults of the environment
  None

Resource == [owner: Nat \cup {None}, contents: Minors \cup {Pinned, None}]

ASSUME ConstantsAssumption ==
  /\ Minors \subseteq 1 .. 99 /\ NoImage \subseteq Minors
  /\ Pinned \notin Minors /\ None \notin Minors \cup Nat \cup Resource /\ Pinned # None
  /\ MaxTries \in Nat \ {0} /\ MaxChanges \in Nat

VARIABLES
  enabled,  \* HyperShift is enabled in MCE: the manager's Deployment exists
  epoch,    \* the uid of that Deployment and of the ClusterRole
  release,  \* the release the manager is of
  csvs,     \* releases whose ClusterServiceVersion is on the hub
  pinned,   \* the environment variable is set
  console,  \* the hub has a console
  old,      \* resources with the old name that are left
  cli,      \* the four resources: owner and contents, or None
  pc,       \* where the manager is
  tries,    \* attempts left
  csv,      \* the ClusterServiceVersion chosen
  image,    \* the image chosen
  owner,    \* the owner reference made
  todo,     \* resources still to remove
  changes,  \* counter of MaxChanges
  unsure    \* history: why this start may not have brought the present release

hub == <<enabled, epoch, release, csvs, pinned, console>>
vars == <<hub, old, cli, pc, tries, csv, image, owner, todo, changes, unsure>>

OldResources == {"oldDownload", "oldRoute", "oldService", "oldDeployment"}
Resources == {"deployment", "service", "route", "download"}

Steps ==
  {"down", "list", "get", "console", "owner", "remove", "service", "route",
   "getroute", "clusterrole", "download", "done", "skipped", "failed"}
Ended == {"down", "done", "skipped", "failed"}

\* Versions are compared as strings of digits.
Digits(v) == IF v < 10 THEN 1 ELSE 2
Leading(v) == IF v < 10 THEN v ELSE v \div 10
StringLess(v, w) ==
  \/ Leading(v) < Leading(w)
  \/ Leading(v) = Leading(w) /\ Digits(v) < Digits(w)
  \/ Leading(v) = Leading(w) /\ Digits(v) = Digits(w) /\ v < w

Newest(names) == CHOOSE v \in names : \A w \in names \ {v} : StringLess(w, v)

TypeOK ==
  /\ enabled \in BOOLEAN /\ epoch \in Nat
  /\ release \in Minors /\ csvs \subseteq Minors
  /\ pinned \in BOOLEAN /\ console \in BOOLEAN
  /\ old \subseteq OldResources
  /\ \A x \in Resources : cli[x] # None => cli[x] \in Resource
  /\ pc \in Steps
  /\ tries \in 0 .. MaxTries
  /\ csv \in Minors \cup {None}
  /\ image \in Minors \cup {Pinned, None}
  /\ owner \in Nat \cup {None}
  /\ todo \subseteq OldResources \cup {"deployment"}
  /\ pc \in {"service", "route", "getroute", "clusterrole", "download"} =>
       image # None /\ owner # None /\ todo = {}
  /\ changes \in 0 .. MaxChanges
  /\ unsure \subseteq {"order", "delete", "owner"}

Init ==
  /\ enabled = TRUE /\ epoch = 0
  /\ release \in Minors /\ csvs = {release}
  /\ pinned \in BOOLEAN /\ console \in BOOLEAN
  /\ old \in {{}, OldResources}
  /\ cli = [x \in Resources |-> None]
  /\ pc = "down" /\ tries = 0 /\ csv = None /\ image = None /\ owner = None /\ todo = {}
  /\ changes = 0 /\ unsure = {}

-----------------------------------------------------------------------------
\* EnableHypershiftCLIDownload

Fails == changes < MaxChanges /\ changes' = changes + 1
Served == UNCHANGED changes

Start ==
  /\ enabled /\ pc = "down"
  /\ unsure' = {} /\ tries' = MaxTries
  /\ IF pinned THEN pc' = "console" /\ image' = Pinned ELSE pc' = "list" /\ image' = None
  /\ csv' = None /\ owner' = None /\ todo' = {}
  /\ UNCHANGED <<hub, old, cli, changes>>

\* (Mutant: attempts are not limited.)
BugTryAgain ==
  /\ tries' = tries - 1
  /\ pc' = "list"

\* getMCECSVWithRetry: after two minutes, five times.
TryAgain ==
  /\ tries' = tries - 1
  /\ pc' = IF tries > 1 THEN "list" ELSE "failed"

\* GetMCECSV: the ClusterServiceVersions are listed, and the newest is read.
ListCSVs ==
  /\ pc = "list"
  /\ \/ /\ Served /\ csvs # {}
        /\ csv' = Newest(csvs) /\ pc' = "get"
        /\ unsure' = {u \in {"order"} : \E v, w \in csvs : Digits(v) # Digits(w)}
        /\ UNCHANGED tries
     \/ (Fails \/ (Served /\ csvs = {})) /\ TryAgain /\ UNCHANGED <<csv, unsure>>
  /\ UNCHANGED <<hub, old, cli, image, owner, todo>>

GetCSV ==
  /\ pc = "get"
  /\ \/ /\ Served /\ csv \in csvs
        /\ IF csv \in NoImage THEN pc' = "skipped" /\ UNCHANGED image
           ELSE pc' = "console" /\ image' = csv
        /\ UNCHANGED tries
     \/ (Fails \/ (Served /\ csv \notin csvs)) /\ TryAgain /\ UNCHANGED image
  /\ UNCHANGED <<hub, old, cli, csv, owner, todo, unsure>>

-----------------------------------------------------------------------------
\* deployHCPCLIDownload

ListConsoleCLIDownloads ==
  /\ pc = "console"
  /\ \/ Served /\ pc' = IF console THEN "owner" ELSE "skipped"
     \/ Fails /\ pc' = "skipped"
  /\ UNCHANGED <<hub, old, cli, tries, csv, image, owner, todo, unsure>>

GetOwnerRef ==
  /\ pc = "owner"
  /\ \/ /\ Served /\ pc' = "remove" /\ owner' = epoch
        /\ todo' = OldResources \cup {"deployment"}
     \/ Fails /\ pc' = "failed" /\ UNCHANGED <<owner, todo>>
  /\ UNCHANGED <<hub, old, cli, tries, csv, image, unsure>>

\* removeHypershiftCLIDownload: errors are logged.  The deployment of the CLI is
\* removed too, so that it is created with the new image.
\* (Mutant: it is not.)
BugRemove(x) ==
  /\ pc = "remove" /\ x \in todo
  /\ Served /\ old' = old \ {x}
  /\ todo' = todo \ {x}
  /\ UNCHANGED <<hub, cli, pc, tries, csv, image, owner, unsure>>

Remove(x) ==
  /\ pc = "remove" /\ x \in todo
  /\ \/ /\ Served /\ old' = old \ {x} /\ UNCHANGED unsure
        /\ cli' = IF x = "deployment" THEN [cli EXCEPT ![x] = None] ELSE cli
     \/ Fails /\ unsure' = unsure \cup {"delete"} /\ UNCHANGED <<old, cli>>
  /\ todo' = todo \ {x}
  /\ UNCHANGED <<hub, pc, tries, csv, image, owner>>

NextStep == [deployment |-> "service", service |-> "route", route |-> "getroute"]

\* CreateOrUpdate with a function that changes nothing: it reads the resource of
\* that name into the object it was given, so one that exists stays as it is.
\* (Mutant: the owner reference is left out.)
BugApply(x, contents) ==
  \/ /\ Served /\ pc' = NextStep[x]
     /\ cli' = IF cli[x] = None THEN [cli EXCEPT ![x] = [owner |-> None, contents |-> contents]]
               ELSE cli
     /\ UNCHANGED unsure
  \/ Fails /\ pc' = "failed" /\ UNCHANGED <<cli, unsure>>

Apply(x, contents) ==
  \/ /\ Served /\ pc' = NextStep[x]
     /\ \/ /\ cli[x] = None /\ UNCHANGED unsure
           /\ cli' = [cli EXCEPT ![x] = [owner |-> owner, contents |-> contents]]
        \/ /\ cli[x] # None /\ UNCHANGED cli
           /\ unsure' = unsure \cup {u \in {"owner"} : cli[x].owner # owner}
  \/ Fails /\ pc' = "failed" /\ UNCHANGED <<cli, unsure>>

ApplyDeployment ==
  /\ pc = "remove" /\ todo = {}
  /\ Apply("deployment", image)
  /\ UNCHANGED <<hub, old, tries, csv, image, owner, todo>>

ApplyServiceOrRoute ==
  /\ \E x \in {"service", "route"} : pc = x /\ Apply(x, None)
  /\ UNCHANGED <<hub, old, tries, csv, image, owner, todo>>

\* The Route, for its host, and the ClusterRole, which becomes the owner.
GetRoute ==
  /\ pc = "getroute"
  /\ \/ Served /\ cli["route"] # None /\ pc' = "clusterrole"
     \/ (Fails \/ (Served /\ cli["route"] = None)) /\ pc' = "failed"
  /\ UNCHANGED <<hub, old, cli, tries, csv, image, owner, todo, unsure>>

GetClusterScopedOwnerRef ==
  /\ pc = "clusterrole"
  /\ \/ Served /\ pc' = "download"
     \/ Fails /\ pc' = "failed"
  /\ owner' = epoch
  /\ UNCHANGED <<hub, old, cli, tries, csv, image, todo, unsure>>

\* The links and the owner are set on what exists, too.
ApplyConsoleCLIDownload ==
  /\ pc = "download"
  /\ \/ /\ Served /\ pc' = "done"
        /\ cli' = [cli EXCEPT !["download"] = [owner |-> owner, contents |-> release]]
     \/ Fails /\ pc' = "failed" /\ UNCHANGED cli
  /\ UNCHANGED <<hub, old, tries, csv, image, owner, todo, unsure>>

-----------------------------------------------------------------------------
\* The environment.

Change == changes < MaxChanges /\ changes' = changes + 1
Stop == pc' = "down"

\* OLM upgrades MCE: the new ClusterServiceVersion, the new manager, and some
\* time later the old one is removed.
Upgrade ==
  /\ Change /\ enabled
  /\ \E v \in Minors : v > release /\ release' = v /\ csvs' = csvs \cup {v}
  /\ Stop
  /\ UNCHANGED <<enabled, epoch, pinned, console, old, cli, tries, csv, image, owner, todo, unsure>>

RemoveCSV ==
  /\ csvs' = {release} /\ csvs # {release}
  /\ UNCHANGED <<enabled, epoch, release, pinned, console, old, cli, pc, tries, csv, image,
                 owner, todo, changes, unsure>>

Restart ==
  /\ Change /\ pc # "down" /\ Stop
  /\ UNCHANGED <<hub, old, cli, tries, csv, image, owner, todo, unsure>>

\* HyperShift is disabled and enabled in MCE.
Disable ==
  /\ Change /\ enabled /\ enabled' = FALSE /\ Stop
  /\ UNCHANGED <<epoch, release, csvs, pinned, console, old, cli, tries, csv, image, owner,
                 todo, unsure>>
Enable ==
  /\ Change /\ ~enabled /\ enabled' = TRUE /\ epoch' = epoch + 1
  /\ UNCHANGED <<release, csvs, pinned, console, old, cli, pc, tries, csv, image, owner,
                 todo, unsure>>

\* The garbage collector removes what belongs to an owner that is gone.
CollectGarbage ==
  /\ \E x \in Resources :
       /\ cli[x] # None /\ cli[x].owner # None /\ (enabled => cli[x].owner # epoch)
       /\ cli' = [cli EXCEPT ![x] = None]
  /\ UNCHANGED <<hub, old, pc, tries, csv, image, owner, todo, changes, unsure>>

Manager ==
  \/ Start \/ ListCSVs \/ GetCSV \/ ListConsoleCLIDownloads \/ GetOwnerRef
  \/ \E x \in OldResources \cup {"deployment"} : Remove(x)
  \/ ApplyDeployment \/ ApplyServiceOrRoute \/ GetRoute \/ GetClusterScopedOwnerRef
  \/ ApplyConsoleCLIDownload

Next ==
  \/ Manager \/ Upgrade \/ RemoveCSV \/ Restart \/ Disable \/ Enable \/ CollectGarbage

Spec == Init /\ [][Next]_vars
FairSpec == Spec /\ WF_vars(Manager) /\ WF_vars(CollectGarbage) /\ WF_vars(RemoveCSV)

-----------------------------------------------------------------------------
\* Properties

\* What the manager finished to apply is of the present release, complete, and
\* with nothing left of the old names -- though CreateOrUpdate never changes a
\* Deployment -- unless versions of one and of two digits were compared, a
\* removal failed, or a resource of an owner that is gone was found in place
\* (EnableHypershiftCLIDownload :41-72, deployHCPCLIDownload :150-263).
SettledDownload ==
  pc = "done" /\ unsure = {} =>
    /\ old = {}
    /\ \A x \in Resources : cli[x] # None /\ cli[x].owner = epoch
    /\ cli["deployment"].contents = IF pinned THEN Pinned ELSE release
    /\ cli["download"].contents = release

\* :122 "find the latest version of MCE CSV"
LatestVersion ==
  pc = "done" /\ ~pinned /\ unsure \subseteq {"order"} => cli["deployment"].contents = release

\* When HyperShift is disabled for good, everything the manager made for the CLI
\* is removed, wherever it was stopped ("set ownerRef for garbage collection after
\* the hypershift feature is disabled", :183, :198, :213, :243).
EventuallyUninstalled == <>[]~enabled => <>[](\A x \in Resources : cli[x] = None)
=============================================================================
