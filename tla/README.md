# A TLA+ model of the hypershift addon operator

This directory holds TLA+ modules, TLC configurations and TLAPS proofs for the hypershift addon operator.
Every definition is translated from the Go code; `PROJECT.json` ("map") gives the lines each one stands for. HC
is a HostedCluster, MC a ManagedCluster; line numbers without a file are those of the file the section is about.

## 1. The system

A *manager* on the ACM hub registers the addon and prepares the hub. On each MCE cluster that hosts clusters an
*agent* runs, one process with several controllers; all state it shares with the others is in the two API servers
(the hub's and the cluster's), read and written call by call, mostly without a resource version.

| Component (code under `src/pkg`) | State it keeps | Operations | Talks to |
|---|---|---|---|
| Label sync, `agent/managedcluster_sync_controller.go` | labels and two tracking annotations on the spoke MC, one on the hub MC; nothing in memory | `Reconcile` of an MC with `created-via: hypershift`: copy HC labels to both MCs, hub labels to the spoke MC | watches HCs, the spoke MC and the hub MC; its own patches are events |
| Placement score, `agent/agent.go` `SyncAddOnPlacementScore`, `agent/clusterclaim.go` | an AddOnPlacementScore on the hub, three cluster claims | once at startup, then at the head of every HC reconcile, up to ten at a time | placements read the score and the claims |
| Installation, `install/upgrade.go`, `install/hypershift.go`, `install/install_job.go` | in memory: a copy of five secrets and configmaps and of the image overrides, `startup`, `installfailed`; on the cluster: saved copies, credentials, an image stream configmap, install Jobs, the operator | a loop of two minutes: compare, install, wait for the Job, save | hub secrets, the Kubernetes Job controller, MCE, users who annotate the operator |
| HC reconcile, `agent/agent.go` | mirrored kubeconfig and password secrets on the hub, finalizers of klusterlets | mirror on availability, delete with the HC, delete the imported MC | the score sync, auto-import, the hub |
| External secret and kubeconfig watchers | an annotation on the HC | touch the HC so that it reconciles | HC reconcile |
| Auto-import, `agent/auto_import_controller.go` | MC, KlusterletAddonConfig | import an available HC | HC reconcile, label sync |
| Discovery agent, `agent/discovery_agent.go` | one DiscoveredCluster per HC on the hub | create, update, delete | hub discovery |
| Addon status, `agent/addon_status_controller.go` | a condition of the ManagedClusterAddOn | initialise at startup, recompute on deployment events | installation, hub secrets |
| Discovery configuration, `manager/discovery_config_controller.go` | AddOnDeploymentConfig, ClusterManagementAddOn, KlusterletConfig | enable and disable discovery of MCE clusters in many steps | MCs on the hub |
| Clean-up, `install/hypershift.go`, `agent/agent.go` | nothing | uninstall the operator with retries unless HCs are left | installation |
| CLI download, `manager/cli_download_install.go` | deployment, service, route, console download | at startup: find the image in the newest MCE CSV, remove what has an old name, apply the four objects | the MCE operator, the garbage collector, console |
| HCP proxy, `manager/hcp_proxy.go` | a certificate cache | create, read, update and delete HC, NodePools and secrets on a hosting cluster through the hub | `hcp` clients, HC reconcile |
| Manager wiring, metrics, capacity | gauges | | |

### What is hard

* **Patches without a version.** The label worker reads an object, computes, and patches a difference over whatever
  is there by then; its patch wakes it again, and the two objects and the HC change meanwhile.
* **Overlapping reconciles.** Up to ten HC reconciles count the HCs and write one score and three claims.
* **Two minutes and ten.** The installer waits two minutes for a Job that may run for ten, remembers a change before
  it is installed, and is restarted between the Job and the copies it saves.
* **Partial failure.** Each operation is several calls; a failure or a crash in between leaves a state that only a
  retry repairs, and several places end a request without one.
* **Requests without a lock.** The proxy handles requests for one cluster at the same time, each in many calls to an API
  server far away, which may not answer although they took effect.
* **Missed events.** Filters, startup order and derived names decide whether a change is ever seen.

`PROJECT.json` ("hazards") lists these one by one at the line where they bite, with a note where a property covers
a hazard in part only: where the code itself gives up, a history variable sets the case apart, and section 3 lists it.

### What makes each component correct

* Label sync: at rest, both MCs agree with the HC and the hub MC; no label of the agent escapes its tracking
  annotations; a label the user set stays; system labels are never written; the worker comes to rest.
* Placement score: at rest, score and claims tell the number of HCs; conflicts do not requeue for ever; the
  limits are ordered.
* Installation: a controller with nothing left to do has installed what the hub holds; it tries again until it has.
* HC reconcile and watchers: at rest, the hub has the current secrets of each available HC and none of an HC that is
  gone; an HC that is gone leaves no hosted MC and no blocked klusterlet; the registration agent of an imported HC
  ends up with the current kubeconfig.
* Auto-import, discovery: an available HC ends up imported once, with its KlusterletAddonConfig, and discovered once.
* Addon status: the condition ends up telling the state of operator and external DNS.
* Discovery configuration: enabled or disabled completely in the end; never disabled under an MC that uses it.
* CLI download: what was applied is of the present release and goes when HyperShift is disabled.
* HCP proxy: an HC never exists without its secrets; a response tells what was done; no edit is lost; a deletion takes
  the NodePools of its cluster and of no other.

## 2. What is modelled

| Module | Contents | Lines |
|---|---|---|
| `LabelSync` | the label worker, users, events | 480 |
| `LabelSyncProofs` | theorems about it | |
| `PlacementScore` | the score sync, HC events, failures, restarts | 340 |
| `PlacementScoreProofs` | theorems about it | |
| `InstallController` | the installer's loop, its Jobs, the world around it | 430 |
| `InstallControllerProofs` | theorems about it | |
| `HostedClusterReconcile` | the HC reconcile, both watchers, import and deletion around it | 590 |
| `HostedClusterReconcileProofs` | theorems about it | |
| `HostedClusterImport` | how an HC becomes known to the hub: auto-import and discovery agent | 480 |
| `AddonStatus` | the Degraded condition, other writers of the status, restarts | 290 |
| `AgentReportsProofs` | theorems about `HostedClusterImport` and `AddonStatus` | |
| `DiscoverySwitch` | abstract specification: objects moved to the side a user chose | 110 |
| `DiscoveryConfig` | the controller that does it, call by call; implements `DiscoverySwitch` | 420 |
| `DiscoveryConfigProofs` | theorems about it, the refinement among them | |
| `CLIDownload` | the CLI download through releases, restarts and garbage collection | 300 |
| `CLIDownloadProofs` | theorems about it | |
| `HcpProxy` | interleaved requests to the proxy | 470 |
| `HcpProxyProofs` | theorems about it | |
| `MCLabelSync`, `MCPlacementScore`, `MCInstallController`, `MCHostedClusterReconcile` | symmetry sets and constant functions for TLC; the other modules are checked as they are | |

Components that meet are in one module: auto-import, discovery agent and the part of the HC reconcile that deletes MCs in
`HostedClusterImport`; the HC reconcile and both watchers in `HostedClusterReconcile`. The other modules are not composed: a
label worker, a score sync, an HC reconcile and the manager's controllers touch disjoint objects. The one link left, the
retry of an HC reconcile after a failed score sync, is `TouchHC` in `PlacementScore`, and the score sync is left out of
`HostedClusterReconcile`, where a request that it ends is one of the requests that come again.

Operators whose name begins with `Bug` are deliberately wrong variants of the definition that follows them.
They show what a property would catch, and no specification uses them.

### LabelSync

`spoke`, `hub` and `hcs` are the objects, `queued` the work queue's one key (the worker is single, and client-go
keeps a key once), `seenMC`, `seenHC`, `seenHub` the worker's local variables, `pc` the next API call. Tracking
annotations are sets of keys. A merge patch (`PatchSpoke`, `PatchHub`) writes over the *current* object only what
differs between the copy read and the copy computed, key by key for labels and as a whole for an annotation, as
`client.MergeFrom` does. An HC's relation to the MC (annotation, infraID, name, none of these) is one field,
`match`, and HCs are numbered in List order, because `findHostedCluster` ends at the first decisive match.
`SpokeWakes` and `Wakes` are the event filters and `mapHCToSpokeMC`. One action per read or patch; a failed call or an
agent restart at any of them is `Abort`.

Abstracted: names and prefixes (one MC, one hub MC), the labels outside `Keys` that every imported MC carries, the
two switches that turn the controller off.

### PlacementScore

A *sync* is the startup sync or the reconcile of one HC. `fresh` holds the syncs whose copy carries the stored
object's resourceVersion: the API server does not store (and gives no new version to) an update that changes nothing,
so such an update leaves the other copies fresh. `pc`, `count`, `claim` are local to a sync; `queue` is the work
queue; `phase` is "starting" until the startup sync has returned, when the watch and its first list begin.
`solo`, `missed` and `shrunk` are history: the last sync to begin ran alone and listed the HCs; an HC went before the watch
began; an HC went, or a List failed, at all.

Abstracted: the rest of the HC reconcile (its retry is `TouchHC`), metrics, two constant claims.

### InstallController

`Script` lists the steps of `installOptionsChanged` and `runHypershiftInstall` in the order of the code; `pc` points
into it, 0 while the controller sleeps. A secret or configmap is a version number, 0 when absent; a revert returns to
an old number, so "equal data" is "equal number". `cache` is what the controller holds in memory, `saved` the copies
on the cluster, `read` the local variables of one installation. A Job carries the configuration fixed when it was
created; the images it mounts are those in the shared configmap when its pod starts. A Job nobody waits for goes on.
`disturbed` is history: the deployment was changed behind the controller's back (a late Job, OIDC arguments stripped
by MCE, a change that fell into a time the operator was annotated `not-by-mce`).

Abstracted: flag text, pull secrets, placement of the pods, metrics, the clean-up command.

### HostedClusterReconcile

`hcs` are the HCs with what the reconcile reads of them: phase, annotation, password, completed version; `kube` and
`kubeCache` an HC's admin kubeconfig secret and the informer's copy of it. `mirror` is the hub's secrets, keyed by the
MC name and the kind, each with the HC in its labels as owner; `ext` is `external-managed-kubeconfig` in the klusterlet's
namespace. `pc`, `seen`, `data` and `failed` are a reconcile's next call and local variables (`lastErr` is `failed`).
`GetHC` is the Get at the head of `Reconcile` with its branches; `GetMC`, `DeleteMC` and `Release` are
`deleteManagedCluster`; `GetKubeconfig` to `Claim` are `createOrUpdateMirrorSecrets` with
`generateExtManagedKubeconfigSecret`, in the order of the calls. `SeeSecret`, `WatchKubeconfig` and `WatchKlusterlet` are the
two watchers. `Created`, `Updated` and `Deleted` are the event filters. `Fails` holds every call that returns an error,
with what the code does next. Imports, detaches and the klusterlet operator are the environment (`Import` to `RemoveMC`).
`missed` and `lost` are history: an HC went, or a clean-up was outstanding, while no agent was there to see it; a call
failed that the code does not try again.

Abstracted: metrics and capacity, the text of a kubeconfig and its server URL. HC reads and events are immediate, reads of
secrets go through the informer (`kubeCache`). The time the watchers write into an annotation is taken to differ from
the one that is there: it has seconds, so two touches in the same second would be one event. The kubeconfig of a
re-created HC is published only after the informer forgot the old secret. An HC is imported under one name at a time,
and detaching it removes the ClusterClaim CRD, as the klusterlet's clean-up does: these are assumptions about code that
is not in this repository.

### HostedClusterImport

`local` says which of two agents this is: that of the hub's own cluster runs `AutoImportController`, any other the
`DiscoveryAgent`; both have one worker (`job`, `pc`, `seen`, `queue`). `GetLocal` to `CreateKAC` are the former's calls,
`GetRemote` to `DeleteDC` the latter's, in the order of the code; a DiscoveredCluster is found by its labels and named by the HC's
ClusterID (`id`, new with each creation of the HC), so there may be several for one HC, or one of an older HC. The event
filters differ: an import is woken by creations only and, while the HC is not available, by its own `RequeueAfter`. The hub's
import controller makes the namespace of an MC (`AddNamespace`) and removes both (`RemoveMC`); the HC reconcile's deletion of the MC is
`CleanUp`. `gaveUp`, `blind` and `missed` are history: calls that failed for good, changes that raise no event, an HC that went
while no agent ran. Abstracted: labels and annotations of what is created, display names, the switches that turn either off.

### AddonStatus

`deployment` holds the shape of the two deployments, as far as `checkDeployments` tells them apart. `UpdateInitialStatus`
runs before the watches (`Starting`), `Reconcile` afterwards (`Working`), each up to `updateStatus` with its Get and Update under
`RetryOnConflict`, `tries` attempts. `addon` is the status: this agent's condition and, as `others`, the number of the last
write of the registration agent, which is its resourceVersion too, since they are the only writers that race. `Ends` is what follows a
successful update: the watch begins, or the request is done. `untold` is history: what changed since the last computation without an
event. Its names differ from those of `HostedClusterImport`, whose controllers run beside it, so that one module can state theorems about
both. Abstracted: messages.

### DiscoveryConfig and DiscoverySwitch

`config` is the AddOnDeploymentConfig the user edits, reduced to the choice and to the side its own variables are on; `objs` are
the other objects in the order of the code, each on a side or not (`TurnedOn` and `TurnedOff` say what a pass makes of each state, and
`Target` which of the two). `ReadObject` and `WriteObject` stand for the Get and the Create, Update or Delete of each of the six
functions; `fresh` is the optimistic lock. Watches are on `config` only: other changes raise no event, which `stale` (objects
touched since), `skipped` (ACM was missing) and `late` (MCs that began to use the KlusterletConfig after the check) remember, and
`refused` that MCs used it at the check. `SwitchedOn` and `SwitchedOff`, on which `SettledConfigured` rests, list the states asked for by
themselves, not as what a pass leaves alone; the lemma `LeftAlone` shows that the two are the same.

`DiscoverySwitch` is what is promised, without calls, versions or the order of objects: a pass moves objects to the side that was
chosen when it began, one by one, never to the other; it finishes when all are there or another pass is due; it gives up
only before it looked; an object touched by others is not overwritten, only deleted. `ImplementsSwitch` maps `config` to an object
like the others, `pc` to the pass, and "cannot be moved" (an addon that is not there) to being on both sides.

### CLIDownload

A release is its minor version; the four objects carry their owner's uid (`epoch`) and the release of their contents. `Remove` is
the deletion of what has an old name and of an old Deployment, `ListCSVs` the choice of the CSV with its retries, `Apply`
each `CreateOrUpdate` in order: it changes nothing of a Deployment that exists, and everything of the others. The MCE operator
installs the new CSV before it removes the old one (`Upgrade`, `RemoveCSV`); disabling HyperShift removes the owners
(`Disable`), and `CollectGarbage` then what they own. `unsure` is history and names why contents may be old: the order of
version strings, a removal that failed, an object of an owner that is gone. Abstracted: manifests, link texts, tolerations.

### HcpProxy

One namespace of one hosting cluster, its spoke. `Arrives`, `Route` and `Refuse` are `handleRoute` with the checks of the hosting
cluster and of the caller; `Accept` starts one of four handlers, whose calls are one action each, and any number of which interleave.
An object carries the request that created it, the number of its writes (with the creator: its resourceVersion) and,
as history, the edits made to it. A call fails before or after it took effect (`Fails`, `PerhapsCreates`); a client that goes
away cancels the request's context between calls (`Abandon`). A NodePool may be sent with the name of any cluster (`PostNodePool`). `told` and `warned` are what the response lists. The hosting
cluster deletes and finishes objects by itself (finalizers). Abstracted: serving, certificates, discovery documents, URLs, the read of
the namespace, which is only logged.

## 3. The runs

| Run | Question | States | Result |
|---|---|---|---|
| `label_sync` | do both MCs agree with their sources whenever the worker rests, and is no label lost track of? | 1.5 M | holds |
| `label_converges` | does the worker come to rest, with system keys, infraID matches and changing annotations? | 0.8 M | holds |
| `score_repair` | does a sync that ran alone repair everything, do overlapping ones settle on the right score while HCs are created, and does the queue drain? | 0.5 M | holds |
| `install_change` | is what the hub holds installed at rest, with edits, reverts, deletions, refusals and failures, and tried until successful? | 1.4 M | holds |
| `install_restart` | and across restarts at any step, stripped arguments, timeouts, annotations? | 2.0 M | holds |
| `hc_sync` | does the hub follow one HC through everything that may happen to it, and its registration agent too? | 0.6 M | holds |
| `hc_import` | is an HC announced as it is, and imported with its KlusterletAddonConfig in the end? | 0.7 M | holds |
| `addon_status` | does the condition at rest name exactly what is wrong, and is no other writer's condition lost? | 1.2 M | holds |
| `discovery_config` | is everything on the chosen side at rest, the KlusterletConfig kept for its users, and every step one of the abstract switch? | 0.4 M | holds |
| `cli_download` | is what was applied of the present release, and does it go when HyperShift is disabled? | 0.2 M | holds |
| `cli_newest` | is the newest CSV chosen? | small | violated |
| `hcp_proxy` | do interleaved requests keep secrets before HCs, true answers, every edit, and the right NodePools? | 1.2 M | holds |

**Bounds.** Every counter that could grow is bounded by a constant named in the module (`MaxEdits`, `MaxChanges`,
`MaxVersion`, `Jobs`, `MaxRequests`, `MaxFaults`). *Labels:* the rules work key by key, so one ordinary key (and one system key, in
`label_converges`) is enough; two values tell "equal" from "different", which is all the code asks; two HCs make
ambiguity and list order possible; four changes let a key go from hub to HC to the user and back. *Score:* three HCs with
limits 3 and 2 and a highest score of 2 make each claim change at a different count and the cap bite; two reconciles at
a time suffice for a stale copy; the initial states hold every set of HCs, so the changes are spent on the races.
*Installation:* two versions and absence give change, revert, deletion and re-creation; two Jobs are the one awaited
and a late one (the code never has two of its own pending other than by giving up); three or four changes
let one fall in each phase of an installation, then a failure or a restart, then another change. Runs differ in the part
of the configuration that is used, since each item adds states without new interactions. *HC reconcile:* one HC with its
own name and one annotation, which gives a renaming in each direction; two contents tell a rotation;
three changes let, for example, an import, a rotation and a failing call meet, or a deletion, a re-creation and a
restart, while publishing, availability, completion, joining and vanishing are not counted. *Import:* the controllers treat HCs
one by one, so one HC that goes and comes again, with two addresses and up to three versions, is enough; three changes as before.
*Discovery configuration:* the objects are handled alike, so one addon that is placed, application-manager, the two
configurations and `config` itself make every kind of move and every neighbour; three changes are, say, a choice, its opposite and a
conflict. *Addon status:* both deployments in each of their four shapes; two attempts instead of the four of
`RetryOnConflict`, which give a conflict, its repetition and giving up; four changes. *CLI download:* releases 8, 9 and 10, the first
without an image in its CSV, the last two in the order strings get wrong; two attempts instead of five; three changes. *Proxy:*
three requests of any kind to one cluster, beside another with NodePools of its own, one Secret and one NodePool name for which they
compete, and two failures. A creation, a read and an update, or a creation, a deletion and another creation, are three.

**Symmetry** is used where the definitions compare only for equality: label values and Jobs. Runs that check liveness use none.

**Deadlock** is not checked in any run: the changes around the agent are bounded, and an agent at rest after the last one waits
for an event, which is correct. That it does not stop earlier is what the settled and liveness properties say.

**Fairness.** `LabelSync`: weak fairness of `Worker`; client-go's worker takes the next key whenever there is one, and
every call returns with a result or an error. Users owe nothing. `PlacementScore`: weak fairness of each sync, because
the work queue is fair and each worker goes on. `InstallController`: weak fairness of `Agent` (the loop of `Start`
runs for ever) and of the start and the success of each Job; a Job ends within `activeDeadlineSeconds`, and failures
are actions of the environment, bounded by `MaxChanges`, so "until successful" means once calls succeed again.
`HostedClusterReconcile`: weak fairness of each HC's reconcile and of each watcher, which are client-go workers, and of
`SeeSecret`, because an informer's watch catches up. Users, the hypershift operator and the klusterlet owe nothing:
`EventuallyExternal` asks for the kubeconfig only where they have done their part. `HostedClusterImport`: weak fairness
of the worker, of the hub's import controller, which makes and removes namespaces of MCs, and of the HC reconcile's clean-up.
`DiscoveryConfig`: weak fairness of `Reconcile`, one client-go worker. `CLIDownload`: of the manager's calls, of the garbage
collector and of the removal of an old CSV, which OLM does once the new one runs. `AddonStatus` and `HcpProxy` state no liveness, and
their specifications no fairness: the proxy owes an answer only as long as the API server answers.

### Where the code and its documents disagree

Shown by a run (`PROJECT.json`, "findings", quotes the text): the newest MCE CSV is chosen by the order of strings, so while an
upgrade from 2.9 to 2.10 leaves both on the hub, the older image is deployed (`cli_newest`, `cli_download_install.go:123`).

Seen while modelling, in behaviours these modules have, without a run of their own:

*Label sync*

* An HC matched by infraID alone is not followed: its events queue the MC that has its name
  (`managedcluster_sync_controller.go:547`); the settled properties ask for a match by annotation or name.
* A patch carries no version, so a label a user sets between the worker's read and its patch is overwritten
  (`managedcluster_sync_controller.go:469`); `LocalLabelsKeptUnlessRaced` is what remains true.
* HC labels do not override a label that is there already (:282), whatever the comment at :94 says.
* An infraID match that comes first in the list beats an annotation (:190 against the comment at :163).
* Adding the annotation that the message at :209 asks for changes no label, so it wakes nobody (:626).

*Placement score*

* An update of the score that stores the value already there leaves the version as it is, so an older count may be
  stored after it (`agent.go:1349`), while `docs/optional/scheduling_hosted_cluster.md:57` has the score "constantly" updated.
  `SettledScore` sets deletions apart (`shrunk`).
* The claims follow the score update without a version; of two reconciles the older count may be written last
  (`agent.go:1361`). `SoloSyncRepairs` is what remains true.
* An HC deleted between the startup sync and the start of the watch is not noticed until the next HC event
  (`agent.go:285`); `missed` sets it apart.
* The threshold claim is true at the threshold (`clusterclaim.go:80`), against the comment at :123.
* A failed List of HCs is reported as success when the status update succeeds, so nobody tries it again
  (`agent.go:1270`); a later HC event does.

*Installation*

* A Job given up on may apply its older configuration last, and nothing notices (`install_job.go:116`), against
  `docs/configuration/hypershift_operator_configuration.md:111`; `disturbed` sets it apart.
* A change seen while the operator is annotated `not-by-mce` is used up (`hypershift.go:855`); `disturbed` sets it apart.
* A Job created before the `not-by-mce` annotation still changes the deployment (`hypershift.go:855`).
* OIDC arguments stripped while the agent runs come back only after a restart (`hypershift.go:414`).
* An agent that stops between the Job and the saved copies, and finds the hub reverted, believes all is well
  (`hypershift.go:480`); so does one that finds a deleted secret added again with the old data (:716). `install_restart`
  therefore lets the hub only move forward.

*HC reconcile and watchers*

* An error in the removal of an MC or in the release of its klusterlet is only logged (`agent.go:749`, :767), and so is
  one in the deletion of a password that is no longer reported (:808); `lost` sets them apart.
* An HC that is gone took its `managedcluster-name` annotation with it, so the MC of its own name is deleted (:747) and
  the one it was imported as is left. On a cluster whose HCs are discovered, the MC has a prefixed name and is left too.
* Two HCs of one name in two namespaces share their mirrored secrets; the labels stay those of the first, so
  deleting it deletes the secrets of the second until that is reconciled again. (`Owners` is proved for any number of them.)
* The external kubeconfig of an annotated HC goes to the namespace of its annotation (:583), while auto-import names the
  MC after the HC, and `ExternalSecretController` does not find the HC by a klusterlet of another name.
* So it is with `DISCOVERY_PREFIX`: `getDiscoveredClusterName` (`discovery_agent.go:246`) honours it, and the watcher cuts the cluster's
  own name from that of the klusterlet (`external_secret_controller.go:81`); hence the two constants `DiscoveredName` and `PrefixedName`.
* A request for a klusterlet that is gone is tried for ever (`external_secret_controller.go:75`).
* An HC that goes while no agent runs leaves its mirrored secrets (`agent.go:743`); `missed` sets it apart.

*Import and discovery of HCs*

* A call for an HC or its MC that fails ends the request for good, and so does a namespace that takes more than a minute
  (`auto_import_controller.go:111`, :122); `gaveUp` sets this apart.
* An HC that is created again while its old MC is on its way out is taken for imported (:137).
* The DiscoveredCluster of an HC that was created again is updated but keeps the ClusterID and the name of the old HC
  (`discovery_agent.go:115`); `SettledDiscovered` asks for address and version.

*Addon status*

* At startup the condition becomes "degraded" (`agent.go:324`) only if it was not healthy before: an agent that restarts
  keeps a healthy condition until an event comes, and replaces one that names reasons by one that names none
  (`addon_status_controller.go:119`).
* The external DNS secret raises no event when it comes or goes (:69); `untold` sets it apart.

*Discovery configuration*

* A disabling that is refused because MCs use the KlusterletConfig is not tried again when they cease to
  (`discovery_config_controller.go:159`); `refused` sets it apart. So do `skipped` and `stale` for ACM that is installed later and for
  objects that others change.
* "Unset" is documented as the same as "false" (`docs/management/discovering_hostedclusters.md:119`); the code does nothing then, and
  what was enabled stays.
* Disabling leaves application-manager its reference to addon-ns-config if its installation is not Manual
  (`discovery_config_controller.go:680-696`), against the comment at :665 ("Manual strategy without supportedConfigs"). `SwitchedOff`
  names this exception, the only reference that may stay.
* Disabling does not restore placements that enabling removed, and deletes addon-ns-config before the references to it.
* An MC that begins to use the KlusterletConfig between the check and the deletion, six calls later, loses it (:159-184);
  `late` sets it apart.

*CLI download*

* The installation runs once per start of the manager; what fails is logged (`manager.go:180`), and repeated by the next start.
* An old Deployment whose deletion fails is kept, with its image (`cli_download_install.go:185`); `unsure` sets it apart.

*HCP proxy*

* A creation whose NodePools failed cannot be repeated: the second is answered "already exists" at the HC (`hcp_proxy.go:976`),
  after it replaced the Secrets of the first (:962).
* If the NodePools cannot be listed there are none to delete, and the deletion is answered 200 (:1066), against
  `docs/management/from-hub-cli.md:267`; `hurt` sets it apart.
* NodePools are deleted by name: one that took over the name meanwhile goes too (`OtherClustersKept` asks about those that existed).
* An update of several objects that fails half-way has written some of them, and the answer does not say which.
* The check of the caller is skipped without the clusterview API only if `SKIP_HUB_PERMISSION_CHECK` is set (:625);
  `docs/management/from-hub-cli.md:318` speaks of the API only.

## 4. What is proved

With TLAPS, for all values of the constants that satisfy the assumption of the module: any number of keys, values,
HCs, concurrent reconciles and requests, Jobs, releases and changes.

| Theorem | Statement | Run with the same property |
|---|---|---|
| `LabelSyncProofs!TypeCorrect` | types | `label_sync` |
| `LabelSyncProofs!AgentTracks` | a label no user wrote is in a tracking annotation | `label_sync` |
| `LabelSyncProofs!LocalKept` | an untracked label is left alone unless the MC changed since it was read | `label_sync` |
| `LabelSyncProofs!SettledAgree` | at rest both MCs agree with HC and hub, and no key has two owners; for matches by annotation or name that do not change | `label_sync` |
| `LabelSyncProofs!HubAgrees` | under the same hypotheses, the hub MC has the HC's labels and no others of its kind | `label_sync` |
| `LabelSyncProofs!FollowsFound` | at rest both MCs agree with the HC that the last reconcile found, and no key has two owners; however HCs match | |
| `LabelSyncProofs!FollowsHub` | at rest the spoke MC has what the hub MC has of its own; however HCs match | `label_sync` |
| `PlacementScoreProofs!LimitsOrdered` | 1 <= threshold <= maximum, whatever the environment holds | |
| `PlacementScoreProofs!TypeCorrect` | types; the score is one the API accepts | `score_repair` |
| `PlacementScoreProofs!Repairs` | a sync that ran alone repairs score and claims | `score_repair` |
| `PlacementScoreProofs!ScoreCounts` | as long as HCs were only created and Lists succeeded, the settled score counts the HCs | `score_repair` |
| `HostedClusterReconcileProofs!TypeCorrect` | types | `hc_sync` |
| `HostedClusterReconcileProofs!Owners` | a mirrored secret of an HC that is gone is left only while a request or a reconcile for it is outstanding | `hc_sync` |
| `HostedClusterReconcileProofs!Mirrors` | at rest the hub has the current secrets of an HC that shares no name | `hc_sync` |
| `HostedClusterReconcileProofs!Imports` | at rest an HC that is gone leaves no hosted MC and no waiting klusterlet; if no HC is discovered under the name of another | `hc_sync` |
| `HostedClusterReconcileProofs!ImportsApart` | the same of each HC under whose name no other is discovered, whatever the others do | |
| `InstallControllerProofs!TypeCorrect` | types | `install_change` |
| `InstallControllerProofs!InstalledByOneAgent` | a controller that rests has installed what the hub holds; for an agent that is not restarted | `install_change` |
| `InstallControllerProofs!InstalledAcrossRestarts` | the same, for an agent restarted at any step, while the hub only moves forward and can be read | `install_restart` |
| `InstallControllerProofs!InstalledOrVouched` | the same, whatever happens, or the last installation was skipped by the saved copies, and what they vouch for holds | |
| `DiscoveryConfigProofs!TypeCorrect` | types | `discovery_config` |
| `DiscoveryConfigProofs!Configured` | at rest everything is on the side the configuration asks for, but for what the history sets apart and the reference of an application-manager that is not Manual | `discovery_config` |
| `DiscoveryConfigProofs!KeepsForUsers` | no step disables the import while an MC that was there when it was checked uses it | `discovery_config` |
| `DiscoveryConfigProofs!Implements` | `DiscoveryConfig` implements `DiscoverySwitch` | `discovery_config` |
| `CLIDownloadProofs!TypeCorrect` | types | `cli_download` |
| `CLIDownloadProofs!SettledComplete` | what a start finished to apply is of the present release, complete and owned | `cli_download` |
| `HcpProxyProofs!TypeCorrect` | types | `hcp_proxy` |
| `HcpProxyProofs!SecretsComeFirst` | no HC without the namespace and Secrets of the request that created it | `hcp_proxy` |
| `HcpProxyProofs!AnswersHold` | a 200 or 201 is true of what the request did | `hcp_proxy` |
| `HcpProxyProofs!EditsKept` | an object carries the edits of every update written to it | `hcp_proxy` |
| `HcpProxyProofs!DeletionComplete` | a deletion answered 200 without a failed call left no NodePool of the cluster | `hcp_proxy` |
| `HcpProxyProofs!OthersStay` | a deletion takes no NodePool that was another cluster's when it was sent | `hcp_proxy` |
| `AgentReportsProofs!TypeCorrect` | types | `hc_import` |
| `AgentReportsProofs!DiscoversAll` | at rest an HC is announced as it is, and one that is gone is not, unless a change raised no event | `hc_import` |
| `AgentReportsProofs!ImportsAll` | at rest an HC is imported, with its KlusterletAddonConfig, unless a call failed for good | |
| `AgentReportsProofs!StatusTypeCorrect` | types | `addon_status` |
| `AgentReportsProofs!OthersNeverLost` | no write of the agent undoes one of another writer of the status | `addon_status` |
| `AgentReportsProofs!Tells` | at rest the condition names exactly the reasons that hold, unless a change raised no event | `addon_status` |

**Assumptions.** System keys are keys; "no label" is not a value; HCs are finitely many and, in `LabelSync`, numbered; the
score's maximum is a natural number; a limit is an integer or unreadable. `SettledAgree` and `HubAgrees` also assume what
their two hypotheses say (no match by infraID, annotations that do not change): without them the items on infraID and on
the annotation in the list above refute them. What is left without them is `FollowsFound`: the MCs agree with the HC the last
reconcile found, so they fall behind only by an HC whose change woke nobody. `FollowsHub` needs neither.
`ScoreCounts` assumes nothing about the environment: `SettledScore` itself speaks of histories without a deletion, by `shrunk`. `None` is not a release, a number or a resource in `CLIDownload`,
and `NoJob` is no HC in `HostedClusterImport`. `AddonStatus` names its assumption `StatusAssumption`.

`Imports` assumes `DiscoveredApart`: no HC is discovered under the name (prefix and HC name) of another HC. Where there are no
discovered HCs this is true of every set of HCs. Without it a managed cluster named like an HC that is gone may be the one as
which another HC was imported, which is right to stay, and TLC finds that case. `ImportsApart` has no such hypothesis: it is about
each HC under whose name no other is discovered (`Apart`), and *Imports* follows from it.

The two theorems about `RestingInstalled` exclude, each in its own way, what the list above says of `hypershift.go:480` and :716: an
agent that is restarted decides by copies on the cluster, and copies of what was deleted or reverted in the meantime are not
those of what is installed. `InstalledByOneAgent` has every change of the hub, every failing call and Job, the annotation and MCE,
and no restart; `InstalledAcrossRestarts` has all of them and restarts at every step, and a hub that is edited but on which nothing
is deleted, reverted, or cannot be read (a failed read counts as a deletion). `InstalledOrVouched` excludes nothing and says what is left
of the property: the history variable `basis` tells whether the last installation that ended well ran a Job or found nothing
to do by the saved copies. After a Job the agent at rest has installed what the hub holds. After such a skip it has supplied the
credentials, the operator exists with the images of the hub and has OIDC arguments if the hub has a bucket, and each of the
other items of the hub is what an installation saved, or absent: what is not known is whether the operator runs with
these, or with ones the hub no longer has. Like `RestingInstalled`, it sets apart what a forgotten Job did (`disturbed`).

**Inductive invariants.** *AgentTracks* is not inductive: the patch is computed from an old copy.
`TrackInv` adds `CopyCurrent`: relative to the copy the worker holds, whatever was written to the MC since came from
users and left the annotations alone, so the difference that is patched moves labels and annotation together.
*FollowsFound* and *FollowsHub* rest on `SettledInv`: if nothing is queued and the MC is hosted, then the MCs are as the worker has seen them
in this reconcile (`Quiet`), and the stages it has passed had nothing to write for the HC it found; every change of an MC
queues it. *SettledAgree* adds `CurrentInv`: under its hypotheses every change of the HC queues the MC too, so the HC found is the
current one. TLC checked `SettledInv` and both properties with all ways to match, changing annotations, two HCs and three changes:
564 854 states. *Repairs* rests on `PhaseInv` (before the controllers start only the startup sync runs, afterwards it does not),
`SoloInv` (a sync that ran alone so far is the only one active, and its List did not fail) and `RepairInv` (unless a request
is pending or an HC went unnoticed, what such a sync counted is still true and what it has written is exact).
*ScoreCounts* rests on `GrowInv` (the score never tells more HCs than there are, nor more than a sync counted that could still
store its count) and `FixInv` (the score is exact, or a request is pending, or some sync will store the right count or run again).

*Owners* rests on `OwnersInv`: a reconcile that stores secrets holds a copy of an HC that was available, one that deletes them a
copy of one that was gone, and if an HC is gone without being missed or queued, then it has no secrets or its reconcile saw that
it is gone. Without the last part a reconcile with an old copy could store a secret after the last request was dealt with; with
it, a reconcile overtaken by the deletion always leaves the request that the deletion put in the queue. What other reconciles
do is one lemma (`LocalOwners`): storing a secret makes only the HC that stores it an owner. `Outside` covers the rest.

*Tells* rests on `CurrentInv`: unless a change went unnoticed, what the reconcile has read so far is still true or an event is
queued, and between two reconciles the condition is what would be computed now. `CheckSame` and `CheckTells` are the two facts about
`CheckDeployments` it needs: the external DNS deployment does not matter while it is not checked, and the reasons are those of
the unhealthy deployments. *OthersNeverLost* is inductive as it stands: the version check makes the copy's conditions
those that are stored.

*DiscoversAll* rests on `DiscoveredInv`, which is about an HC with no request queued and no change that went without an event. While
the worker has it, the copy is the HC (`Current`), and what the worker listed, created or is about to write is what the hub holds
(`Listed`); when the worker has left it, it is announced as it is (`Told`). Other clients keep this because what they do to a
DiscoveredCluster without an event makes the HC `blind`; a write is refused once its object changed. *ImportsAll* states, of every history,
the safety half of `EventuallyImported`; the invariant `ImportInv` is that from the call on that finds or creates the MC there is one, or
the request gave up. No run has a property for it: TLC checked it, like the two invariants, on the 663 758 states of `hc_import`, and
beyond them with four changes (2 495 074 states) and with two HCs (2 474 304).

*Mirrors* and *Imports* rest on three invariants, the first of which both use. `CopyInv`: if no request for an HC waits, its reconcile
works with the HC as it is, or with one that is gone as that one is. `MirrorInv`: the keys of an HC that shares no name
are its own or nobody's, and an HC for which no request waits has its secrets on the hub as far as its reconcile has come, or
its reconcile will ask for another (an error, or an informer's copy that is not the secret's). `ImportInv`: a klusterlet has an MC,
and what the deletion of MC and klusterlet has passed for an HC that is gone and `Apart` stays passed. TLC checked them first: 563 228 states
of `hc_sync`.

*InstalledByOneAgent* and *InstalledAcrossRestarts* share `CoreInv`. `ReadAt`, `CachedAt` and `CopiedAt` give the step of the script at which
an item is read, remembered and copied; the steps passed over are about items that are not in use (`PassedOver`, from the
CHOOSE in `After`), so behind each of these steps `cache` is `read` (`CacheInv`) and so are the credentials (`CredInv`). `JobInv`: the awaited Job carries `read`, the images
it will mount included, and after its success the operator does, unless disturbed. So `RestInv` holds when the cycle ends: a
controller that looks for changes compares the hub with what is installed. The one step that does not follow from this is the skipped
installation, `SkipSound`. For an agent that is not restarted, `FirstInv` shows that it never happens: until the first success there is
no operator, or a failure, after which nothing is skipped. Across restarts, `ForwardInv` puts an order on the versions of each
item: `saved`, then `operator`, then `read`, then `hub`, none of which a forgotten Job came to disturb; what is skipped has
`saved = read`, and so has to be what runs. TLC checked both on the two runs: 1 381 336 and 1 976 690 states.
*InstalledOrVouched* keeps of `CoreInv` all but `RestInv`, whose place `VouchInv` takes: what a controller compares the hub with is what it
installed, or what the copies vouch for. `FoundInv` is what makes a skip say anything: until the decision the deployment is the
one that was found. With every kind of change at once, three of them, TLC checked 754 326 states (bucket, flags and
images in use) and 417 572 (bucket, flags and the Azure key, some flags malformed); it finds `RestingInstalled` itself violated there.

`PassInv` of *DiscoveryConfig*: unless a request waits, the copy is the configuration and every object before the one the pass has come to is
on its side, unless somebody changed it since (`Moved`); the MCs that use the KlusterletConfig came after the check (`UsersLate`). *Implements* maps
the pass to that of `DiscoverySwitch`, one lemma per call: most are stutters, the decision begins the abstract pass and each write
moves one object. `LeftAlone` turns "a pass would leave it alone" into the states `SwitchedOn` and `SwitchedOff` list. 446 258 states.

`ProxyInv` of *HcpProxy*: a request handles names of one cluster and kind (`HandlerInv`); an object's mark of who created or changed it names no
request that could still do so (`SignedInv`), so that two versions with one mark are of one object; what was read is not newer than what
is stored, and equal where the resourceVersion is (`VersionInv`, from which *EditsKept* follows); what a deletion has left is what it
has still to delete (`DeleteInv`); Secrets precede the HC (`SecretInv`). 1 179 964 states.

`DownloadInv` of *CLIDownload*: the manager's release is the newest (`HubInv`), so what a start chose is what it should have (`ChoiceInv`, with
the lemma that the comparison of version strings picks the greatest number among those of equally many digits), and each
resource is its own and of its image from the step that applies it (`ProgressInv`). 201 527 states.

**Only model-checked.** Liveness (`Converges`, `Drains`, `TriesUntilSuccessful`, `EventuallyExternal`, `EventuallyImported`, `ComesToRest`,
`EventuallyUninstalled`), which with ENABLED is beyond the prover used here.

## 5. What is not modelled

`PROJECT.json` lists these components with their reasons.

* *Clean-up of the operator* (`RunHypershiftCleanup`): one check for HCs, a list of deletions whose errors are logged, three
  attempts around them. It runs in a process of its own and shares nothing with the agent but the operator it deletes.
* *Install flags* (`buildOtherInstallFlags`, `reservedInstallFlags`, `getParamValue`): text processing; `InstallController` keeps
  which inputs an installation used, not the flags made of them.
* *Import configuration of the agent* (`createMCEImportConfig`): two idempotent writes at startup that nothing here reads.
* *Manager wiring*, *HCP capacity and metrics*: no control to check; the gauges are never read back. Within the proxy, serving, TLS
  set-up and URLs are I/O.

The clusters' own machinery (API servers, the Job controller, the garbage collector, client-go's queue) is modelled
only as far as the code relies on it, and marked external in "map".

## 6. Plan

Every component whose state a model checker can follow has its module, every safety property of the runs a theorem, and where
a theorem needs a hypothesis that the code does not guarantee, another says what holds without it. What is left:

1. **Liveness.** It stays with TLC until a prover for fairness and ENABLED is at hand.
2. **Clean-up of the operator**, beside `InstallController`: the HC created between its check and its deletions.
