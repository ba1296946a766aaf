---------------------------- MODULE CLIDownloadProofs ----------------------------
(***************************************************************************)
(* Theorems about CLIDownload, for any set of releases and any number of   *)
(* changes: its types, and that a start that comes to its end brings the   *)
(* download of the present release, whole.                                 *)
(*                                                                         *)
(* A start goes through its steps once, so the inductive invariant says    *)
(* for each step what has been chosen and applied by then; and that the    *)
(* manager only runs under the Deployment and the release it started with, *)
(* which makes what it read of them true to the end.                       *)
(***************************************************************************)
EXTENDS CLIDownload, WellFoundedInduction, TLAPS

USE ConstantsAssumption DEF ConstantsAssumption

-----------------------------------------------------------------------------
(* The inductive invariant.                                                *)

\* The steps once the owner is known, and once the old Deployment is removed.
AfterRemoval == {"service", "route", "getroute", "clusterrole", "download", "done"}
Stamped == AfterRemoval \cup {"remove"}
Chosen == Stamped \cup {"console", "owner"}

HubType ==
  /\ enabled \in BOOLEAN /\ epoch \in Nat
  /\ release \in Minors /\ csvs \subseteq Minors
  /\ pinned \in BOOLEAN /\ console \in BOOLEAN
  /\ changes \in 0 .. MaxChanges
ClusterType ==
  /\ old \subseteq OldResources
  /\ cli \in [Resources -> Resource \cup {None}]
ManagerType ==
  /\ pc \in Steps
  /\ tries \in 0 .. MaxTries
  /\ csv \in Minors \cup {None}
  /\ image \in Minors \cup {Pinned, None}
  /\ owner \in Nat \cup {None}
  /\ todo \subseteq OldResources \cup {"deployment"}
  /\ unsure \subseteq {"order", "delete", "owner"}

\* What a step needs of the ones before it.
StepInv ==
  /\ pc \in {"list", "get"} => tries >= 1
  /\ pc = "get" => csv \in Minors
  /\ pc \in Chosen => image \in Minors \cup {Pinned}
  /\ pc \in Stamped => owner \in Nat
  /\ pc \in AfterRemoval => todo = {}

\* The manager is of the newest release on the hub, and runs while it is enabled.
HubInv ==
  /\ release \in csvs /\ \A v \in csvs : v <= release
  /\ pc # "down" => enabled = TRUE

Image == IF pinned THEN Pinned ELSE release

\* What a start has chosen is what the hub has now.
ChoiceInv ==
  /\ pc \in {"list", "get"} => ~pinned
  /\ unsure = {} /\ pc = "get" => csv = release
  /\ unsure = {} /\ pc \in Chosen => image = Image
  /\ pc \in Stamped => owner = epoch

\* Whose steps come after the one that applies a resource.
Applied(x) ==
  CASE x = "deployment" -> AfterRemoval
    [] x = "service" -> AfterRemoval \ {"service"}
    [] x = "route" -> AfterRemoval \ {"service", "route"}
    [] OTHER -> {"done"}
Own(x) == cli[x] # None /\ cli[x].owner = epoch

ProgressInv ==
  unsure = {} =>
    /\ pc = "remove" => old \subseteq todo /\ ("deployment" \in todo \/ cli["deployment"] = None)
    /\ pc \in AfterRemoval => old = {}
    /\ \A x \in Resources : pc \in Applied(x) => Own(x)
    /\ pc \in AfterRemoval => cli["deployment"].contents = Image
    /\ pc = "done" => cli["download"].contents = release

Typed == HubType /\ ClusterType /\ ManagerType /\ StepInv
DownloadInv == Typed /\ HubInv /\ ChoiceInv /\ ProgressInv

-----------------------------------------------------------------------------
(* The choice of the newest ClusterServiceVersion.                         *)

\* The place of a version among the strings.
Rank(v) == IF v < 10 THEN 11 * v ELSE v + (v \div 10) + 1

LEMMA RankFacts ==
  ASSUME NEW v \in 1 .. 99
  PROVE  Rank(v) \in 0 .. 200
  BY DEF Rank

LEMMA RankOrders ==
  ASSUME NEW v \in 1 .. 99, NEW w \in 1 .. 99, Rank(v) < Rank(w)
  PROVE  StringLess(v, w)
<1>1. CASE v < 10 /\ w < 10
  BY <1>1 DEF StringLess, Leading, Digits, Rank
<1>2. CASE v < 10 /\ w >= 10
  BY <1>2 DEF StringLess, Leading, Digits, Rank
<1>3. CASE v >= 10 /\ w < 10
  BY <1>3 DEF StringLess, Leading, Digits, Rank
<1>4. CASE v >= 10 /\ w >= 10
  BY <1>4 DEF StringLess, Leading, Digits, Rank
<1> QED
  BY <1>1, <1>2, <1>3, <1>4

LEMMA RankInjective ==
  ASSUME NEW v \in 1 .. 99, NEW w \in 1 .. 99, Rank(v) = Rank(w)
  PROVE  v = w
<1>1. CASE v < 10 /\ w < 10
  BY <1>1 DEF Rank
<1>2. CASE v < 10 /\ w >= 10
  BY <1>2 DEF Rank
<1>3. CASE v >= 10 /\ w < 10
  BY <1>3 DEF Rank
<1>4. CASE v >= 10 /\ w >= 10
  BY <1>4 DEF Rank
<1> QED
  BY <1>1, <1>2, <1>3, <1>4

LEMMA LeastNatural ==
  ASSUME NEW T, T \subseteq Nat, T # {}
  PROVE  \E x \in T : \A y \in T : ~(y < x)
<1> DEFINE R == {ss \in Nat \X Nat : ss[1] < ss[2]}
<1>1. IsWellFoundedOn(R, Nat)
  BY NatLessThanWellFounded DEF OpToRel
<1> HIDE DEF R
<1>2. PICK x \in T : \A y \in T : <<y, x>> \notin R
  BY <1>1, WFMin
<1> QED
  BY <1>2 DEF R

\* Any set of ClusterServiceVersions has a newest one.
LEMMA NewestIsOne ==
  ASSUME NEW names \in SUBSET Minors, names # {}
  PROVE  Newest(names) \in names
<1> DEFINE T == {200 - Rank(v) : v \in names}
<1>1. \A v \in names : v \in 1 .. 99
  OBVIOUS
<1>2. T \subseteq Nat /\ T # {}
  <2>1. ASSUME NEW v \in names
        PROVE  200 - Rank(v) \in Nat
    <3>1. PICK n \in 0 .. 200 : n = Rank(v)
      BY <1>1, RankFacts
    <3> QED
      BY <3>1
  <2> QED
    BY <2>1
<1> HIDE DEF T
<1>3. PICK x \in T : \A y \in T : ~(y < x)
  BY <1>2, LeastNatural
<1> USE DEF T
<1>5. PICK v \in names : x = 200 - Rank(v)
  OBVIOUS
<1>6. ASSUME NEW w \in names \ {v}
      PROVE  StringLess(w, v)
  <2>1. v \in 1 .. 99 /\ w \in 1 .. 99 /\ 200 - Rank(w) \in T
    BY <1>1
  <2>2. PICK m \in 0 .. 200, n \in 0 .. 200 : m = Rank(v) /\ n = Rank(w)
    BY <2>1, RankFacts
  <2>3. ~(200 - n < 200 - m)
    BY <1>3, <1>5, <2>1, <2>2
  <2>4. Rank(w) # Rank(v)
    BY <2>1, RankInjective
  <2>5. n < m
    BY <2>2, <2>3, <2>4
  <2> QED
    BY <2>1, <2>2, <2>5, RankOrders
<1> QED
  BY <1>5, <1>6 DEF Newest

\* Where all versions have as many digits, the greatest is the newest.
LEMMA NewestIsGreatest ==
  ASSUME NEW names \in SUBSET Minors, NEW r \in names, \A v \in names : v <= r,
         \A v, w \in names : Digits(v) = Digits(w)
  PROVE  Newest(names) = r
<1>1. \A v, w \in names : v # w => (StringLess(v, w) <=> v < w)
  <2> SUFFICES ASSUME NEW v \in names, NEW w \in names, v # w
               PROVE  StringLess(v, w) <=> v < w
    OBVIOUS
  <2>1. v \in 1 .. 99 /\ w \in 1 .. 99 /\ Digits(v) = Digits(w)
    OBVIOUS
  <2> QED
    BY <2>1 DEF StringLess, Digits, Leading
<1>2. \A w \in names \ {r} : StringLess(w, r)
  <2> SUFFICES ASSUME NEW w \in names \ {r} PROVE StringLess(w, r)
    OBVIOUS
  <2>1. w <= r /\ w # r /\ w \in 1 .. 99 /\ r \in 1 .. 99
    OBVIOUS
  <2> QED
    BY <1>1, <2>1
<1>3. \E v \in names : \A w \in names \ {v} : StringLess(w, v)
  BY <1>2
<1>4. Newest(names) \in names /\ \A w \in names \ {Newest(names)} : StringLess(w, Newest(names))
  BY <1>3 DEF Newest
<1>5. ASSUME Newest(names) # r
      PROVE  FALSE
  <2>1. PICK n \in names : n = Newest(names)
    BY <1>4
  <2>2. StringLess(r, n) /\ r # n
    BY <1>4, <1>5, <2>1
  <2>3. r < n /\ n <= r /\ n \in 1 .. 99 /\ r \in 1 .. 99
    BY <1>1, <2>2
  <2> QED
    BY <2>3
<1> QED
  BY <1>5

-----------------------------------------------------------------------------
(* Types.                                                                  *)

LEMMA InitTyped == Init => Typed
<1> SUFFICES ASSUME Init PROVE Typed
  OBVIOUS
<1>1. HubType
  BY DEF Init, HubType
<1>2. ClusterType
  BY DEF Init, ClusterType
<1>3. ManagerType
  BY DEF Init, ManagerType, Steps
<1>4. StepInv
  BY DEF Init, StepInv, Chosen, Stamped, AfterRemoval
<1> QED
  BY <1>1, <1>2, <1>3, <1>4 DEF Typed

LEMMA HubStep ==
  ASSUME HubType, Next
  PROVE  HubType'
<1>0. Change => changes' \in 0 .. MaxChanges
  BY DEF Change, HubType
<1>1. CASE Manager
  <2>1. UNCHANGED hub
    BY <1>1 DEF Manager, Start, ListCSVs, GetCSV, ListConsoleCLIDownloads, GetOwnerRef, Remove,
                ApplyDeployment, ApplyServiceOrRoute, GetRoute, GetClusterScopedOwnerRef,
                ApplyConsoleCLIDownload
  <2>2. Fails \/ Served
    BY <1>1 DEF Manager, Start, ListCSVs, GetCSV, ListConsoleCLIDownloads, GetOwnerRef, Remove,
                ApplyDeployment, ApplyServiceOrRoute, GetRoute, GetClusterScopedOwnerRef,
                ApplyConsoleCLIDownload, Apply, Served
  <2>3. changes' \in 0 .. MaxChanges
    BY <2>2 DEF Fails, Served, HubType
  <2> QED
    BY <2>1, <2>3 DEF hub, HubType
<1>2. CASE Upgrade
  <2>1. release' \in Minors /\ csvs' \subseteq Minors
    BY <1>2 DEF Upgrade, HubType
  <2>2. UNCHANGED <<enabled, epoch, pinned, console>>
    BY <1>2 DEF Upgrade
  <2>3. changes' \in 0 .. MaxChanges
    BY <1>0, <1>2 DEF Upgrade
  <2> QED
    BY <2>1, <2>2, <2>3 DEF HubType
<1>3. CASE RemoveCSV
  BY <1>3 DEF RemoveCSV, HubType
<1>4. CASE Restart
  BY <1>0, <1>4 DEF Restart, hub, HubType
<1>5. CASE Disable
  BY <1>0, <1>5 DEF Disable, HubType
<1>6. CASE Enable
  BY <1>0, <1>6 DEF Enable, HubType
<1>7. CASE CollectGarbage
  BY <1>7 DEF CollectGarbage, hub, HubType
<1> QED
  BY <1>1, <1>2, <1>3, <1>4, <1>5, <1>6, <1>7 DEF Next

\* What the calls for a resource make of it.
Puts(x, o, contents) == cli' = [cli EXCEPT ![x] = [owner |-> o, contents |-> contents]]
Drops(x) == cli' = [cli EXCEPT ![x] = None]

LEMMA PutsTyped ==
  ASSUME ClusterType, NEW x \in Resources, NEW o \in Nat \cup {None},
         NEW contents \in Minors \cup {Pinned, None}, Puts(x, o, contents)
  PROVE  /\ cli' \in [Resources -> Resource \cup {None}]
         /\ cli'[x] = [owner |-> o, contents |-> contents] /\ cli'[x] # None
         /\ \A y \in Resources \ {x} : cli'[y] = cli[y]
<1> DEFINE z == [owner |-> o, contents |-> contents]
<1>1. z \in Resource /\ z # None
  BY DEF Resource
<1> HIDE DEF z
<1>2. cli' = [cli EXCEPT ![x] = z] /\ z \in Resource /\ z # None
  BY <1>1 DEF Puts, z
<1>3. /\ cli' \in [Resources -> Resource \cup {None}] /\ cli'[x] = z
      /\ \A y \in Resources \ {x} : cli'[y] = cli[y]
  BY <1>2 DEF ClusterType
<1> QED
  BY <1>2, <1>3 DEF z

LEMMA DropsTyped ==
  ASSUME ClusterType, NEW x \in Resources, Drops(x)
  PROVE  /\ cli' \in [Resources -> Resource \cup {None}] /\ cli'[x] = None
         /\ \A y \in Resources \ {x} : cli'[y] = cli[y]
  BY DEF ClusterType, Drops

\* The resources a step leaves alone, puts in place or takes away.
LEMMA CliStep ==
  ASSUME Typed, Next
  PROVE  \/ UNCHANGED cli
         \/ \E x \in Resources : Drops(x)
         \/ ApplyDeployment /\ cli["deployment"] = None /\ Puts("deployment", owner, image)
         \/ \E x \in {"service", "route"} : pc = x /\ cli[x] = None /\ Puts(x, owner, None)
         \/ pc = "download" /\ Puts("download", owner, release)
<1>1. CASE Start \/ ListCSVs \/ GetCSV \/ ListConsoleCLIDownloads \/ GetOwnerRef
  BY <1>1 DEF Start, ListCSVs, GetCSV, ListConsoleCLIDownloads, GetOwnerRef
<1>2. CASE \E x \in OldResources \cup {"deployment"} : Remove(x)
  BY <1>2 DEF Remove, Drops, Resources
<1>3. CASE ApplyDeployment
  BY <1>3 DEF ApplyDeployment, Apply, Puts
<1>4. CASE ApplyServiceOrRoute
  BY <1>4 DEF ApplyServiceOrRoute, Apply, Puts
<1>5. CASE GetRoute \/ GetClusterScopedOwnerRef
  BY <1>5 DEF GetRoute, GetClusterScopedOwnerRef
<1>6. CASE ApplyConsoleCLIDownload
  BY <1>6 DEF ApplyConsoleCLIDownload, Puts
<1>7. CASE Upgrade \/ RemoveCSV \/ Restart \/ Disable \/ Enable
  BY <1>7 DEF Upgrade, RemoveCSV, Restart, Disable, Enable
<1>8. CASE CollectGarbage
  BY <1>8 DEF CollectGarbage, Drops
<1> QED
  BY <1>1, <1>2, <1>3, <1>4, <1>5, <1>6, <1>7, <1>8 DEF Next, Manager

LEMMA ClusterStep ==
  ASSUME Typed, Next
  PROVE  ClusterType'
<1>1. old' \subseteq old
  BY DEF Next, Manager, Start, ListCSVs, GetCSV, ListConsoleCLIDownloads, GetOwnerRef, Remove,
         ApplyDeployment, ApplyServiceOrRoute, GetRoute, GetClusterScopedOwnerRef,
         ApplyConsoleCLIDownload, Upgrade, RemoveCSV, Restart, Disable, Enable, CollectGarbage
<1>2. cli' \in [Resources -> Resource \cup {None}]
  <2>1. ClusterType /\ owner \in Nat \cup {None} /\ image \in Minors \cup {Pinned, None}
        /\ release \in Minors
    BY DEF Typed, ManagerType, HubType
  <2>2. {"deployment", "service", "route", "download"} \subseteq Resources
    BY DEF Resources
  <2>3. CASE UNCHANGED cli
    BY <2>1, <2>3 DEF ClusterType
  <2> QED
    BY <2>1, <2>2, <2>3, CliStep, PutsTyped, DropsTyped
<1> QED
  BY <1>1, <1>2 DEF Typed, ClusterType

LEMMA ManagerStep ==
  ASSUME Typed, Next
  PROVE  ManagerType' /\ StepInv'
<1> USE DEF Typed, ManagerType, StepInv
<1>1. CASE Start
  BY <1>1 DEF Start, Steps, Chosen, Stamped, AfterRemoval
<1>2. CASE ListCSVs
  <2>1. pc = "list" /\ UNCHANGED <<image, owner, todo>>
    BY <1>2 DEF ListCSVs
  <2>2. CASE TryAgain /\ UNCHANGED <<csv, unsure>>
    BY <2>1, <2>2 DEF TryAgain, Steps, Chosen, Stamped, AfterRemoval
  <2>3. CASE /\ csvs # {} /\ csv' = Newest(csvs) /\ pc' = "get" /\ UNCHANGED tries
             /\ unsure' = {u \in {"order"} : \E v, w \in csvs : Digits(v) # Digits(w)}
    <3>1. csv' \in Minors
      BY <2>3, NewestIsOne DEF HubType
    <3> QED
      BY <2>1, <2>3, <3>1 DEF Steps, Chosen, Stamped, AfterRemoval
  <2> QED
    BY <1>2, <2>2, <2>3 DEF ListCSVs
<1>3. CASE GetCSV
  BY <1>3 DEF GetCSV, TryAgain, Steps, Chosen, Stamped, AfterRemoval
<1>4. CASE ListConsoleCLIDownloads
  BY <1>4 DEF ListConsoleCLIDownloads, Steps, Chosen, Stamped, AfterRemoval
<1>5. CASE GetOwnerRef
  BY <1>5 DEF GetOwnerRef, HubType, Steps, Chosen, Stamped, AfterRemoval
<1>6. ASSUME NEW x \in OldResources \cup {"deployment"}, Remove(x)
      PROVE  ManagerType' /\ StepInv'
  BY <1>6 DEF Remove, Steps, Chosen, Stamped, AfterRemoval
<1>7. CASE ApplyDeployment
  <2>1. pc = "remove" /\ todo = {} /\ UNCHANGED <<tries, csv, image, owner, todo>>
    BY <1>7 DEF ApplyDeployment
  <2>2. pc' \in {"service", "failed"} /\ unsure' \subseteq unsure \cup {"owner"}
    BY <1>7 DEF ApplyDeployment, Apply, NextStep
  <2> QED
    BY <2>1, <2>2 DEF Steps, Chosen, Stamped, AfterRemoval
<1>8. CASE ApplyServiceOrRoute
  <2>1. pc \in {"service", "route"} /\ UNCHANGED <<tries, csv, image, owner, todo>>
    BY <1>8 DEF ApplyServiceOrRoute
  <2>2. pc' \in {"route", "getroute", "failed"} /\ unsure' \subseteq unsure \cup {"owner"}
    BY <1>8 DEF ApplyServiceOrRoute, Apply, NextStep
  <2> QED
    BY <2>1, <2>2 DEF Steps, Chosen, Stamped, AfterRemoval
<1>9. CASE GetRoute
  BY <1>9 DEF GetRoute, Steps, Chosen, Stamped, AfterRemoval
<1>10. CASE GetClusterScopedOwnerRef
  BY <1>10 DEF GetClusterScopedOwnerRef, HubType, Steps, Chosen, Stamped, AfterRemoval
<1>11. CASE ApplyConsoleCLIDownload
  BY <1>11 DEF ApplyConsoleCLIDownload, Steps, Chosen, Stamped, AfterRemoval
<1>12. CASE Upgrade \/ Restart \/ Disable
  <2>1. pc' = "down" /\ UNCHANGED <<tries, csv, image, owner, todo, unsure>>
    BY <1>12 DEF Upgrade, Restart, Disable, Stop
  <2> QED
    BY <2>1 DEF Steps, Chosen, Stamped, AfterRemoval
<1>13. CASE RemoveCSV \/ Enable \/ CollectGarbage
  <2>1. UNCHANGED <<pc, tries, csv, image, owner, todo, unsure>>
    BY <1>13 DEF RemoveCSV, Enable, CollectGarbage
  <2> QED
    BY <2>1
<1> QED
  BY <1>1, <1>2, <1>3, <1>4, <1>5, <1>6, <1>7, <1>8, <1>9, <1>10, <1>11, <1>12, <1>13
     DEF Next, Manager

LEMMA TypedStep ==
  ASSUME Typed, Next
  PROVE  Typed'
<1>1. HubType'
  BY HubStep DEF Typed
<1> QED
  BY <1>1, ClusterStep, ManagerStep DEF Typed

-----------------------------------------------------------------------------
(* The manager and the hub it started on.                                  *)

LEMMA HubKept ==
  ASSUME Typed, HubInv, Next
  PROVE  HubInv'
<1>1. CASE Manager
  <2>1. UNCHANGED hub
    BY <1>1 DEF Manager, Start, ListCSVs, GetCSV, ListConsoleCLIDownloads, GetOwnerRef, Remove,
                ApplyDeployment, ApplyServiceOrRoute, GetRoute, GetClusterScopedOwnerRef,
                ApplyConsoleCLIDownload
  <2>2. enabled = TRUE
    BY <1>1 DEF HubInv, Typed, HubType, Manager, Start, ListCSVs, GetCSV, ListConsoleCLIDownloads,
                GetOwnerRef, Remove, ApplyDeployment, ApplyServiceOrRoute, GetRoute,
                GetClusterScopedOwnerRef, ApplyConsoleCLIDownload
  <2> QED
    BY <2>1, <2>2 DEF hub, HubInv
<1>2. CASE Upgrade
  <2>1. PICK v \in Minors : v > release /\ release' = v /\ csvs' = csvs \cup {v} /\ pc' = "down"
    BY <1>2 DEF Upgrade, Stop
  <2>2. \A w \in csvs' : w <= release'
    <3>1. v \in 1 .. 99 /\ release \in 1 .. 99 /\ csvs \subseteq 1 .. 99
      BY DEF Typed, HubType
    <3> QED
      BY <2>1, <3>1 DEF HubInv
  <2> QED
    BY <2>1, <2>2 DEF HubInv
<1>3. CASE RemoveCSV
  <2>1. release \in 1 .. 99
    BY DEF Typed, HubType
  <2> QED
    BY <1>3, <2>1 DEF RemoveCSV, HubInv
<1>4. CASE Restart \/ Disable
  BY <1>4 DEF Restart, Disable, Stop, hub, HubInv
<1>5. CASE Enable
  BY <1>5 DEF Enable, HubInv
<1>6. CASE CollectGarbage
  BY <1>6 DEF CollectGarbage, hub, HubInv
<1> QED
  BY <1>1, <1>2, <1>3, <1>4, <1>5, <1>6 DEF Next

\* While the manager runs, the hub is as it found it.
LEMMA HubSteady ==
  ASSUME HubInv, Typed, Next, pc' # "down"
  PROVE  UNCHANGED <<epoch, release, pinned>>
<1>1. ~Upgrade /\ ~Enable
  <2>1. Enable => pc = "down" /\ pc' = pc
    BY DEF Enable, HubInv
  <2>2. Upgrade => pc' = "down"
    BY DEF Upgrade, Stop
  <2> QED
    BY <2>1, <2>2
<1> QED
  BY <1>1 DEF Next, Manager, Start, ListCSVs, GetCSV, ListConsoleCLIDownloads, GetOwnerRef, Remove,
              ApplyDeployment, ApplyServiceOrRoute, GetRoute, GetClusterScopedOwnerRef,
              ApplyConsoleCLIDownload, RemoveCSV, Restart, Disable, CollectGarbage, hub

LEMMA ChoiceKept ==
  ASSUME Typed, HubInv, ChoiceInv, Next
  PROVE  ChoiceInv'
<1> USE DEF ChoiceInv, Image
<1>1. CASE pc' = "down"
  BY <1>1 DEF Chosen, Stamped, AfterRemoval
<1>2. CASE pc' # "down" /\ Start
  BY <1>2, HubSteady DEF Start, Chosen, Stamped, AfterRemoval
<1>3. CASE pc' # "down" /\ ListCSVs
  <2>1. UNCHANGED <<epoch, release, pinned>> /\ pc = "list"
    BY <1>3, HubSteady DEF ListCSVs
  <2>2. CASE TryAgain
    BY <2>1, <2>2 DEF TryAgain, Chosen, Stamped, AfterRemoval
  <2>3. CASE /\ csvs # {} /\ csv' = Newest(csvs) /\ pc' = "get"
             /\ unsure' = {u \in {"order"} : \E v, w \in csvs : Digits(v) # Digits(w)}
    <3>1. unsure' = {} => \A v, w \in csvs : Digits(v) = Digits(w)
      BY <2>3
    <3>2. unsure' = {} => csv' = release
      BY <2>3, <3>1, NewestIsGreatest DEF HubInv, Typed, HubType
    <3> QED
      BY <2>1, <2>3, <3>2 DEF Chosen, Stamped, AfterRemoval
  <2> QED
    BY <1>3, <2>2, <2>3 DEF ListCSVs
<1>4. CASE pc' # "down" /\ GetCSV
  BY <1>4, HubSteady DEF GetCSV, TryAgain, Chosen, Stamped, AfterRemoval
<1>5. CASE pc' # "down" /\ (ListConsoleCLIDownloads \/ GetOwnerRef)
  BY <1>5, HubSteady DEF ListConsoleCLIDownloads, GetOwnerRef, Chosen, Stamped, AfterRemoval
<1>6. CASE pc' # "down" /\ \E x \in OldResources \cup {"deployment"} : Remove(x)
  <2>1. UNCHANGED <<epoch, release, pinned, pc, image, owner>> /\ pc = "remove"
    BY <1>6, HubSteady DEF Remove
  <2>2. unsure' = {} => unsure = {}
    BY <1>6 DEF Remove
  <2> QED
    BY <2>1, <2>2
<1>7. CASE pc' # "down" /\ (ApplyDeployment \/ ApplyServiceOrRoute)
  <2>1. UNCHANGED <<epoch, release, pinned, image, owner>> /\ pc \in {"remove", "service", "route"}
    BY <1>7, HubSteady DEF ApplyDeployment, ApplyServiceOrRoute
  <2>2. pc' \in {"service", "route", "getroute", "failed"} /\ (unsure' = {} => unsure = {})
    BY <1>7 DEF ApplyDeployment, ApplyServiceOrRoute, Apply, NextStep
  <2> QED
    BY <2>1, <2>2 DEF Chosen, Stamped, AfterRemoval
<1>8. CASE pc' # "down" /\ (GetRoute \/ GetClusterScopedOwnerRef \/ ApplyConsoleCLIDownload)
  BY <1>8, HubSteady DEF GetRoute, GetClusterScopedOwnerRef, ApplyConsoleCLIDownload,
                         Chosen, Stamped, AfterRemoval
<1>9. CASE pc' # "down" /\ (RemoveCSV \/ Enable \/ CollectGarbage)
  <2>1. UNCHANGED <<epoch, release, pinned>>
    BY <1>9, HubSteady
  <2>2. UNCHANGED <<pc, csv, image, owner, unsure>>
    BY <1>9 DEF RemoveCSV, Enable, CollectGarbage
  <2> QED
    BY <2>1, <2>2
<1>10. Upgrade \/ Restart \/ Disable => pc' = "down"
  BY DEF Upgrade, Restart, Disable, Stop
<1> QED
  BY <1>1, <1>2, <1>3, <1>4, <1>5, <1>6, <1>7, <1>8, <1>9, <1>10 DEF Next, Manager

-----------------------------------------------------------------------------
(* What a start has done by each of its steps.                             *)

\* Before the owner is known, and once it has failed, there is nothing to say.
LEMMA NoProgress ==
  ASSUME pc' \notin Stamped
  PROVE  ProgressInv'
<1>1. \A x : Applied(x) \subseteq Stamped
  BY DEF Applied, Stamped, AfterRemoval
<1> QED
  BY <1>1 DEF ProgressInv, Stamped, AfterRemoval

\* What was applied stays.
LEMMA OwnStays ==
  ASSUME NEW x \in Resources, Own(x), cli'[x] = cli[x], epoch' = epoch
  PROVE  Own(x)'
  BY DEF Own

LEMMA RemoveKeeps ==
  ASSUME Typed, ProgressInv, UNCHANGED <<epoch, release, pinned>>,
         NEW x \in OldResources \cup {"deployment"}, Remove(x)
  PROVE  ProgressInv'
<1>1. pc = "remove" /\ pc' = "remove" /\ todo' = todo \ {x}
  BY DEF Remove
<1>2. \A y \in Resources : "remove" \notin Applied(y)
  BY DEF Applied, AfterRemoval
<1>3. ASSUME unsure' = {}
      PROVE  old' \subseteq todo' /\ ("deployment" \in todo' \/ cli'["deployment"] = None)
  <2>1. unsure = {} /\ old' = old \ {x}
        /\ cli' = IF x = "deployment" THEN [cli EXCEPT ![x] = None] ELSE cli
    BY <1>3 DEF Remove
  <2>2. old \subseteq todo /\ ("deployment" \in todo \/ cli["deployment"] = None)
    BY <1>1, <2>1 DEF ProgressInv
  <2>3. CASE x = "deployment"
    BY <1>1, <2>1, <2>2, <2>3 DEF Typed, ClusterType, Resources
  <2>4. CASE x # "deployment"
    BY <1>1, <2>1, <2>2, <2>4
  <2> QED
    BY <2>3, <2>4
<1> QED
  BY <1>1, <1>2, <1>3 DEF ProgressInv, AfterRemoval

LEMMA DeploymentApplied ==
  ASSUME Typed, ChoiceInv, ProgressInv, UNCHANGED <<epoch, release, pinned>>, ApplyDeployment
  PROVE  ProgressInv'
<1>1. pc = "remove" /\ todo = {} /\ old' = old
  BY DEF ApplyDeployment
<1>2. CASE pc' = "failed"
  BY <1>2, NoProgress DEF Stamped, AfterRemoval
<1>3. CASE pc' = "service" /\ unsure' # {}
  BY <1>3 DEF ProgressInv
<1>4. CASE pc' = "service" /\ unsure' = {}
  <2>1. unsure = {}
    BY <1>4 DEF ApplyDeployment, Apply
  <2>2. old = {} /\ cli["deployment"] = None
    BY <1>1, <2>1 DEF ProgressInv
  <2>3. Puts("deployment", owner, image)
    BY <1>4, <2>2 DEF ApplyDeployment, Apply, Puts
  <2>4. image = Image /\ owner = epoch
    BY <1>1, <2>1 DEF ChoiceInv, Chosen, Stamped
  <2>5. cli'["deployment"] = [owner |-> owner, contents |-> image] /\ cli'["deployment"] # None
    BY <2>3, PutsTyped DEF Typed, ManagerType, Resources
  <2>6. \A y \in Resources : "service" \in Applied(y) => y = "deployment"
    BY DEF Applied, AfterRemoval, Resources
  <2>7. Own("deployment")' /\ cli'["deployment"].contents = Image'
    BY <2>4, <2>5 DEF Own, Image
  <2> QED
    BY <1>1, <1>4, <2>2, <2>6, <2>7 DEF ProgressInv, AfterRemoval
<1>5. pc' \in {"failed", "service"}
  BY DEF ApplyDeployment, Apply, NextStep
<1> QED
  BY <1>2, <1>3, <1>4, <1>5

\* A Service or a Route that is there belongs to the manager, or it is unsure.
LEMMA ServiceOrRouteApplied ==
  ASSUME Typed, ChoiceInv, ProgressInv, UNCHANGED <<epoch, release, pinned>>, ApplyServiceOrRoute
  PROVE  ProgressInv'
<1>1. PICK x \in {"service", "route"} : pc = x /\ Apply(x, None)
  BY DEF ApplyServiceOrRoute
<1>2. old' = old /\ x \in Resources /\ x \notin {"deployment", "download"}
  BY DEF ApplyServiceOrRoute, Resources
<1>3. pc' = "failed" \/ (x = "service" /\ pc' = "route") \/ (x = "route" /\ pc' = "getroute")
  BY <1>1 DEF Apply, NextStep
<1>4. CASE pc' = "failed"
  BY <1>4, NoProgress DEF Stamped, AfterRemoval
<1>5. CASE unsure' # {}
  BY <1>5 DEF ProgressInv
<1>6. CASE pc' # "failed" /\ unsure' = {}
  <2>1. pc \in AfterRemoval /\ pc' \in AfterRemoval \ {"done"}
    BY <1>1, <1>3, <1>6 DEF AfterRemoval
  <2>2. unsure = {}
    BY <1>1, <1>6 DEF Apply
  <2>3. /\ old = {} /\ cli["deployment"].contents = Image
        /\ \A y \in Resources : pc \in Applied(y) => Own(y)
    BY <2>1, <2>2 DEF ProgressInv
  <2>4. \/ cli[x] = None /\ Puts(x, owner, None)
        \/ cli[x] # None /\ UNCHANGED cli /\ cli[x].owner = owner
    BY <1>1, <1>6 DEF Apply, Puts
  <2>5. owner = epoch /\ owner \in Nat \cup {None}
    BY <2>1 DEF ChoiceInv, Stamped, Typed, ManagerType
  <2>6. /\ \A y \in Resources \ {x} : cli'[y] = cli[y]
        /\ cli'[x] # None /\ cli'[x].owner = owner
    <3>1. CASE UNCHANGED cli /\ cli[x] # None /\ cli[x].owner = owner
      BY <3>1
    <3>2. CASE Puts(x, owner, None)
      <4>1. ClusterType /\ None \in Minors \cup {Pinned, None}
        BY DEF Typed
      <4>2. /\ cli'[x] = [owner |-> owner, contents |-> None] /\ cli'[x] # None
            /\ \A y \in Resources \ {x} : cli'[y] = cli[y]
        BY <1>2, <2>5, <3>2, <4>1, PutsTyped
      <4> QED
        BY <4>2
    <3> QED
      BY <2>4, <3>1, <3>2
  <2>7. \A y \in Resources : pc' \in Applied(y) => y = x \/ pc \in Applied(y)
    BY <1>1, <1>3, <1>6 DEF Applied, AfterRemoval, Resources
  <2>8. Own(x)'
    BY <2>5, <2>6 DEF Own
  <2>9. \A y \in Resources : pc' \in Applied(y) => Own(y)'
    BY <2>3, <2>6, <2>7, <2>8, OwnStays
  <2>10. cli'["deployment"].contents = Image'
    BY <1>2, <2>3, <2>6 DEF Image, Resources
  <2> QED
    BY <1>2, <2>1, <2>3, <2>9, <2>10 DEF ProgressInv, AfterRemoval
<1> QED
  BY <1>3, <1>4, <1>5, <1>6

LEMMA RouteRead ==
  ASSUME ProgressInv, UNCHANGED <<epoch, release, pinned>>, GetRoute \/ GetClusterScopedOwnerRef
  PROVE  ProgressInv'
<1>1. /\ UNCHANGED <<old, cli, unsure>> /\ pc \in {"getroute", "clusterrole"}
      /\ pc' \in {"clusterrole", "download", "failed"}
  BY DEF GetRoute, GetClusterScopedOwnerRef
<1>2. CASE pc' = "failed"
  BY <1>2, NoProgress DEF Stamped, AfterRemoval
<1>3. CASE pc' \in {"clusterrole", "download"}
  <2>1. \A y \in Resources : pc' \in Applied(y) => pc \in Applied(y)
    BY <1>1, <1>3 DEF Applied, AfterRemoval, Resources
  <2> QED
    BY <1>1, <1>3, <2>1 DEF ProgressInv, Own, Image, AfterRemoval
<1> QED
  BY <1>1, <1>2, <1>3

LEMMA DownloadApplied ==
  ASSUME Typed, ChoiceInv, ProgressInv, UNCHANGED <<epoch, release, pinned>>, ApplyConsoleCLIDownload
  PROVE  ProgressInv'
<1>1. pc = "download" /\ UNCHANGED <<old, unsure>>
  BY DEF ApplyConsoleCLIDownload
<1>2. CASE pc' = "failed"
  BY <1>2, NoProgress DEF Stamped, AfterRemoval
<1>3. CASE unsure # {}
  BY <1>1, <1>3 DEF ProgressInv
<1>4. CASE pc' = "done" /\ Puts("download", owner, release) /\ unsure = {}
  <2>1. owner = epoch /\ owner \in Nat \cup {None} /\ release \in Minors
    BY <1>1 DEF ChoiceInv, Stamped, AfterRemoval, Typed, ManagerType, HubType
  <2>2. /\ cli'["download"] = [owner |-> owner, contents |-> release] /\ cli'["download"] # None
        /\ \A y \in Resources \ {"download"} : cli'[y] = cli[y]
    BY <1>4, <2>1, PutsTyped DEF Typed, Resources
  <2>3. /\ old = {} /\ cli["deployment"].contents = Image
        /\ \A y \in Resources : pc \in Applied(y) => Own(y)
    BY <1>1, <1>4 DEF ProgressInv, AfterRemoval
  <2>4. \A y \in Resources \ {"download"} : pc \in Applied(y)
    BY <1>1 DEF Applied, AfterRemoval, Resources
  <2>5. \A y \in Resources \ {"download"} : Own(y)'
    BY <2>2, <2>3, <2>4, OwnStays
  <2>6. Own("download")' /\ cli'["download"].contents = release'
    BY <2>1, <2>2 DEF Own
  <2>7. cli'["deployment"].contents = Image'
    BY <2>2, <2>3 DEF Image, Resources
  <2> QED
    BY <1>1, <1>4, <2>3, <2>5, <2>6, <2>7 DEF ProgressInv, AfterRemoval
<1> QED
  BY <1>2, <1>3, <1>4 DEF ApplyConsoleCLIDownload, Puts

\* The garbage collector takes nothing away that belongs to the manager.
LEMMA GarbageKeeps ==
  ASSUME Typed, HubInv, ProgressInv, CollectGarbage
  PROVE  ProgressInv'
<1>1. UNCHANGED <<epoch, release, pinned, old, pc, todo, unsure>>
  BY DEF CollectGarbage, hub
<1>2. PICK x \in Resources : /\ enabled => cli[x].owner # epoch
                             /\ Drops(x)
  BY DEF CollectGarbage, Drops
<1>3. cli'[x] = None /\ \A y \in Resources \ {x} : cli'[y] = cli[y]
  BY <1>2, DropsTyped DEF Typed
<1>4. CASE pc' = "down"
  BY <1>4, NoProgress DEF Stamped, AfterRemoval
<1>5. CASE pc # "down"
  <2>1. ~Own(x)
    BY <1>2, <1>5 DEF Own, HubInv
  <2>2. ASSUME NEW y \in Resources, Own(y)
        PROVE  Own(y)' /\ cli'[y] = cli[y]
    BY <1>1, <1>3, <2>1, <2>2, OwnStays
  <2>3. "deployment" \in Resources /\ "download" \in Resources
    BY DEF Resources
  <2>4. CASE unsure # {}
    BY <1>1, <2>4 DEF ProgressInv
  <2>5. CASE unsure = {}
    <3>1. /\ pc = "remove" => old \subseteq todo /\ ("deployment" \in todo \/ cli["deployment"] = None)
          /\ pc \in AfterRemoval => old = {}
          /\ \A y \in Resources : pc \in Applied(y) => Own(y)
          /\ pc \in AfterRemoval => cli["deployment"].contents = Image
          /\ pc = "done" => cli["download"].contents = release
      BY <2>5 DEF ProgressInv
    <3>2. cli["deployment"] = None => cli'["deployment"] = None
      BY <1>3, <2>3
    <3>3. pc \in AfterRemoval => Own("deployment")
      BY <2>3, <3>1 DEF Applied
    <3>4. pc = "done" => Own("download")
      BY <2>3, <3>1 DEF Applied
    <3>5. pc \in AfterRemoval => cli'["deployment"].contents = Image'
      BY <1>1, <2>2, <2>3, <3>1, <3>3 DEF Image
    <3>6. pc = "done" => cli'["download"].contents = release'
      BY <1>1, <2>2, <2>3, <3>1, <3>4
    <3> QED
      BY <1>1, <2>2, <3>1, <3>2, <3>5, <3>6 DEF ProgressInv
  <2> QED
    BY <2>4, <2>5
<1> QED
  BY <1>1, <1>4, <1>5

LEMMA ProgressKept ==
  ASSUME Typed, HubInv, ChoiceInv, ProgressInv, Next
  PROVE  ProgressInv'
<1>1. CASE pc' = "down"
  BY <1>1, NoProgress DEF Stamped, AfterRemoval
<1>2. CASE Start \/ ListCSVs \/ GetCSV \/ ListConsoleCLIDownloads
  <2>1. pc' \notin Stamped
    BY <1>2 DEF Start, ListCSVs, GetCSV, TryAgain, ListConsoleCLIDownloads, Stamped, AfterRemoval
  <2> QED
    BY <2>1, NoProgress
<1>3. CASE GetOwnerRef
  <2>1. CASE pc' = "failed"
    BY <2>1, NoProgress DEF Stamped, AfterRemoval
  <2>2. CASE pc' = "remove" /\ todo' = OldResources \cup {"deployment"}
    <3>1. old' \subseteq todo'
      BY <1>3, <2>2 DEF GetOwnerRef, Typed, ClusterType
    <3> QED
      BY <2>2, <3>1 DEF ProgressInv, Applied, AfterRemoval
  <2> QED
    BY <1>3, <2>1, <2>2 DEF GetOwnerRef
<1>4. CASE pc' # "down" /\ \E x \in OldResources \cup {"deployment"} : Remove(x)
  BY <1>4, HubSteady, RemoveKeeps
<1>5. CASE pc' # "down" /\ ApplyDeployment
  BY <1>5, HubSteady, DeploymentApplied
<1>6. CASE pc' # "down" /\ ApplyServiceOrRoute
  BY <1>6, HubSteady, ServiceOrRouteApplied
<1>7. CASE pc' # "down" /\ (GetRoute \/ GetClusterScopedOwnerRef)
  BY <1>7, HubSteady, RouteRead
<1>8. CASE pc' # "down" /\ ApplyConsoleCLIDownload
  BY <1>8, HubSteady, DownloadApplied
<1>9. CASE pc' # "down" /\ (RemoveCSV \/ Enable)
  <2>1. UNCHANGED <<epoch, release, pinned>>
    BY <1>9, HubSteady
  <2>2. UNCHANGED <<old, cli, pc, todo, unsure>>
    BY <1>9 DEF RemoveCSV, Enable
  <2> QED
    BY <2>1, <2>2 DEF ProgressInv, Own, Image
<1>10. CASE CollectGarbage
  BY <1>10, GarbageKeeps
<1>11. Upgrade \/ Restart \/ Disable => pc' = "down"
  BY DEF Upgrade, Restart, Disable, Stop
<1> QED
  BY <1>1, <1>2, <1>3, <1>4, <1>5, <1>6, <1>7, <1>8, <1>9, <1>10, <1>11 DEF Next, Manager

LEMMA InitDownload == Init => DownloadInv
<1> SUFFICES ASSUME Init PROVE DownloadInv
  OBVIOUS
<1>1. Typed
  BY InitTyped
<1>2. HubInv
  BY DEF Init, HubInv
<1>3. ChoiceInv
  BY DEF Init, ChoiceInv, Chosen, Stamped, AfterRemoval
<1>4. ProgressInv
  BY DEF Init, ProgressInv, Applied, AfterRemoval
<1> QED
  BY <1>1, <1>2, <1>3, <1>4 DEF DownloadInv

LEMMA NextDownload == DownloadInv /\ [Next]_vars => DownloadInv'
<1> SUFFICES ASSUME DownloadInv, [Next]_vars PROVE DownloadInv'
  OBVIOUS
<1>1. CASE Next
  BY <1>1, TypedStep, HubKept, ChoiceKept, ProgressKept DEF DownloadInv
<1>2. CASE UNCHANGED vars
  <2> USE <1>2 DEF vars, hub, DownloadInv
  <2>1. Typed'
    BY DEF Typed, HubType, ClusterType, ManagerType, StepInv
  <2>2. HubInv' /\ ChoiceInv'
    BY DEF HubInv, ChoiceInv, Image
  <2>3. ProgressInv'
    BY DEF ProgressInv, Own, Image
  <2> QED
    BY <2>1, <2>2, <2>3
<1> QED
  BY <1>1, <1>2

LEMMA DownloadHolds == Spec => []DownloadInv
  BY InitDownload, NextDownload, PTL DEF Spec

-----------------------------------------------------------------------------
(* The theorems.                                                           *)

\* Every variable has its type, the attempts to find a ClusterServiceVersion
\* among them, and nothing is applied without an image and an owner or before
\* what was there is removed (EnableHypershiftCLIDownload, getMCECSVWithRetry).
THEOREM TypeCorrect == Spec => []TypeOK
<1>1. DownloadInv => TypeOK
  <2> SUFFICES ASSUME DownloadInv PROVE TypeOK
    OBVIOUS
  <2>1. HubType /\ ClusterType /\ ManagerType /\ StepInv /\ ChoiceInv
    BY DEF DownloadInv, Typed
  <2>2. \A x \in Resources : cli[x] # None => cli[x] \in Resource
    BY <2>1 DEF ClusterType
  <2>3. pc \in {"service", "route", "getroute", "clusterrole", "download"} =>
          image # None /\ owner # None /\ todo = {}
    BY <2>1 DEF StepInv, Chosen, Stamped, AfterRemoval
  <2> QED
    BY <2>1, <2>2, <2>3 DEF TypeOK, HubType, ClusterType, ManagerType
<1> QED
  BY <1>1, DownloadHolds, PTL

\* What a start finished to apply is of the present release, complete, and with
\* nothing left of the old names (deployHCPCLIDownload), though the release, the
\* owner and the resources may change while it runs.
THEOREM SettledComplete == Spec => []SettledDownload
<1>1. DownloadInv => SettledDownload
  <2> SUFFICES ASSUME DownloadInv, pc = "done", unsure = {}
               PROVE  /\ old = {}
                      /\ \A x \in Resources : cli[x] # None /\ cli[x].owner = epoch
                      /\ cli["deployment"].contents = IF pinned THEN Pinned ELSE release
                      /\ cli["download"].contents = release
    BY DEF SettledDownload
  <2>1. \A x \in Resources : pc \in Applied(x)
    BY DEF Applied, AfterRemoval
  <2> QED
    BY <2>1 DEF DownloadInv, ProgressInv, AfterRemoval, Own, Image
<1> QED
  BY <1>1, DownloadHolds, PTL
=================================================================================
