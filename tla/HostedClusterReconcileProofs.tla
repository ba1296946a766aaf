--------------------- MODULE HostedClusterReconcileProofs ---------------------
(***************************************************************************)
(* Theorems about HostedClusterReconcile for every set of HCs, names,      *)
(* annotations and contents, and any number of changes.                    *)
(***************************************************************************)
EXTENDS HostedClusterReconcile, TLAPS

USE ConstantsAssumption DEF ConstantsAssumption

-----------------------------------------------------------------------------
(* The invariant behind SettledOwners.                                     *)

\* Which copy of the HC a reconcile works with at which step.
CopyOK(h) ==
  /\ pc[h] = "deleteMirrors" => seen[h].phase = "absent"
  /\ pc[h] \in MirrorSteps => seen[h].phase = "available"

\* An HC is gone, an agent was there to see it, and no request is queued.
Unqueued(h) == hcs[h].phase = "absent" /\ h \notin missed /\ h \notin queue

\* Then it has no secrets, or its running reconcile knows that it is gone.
GoneOK(h) == Unqueued(h) =>
  IF pc[h] = "idle" THEN Owned(h) = {} ELSE seen[h].phase = "absent"

OwnersInv == \A h \in HCs : CopyOK(h) /\ GoneOK(h)

-----------------------------------------------------------------------------
(* Type correctness                                                        *)

\* The MC name of an HC is a name, and so is that of its klusterlet.
LEMMA NameTypes ==
  ASSUME NEW h \in HCs, NEW hc \in HCState
  PROVE  /\ MCName(h, hc) \in Names
         /\ KlusterletName(h, hc) \in Names
BY DEF MCName, KlusterletName, HCState

\* A reconcile that ends keeps the types.
LEMMA RestType ==
  ASSUME TypeOK, NEW h \in HCs, Rest(h)
  PROVE  /\ pc' \in [HCs -> Steps]
         /\ seen' \in [HCs -> HCState]
         /\ data' \in [HCs -> Data]
         /\ failed' \in [HCs -> BOOLEAN]
BY DEF Rest, Goto, TypeOK, Steps, NoHC, HCState, Data

\* So does one that goes on after deleteManagedCluster.
LEMMA AfterClusterType ==
  ASSUME TypeOK, NEW h \in HCs, AfterCluster(h)
  PROVE  /\ pc' \in [HCs -> Steps]
         /\ seen' \in [HCs -> HCState]
         /\ data' \in [HCs -> Data]
         /\ failed' \in [HCs -> BOOLEAN]
<1>1. CASE seen[h].phase = "absent"
  BY <1>1 DEF AfterCluster, Goto, TypeOK, Steps
<1>2. CASE seen[h].phase # "absent"
  BY <1>2, RestType DEF AfterCluster
<1> QED BY <1>1, <1>2

\* Deleting secrets, and storing one, keep the types.
LEMMA MirrorType ==
  ASSUME TypeOK
  PROVE  /\ \A keys : Delete(keys) => mirror' \in [Names \X Kinds -> MirrorState]
         /\ \A h \in HCs : \A kind \in Kinds :
              Store(h, kind) => mirror' \in [Names \X Kinds -> MirrorState]
<1>1. NoMirror \in MirrorState
  BY DEF NoMirror, MirrorState, Data
<1>2. ASSUME NEW keys, Delete(keys)
      PROVE  mirror' \in [Names \X Kinds -> MirrorState]
  BY <1>1, <1>2 DEF Delete, TypeOK
<1>3. ASSUME NEW h \in HCs, NEW kind \in Kinds, Store(h, kind)
      PROVE  mirror' \in [Names \X Kinds -> MirrorState]
  <2> DEFINE key == <<MCName(h, seen[h]), kind>>
             new == [owner |-> IF mirror[key].owner = 0 THEN h ELSE mirror[key].owner,
                     data |-> data[h]]
  <2>1. key \in Names \X Kinds
    BY NameTypes DEF TypeOK
  <2>2. new \in MirrorState
    BY <2>1 DEF TypeOK, MirrorState
  <2>3. mirror' = [mirror EXCEPT ![key] = new]
    BY <1>3, <2>1 DEF Store, TypeOK
  <2> QED BY <2>1, <2>2, <2>3 DEF TypeOK
<1> QED BY <1>2, <1>3

\* A reconcile keeps the types.
LEMMA ReconcileType ==
  ASSUME TypeOK, NEW h \in HCs, Reconcile(h)
  PROVE  TypeOK'
<1> USE DEF clusterVars, hubVars, workVars, watchVars, historyVars
<1>1. CASE GetHC(h)
  <2>1. CASE hcs[h].phase = "pending"
    BY <1>1, <2>1 DEF GetHC, TypeOK
  <2>2. CASE hcs[h].phase # "pending"
    <3>1. FirstStep[hcs[h].phase] \in Steps
      BY <2>2 DEF TypeOK, HCState, FirstStep, Steps, ClusterSteps, MirrorSteps
    <3> QED BY <1>1, <2>2, <3>1 DEF GetHC, Goto, TypeOK
  <2> QED BY <2>1, <2>2
<1>2. CASE GetMC(h)
  <2>1. pc' \in [HCs -> Steps]
    BY <1>2 DEF GetMC, Goto, TypeOK, Steps, ClusterSteps
  <2> QED BY <1>2, <2>1 DEF GetMC, TypeOK
<1>3. CASE DeleteMC(h)
  <2> DEFINE name == MCName(h, seen[h])
  <2>1. CASE mc[name] # "absent"
    <3>1. mc' \in [Names -> {"absent", "hosted", "other", "deleting"}]
      BY <1>3, <2>1, NameTypes DEF DeleteMC, TypeOK
    <3>2. pc' \in [HCs -> Steps] /\ UNCHANGED <<seen, data, failed>>
      BY <1>3, <2>1 DEF DeleteMC, Goto, TypeOK, Steps, ClusterSteps
    <3> QED BY <1>3, <3>1, <3>2 DEF DeleteMC, TypeOK
  <2>2. CASE mc[name] = "absent"
    <3>1. AfterCluster(h) /\ UNCHANGED mc
      BY <1>3, <2>2 DEF DeleteMC
    <3> QED BY <1>3, <3>1, AfterClusterType DEF DeleteMC, TypeOK
  <2> QED BY <2>1, <2>2
<1>4. CASE Release(h)
  <2>1. klusterlet' \in [Names -> {"absent", "held", "free"}]
    BY <1>4 DEF Release, TypeOK
  <2> QED BY <1>4, <2>1, AfterClusterType DEF Release, TypeOK
<1>5. CASE DeleteMirrors(h)
  BY <1>5, RestType, MirrorType DEF DeleteMirrors, TypeOK
<1>6. CASE GetKubeconfig(h)
  <2>1. data' \in [HCs -> Data] /\ failed' \in [HCs -> BOOLEAN]
    BY <1>6 DEF GetKubeconfig, TypeOK
  <2>2. pc' \in [HCs -> Steps]
    BY <1>6 DEF GetKubeconfig, Goto, TypeOK, Steps, MirrorSteps
  <2> QED BY <1>6, <2>1, <2>2 DEF GetKubeconfig, TypeOK
<1>7. CASE PutExternal(h)
  <2>1. ext' \in [Names -> Data]
    BY <1>7 DEF PutExternal, TypeOK
  <2> QED BY <1>7, <2>1 DEF PutExternal, Goto, TypeOK, Steps, MirrorSteps
<1>8. CASE PushKubeconfig(h)
  <2>1. mirror' \in [Names \X Kinds -> MirrorState]
    BY <1>8, MirrorType DEF PushKubeconfig, Kinds
  <2> QED BY <1>8, <2>1 DEF PushKubeconfig, Goto, TypeOK, Steps, MirrorSteps
<1>9. CASE GetPassword(h)
  <2>1. hcs[h].password \in Data
    BY DEF TypeOK, HCState
  <2>2. mirror' \in [Names \X Kinds -> MirrorState]
    BY <1>9, MirrorType DEF GetPassword, TypeOK
  <2>3. /\ pc' \in [HCs -> Steps]
        /\ data' \in [HCs -> Data]
        /\ failed' \in [HCs -> BOOLEAN]
        /\ lost' \subseteq HCs
    BY <1>9, <2>1 DEF GetPassword, Goto, TypeOK, Steps, MirrorSteps
  <2> QED BY <1>9, <2>2, <2>3 DEF GetPassword, TypeOK
<1>10. CASE PushPassword(h)
  <2>1. mirror' \in [Names \X Kinds -> MirrorState]
    BY <1>10, MirrorType DEF PushPassword, Kinds
  <2> QED BY <1>10, <2>1 DEF PushPassword, Goto, TypeOK, Steps, MirrorSteps
<1>11. CASE Claim(h)
  <2>1. Rest(h) /\ queue' \subseteq HCs
    BY <1>11 DEF Claim, Requeue, TypeOK
  <2> QED BY <1>11, <2>1, RestType DEF Claim, TypeOK
<1> QED BY <1>1, <1>2, <1>3, <1>4, <1>5, <1>6, <1>7, <1>8, <1>9, <1>10, <1>11 DEF Reconcile

\* Failing calls keep the types.
LEMMA FailsType ==
  ASSUME TypeOK, NEW h \in HCs, Fails(h)
  PROVE  TypeOK'
<1> USE DEF clusterVars, hubVars, workVars, watchVars, historyVars, Change
<1>1. CASE MirrorFails(h)
  <2>1. NextStep[pc[h]] \in Steps
    BY <1>1 DEF MirrorFails, NextStep, Steps, MirrorSteps
  <2> QED BY <1>1, <2>1 DEF MirrorFails, Goto, TypeOK
<1>2. CASE DeleteMirrorsFails(h)
  <2>1. mirror' \in [Names \X Kinds -> MirrorState]
    BY <1>2, MirrorType DEF DeleteMirrorsFails
  <2>2. Rest(h) /\ queue' \subseteq HCs
    BY <1>2 DEF DeleteMirrorsFails, Requeue, TypeOK
  <2> QED BY <1>2, <2>1, <2>2, RestType DEF DeleteMirrorsFails, TypeOK
<1>3. CASE DeletePasswordFails(h)
  <2>1. mirror' \in [Names \X Kinds -> MirrorState]
    BY <1>3, MirrorType DEF DeletePasswordFails
  <2> QED BY <1>3, <2>1 DEF DeletePasswordFails, Goto, TypeOK, Steps, MirrorSteps
<1>4. CASE ClusterFails(h)
  BY <1>4, AfterClusterType DEF ClusterFails, TypeOK
<1> QED BY <1>1, <1>2, <1>3, <1>4 DEF Fails

\* The watchers keep the types.
LEMMA WatchType ==
  ASSUME TypeOK,
         \/ \E h \in HCs : SeeSecret(h) \/ WatchKubeconfig(h)
         \/ \E name \in Names : WatchKlusterlet(name)
  PROVE  TypeOK'
<1> USE DEF clusterVars, hubVars, workVars, watchVars, historyVars
<1>1. ASSUME NEW h \in HCs, SeeSecret(h)
      PROVE  TypeOK'
  BY <1>1 DEF SeeSecret, TypeOK
<1>2. ASSUME NEW h \in HCs, WatchKubeconfig(h)
      PROVE  TypeOK'
  BY <1>2 DEF WatchKubeconfig, Updated, TypeOK
<1>3. ASSUME NEW name \in Names, WatchKlusterlet(name)
      PROVE  TypeOK'
  <2>1. PICK h \in HCsOf(name) : Updated(h)
    BY <1>3 DEF WatchKlusterlet
  <2>2. h \in HCs
    BY <2>1 DEF HCsOf, Named, Discovered, Existing
  <2>3. queue' \subseteq HCs
    BY <2>1, <2>2 DEF Updated, TypeOK
  <2> QED BY <1>3, <2>3 DEF WatchKlusterlet, TypeOK
<1> QED BY <1>1, <1>2, <1>3

\* An HC with another value in one field is an HC.
LEMMA FieldTypes ==
  ASSUME TypeOK, NEW h \in HCs
  PROVE  /\ \A x \in {"absent", "pending", "available", "deleting"} :
              [hcs EXCEPT ![h].phase = x] \in [HCs -> HCState]
         /\ \A x \in Names \cup {NoName} : [hcs EXCEPT ![h].anno = x] \in [HCs -> HCState]
         /\ \A x \in Data : [hcs EXCEPT ![h].password = x] \in [HCs -> HCState]
         /\ \A x \in BOOLEAN : [hcs EXCEPT ![h].complete = x] \in [HCs -> HCState]
<1>1. hcs \in [HCs -> HCState] /\ hcs[h] \in HCState
  BY DEF TypeOK
<1>2. ASSUME NEW x \in {"absent", "pending", "available", "deleting"}
      PROVE  [hcs EXCEPT ![h].phase = x] \in [HCs -> HCState]
  <2>1. [hcs[h] EXCEPT !.phase = x] \in HCState
    BY <1>1 DEF HCState
  <2> QED BY <1>1, <2>1
<1>3. ASSUME NEW x \in Names \cup {NoName}
      PROVE  [hcs EXCEPT ![h].anno = x] \in [HCs -> HCState]
  <2>1. [hcs[h] EXCEPT !.anno = x] \in HCState
    BY <1>1 DEF HCState
  <2> QED BY <1>1, <2>1
<1>4. ASSUME NEW x \in Data
      PROVE  [hcs EXCEPT ![h].password = x] \in [HCs -> HCState]
  <2>1. [hcs[h] EXCEPT !.password = x] \in HCState
    BY <1>1 DEF HCState
  <2> QED BY <1>1, <2>1
<1>5. ASSUME NEW x \in BOOLEAN
      PROVE  [hcs EXCEPT ![h].complete = x] \in [HCs -> HCState]
  <2>1. [hcs[h] EXCEPT !.complete = x] \in HCState
    BY <1>1 DEF HCState
  <2> QED BY <1>1, <2>1
<1> QED BY <1>2, <1>3, <1>4, <1>5

\* What users and operators do to an HC keeps the types.
LEMMA WorldType ==
  ASSUME TypeOK, NEW h \in HCs, World(h)
  PROVE  TypeOK'
<1> USE DEF clusterVars, hubVars, workVars, watchVars, historyVars, Change, NoReconcile
<1>1. CASE CreateHC(h)
  <2>1. PICK anno \in AnnosOf[h] \cup {NoName} :
          hcs' = [hcs EXCEPT ![h] = [NoHC EXCEPT !.phase = "pending", !.anno = anno]]
    BY <1>1 DEF CreateHC
  <2>2. [NoHC EXCEPT !.phase = "pending", !.anno = anno] \in HCState
    BY DEF NoHC, HCState, Data
  <2>3. hcs' \in [HCs -> HCState]
    BY <2>1, <2>2 DEF TypeOK
  <2> QED BY <1>1, <2>3 DEF CreateHC, Created, TypeOK
<1>2. CASE BecomeAvailable(h)
  <2>1. hcs' \in [HCs -> HCState]
    BY <1>2, FieldTypes DEF BecomeAvailable
  <2> QED BY <1>2, <2>1 DEF BecomeAvailable, Updated, TypeOK
<1>3. CASE BecomeUnavailable(h)
  <2>1. hcs' \in [HCs -> HCState]
    BY <1>3, FieldTypes DEF BecomeUnavailable
  <2> QED BY <1>3, <2>1 DEF BecomeUnavailable, TypeOK
<1>4. CASE CompleteVersion(h)
  <2>1. hcs' \in [HCs -> HCState]
    BY <1>4, FieldTypes DEF CompleteVersion
  <2> QED BY <1>4, <2>1 DEF CompleteVersion, Updated, TypeOK
<1>5. CASE DeleteHC(h)
  <2>1. hcs' \in [HCs -> HCState]
    BY <1>5, FieldTypes DEF DeleteHC
  <2> QED BY <1>5, <2>1 DEF DeleteHC, TypeOK
<1>6. CASE Vanish(h)
  <2>1. hcs' \in [HCs -> HCState]
    BY <1>6 DEF Vanish, TypeOK, HCState, NoHC, Data
  <2>2. kube' \in [HCs -> Data]
    BY <1>6 DEF Vanish, TypeOK, Data
  <2> QED BY <1>6, <2>1, <2>2 DEF Vanish, Deleted, TypeOK
<1>7. CASE Join(h)
  <2>1. joined' \in [HCs -> Names \cup {NoName}]
    BY <1>7, NameTypes DEF Join, TypeOK
  <2> QED BY <1>7, <2>1 DEF Join, TypeOK
<1>8. ASSUME NEW v \in Versions, PublishKubeconfig(h, v)
      PROVE  TypeOK'
  BY <1>8 DEF PublishKubeconfig, Updated, TypeOK, Data
<1>9. ASSUME NEW v \in Versions, Rotate(h, v)
      PROVE  TypeOK'
  BY <1>9 DEF Rotate, TypeOK, Data
<1>10. ASSUME NEW v \in Data, SetPassword(h, v)
       PROVE  TypeOK'
  <2>1. hcs' \in [HCs -> HCState]
    BY <1>10, FieldTypes DEF SetPassword
  <2> QED BY <1>10, <2>1 DEF SetPassword, Updated, TypeOK
<1>11. ASSUME NEW anno \in AnnosOf[h] \cup {NoName}, Annotate(h, anno)
       PROVE  TypeOK'
  <2>1. hcs' \in [HCs -> HCState]
    BY <1>11, FieldTypes DEF Annotate
  <2> QED BY <1>11, <2>1 DEF Annotate, Updated, TypeOK
<1> QED BY <1>1, <1>2, <1>3, <1>4, <1>5, <1>6, <1>7, <1>8, <1>9, <1>10, <1>11 DEF World

\* So does what happens to the import.
LEMMA ImportType ==
  ASSUME TypeOK, NEW name \in Names,
         Import(name) \/ Deploy(name) \/ AddNamespace(name) \/ Detach(name) \/ RemoveMC(name)
  PROVE  TypeOK'
<1> USE DEF clusterVars, hubVars, workVars, watchVars, historyVars, Change, NoReconcile
<1>1. CASE Import(name)
  BY <1>1 DEF Import, TypeOK
<1>2. CASE Deploy(name)
  BY <1>2 DEF Deploy, TypeOK
<1>3. CASE AddNamespace(name)
  BY <1>3 DEF AddNamespace, TypeOK
<1>4. CASE Detach(name)
  BY <1>4 DEF Detach, TypeOK
<1>5. CASE RemoveMC(name)
  <2>1. ext' \in [Names -> Data] /\ joined' \in [HCs -> Names \cup {NoName}]
    BY <1>5 DEF RemoveMC, TypeOK, Data
  <2> QED BY <1>5, <2>1 DEF RemoveMC, TypeOK
<1> QED BY <1>1, <1>2, <1>3, <1>4, <1>5

\* A restart keeps the types.
LEMMA RestartType ==
  ASSUME TypeOK, Restart
  PROVE  TypeOK'
<1> USE DEF clusterVars, hubVars
<1>1. /\ pc' \in [HCs -> Steps]
      /\ seen' \in [HCs -> HCState]
      /\ data' \in [HCs -> Data]
      /\ failed' \in [HCs -> BOOLEAN]
  BY DEF Restart, Steps, NoHC, HCState, Data
<1>2. /\ queue' \subseteq HCs
      /\ missed' \subseteq HCs
      /\ lost' \subseteq HCs
  BY DEF Restart, TypeOK, Existing
<1>3. changes' \in Nat
  BY DEF Restart, Change, TypeOK
<1>4. kubeCache' = kube /\ kwatch' = {} /\ ewatch' \subseteq Names
  BY DEF Restart
<1> QED BY <1>1, <1>2, <1>3, <1>4 DEF Restart, TypeOK

LEMMA InitType == Init => TypeOK
<1> SUFFICES ASSUME Init PROVE TypeOK
  OBVIOUS
<1>1. NoHC \in HCState /\ NoMirror \in MirrorState
  BY DEF NoHC, HCState, NoMirror, MirrorState, Data
<1>2. hcs \in [HCs -> HCState]
  BY <1>1 DEF Init, HCState
<1>3. queue \subseteq HCs
  BY DEF Init, Existing
<1> QED BY <1>1, <1>2, <1>3 DEF Init, TypeOK, Steps, Data

LEMMA NextType == TypeOK /\ [Next]_vars => TypeOK'
<1> SUFFICES ASSUME TypeOK, [Next]_vars PROVE TypeOK'
  OBVIOUS
<1>1. CASE UNCHANGED vars
  BY <1>1 DEF vars, clusterVars, hubVars, workVars, watchVars, historyVars, TypeOK
<1>2. CASE Next
  BY <1>2, ReconcileType, FailsType, WatchType, WorldType, ImportType, RestartType DEF Next
<1> QED BY <1>1, <1>2

\* Every variable keeps its type: among others, a request names an HC, and a
\* mirrored secret carries the labels of one HC or does not exist.
THEOREM TypeCorrect == Spec => []TypeOK
BY InitType, NextType, PTL DEF Spec

-----------------------------------------------------------------------------
(* Mirrored secrets and HCs that are gone                                  *)

\* OwnersInv says what SettledOwners asks for.
LEMMA OwnersSettled == TypeOK /\ OwnersInv => SettledOwners
BY DEF OwnersInv, GoneOK, Unqueued, SettledOwners, Owned

\* At the first start nobody owns a secret.
LEMMA InitOwners == Init => OwnersInv
<1> SUFFICES ASSUME Init, NEW h \in HCs PROVE CopyOK(h) /\ GoneOK(h)
  BY DEF OwnersInv
<1>1. pc[h] = "idle"
  BY DEF Init
<1>2. Owned(h) = {}
  BY DEF Init, Owned, NoMirror
<1> QED BY <1>1, <1>2 DEF CopyOK, GoneOK, MirrorSteps

\* Deleting secrets takes from an HC and gives to none; storing one gives only
\* to the HC that stores it.
LEMMA DeleteOwned ==
  ASSUME TypeOK, NEW keys, Delete(keys), NEW g \in HCs
  PROVE  Owned(g)' = Owned(g) \ keys
BY DEF Delete, Owned, NoMirror, TypeOK

LEMMA StoreOwned ==
  ASSUME TypeOK, NEW h \in HCs, NEW kind \in Kinds, Store(h, kind), NEW g \in HCs \ {h}
  PROVE  Owned(g)' \subseteq Owned(g)
<1> DEFINE key == <<MCName(h, seen[h]), kind>>
<1>1. key \in Names \X Kinds
  BY NameTypes DEF TypeOK
<1>2. ASSUME NEW k \in Names \X Kinds, mirror'[k].owner = g
      PROVE  mirror[k].owner = g
  <2>1. CASE k = key
    BY <1>1, <1>2, <2>1 DEF Store, TypeOK
  <2>2. CASE k # key
    BY <1>1, <1>2, <2>2 DEF Store, TypeOK
  <2> QED BY <2>1, <2>2
<1> QED BY <1>2 DEF Owned

\* What a step of the reconcile of one HC leaves to the others.
Local(h) ==
  /\ UNCHANGED hcs
  /\ \A g \in HCs \ {h} :
       /\ pc'[g] = pc[g] /\ seen'[g] = seen[g]
       /\ g \in queue' <=> g \in queue
       /\ g \in missed' <=> g \in missed
       /\ Owned(g)' \subseteq Owned(g)

LEMMA LocalOwners ==
  ASSUME OwnersInv, NEW h \in HCs, Local(h), CopyOK(h)', GoneOK(h)'
  PROVE  OwnersInv'
<1> SUFFICES ASSUME NEW g \in HCs \ {h} PROVE (CopyOK(g) /\ GoneOK(g))'
  BY DEF OwnersInv
<1>1. CopyOK(g)'
  BY DEF OwnersInv, CopyOK, Local
<1>2. GoneOK(g)'
  BY DEF OwnersInv, GoneOK, Unqueued, Local
<1> QED BY <1>1, <1>2

\* A reconcile ends at rest, or goes on to delete the secrets of an HC that it
\* saw gone.
LEMMA RestStep ==
  ASSUME TypeOK, NEW h \in HCs, Rest(h)
  PROVE  /\ pc'[h] = "idle"
         /\ \A g \in HCs \ {h} : pc'[g] = pc[g] /\ seen'[g] = seen[g]
BY DEF Rest, Goto, TypeOK

LEMMA AfterClusterStep ==
  ASSUME TypeOK, NEW h \in HCs, AfterCluster(h)
  PROVE  /\ IF seen[h].phase = "absent"
            THEN pc'[h] = "deleteMirrors" /\ seen'[h] = seen[h]
            ELSE pc'[h] = "idle"
         /\ \A g \in HCs \ {h} : pc'[g] = pc[g] /\ seen'[g] = seen[g]
<1>1. CASE seen[h].phase = "absent"
  BY <1>1 DEF AfterCluster, Goto, TypeOK
<1>2. CASE seen[h].phase # "absent"
  BY <1>2, RestStep DEF AfterCluster
<1> QED BY <1>1, <1>2

\* Get of the HC.
LEMMA GetHCOwners ==
  ASSUME TypeOK, OwnersInv, NEW h \in HCs, GetHC(h)
  PROVE  OwnersInv'
<1> USE DEF clusterVars, hubVars, workVars, historyVars
<1>1. \A g \in HCs : Owned(g)' = Owned(g)
  BY DEF GetHC, Owned
<1>2. CASE hcs[h].phase = "pending"
  <2>1. Local(h)
    BY <1>1, <1>2 DEF GetHC, Local
  <2>2. CopyOK(h)'
    BY <1>2 DEF GetHC, OwnersInv, CopyOK
  <2>3. GoneOK(h)'
    BY <1>2 DEF GetHC, GoneOK, Unqueued
  <2> QED BY <2>1, <2>2, <2>3, LocalOwners
<1>3. CASE hcs[h].phase # "pending"
  <2>1. /\ UNCHANGED hcs
        /\ pc' = [pc EXCEPT ![h] = FirstStep[hcs[h].phase]]
        /\ seen' = [seen EXCEPT ![h] = hcs[h]]
        /\ queue' = queue \ {h}
        /\ missed' = IF hcs[h].phase = "absent" THEN missed \ {h} ELSE missed
    BY <1>3 DEF GetHC, Goto
  <2>2. Local(h)
    BY <1>1, <2>1 DEF Local, TypeOK
  <2>3. pc'[h] = FirstStep[hcs[h].phase] /\ seen'[h] = hcs[h]
    BY <2>1 DEF TypeOK
  <2>4. hcs[h].phase \in {"absent", "available", "deleting"}
    BY <1>3 DEF TypeOK, HCState
  <2>5. CopyOK(h)'
    BY <2>3, <2>4 DEF FirstStep, CopyOK, MirrorSteps
  <2>6. GoneOK(h)'
    BY <2>1, <2>3, <2>4 DEF FirstStep, GoneOK, Unqueued
  <2> QED BY <2>2, <2>5, <2>6, LocalOwners
<1> QED BY <1>2, <1>3

\* A step that leaves the secrets, the HC and the requests alone.
LEMMA PlainOwners ==
  ASSUME OwnersInv, NEW h \in HCs, UNCHANGED <<hcs, mirror, queue, missed>>, CopyOK(h)',
         pc[h] # "idle", pc'[h] # "idle", seen'[h] = seen[h],
         \A g \in HCs \ {h} : pc'[g] = pc[g] /\ seen'[g] = seen[g]
  PROVE  OwnersInv'
<1>1. Local(h)
  BY DEF Local, Owned
<1>2. GoneOK(h)'
  BY DEF OwnersInv, GoneOK, Unqueued
<1> QED BY <1>1, <1>2, LocalOwners

\* The calls for the MC of an HC that is being deleted, or is gone.
LEMMA ClusterOwners ==
  ASSUME TypeOK, OwnersInv, NEW h \in HCs, pc[h] \in ClusterSteps, AfterCluster(h),
         UNCHANGED <<hcs, mirror, queue, missed>>
  PROVE  OwnersInv'
<1>1. Local(h)
  BY AfterClusterStep DEF Local, Owned
<1>2. CopyOK(h)'
  BY AfterClusterStep DEF CopyOK, MirrorSteps
<1>3. GoneOK(h)'
  BY AfterClusterStep DEF OwnersInv, GoneOK, Unqueued, ClusterSteps
<1> QED BY <1>1, <1>2, <1>3, LocalOwners

\* The calls for the secrets of an HC that was available when it was read: such
\* an HC is not gone, or a request for it is queued.
LEMMA MirrorOwners ==
  ASSUME TypeOK, OwnersInv, NEW h \in HCs, pc[h] \in MirrorSteps,
         UNCHANGED <<hcs, seen, queue, missed>>, NEW step \in MirrorSteps, Goto(h, step),
         \A g \in HCs \ {h} : Owned(g)' \subseteq Owned(g)
  PROVE  OwnersInv'
<1>1. pc'[h] = step /\ \A g \in HCs \ {h} : pc'[g] = pc[g]
  BY DEF Goto, TypeOK
<1>2. Local(h)
  BY <1>1 DEF Local
<1>3. seen[h].phase = "available"
  BY DEF OwnersInv, CopyOK
<1>4. ~Unqueued(h)
  BY <1>3 DEF OwnersInv, GoneOK, MirrorSteps
<1>5. CopyOK(h)'
  BY <1>1, <1>3 DEF CopyOK, MirrorSteps
<1>6. GoneOK(h)'
  BY <1>4 DEF GoneOK, Unqueued
<1> QED BY <1>2, <1>5, <1>6, LocalOwners

\* A reconcile deletes the secrets of an HC that is gone before it rests, and
\* stores none for it.
LEMMA ReconcileOwners ==
  ASSUME TypeOK, OwnersInv, NEW h \in HCs, Reconcile(h)
  PROVE  OwnersInv'
<1> USE DEF clusterVars, hubVars, historyVars
<1>1. CASE GetHC(h)
  BY <1>1, GetHCOwners
<1>2. CASE GetMC(h)
  <2>1. CopyOK(h)'
    BY <1>2 DEF GetMC, Goto, TypeOK, CopyOK, MirrorSteps
  <2> QED BY <1>2, <2>1, PlainOwners DEF GetMC, Goto, TypeOK
<1>3. CASE DeleteMC(h)
  <2>1. CASE mc[MCName(h, seen[h])] = "absent"
    BY <1>3, <2>1, ClusterOwners DEF DeleteMC, ClusterSteps
  <2>2. CASE mc[MCName(h, seen[h])] # "absent"
    <3>1. Goto(h, "release") /\ UNCHANGED seen
      BY <1>3, <2>2 DEF DeleteMC
    <3>2. CopyOK(h)'
      BY <3>1 DEF Goto, TypeOK, CopyOK, MirrorSteps
    <3> QED BY <1>3, <3>1, <3>2, PlainOwners DEF DeleteMC, Goto, TypeOK
  <2> QED BY <2>1, <2>2
<1>4. CASE Release(h)
  BY <1>4, ClusterOwners DEF Release, ClusterSteps
<1>5. CASE DeleteMirrors(h)
  <2>1. \A g \in HCs : Owned(g)' = Owned(g) \ Owned(h)
    BY <1>5, DeleteOwned DEF DeleteMirrors
  <2>2. Local(h)
    BY <1>5, <2>1, RestStep DEF DeleteMirrors, Local
  <2>3. CopyOK(h)' /\ GoneOK(h)'
    BY <1>5, <2>1, RestStep DEF DeleteMirrors, CopyOK, GoneOK, MirrorSteps
  <2> QED BY <2>2, <2>3, LocalOwners
<1>6. CASE GetKubeconfig(h)
  <2>1. \A g \in HCs : Owned(g)' = Owned(g)
    BY <1>6 DEF GetKubeconfig, Owned
  <2>2. PICK step \in {"password", "external"} : Goto(h, step)
    BY <1>6 DEF GetKubeconfig
  <2> QED BY <1>6, <2>1, <2>2, MirrorOwners DEF GetKubeconfig, MirrorSteps
<1>7. CASE PutExternal(h)
  <2>1. \A g \in HCs : Owned(g)' = Owned(g)
    BY <1>7 DEF PutExternal, Owned
  <2> QED BY <1>7, <2>1, MirrorOwners DEF PutExternal, MirrorSteps
<1>8. CASE PushKubeconfig(h)
  <2>1. \A g \in HCs \ {h} : Owned(g)' \subseteq Owned(g)
    BY <1>8, StoreOwned DEF PushKubeconfig, Kinds
  <2> QED BY <1>8, <2>1, MirrorOwners DEF PushKubeconfig, MirrorSteps
<1>9. CASE GetPassword(h)
  <2>1. \A g \in HCs : Owned(g)' \subseteq Owned(g)
    <3>1. CASE UNCHANGED mirror
      BY <3>1 DEF Owned
    <3>2. CASE Delete(OwnedPasswords(h))
      BY <3>2, DeleteOwned
    <3> QED BY <1>9, <3>1, <3>2 DEF GetPassword
  <2>2. PICK step \in {"claim", "pushPassword"} : Goto(h, step)
    BY <1>9 DEF GetPassword
  <2> QED BY <1>9, <2>1, <2>2, MirrorOwners DEF GetPassword, MirrorSteps
<1>10. CASE PushPassword(h)
  <2>1. \A g \in HCs \ {h} : Owned(g)' \subseteq Owned(g)
    BY <1>10, StoreOwned DEF PushPassword, Kinds
  <2> QED BY <1>10, <2>1, MirrorOwners DEF PushPassword, MirrorSteps
<1>11. CASE Claim(h)
  <2>1. Rest(h) /\ queue' \in {queue, queue \cup {h}}
    BY <1>11 DEF Claim, Requeue
  <2>2. Local(h)
    BY <1>11, <2>1, RestStep DEF Claim, Local, Owned
  <2>3. ~Unqueued(h)
    BY <1>11 DEF Claim, OwnersInv, CopyOK, GoneOK, MirrorSteps
  <2>4. CopyOK(h)' /\ GoneOK(h)'
    BY <1>11, <2>1, <2>3, RestStep DEF Claim, CopyOK, GoneOK, Unqueued, MirrorSteps
  <2> QED BY <2>2, <2>4, LocalOwners
<1> QED BY <1>1, <1>2, <1>3, <1>4, <1>5, <1>6, <1>7, <1>8, <1>9, <1>10, <1>11 DEF Reconcile

\* A failing call goes on, or leaves a request to try again.
LEMMA FailsOwners ==
  ASSUME TypeOK, OwnersInv, NEW h \in HCs, Fails(h)
  PROVE  OwnersInv'
<1> USE DEF clusterVars, hubVars, historyVars
<1>1. CASE MirrorFails(h)
  <2>1. \A g \in HCs : Owned(g)' = Owned(g)
    BY <1>1 DEF MirrorFails, Owned
  <2>2. pc[h] \in MirrorSteps /\ NextStep[pc[h]] \in MirrorSteps
    BY <1>1 DEF MirrorFails, NextStep, MirrorSteps
  <2> QED BY <1>1, <2>1, <2>2, MirrorOwners DEF MirrorFails
<1>2. CASE DeleteMirrorsFails(h)
  <2>1. PICK keys : Delete(keys)
    BY <1>2 DEF DeleteMirrorsFails
  <2>2. \A g \in HCs : Owned(g)' \subseteq Owned(g)
    BY <2>1, DeleteOwned
  <2>3. Rest(h) /\ queue' = queue \cup {h}
    BY <1>2 DEF DeleteMirrorsFails, Requeue
  <2>4. Local(h)
    BY <1>2, <2>2, <2>3, RestStep DEF DeleteMirrorsFails, Local
  <2>5. CopyOK(h)' /\ GoneOK(h)'
    BY <2>3, RestStep DEF CopyOK, GoneOK, Unqueued, MirrorSteps
  <2> QED BY <2>4, <2>5, LocalOwners
<1>3. CASE DeletePasswordFails(h)
  <2>1. PICK keys : Delete(keys)
    BY <1>3 DEF DeletePasswordFails
  <2>2. \A g \in HCs : Owned(g)' \subseteq Owned(g)
    BY <2>1, DeleteOwned
  <2> QED BY <1>3, <2>2, MirrorOwners DEF DeletePasswordFails, MirrorSteps
<1>4. CASE ClusterFails(h)
  BY <1>4, ClusterOwners DEF ClusterFails
<1> QED BY <1>1, <1>2, <1>3, <1>4 DEF Fails

\* What happens outside the reconcile leaves its state and the secrets alone;
\* an HC that goes is a request, and no request is taken back.
Outside ==
  /\ UNCHANGED <<pc, seen, mirror, missed>>
  /\ \A g \in HCs : Unqueued(g)' => Unqueued(g)

LEMMA OutsideOwners == ASSUME OwnersInv, Outside PROVE OwnersInv'
<1> SUFFICES ASSUME NEW g \in HCs PROVE (CopyOK(g) /\ GoneOK(g))'
  BY DEF OwnersInv
<1>1. CopyOK(g)'
  BY DEF OwnersInv, CopyOK, Outside
<1>2. GoneOK(g)'
  BY DEF OwnersInv, GoneOK, Outside, Owned
<1> QED BY <1>1, <1>2

\* A touched or updated HC can only add a request.
LEMMA UpdatedQueue == \A h \in HCs : Updated(h) => queue \subseteq queue'
BY DEF Updated

LEMMA WatchOutside ==
  ASSUME TypeOK,
         \/ \E h \in HCs : SeeSecret(h) \/ WatchKubeconfig(h)
         \/ \E name \in Names : WatchKlusterlet(name)
  PROVE  Outside
<1> USE DEF clusterVars, hubVars, workVars, historyVars
<1>1. ASSUME NEW h \in HCs, SeeSecret(h)
      PROVE  Outside
  BY <1>1 DEF SeeSecret, Outside, Unqueued
<1>2. ASSUME NEW h \in HCs, WatchKubeconfig(h)
      PROVE  Outside
  <2>1. queue \subseteq queue'
    BY <1>2, UpdatedQueue DEF WatchKubeconfig
  <2> QED BY <1>2, <2>1 DEF WatchKubeconfig, Outside, Unqueued
<1>3. ASSUME NEW name \in Names, WatchKlusterlet(name)
      PROVE  Outside
  <2>1. PICK h \in HCsOf(name) : Updated(h)
    BY <1>3 DEF WatchKlusterlet
  <2>2. h \in HCs
    BY <2>1 DEF HCsOf, Named, Discovered, Existing
  <2>3. queue \subseteq queue'
    BY <2>1, <2>2, UpdatedQueue
  <2> QED BY <1>3, <2>3 DEF WatchKlusterlet, Outside, Unqueued
<1> QED BY <1>1, <1>2, <1>3

\* A step of the world leaves an HC's request, and its phase unless it is
\* another one than "absent" then.
LEMMA PhaseOutside ==
  ASSUME UNCHANGED <<pc, seen, mirror, missed>>, queue \subseteq queue',
         \A g \in HCs : hcs'[g].phase = "absent" => hcs[g].phase = "absent" \/ g \in queue'
  PROVE  Outside
BY DEF Outside, Unqueued

LEMMA WorldOutside ==
  ASSUME TypeOK, NEW h \in HCs, World(h)
  PROVE  Outside
<1> USE DEF clusterVars, hubVars, workVars, historyVars, NoReconcile
<1>0. hcs \in [HCs -> HCState]
  BY DEF TypeOK
<1>1. CASE CreateHC(h)
  <2>1. PICK anno : hcs' = [hcs EXCEPT ![h] = [NoHC EXCEPT !.phase = "pending", !.anno = anno]]
    BY <1>1 DEF CreateHC
  <2>2. \A g \in HCs : hcs'[g].phase = "absent" => hcs[g].phase = "absent"
    BY <1>0, <2>1 DEF NoHC
  <2> QED BY <1>1, <2>2, PhaseOutside DEF CreateHC, Created
<1>2. CASE BecomeAvailable(h)
  <2>1. \A g \in HCs : hcs'[g].phase = "absent" => hcs[g].phase = "absent"
    BY <1>0, <1>2 DEF BecomeAvailable, HCState
  <2> QED BY <1>2, <2>1, UpdatedQueue, PhaseOutside DEF BecomeAvailable
<1>3. CASE BecomeUnavailable(h)
  <2>1. \A g \in HCs : hcs'[g].phase = "absent" => hcs[g].phase = "absent"
    BY <1>0, <1>3 DEF BecomeUnavailable, HCState
  <2> QED BY <1>3, <2>1, PhaseOutside DEF BecomeUnavailable
<1>4. CASE CompleteVersion(h)
  <2>1. \A g \in HCs : hcs'[g].phase = "absent" => hcs[g].phase = "absent"
    BY <1>0, <1>4 DEF CompleteVersion, HCState
  <2> QED BY <1>4, <2>1, UpdatedQueue, PhaseOutside DEF CompleteVersion
<1>5. CASE DeleteHC(h)
  <2>1. \A g \in HCs : hcs'[g].phase = "absent" => hcs[g].phase = "absent"
    BY <1>0, <1>5 DEF DeleteHC, HCState
  <2> QED BY <1>5, <2>1, PhaseOutside DEF DeleteHC
<1>6. CASE Vanish(h)
  <2>1. \A g \in HCs : g # h => hcs'[g] = hcs[g]
    BY <1>0, <1>6 DEF Vanish
  <2> QED BY <1>6, <2>1, PhaseOutside DEF Vanish, Deleted
<1>7. CASE Join(h)
  BY <1>7, PhaseOutside DEF Join
<1>8. ASSUME NEW v \in Versions, PublishKubeconfig(h, v)
      PROVE  Outside
  BY <1>8, UpdatedQueue, PhaseOutside DEF PublishKubeconfig
<1>9. ASSUME NEW v \in Versions, Rotate(h, v)
      PROVE  Outside
  BY <1>9, PhaseOutside DEF Rotate
<1>10. ASSUME NEW v \in Data, SetPassword(h, v)
       PROVE  Outside
  <2>1. \A g \in HCs : hcs'[g].phase = "absent" => hcs[g].phase = "absent"
    BY <1>0, <1>10 DEF SetPassword, HCState
  <2> QED BY <1>10, <2>1, UpdatedQueue, PhaseOutside DEF SetPassword
<1>11. ASSUME NEW anno \in AnnosOf[h] \cup {NoName}, Annotate(h, anno)
       PROVE  Outside
  <2>1. \A g \in HCs : hcs'[g].phase = "absent" => hcs[g].phase = "absent"
    BY <1>0, <1>11 DEF Annotate, HCState
  <2> QED BY <1>11, <2>1, UpdatedQueue, PhaseOutside DEF Annotate
<1> QED BY <1>1, <1>2, <1>3, <1>4, <1>5, <1>6, <1>7, <1>8, <1>9, <1>10, <1>11 DEF World

LEMMA ImportOutside ==
  ASSUME NEW name \in Names,
         Import(name) \/ Deploy(name) \/ AddNamespace(name) \/ Detach(name) \/ RemoveMC(name)
  PROVE  Outside
BY DEF Import, Deploy, AddNamespace, Detach, RemoveMC, Outside, Unqueued,
       clusterVars, hubVars, workVars, historyVars, NoReconcile

\* A new agent knows of no HC that is gone: one that it should have dealt with
\* counts as missed, and any other has no secrets.
LEMMA RestartOwners ==
  ASSUME TypeOK, OwnersInv, Restart
  PROVE  OwnersInv'
<1> SUFFICES ASSUME NEW g \in HCs PROVE (CopyOK(g) /\ GoneOK(g))'
  BY DEF OwnersInv
<1>1. pc'[g] = "idle"
  BY DEF Restart
<1>2. CopyOK(g)'
  BY <1>1 DEF CopyOK, MirrorSteps
<1>3. ASSUME Unqueued(g)'
      PROVE  Unqueued(g) /\ pc[g] = "idle"
  BY <1>3 DEF Unqueued, Restart, Existing, clusterVars
<1>4. Owned(g)' = Owned(g)
  BY DEF Restart, Owned, hubVars
<1>5. GoneOK(g)'
  BY <1>1, <1>3, <1>4 DEF GoneOK, OwnersInv
<1> QED BY <1>2, <1>5

LEMMA NextOwners == TypeOK /\ OwnersInv /\ [Next]_vars => OwnersInv'
<1> SUFFICES ASSUME TypeOK, OwnersInv, [Next]_vars PROVE OwnersInv'
  OBVIOUS
<1>1. CASE UNCHANGED vars
  <2>1. Outside
    BY <1>1 DEF vars, clusterVars, hubVars, workVars, historyVars, Outside, Unqueued
  <2> QED BY <2>1, OutsideOwners
<1>2. CASE Next
  BY <1>2, ReconcileOwners, FailsOwners, WatchOutside, WorldOutside, ImportOutside,
     OutsideOwners, RestartOwners DEF Next
<1> QED BY <1>1, <1>2

\* A mirrored secret never outlives its HC unnoticed: as long as one is left of
\* an HC whose deletion an agent saw, a request for that HC is queued or its
\* reconcile is under way (deleteMirrorSecrets, hostedClusterEventFilters).
THEOREM Owners == Spec => []SettledOwners
BY InitType, NextType, InitOwners, NextOwners, OwnersSettled, PTL DEF Spec

-----------------------------------------------------------------------------
(* The invariant behind SettledMirrors and SettledGone.                    *)

\* An HC that is gone has no state, and the others carry a name a user chose.
RealHC(h, hc) ==
  /\ hc.phase = "absent" => hc = NoHC
  /\ hc.anno \in AnnosOf[h] \cup {NoName}

\* A reconcile works with the HC as it is now, or a request will repeat it.
SeenOK(h) == h \notin queue /\ pc[h] # "idle" =>
  /\ hcs[h].phase = "available" => seen[h] = hcs[h]
  /\ hcs[h].phase = "absent" => seen[h].phase = "absent"

CopyInv == \A h \in HCs :
  /\ CopyOK(h)
  /\ pc[h] \in ClusterSteps => seen[h].phase \in {"absent", "deleting"}
  /\ RealHC(h, hcs[h]) /\ RealHC(h, seen[h]) /\ SeenOK(h)
  /\ hcs[h].phase = "available" => kube[h] # 0

\* How far a reconcile that no request will repeat has come with the kubeconfig:
\* it will be repeated because of an error or of the watcher, or the hub has it.
KubeconfigStored(h) ==
  mirror[<<MCName(h, hcs[h]), "kubeconfig">>] = [owner |-> h, data |-> kubeCache[h]]
KubeconfigOK(h) ==
  \/ pc[h] = "kubeconfig"
  \/ failed[h] /\ pc[h] # "idle"
  \/ /\ kubeCache[h] # 0
     /\ \/ h \in kwatch
        \/ pc[h] \in {"external", "push"} /\ data[h] = kubeCache[h]
        \/ pc[h] \notin {"external", "push"} /\ KubeconfigStored(h)

\* And with the password.
PasswordOK(h) ==
  \/ pc[h] \in {"kubeconfig", "external", "push", "password"}
  \/ pc[h] = "pushPassword" /\ hcs[h].password # 0 /\ data[h] = hcs[h].password
  \/ pc[h] = "claim" /\ failed[h]
  \/ pc[h] \in {"claim", "idle"} /\ PasswordMirrored(h)

OwnKeys(h) == Candidates(h) \X Kinds

MirrorOK(h) ==
  /\ \A key \in OwnKeys(h) : mirror[key].owner \in {0, h}
  /\ hcs[h].phase = "available" /\ h \notin queue => KubeconfigOK(h) /\ PasswordOK(h)

MirrorInv == \A h \in HCs : Alone(h) => MirrorOK(h)

\* No other HC is discovered under the name of h.
Apart(h) == \A g \in HCs \ {h} : Remote => DiscoveredName[NameOf[g]] # NameOf[h]

\* How far deleteManagedCluster has come for an HC that is gone.
Gone(h) == hcs[h].phase = "absent" /\ h \notin queue /\ h \notin lost
Cleared(h) ==
  /\ pc[h] \in {"idle", "deleteMirrors", "release"} => mc[NameOf[h]] # "hosted"
  /\ pc[h] \in {"idle", "deleteMirrors"} => klusterlet[NameOf[h]] # "held"

ImportInv ==
  /\ \A name \in Names : klusterlet[name] # "absent" => mc[name] \in {"hosted", "deleting"}
  /\ \A h \in HCs : Alone(h) /\ Apart(h) /\ Gone(h) => Cleared(h)

-----------------------------------------------------------------------------
(* The copy a reconcile works with                                         *)

\* A call after which the reconcile goes on with the copy it has.
Proceeds(h) ==
  /\ UNCHANGED <<seen, queue>>
  /\ \E step \in Steps :
       /\ Goto(h, step)
       /\ \/ {pc[h], step} \subseteq MirrorSteps
          \/ {pc[h], step} \subseteq ClusterSteps
          \/ pc[h] \in ClusterSteps /\ seen[h].phase = "absent" /\ step = "deleteMirrors"

\* What a reconcile leaves to the reconciles of other HCs.
Undisturbed(g) ==
  /\ pc'[g] = pc[g] /\ seen'[g] = seen[g] /\ data'[g] = data[g] /\ failed'[g] = failed[g]
  /\ g \in queue' <=> g \in queue
  /\ g \in lost' <=> g \in lost

\* Each step of a reconcile reads the HC, goes on, or ends.
LEMMA AfterClusterShape ==
  ASSUME TypeOK, NEW h \in HCs, pc[h] \in ClusterSteps, AfterCluster(h), UNCHANGED queue
  PROVE  Rest(h) \/ Proceeds(h)
BY DEF AfterCluster, Proceeds, Steps

LEMMA WorkShape ==
  ASSUME TypeOK, NEW h \in HCs, Reconcile(h) \/ Fails(h)
  PROVE  GetHC(h) \/ Rest(h) \/ Proceeds(h)
<1>1. CASE GetMC(h)
  BY <1>1 DEF GetMC, Proceeds, ClusterSteps, Steps
<1>2. CASE DeleteMC(h)
  BY <1>2, AfterClusterShape DEF DeleteMC, Proceeds, ClusterSteps, Steps
<1>3. CASE Release(h)
  BY <1>3, AfterClusterShape DEF Release, ClusterSteps
<1>4. CASE GetKubeconfig(h)
  BY <1>4 DEF GetKubeconfig, Proceeds, MirrorSteps, Steps
<1>5. CASE PutExternal(h)
  BY <1>5 DEF PutExternal, Proceeds, MirrorSteps, Steps
<1>6. CASE PushKubeconfig(h)
  BY <1>6 DEF PushKubeconfig, Proceeds, MirrorSteps, Steps
<1>7. CASE GetPassword(h)
  BY <1>7 DEF GetPassword, Proceeds, MirrorSteps, Steps
<1>8. CASE PushPassword(h)
  BY <1>8 DEF PushPassword, Proceeds, MirrorSteps, Steps
<1>9. CASE MirrorFails(h)
  <2>1. pc[h] \in MirrorSteps /\ NextStep[pc[h]] \in MirrorSteps
    BY <1>9 DEF MirrorFails, NextStep, MirrorSteps
  <2>2. UNCHANGED <<seen, queue>> /\ Goto(h, NextStep[pc[h]])
    BY <1>9 DEF MirrorFails
  <2>3. NextStep[pc[h]] \in Steps /\ {pc[h], NextStep[pc[h]]} \subseteq MirrorSteps
    BY <2>1 DEF Steps
  <2> HIDE DEF NextStep
  <2> QED BY <2>2, <2>3 DEF Proceeds
<1>10. CASE DeletePasswordFails(h)
  BY <1>10 DEF DeletePasswordFails, Proceeds, MirrorSteps, Steps
<1>11. CASE ClusterFails(h)
  BY <1>11, AfterClusterShape DEF ClusterFails
<1>12. CASE DeleteMirrors(h) \/ Claim(h) \/ DeleteMirrorsFails(h)
  BY <1>12 DEF DeleteMirrors, Claim, DeleteMirrorsFails, Requeue
<1> QED
  BY <1>1, <1>2, <1>3, <1>4, <1>5, <1>6, <1>7, <1>8, <1>9, <1>10, <1>11, <1>12
     DEF Reconcile, Fails

\* It leaves the HCs, and the reconciles of others, alone.
LEMMA WorkOthers ==
  ASSUME TypeOK, NEW h \in HCs, Reconcile(h) \/ Fails(h)
  PROVE  /\ UNCHANGED <<hcs, kube, kubeCache, kwatch>>
         /\ \A g \in HCs \ {h} : Undisturbed(g)
<1> USE DEF clusterVars, hubVars, workVars, watchVars, historyVars
<1>0. \/ GetHC(h) \/ GetMC(h) \/ DeleteMC(h) \/ Release(h) \/ DeleteMirrors(h)
      \/ GetKubeconfig(h) \/ PutExternal(h) \/ PushKubeconfig(h)
      \/ GetPassword(h) \/ PushPassword(h) \/ Claim(h)
      \/ MirrorFails(h) \/ DeleteMirrorsFails(h) \/ DeletePasswordFails(h) \/ ClusterFails(h)
  BY DEF Reconcile, Fails
<1>1. UNCHANGED <<hcs, kube, kubeCache, kwatch>>
  BY <1>0 DEF GetHC, GetMC, DeleteMC, Release, DeleteMirrors, GetKubeconfig, PutExternal,
              PushKubeconfig, GetPassword, PushPassword, Claim, MirrorFails,
              DeleteMirrorsFails, DeletePasswordFails, ClusterFails
<1>2. ASSUME NEW g \in HCs \ {h}
      PROVE  (g \in queue' <=> g \in queue) /\ (g \in lost' <=> g \in lost)
  BY <1>0 DEF GetHC, GetMC, DeleteMC, Release, DeleteMirrors, GetKubeconfig, PutExternal,
              PushKubeconfig, GetPassword, PushPassword, Claim, Requeue, MirrorFails,
              DeleteMirrorsFails, DeletePasswordFails, ClusterFails
<1>3. ASSUME NEW g \in HCs \ {h}
      PROVE  pc'[g] = pc[g] /\ seen'[g] = seen[g]
  <2>1. CASE GetHC(h)
    <3>1. CASE hcs[h].phase = "pending"
      BY <2>1, <3>1 DEF GetHC
    <3>2. CASE hcs[h].phase # "pending"
      BY <2>1, <3>2 DEF GetHC, Goto, TypeOK
    <3> QED BY <3>1, <3>2
  <2>2. CASE Rest(h)
    BY <2>2 DEF Rest, Goto, TypeOK
  <2>3. CASE Proceeds(h)
    BY <2>3 DEF Proceeds, Goto, TypeOK
  <2> QED BY <2>1, <2>2, <2>3, WorkShape
<1>4. ASSUME NEW g \in HCs \ {h}
      PROVE  data'[g] = data[g] /\ failed'[g] = failed[g]
  <2>1. CASE Rest(h)
    BY <2>1 DEF Rest, TypeOK
  <2>2. CASE AfterCluster(h)
    BY <2>1, <2>2 DEF AfterCluster
  <2>3. \/ UNCHANGED <<data, failed>>
        \/ Rest(h) \/ AfterCluster(h) \/ GetKubeconfig(h) \/ GetPassword(h) \/ MirrorFails(h)
    BY <1>0 DEF GetHC, GetMC, DeleteMC, Release, DeleteMirrors, PutExternal,
                PushKubeconfig, PushPassword, Claim, Requeue,
                DeleteMirrorsFails, DeletePasswordFails, ClusterFails
  <2>4. CASE GetKubeconfig(h)
    BY <2>4 DEF GetKubeconfig, TypeOK
  <2>5. CASE GetPassword(h)
    BY <2>5 DEF GetPassword, TypeOK
  <2>6. CASE MirrorFails(h)
    BY <2>6 DEF MirrorFails, TypeOK
  <2> QED BY <2>1, <2>2, <2>3, <2>4, <2>5, <2>6
<1> QED BY <1>1, <1>2, <1>3, <1>4 DEF Undisturbed

\* A reconcile keeps CopyInv.
LEMMA WorkCopy ==
  ASSUME TypeOK, CopyInv, NEW h \in HCs, Reconcile(h) \/ Fails(h)
  PROVE  CopyInv'
<1> SUFFICES ASSUME NEW g \in HCs
             PROVE  /\ CopyOK(g)'
                    /\ pc'[g] \in ClusterSteps => seen'[g].phase \in {"absent", "deleting"}
                    /\ RealHC(g, hcs'[g]) /\ RealHC(g, seen'[g]) /\ SeenOK(g)'
                    /\ hcs'[g].phase = "available" => kube'[g] # 0
  BY DEF CopyInv, RealHC
<1>1. hcs' = hcs /\ kube' = kube
  BY WorkOthers
<1>2. RealHC(g, hcs'[g]) /\ (hcs'[g].phase = "available" => kube'[g] # 0)
  BY <1>1 DEF CopyInv
<1>3. CASE g # h
  BY <1>1, <1>2, <1>3, WorkOthers DEF CopyInv, Undisturbed, CopyOK, SeenOK
<1>4. CASE g = h
  <2>1. CASE GetHC(h) /\ hcs[h].phase = "pending"
    <3>1. UNCHANGED <<pc, seen>>
      BY <2>1 DEF GetHC, workVars
    <3> QED BY <1>1, <1>2, <1>4, <2>1, <3>1 DEF CopyInv, CopyOK, SeenOK
  <2>2. CASE GetHC(h) /\ hcs[h].phase # "pending"
    <3>1. pc'[h] = FirstStep[hcs[h].phase] /\ seen'[h] = hcs[h]
      BY <2>2 DEF GetHC, Goto, TypeOK
    <3>2. hcs[h].phase \in {"absent", "available", "deleting"}
      BY <2>2 DEF TypeOK, HCState
    <3>3. CopyOK(h)' /\ (pc'[h] \in ClusterSteps => seen'[h].phase \in {"absent", "deleting"})
      BY <3>1, <3>2 DEF CopyOK, FirstStep, ClusterSteps, MirrorSteps
    <3> QED BY <1>1, <1>2, <1>4, <3>1, <3>3 DEF CopyInv, SeenOK
  <2>3. CASE Rest(h)
    <3>1. pc'[h] = "idle" /\ seen'[h] = NoHC
      BY <2>3 DEF Rest, Goto, TypeOK
    <3>2. RealHC(h, seen'[h])
      BY <3>1 DEF RealHC, NoHC
    <3> QED BY <1>2, <1>4, <3>1, <3>2 DEF CopyOK, SeenOK, ClusterSteps, MirrorSteps
  <2>4. CASE Proceeds(h)
    <3>1. UNCHANGED <<seen, queue>> /\ pc[h] # "idle"
      BY <2>4 DEF Proceeds, MirrorSteps, ClusterSteps
    <3>2. \/ pc[h] \in MirrorSteps /\ pc'[h] \in MirrorSteps
          \/ pc[h] \in ClusterSteps /\ pc'[h] \in ClusterSteps
          \/ seen[h].phase = "absent" /\ pc'[h] = "deleteMirrors"
      BY <2>4 DEF Proceeds, Goto, TypeOK
    <3>3. CopyOK(h)' /\ (pc'[h] \in ClusterSteps => seen'[h].phase \in {"absent", "deleting"})
      BY <3>1, <3>2 DEF CopyInv, CopyOK, ClusterSteps, MirrorSteps
    <3> QED BY <1>1, <1>2, <1>4, <3>1, <3>3 DEF CopyInv, SeenOK
  <2> QED BY <2>1, <2>2, <2>3, <2>4, WorkShape
<1> QED BY <1>3, <1>4

\* What happens outside the reconcile: an HC that changes is a request, unless it
\* is on its way up or down; so is a kubeconfig the informer saw changing.
Outer ==
  /\ UNCHANGED <<pc, seen, data, failed, mirror, lost>>
  /\ queue \subseteq queue'
  /\ \A g \in HCs :
       /\ hcs'[g] = hcs[g] \/ g \in queue' \/ hcs'[g].phase \in {"pending", "deleting"}
       /\ RealHC(g, hcs'[g])
       /\ hcs'[g].phase = "available" => kube'[g] # 0
       /\ hcs'[g].phase = "available" /\ g \notin queue' /\ kubeCache[g] # 0 =>
            kubeCache'[g] # 0 /\ (g \in kwatch' \/ (kubeCache'[g] = kubeCache[g] /\ g \notin kwatch))

LEMMA OuterCopy ==
  ASSUME CopyInv, Outer
  PROVE  CopyInv'
<1> SUFFICES ASSUME NEW g \in HCs
             PROVE  CopyOK(g)' /\ SeenOK(g)'
  BY DEF CopyInv, Outer, RealHC
<1>1. CopyOK(g)'
  BY DEF CopyInv, Outer, CopyOK
<1>2. SeenOK(g)'
  BY DEF CopyInv, Outer, SeenOK
<1> QED BY <1>1, <1>2

\* A change of one HC that nothing else follows.
LEMMA OneOuter ==
  ASSUME CopyInv, NEW h \in HCs, UNCHANGED <<pc, seen, data, failed, mirror, lost, kubeCache, kwatch>>,
         queue \subseteq queue',
         \A g \in HCs \ {h} : hcs'[g] = hcs[g] /\ kube'[g] = kube[g],
         hcs'[h] = hcs[h] \/ h \in queue' \/ hcs'[h].phase \in {"pending", "deleting"},
         RealHC(h, hcs'[h]), hcs'[h].phase = "available" => kube'[h] # 0
  PROVE  Outer
<1> SUFFICES ASSUME NEW g \in HCs
             PROVE  /\ hcs'[g] = hcs[g] \/ g \in queue' \/ hcs'[g].phase \in {"pending", "deleting"}
                    /\ RealHC(g, hcs'[g])
                    /\ hcs'[g].phase = "available" => kube'[g] # 0
  BY DEF Outer
<1>1. CASE g = h
  BY <1>1
<1>2. CASE g # h
  BY <1>2 DEF CopyInv
<1> QED BY <1>1, <1>2

LEMMA WorldOuter ==
  ASSUME TypeOK, CopyInv, NEW h \in HCs, World(h)
  PROVE  Outer
<1> USE DEF clusterVars, hubVars, workVars, watchVars, historyVars, NoReconcile
<1>0. hcs \in [HCs -> HCState] /\ hcs[h] \in HCState
  BY DEF TypeOK
<1>a. RealHC(h, hcs[h]) /\ (hcs[h].phase = "available" => kube[h] # 0)
  BY DEF CopyInv
<1>1. CASE CreateHC(h)
  <2>1. PICK anno \in AnnosOf[h] \cup {NoName} :
          hcs' = [hcs EXCEPT ![h] = [NoHC EXCEPT !.phase = "pending", !.anno = anno]]
    BY <1>1, Zenon DEF CreateHC
  <2>2. RealHC(h, hcs'[h]) /\ hcs'[h].phase = "pending"
    BY <1>0, <2>1 DEF NoHC, RealHC
  <2> QED BY <1>0, <1>1, <2>1, <2>2, OneOuter DEF CreateHC, Created
<1>2. CASE BecomeAvailable(h)
  <2>1. hcs' = [hcs EXCEPT ![h].phase = "available"] /\ kube' = kube /\ kube[h] # 0
    BY <1>2 DEF BecomeAvailable
  <2>2. hcs'[h].phase = "available" /\ hcs'[h].anno = hcs[h].anno
    BY <1>0, <2>1 DEF HCState
  <2>3. h \in queue' /\ queue \subseteq queue'
    BY <1>2 DEF BecomeAvailable, Updated
  <2> QED BY <1>0, <1>a, <1>2, <2>1, <2>2, <2>3, OneOuter DEF BecomeAvailable, RealHC
<1>3. CASE BecomeUnavailable(h)
  <2>1. hcs' = [hcs EXCEPT ![h].phase = "pending"] /\ kube' = kube /\ queue' = queue
    BY <1>3 DEF BecomeUnavailable
  <2>2. hcs'[h].phase = "pending" /\ hcs'[h].anno = hcs[h].anno
    BY <1>0, <2>1 DEF HCState
  <2> QED BY <1>0, <1>a, <1>3, <2>1, <2>2, OneOuter DEF BecomeUnavailable, RealHC
<1>4. CASE CompleteVersion(h)
  <2>1. hcs' = [hcs EXCEPT ![h].complete = TRUE] /\ kube' = kube /\ Live(h)
    BY <1>4 DEF CompleteVersion
  <2>2. hcs'[h].phase = hcs[h].phase /\ hcs'[h].anno = hcs[h].anno
    BY <1>0, <2>1 DEF HCState
  <2>3. h \in queue' /\ queue \subseteq queue'
    BY <1>4, <2>1 DEF CompleteVersion, Updated, Live
  <2> QED BY <1>0, <1>a, <1>4, <2>1, <2>2, <2>3, OneOuter DEF CompleteVersion, RealHC, Live
<1>5. CASE DeleteHC(h)
  <2>1. hcs' = [hcs EXCEPT ![h].phase = "deleting"] /\ kube' = kube /\ queue' = queue
    BY <1>5 DEF DeleteHC
  <2>2. hcs'[h].phase = "deleting" /\ hcs'[h].anno = hcs[h].anno
    BY <1>0, <2>1 DEF HCState
  <2> QED BY <1>0, <1>a, <1>5, <2>1, <2>2, OneOuter DEF DeleteHC, RealHC
<1>6. CASE Vanish(h)
  <2>1. /\ hcs' = [hcs EXCEPT ![h] = NoHC]
        /\ kube' = [kube EXCEPT ![h] = 0]
        /\ queue' = queue \cup {h}
    BY <1>6 DEF Vanish, Deleted
  <2>2. hcs'[h] = NoHC /\ RealHC(h, hcs'[h]) /\ hcs'[h].phase = "absent"
    BY <1>0, <2>1 DEF NoHC, RealHC
  <2>3. \A g \in HCs \ {h} : hcs'[g] = hcs[g] /\ kube'[g] = kube[g]
    BY <2>1 DEF TypeOK
  <2> QED BY <1>6, <2>1, <2>2, <2>3, OneOuter DEF Vanish
<1>7. CASE Join(h)
  BY <1>a, <1>7, OneOuter DEF Join
<1>8. ASSUME NEW v \in Versions, PublishKubeconfig(h, v)
      PROVE  Outer
  <2>1. hcs' = hcs /\ kube' = [kube EXCEPT ![h] = v] /\ queue \subseteq queue'
    BY <1>8, UpdatedQueue DEF PublishKubeconfig
  <2>2. kube'[h] # 0 /\ \A g \in HCs \ {h} : kube'[g] = kube[g]
    BY <2>1 DEF TypeOK
  <2> QED BY <1>a, <1>8, <2>1, <2>2, OneOuter DEF PublishKubeconfig
<1>9. ASSUME NEW v \in Versions, Rotate(h, v)
      PROVE  Outer
  <2>1. hcs' = hcs /\ kube' = [kube EXCEPT ![h] = v] /\ queue' = queue
    BY <1>9 DEF Rotate
  <2>2. kube'[h] # 0 /\ \A g \in HCs \ {h} : kube'[g] = kube[g]
    BY <2>1 DEF TypeOK
  <2> QED BY <1>a, <1>9, <2>1, <2>2, OneOuter DEF Rotate
<1>10. ASSUME NEW v \in Data, SetPassword(h, v)
       PROVE  Outer
  <2>1. hcs' = [hcs EXCEPT ![h].password = v] /\ kube' = kube /\ Live(h)
    BY <1>10 DEF SetPassword
  <2>2. hcs'[h].phase = hcs[h].phase /\ hcs'[h].anno = hcs[h].anno
    BY <1>0, <2>1 DEF HCState
  <2>3. h \in queue' /\ queue \subseteq queue'
    BY <1>10, <2>1 DEF SetPassword, Updated, Live
  <2> QED BY <1>0, <1>a, <1>10, <2>1, <2>2, <2>3, OneOuter DEF SetPassword, RealHC, Live
<1>11. ASSUME NEW anno \in AnnosOf[h] \cup {NoName}, Annotate(h, anno)
       PROVE  Outer
  <2>1. hcs' = [hcs EXCEPT ![h].anno = anno] /\ kube' = kube /\ Live(h)
    BY <1>11 DEF Annotate
  <2>2. hcs'[h].phase = hcs[h].phase /\ hcs'[h].anno = anno
    BY <1>0, <2>1 DEF HCState
  <2>3. h \in queue' /\ queue \subseteq queue'
    BY <1>11, <2>1 DEF Annotate, Updated, Live
  <2> QED BY <1>0, <1>a, <1>11, <2>1, <2>2, <2>3, OneOuter DEF Annotate, RealHC, Live
<1> QED BY <1>1, <1>2, <1>3, <1>4, <1>5, <1>6, <1>7, <1>8, <1>9, <1>10, <1>11 DEF World

\* The watcher does not lose a change of the kubeconfig of an available HC.
LEMMA WatchOuter ==
  ASSUME TypeOK, CopyInv,
         \/ \E h \in HCs : SeeSecret(h) \/ WatchKubeconfig(h)
         \/ \E name \in Names : WatchKlusterlet(name)
  PROVE  Outer
<1> USE DEF clusterVars, hubVars, workVars, historyVars
<1>0. \A g \in HCs : RealHC(g, hcs[g]) /\ (hcs[g].phase = "available" => kube[g] # 0)
  BY DEF CopyInv
<1>1. ASSUME NEW h \in HCs, SeeSecret(h)
      PROVE  Outer
  <2>1. /\ UNCHANGED <<pc, seen, data, failed, mirror, lost, hcs, kube, queue>>
        /\ kubeCache' = [kubeCache EXCEPT ![h] = kube[h]]
        /\ kwatch' = IF 0 \in {kube[h], kubeCache[h]} THEN kwatch ELSE kwatch \cup {h}
    BY <1>1 DEF SeeSecret
  <2>2. ASSUME NEW g \in HCs, hcs[g].phase = "available", kubeCache[g] # 0
        PROVE  kubeCache'[g] # 0 /\ (g \in kwatch' \/ (kubeCache'[g] = kubeCache[g] /\ g \notin kwatch))
    <3>1. CASE g = h
      <4>1. kubeCache'[g] = kube[g] /\ kube[g] # 0
        BY <1>0, <2>1, <2>2, <3>1 DEF TypeOK
      <4> QED BY <2>1, <2>2, <3>1, <4>1
    <3>2. CASE g # h
      BY <2>1, <2>2, <3>2 DEF TypeOK
    <3> QED BY <3>1, <3>2
  <2> QED BY <1>0, <2>1, <2>2 DEF Outer
<1>2. ASSUME NEW h \in HCs, WatchKubeconfig(h)
      PROVE  Outer
  <2>1. /\ UNCHANGED <<pc, seen, data, failed, mirror, lost, hcs, kube, kubeCache>>
        /\ kwatch' = kwatch \ {h}
        /\ IF kubeCache[h] = 0 \/ hcs[h].phase = "absent" THEN UNCHANGED queue ELSE Updated(h)
    BY <1>2 DEF WatchKubeconfig
  <2>2. queue \subseteq queue'
    BY <2>1, UpdatedQueue
  <2>3. hcs[h].phase = "available" /\ kubeCache[h] # 0 => h \in queue'
    BY <2>1 DEF Updated
  <2> QED BY <1>0, <2>1, <2>2, <2>3 DEF Outer
<1>3. ASSUME NEW name \in Names, WatchKlusterlet(name)
      PROVE  Outer
  <2>1. PICK h \in HCsOf(name) : Updated(h)
    BY <1>3 DEF WatchKlusterlet
  <2>2. h \in HCs
    BY <2>1 DEF HCsOf, Named, Discovered, Existing
  <2>3. queue \subseteq queue'
    BY <2>1, <2>2, UpdatedQueue
  <2> QED BY <1>0, <1>3, <2>3 DEF WatchKlusterlet, Outer
<1> QED BY <1>1, <1>2, <1>3

LEMMA ImportOuter ==
  ASSUME CopyInv, NEW name \in Names,
         Import(name) \/ Deploy(name) \/ AddNamespace(name) \/ Detach(name) \/ RemoveMC(name)
  PROVE  Outer
<1>1. UNCHANGED <<pc, seen, data, failed, mirror, lost, queue, hcs, kube, kubeCache, kwatch>>
  BY DEF Import, Deploy, AddNamespace, Detach, RemoveMC, clusterVars, hubVars, workVars,
         watchVars, historyVars, NoReconcile
<1> QED BY <1>1 DEF CopyInv, Outer

\* A restart forgets every copy.
LEMMA RestartCopy ==
  ASSUME TypeOK, CopyInv, Restart
  PROVE  CopyInv'
<1> SUFFICES ASSUME NEW g \in HCs
             PROVE  /\ CopyOK(g)'
                    /\ pc'[g] \in ClusterSteps => seen'[g].phase \in {"absent", "deleting"}
                    /\ RealHC(g, hcs'[g]) /\ RealHC(g, seen'[g]) /\ SeenOK(g)'
                    /\ hcs'[g].phase = "available" => kube'[g] # 0
  BY DEF CopyInv, RealHC
<1>1. pc'[g] = "idle" /\ seen'[g] = NoHC /\ hcs' = hcs /\ kube' = kube
  BY DEF Restart, clusterVars
<1>2. RealHC(g, NoHC)
  BY DEF RealHC, NoHC
<1> QED BY <1>1, <1>2 DEF CopyInv, CopyOK, SeenOK, ClusterSteps, MirrorSteps

LEMMA InitCopy == Init => CopyInv
<1> SUFFICES ASSUME Init, NEW g \in HCs
             PROVE  /\ CopyOK(g)
                    /\ pc[g] \in ClusterSteps => seen[g].phase \in {"absent", "deleting"}
                    /\ RealHC(g, hcs[g]) /\ RealHC(g, seen[g]) /\ SeenOK(g)
                    /\ hcs[g].phase = "available" => kube[g] # 0
  BY DEF CopyInv
<1>1. pc[g] = "idle" /\ seen[g] = NoHC /\ (kube[g] = 0 <=> hcs[g] = NoHC)
  BY DEF Init
<1>2. RealHC(g, NoHC) /\ NoHC.phase = "absent"
  BY DEF RealHC, NoHC
<1>3. hcs[g] = NoHC \/ (hcs[g].phase = "available" /\ hcs[g].anno = NoName)
  <2>1. hcs[g] \in {NoHC} \cup [phase: {"available"}, anno: {NoName}, password: Data, complete: BOOLEAN]
    BY DEF Init
  <2> QED BY <2>1
<1>4. RealHC(g, hcs[g])
  BY <1>2, <1>3 DEF RealHC
<1> QED BY <1>1, <1>2, <1>4 DEF CopyOK, SeenOK, ClusterSteps, MirrorSteps

-----------------------------------------------------------------------------
(* The mirrored secrets of an HC that is up                                *)

\* The MC names of an HC are candidates, and no other HC shares those of one
\* that is alone.
LEMMA CandidateTypes ==
  ASSUME NEW h \in HCs
  PROVE  /\ Candidates(h) \subseteq Names
         /\ \A hc \in HCState : RealHC(h, hc) => MCName(h, hc) \in Candidates(h)
BY DEF Candidates, RealHC, MCName, HCState

LEMMA KeysApart ==
  ASSUME NEW g \in HCs, Alone(g), NEW h \in HCs \ {g}, NEW name \in Candidates(h), NEW kind
  PROVE  <<name, kind>> \notin OwnKeys(g)
BY DEF Alone, OwnKeys

\* The secret a reconcile stores is one there may be.
LEMMA StoreKey ==
  ASSUME TypeOK, NEW h \in HCs, NEW kind \in Kinds
  PROVE  <<MCName(h, seen[h]), kind>> \in Names \X Kinds
BY NameTypes DEF TypeOK

\* A reconcile deletes secrets of its HC, or stores one under its MC name.
LEMMA WorkMirror ==
  ASSUME TypeOK, NEW h \in HCs, Reconcile(h) \/ Fails(h)
  PROVE  \/ UNCHANGED mirror
         \/ \E keys \in SUBSET Owned(h) : Delete(keys)
         \/ \E kind \in Kinds : Store(h, kind)
<1>1. CASE DeleteMirrors(h)
  BY <1>1 DEF DeleteMirrors
<1>2. CASE GetPassword(h)
  BY <1>2 DEF GetPassword, OwnedPasswords
<1>3. CASE PushKubeconfig(h)
  BY <1>3 DEF PushKubeconfig, Kinds
<1>4. CASE PushPassword(h)
  BY <1>4 DEF PushPassword, Kinds
<1>5. CASE DeleteMirrorsFails(h)
  <2>1. PICK keys \in SUBSET Owned(h) : Delete(keys)
    BY <1>5 DEF DeleteMirrorsFails
  <2> QED BY <2>1
<1>6. CASE DeletePasswordFails(h)
  <2>1. PICK keys \in SUBSET OwnedPasswords(h) : Delete(keys)
    BY <1>6 DEF DeletePasswordFails
  <2>2. keys \in SUBSET Owned(h)
    BY <2>1 DEF OwnedPasswords
  <2> QED BY <2>1, <2>2
<1>7. CASE \/ GetHC(h) \/ GetMC(h) \/ DeleteMC(h) \/ Release(h) \/ GetKubeconfig(h)
           \/ PutExternal(h) \/ Claim(h) \/ MirrorFails(h) \/ ClusterFails(h)
  BY <1>7 DEF GetHC, GetMC, DeleteMC, Release, GetKubeconfig, PutExternal, Claim, MirrorFails,
              ClusterFails, hubVars
<1> QED BY <1>1, <1>2, <1>3, <1>4, <1>5, <1>6, <1>7 DEF Reconcile, Fails

\* It leaves alone what another HC has under names of its own.
LEMMA OthersKept ==
  ASSUME TypeOK, CopyInv, MirrorInv, NEW h \in HCs, Reconcile(h) \/ Fails(h),
         NEW g \in HCs \ {h}, Alone(g)
  PROVE  /\ \A key \in OwnKeys(g) : mirror'[key] = mirror[key]
         /\ Owned(g)' \subseteq Owned(g)
<1>0. OwnKeys(g) \subseteq Names \X Kinds /\ \A key \in OwnKeys(g) : mirror[key].owner # h
  BY CandidateTypes DEF OwnKeys, MirrorInv, MirrorOK
<1>1. CASE UNCHANGED mirror
  BY <1>1 DEF Owned
<1>2. ASSUME NEW keys \in SUBSET Owned(h), Delete(keys)
      PROVE  /\ \A key \in OwnKeys(g) : mirror'[key] = mirror[key]
             /\ Owned(g)' \subseteq Owned(g)
  <2>1. \A key \in OwnKeys(g) : key \notin keys
    BY <1>0, <1>2 DEF Owned
  <2>2. \A key \in OwnKeys(g) : mirror'[key] = mirror[key]
    BY <1>0, <1>2, <2>1 DEF Delete
  <2>3. Owned(g)' = Owned(g) \ keys
    BY <1>2, DeleteOwned
  <2> QED BY <2>2, <2>3
<1>3. ASSUME NEW kind \in Kinds, Store(h, kind)
      PROVE  /\ \A key \in OwnKeys(g) : mirror'[key] = mirror[key]
             /\ Owned(g)' \subseteq Owned(g)
  <2>1. MCName(h, seen[h]) \in Candidates(h)
    BY CandidateTypes DEF CopyInv, TypeOK
  <2>2. <<MCName(h, seen[h]), kind>> \notin OwnKeys(g)
    BY <2>1, KeysApart
  <2>3. ASSUME NEW key \in OwnKeys(g)
        PROVE  mirror'[key] = mirror[key]
    <3>1. key \in Names \X Kinds /\ key # <<MCName(h, seen[h]), kind>>
      BY <1>0, <2>2
    <3>2. <<MCName(h, seen[h]), kind>> \in Names \X Kinds
      BY StoreKey
    <3> QED BY <1>3, <3>1, <3>2 DEF Store, TypeOK
  <2>4. Owned(g)' \subseteq Owned(g)
    BY <1>3, StoreOwned
  <2> QED BY <2>3, <2>4
<1> QED BY <1>1, <1>2, <1>3, WorkMirror

\* The secrets an HC has under its own names stay its own.
LEMMA OwnerKept ==
  ASSUME TypeOK, CopyInv, MirrorInv, NEW h \in HCs, Reconcile(h) \/ Fails(h), Alone(h)
  PROVE  \A key \in OwnKeys(h) : mirror'[key].owner \in {0, h}
<1>0. OwnKeys(h) \subseteq Names \X Kinds /\ \A key \in OwnKeys(h) : mirror[key].owner \in {0, h}
  BY CandidateTypes DEF OwnKeys, MirrorInv, MirrorOK
<1>1. CASE UNCHANGED mirror
  BY <1>0, <1>1
<1>2. ASSUME NEW keys, Delete(keys)
      PROVE  \A key \in OwnKeys(h) : mirror'[key].owner \in {0, h}
  BY <1>0, <1>2 DEF Delete, NoMirror
<1>3. ASSUME NEW kind \in Kinds, Store(h, kind)
      PROVE  \A key \in OwnKeys(h) : mirror'[key].owner \in {0, h}
  <2>1. ASSUME NEW key \in OwnKeys(h)
        PROVE  mirror'[key].owner \in {0, h}
    <3>1. key \in Names \X Kinds
      BY <1>0
    <3>2. <<MCName(h, seen[h]), kind>> \in Names \X Kinds
      BY StoreKey
    <3> QED BY <1>0, <1>3, <3>1, <3>2 DEF Store, TypeOK
  <2> QED BY <2>1
<1> QED BY <1>1, <1>2, <1>3, WorkMirror

\* What an HC has come to is left to it by the reconcile of another.
LEMMA OthersMirror ==
  ASSUME TypeOK, CopyInv, MirrorInv, NEW h \in HCs, Reconcile(h) \/ Fails(h),
         NEW g \in HCs \ {h}, Alone(g)
  PROVE  MirrorOK(g)'
<1>1. UNCHANGED <<hcs, kube, kubeCache, kwatch>> /\ Undisturbed(g)
  BY WorkOthers
<1>2. (\A key \in OwnKeys(g) : mirror'[key] = mirror[key]) /\ Owned(g)' \subseteq Owned(g)
  BY OthersKept
<1>3. MirrorOK(g)
  BY DEF MirrorInv
<1>4. \A kind \in Kinds : <<MCName(g, hcs[g]), kind>> \in OwnKeys(g)
  BY CandidateTypes DEF CopyInv, TypeOK, OwnKeys
<1>5. \A key \in OwnKeys(g) : mirror'[key].owner \in {0, g}
  BY <1>2, <1>3 DEF MirrorOK
<1>6. MCName(g, hcs'[g]) = MCName(g, hcs[g])
  BY <1>1
<1>7. KubeconfigOK(g) => KubeconfigOK(g)'
  <2>1. KubeconfigStored(g) => KubeconfigStored(g)'
    BY <1>1, <1>2, <1>4, <1>6 DEF KubeconfigStored, Kinds
  <2> QED BY <1>1, <2>1 DEF KubeconfigOK, Undisturbed
<1>8. PasswordOK(g) => PasswordOK(g)'
  <2>1. PasswordMirrored(g) => PasswordMirrored(g)'
    <3>1. CASE hcs[g].password = 0
      <4>1. OwnedPasswords(g)' \subseteq OwnedPasswords(g)
        BY <1>2 DEF OwnedPasswords
      <4> QED BY <1>1, <3>1, <4>1 DEF PasswordMirrored, Undisturbed
    <3>2. CASE hcs[g].password # 0
      BY <1>1, <1>2, <1>4, <1>6, <3>2 DEF PasswordMirrored, Kinds
    <3> QED BY <3>1, <3>2
  <2> QED BY <1>1, <2>1 DEF PasswordOK, Undisturbed
<1> QED BY <1>1, <1>3, <1>5, <1>7, <1>8 DEF MirrorOK, OwnKeys, Candidates, Undisturbed

\* With the HC up and no request queued, a reconcile under way mirrors its
\* secrets, and knows it as it is.
LEMMA Underway ==
  ASSUME TypeOK, CopyInv, NEW h \in HCs,
         hcs[h].phase = "available", h \notin queue, pc[h] # "idle"
  PROVE  pc[h] \in MirrorSteps /\ seen[h] = hcs[h]
BY DEF TypeOK, CopyInv, CopyOK, SeenOK, Steps

\* The reconcile of an HC gets on with the kubeconfig.
LEMMA KubeconfigKept ==
  ASSUME TypeOK, CopyInv, MirrorInv, NEW h \in HCs, Reconcile(h) \/ Fails(h), Alone(h),
         hcs[h].phase = "available", h \notin queue'
  PROVE  KubeconfigOK(h)'
<1> DEFINE key == <<MCName(h, hcs[h]), "kubeconfig">>
<1> USE DEF clusterVars, hubVars, watchVars
<1>0. UNCHANGED <<hcs, kube, kubeCache, kwatch>>
  BY WorkOthers
<1>a. key \in OwnKeys(h) /\ key \in Names \X Kinds
  BY CandidateTypes DEF CopyInv, TypeOK, OwnKeys, Kinds
<1>b. h \notin queue => KubeconfigOK(h) /\ mirror[key].owner \in {0, h}
  BY <1>a DEF MirrorInv, MirrorOK
<1>c. h \notin queue /\ pc[h] # "idle" => pc[h] \in MirrorSteps /\ seen[h] = hcs[h]
  BY Underway
<1>1. CASE GetHC(h)
  BY <1>1 DEF GetHC, Goto, TypeOK, FirstStep, KubeconfigOK
<1>2. CASE GetMC(h) \/ DeleteMC(h) \/ Release(h) \/ DeleteMirrors(h) \/ ClusterFails(h)
  BY <1>2, <1>c DEF GetMC, DeleteMC, Release, DeleteMirrors, ClusterFails, ClusterSteps, MirrorSteps
<1>3. CASE DeleteMirrorsFails(h)
  BY <1>3 DEF DeleteMirrorsFails, Requeue
<1>4. CASE GetKubeconfig(h)
  <2>1. CASE kubeCache[h] = 0
    BY <1>4, <2>1 DEF GetKubeconfig, Goto, TypeOK, KubeconfigOK
  <2>2. CASE kubeCache[h] # 0
    BY <1>0, <1>4, <2>2 DEF GetKubeconfig, Goto, TypeOK, KubeconfigOK
  <2> QED BY <2>1, <2>2
<1>5. CASE PutExternal(h)
  BY <1>0, <1>5, <1>b DEF PutExternal, Goto, TypeOK, KubeconfigOK
<1>6. CASE PushKubeconfig(h)
  <2>1. h \notin queue /\ seen[h] = hcs[h] /\ pc[h] = "push"
    BY <1>6, <1>c DEF PushKubeconfig
  <2>2. mirror'[key] = [owner |-> h, data |-> data[h]]
    BY <1>6, <1>a, <1>b, <2>1 DEF PushKubeconfig, Store, TypeOK
  <2>3. pc'[h] = "password" /\ failed' = failed
    BY <1>6 DEF PushKubeconfig, Goto, TypeOK
  <2> QED BY <1>0, <1>b, <2>1, <2>2, <2>3 DEF KubeconfigOK, KubeconfigStored
<1>7. CASE GetPassword(h) \/ DeletePasswordFails(h)
  <2>1. h \notin queue /\ pc[h] = "password"
    BY <1>7 DEF GetPassword, DeletePasswordFails
  <2>2. pc'[h] \in {"claim", "pushPassword"} /\ (failed[h] => failed'[h])
    BY <1>7 DEF GetPassword, DeletePasswordFails, Goto, TypeOK
  <2>3. UNCHANGED mirror \/ \E keys \in SUBSET OwnedPasswords(h) : Delete(keys)
    BY <1>7 DEF GetPassword, DeletePasswordFails
  <2>4. mirror'[key] = mirror[key]
    <3>1. key \notin OwnedPasswords(h)
      BY DEF OwnedPasswords
    <3> QED BY <1>a, <2>3, <3>1 DEF Delete
  <2> QED BY <1>0, <1>b, <2>1, <2>2, <2>4 DEF KubeconfigOK, KubeconfigStored
<1>8. CASE PushPassword(h)
  <2>1. h \notin queue /\ pc[h] = "pushPassword" /\ pc'[h] = "claim" /\ failed' = failed
    BY <1>8 DEF PushPassword, Goto, TypeOK
  <2>2. mirror'[key] = mirror[key]
    <3>1. key # <<MCName(h, seen[h]), "password">>
      OBVIOUS
    <3> QED BY <1>8, <1>a, <3>1 DEF PushPassword, Store, TypeOK
  <2> QED BY <1>0, <1>b, <2>1, <2>2 DEF KubeconfigOK, KubeconfigStored
<1>9. CASE Claim(h)
  <2>1. h \notin queue /\ ~failed[h] /\ Rest(h) /\ pc[h] = "claim"
    BY <1>9 DEF Claim, Requeue
  <2>2. pc'[h] = "idle" /\ mirror' = mirror
    BY <1>9, <2>1 DEF Claim, Rest, Goto, TypeOK
  <2> QED BY <1>0, <1>b, <2>1, <2>2 DEF KubeconfigOK, KubeconfigStored
<1>10. CASE MirrorFails(h)
  <2>1. failed'[h] = TRUE /\ pc'[h] # "idle"
    BY <1>10 DEF MirrorFails, NextStep, Goto, TypeOK
  <2> QED BY <2>1 DEF KubeconfigOK
<1> QED
  BY <1>1, <1>2, <1>3, <1>4, <1>5, <1>6, <1>7, <1>8, <1>9, <1>10 DEF Reconcile, Fails

\* And with the password.
LEMMA PasswordKept ==
  ASSUME TypeOK, CopyInv, MirrorInv, NEW h \in HCs, Reconcile(h) \/ Fails(h), Alone(h),
         hcs[h].phase = "available", h \notin queue'
  PROVE  PasswordOK(h)'
<1> DEFINE key == <<MCName(h, hcs[h]), "password">>
<1> USE DEF clusterVars, hubVars, watchVars
<1>0. UNCHANGED <<hcs, kube, kubeCache, kwatch>>
  BY WorkOthers
<1>a. key \in OwnKeys(h) /\ key \in Names \X Kinds
  BY CandidateTypes DEF CopyInv, TypeOK, OwnKeys, Kinds
<1>b. h \notin queue => PasswordOK(h) /\ mirror[key].owner \in {0, h}
  BY <1>a DEF MirrorInv, MirrorOK
<1>c. h \notin queue /\ pc[h] # "idle" => pc[h] \in MirrorSteps /\ seen[h] = hcs[h]
  BY Underway
<1>1. CASE GetHC(h)
  BY <1>1 DEF GetHC, Goto, TypeOK, FirstStep, PasswordOK
<1>2. CASE GetMC(h) \/ DeleteMC(h) \/ Release(h) \/ DeleteMirrors(h) \/ ClusterFails(h)
  BY <1>2, <1>c DEF GetMC, DeleteMC, Release, DeleteMirrors, ClusterFails, ClusterSteps, MirrorSteps
<1>3. CASE DeleteMirrorsFails(h)
  BY <1>3 DEF DeleteMirrorsFails, Requeue
<1>4. CASE GetKubeconfig(h) \/ PutExternal(h) \/ PushKubeconfig(h)
  BY <1>4 DEF GetKubeconfig, PutExternal, PushKubeconfig, Goto, TypeOK, PasswordOK
<1>5. CASE GetPassword(h)
  <2>1. h \notin queue /\ pc[h] = "password" /\ seen[h] = hcs[h]
    BY <1>5, <1>c DEF GetPassword
  <2>2. CASE hcs[h].password = 0
    <3>1. Delete(OwnedPasswords(h)) /\ Goto(h, "claim")
      BY <1>5, <2>1, <2>2 DEF GetPassword
    <3>2. OwnedPasswords(h)' = {}
      <4>1. Owned(h)' = Owned(h) \ OwnedPasswords(h)
        BY <3>1, DeleteOwned
      <4> QED BY <4>1 DEF OwnedPasswords
    <3>3. pc'[h] = "claim"
      BY <3>1 DEF Goto, TypeOK
    <3> QED BY <1>0, <2>2, <3>2, <3>3 DEF PasswordOK, PasswordMirrored
  <2>3. CASE hcs[h].password # 0
    BY <1>0, <1>5, <2>1, <2>3 DEF GetPassword, Goto, TypeOK, PasswordOK
  <2> QED BY <2>2, <2>3
<1>6. CASE PushPassword(h)
  <2>1. h \notin queue /\ seen[h] = hcs[h] /\ pc[h] = "pushPassword" /\ pc'[h] = "claim"
    BY <1>6, <1>c DEF PushPassword, Goto, TypeOK
  <2>2. hcs[h].password # 0 /\ data[h] = hcs[h].password
    BY <1>b, <2>1 DEF PasswordOK
  <2>3. mirror'[key] = [owner |-> h, data |-> data[h]]
    BY <1>6, <1>a, <1>b, <2>1 DEF PushPassword, Store, TypeOK
  <2> QED BY <1>0, <2>1, <2>2, <2>3 DEF PasswordOK, PasswordMirrored
<1>7. CASE Claim(h)
  <2>1. h \notin queue /\ ~failed[h] /\ Rest(h) /\ pc[h] = "claim"
    BY <1>7 DEF Claim, Requeue
  <2>2. pc'[h] = "idle" /\ UNCHANGED <<hcs, mirror, lost>>
    BY <1>7, <2>1 DEF Claim, Rest, Goto, TypeOK, historyVars
  <2>3. PasswordMirrored(h)
    BY <1>b, <2>1 DEF PasswordOK
  <2>4. PasswordMirrored(h)'
    BY <2>2, <2>3 DEF PasswordMirrored, OwnedPasswords, Owned, MCName
  <2> QED BY <2>2, <2>4 DEF PasswordOK
<1>8. CASE MirrorFails(h)
  <2>1. failed'[h] = TRUE /\ pc'[h] \in {"push", "password", "claim"}
    BY <1>8 DEF MirrorFails, NextStep, Goto, TypeOK
  <2> QED BY <2>1 DEF PasswordOK
<1>9. CASE DeletePasswordFails(h)
  <2>1. h \in lost' /\ pc'[h] = "claim"
    BY <1>9 DEF DeletePasswordFails, Goto, TypeOK
  <2>2. hcs'[h].password = 0
    BY <1>0, <1>9, <1>c DEF DeletePasswordFails
  <2> QED BY <2>1, <2>2 DEF PasswordOK, PasswordMirrored
<1> QED
  BY <1>1, <1>2, <1>3, <1>4, <1>5, <1>6, <1>7, <1>8, <1>9 DEF Reconcile, Fails

\* A reconcile keeps MirrorInv.
LEMMA WorkMirrors ==
  ASSUME TypeOK, CopyInv, MirrorInv, NEW h \in HCs, Reconcile(h) \/ Fails(h)
  PROVE  MirrorInv'
<1> SUFFICES ASSUME NEW g \in HCs, Alone(g)
             PROVE  MirrorOK(g)'
  BY DEF MirrorInv, Alone, Candidates
<1>1. CASE g = h
  <2>1. UNCHANGED hcs
    BY WorkOthers
  <2>2. \A key \in OwnKeys(g) : mirror'[key].owner \in {0, g}
    BY <1>1, OwnerKept
  <2>3. hcs[g].phase = "available" /\ g \notin queue' => KubeconfigOK(g)' /\ PasswordOK(g)'
    BY <1>1, KubeconfigKept, PasswordKept
  <2> QED BY <2>1, <2>2, <2>3 DEF MirrorOK, OwnKeys, Candidates
<1>2. CASE g # h
  BY <1>2, OthersMirror
<1> QED BY <1>1, <1>2

\* So does what happens outside the reconcile.
LEMMA OuterMirrors ==
  ASSUME TypeOK, CopyInv, MirrorInv, Outer
  PROVE  MirrorInv'
<1> SUFFICES ASSUME NEW g \in HCs, Alone(g)
             PROVE  MirrorOK(g)'
  BY DEF MirrorInv, Alone, Candidates
<1>1. \A key \in OwnKeys(g) : mirror'[key].owner \in {0, g}
  BY DEF MirrorInv, MirrorOK, Outer
<1>2. ASSUME hcs'[g].phase = "available", g \notin queue'
      PROVE  KubeconfigOK(g)' /\ PasswordOK(g)'
  <2>1. /\ UNCHANGED <<pc, seen, data, failed, mirror, lost>>
        /\ hcs'[g] = hcs[g] /\ g \notin queue
        /\ kubeCache[g] # 0 =>
             kubeCache'[g] # 0 /\ (g \in kwatch' \/ (kubeCache'[g] = kubeCache[g] /\ g \notin kwatch))
    BY <1>2 DEF Outer
  <2>2. KubeconfigOK(g) /\ PasswordOK(g)
    BY <1>2, <2>1 DEF MirrorInv, MirrorOK
  <2>3. KubeconfigOK(g)'
    BY <2>1, <2>2 DEF KubeconfigOK, KubeconfigStored, MCName
  <2>4. PasswordOK(g)'
    BY <2>1, <2>2 DEF PasswordOK, PasswordMirrored, OwnedPasswords, Owned, MCName
  <2> QED BY <2>3, <2>4
<1> QED BY <1>1, <1>2 DEF MirrorOK, OwnKeys, Candidates

\* After a restart every HC is a request.
LEMMA RestartMirrors ==
  ASSUME MirrorInv, Restart
  PROVE  MirrorInv'
<1> SUFFICES ASSUME NEW g \in HCs, Alone(g)
             PROVE  MirrorOK(g)'
  BY DEF MirrorInv, Alone, Candidates
<1>1. mirror' = mirror /\ hcs' = hcs /\ queue' = Existing
  BY DEF Restart, clusterVars, hubVars
<1> QED BY <1>1 DEF MirrorInv, MirrorOK, OwnKeys, Candidates, Existing

LEMMA InitMirrors == Init => MirrorInv
<1> SUFFICES ASSUME Init, NEW g \in HCs
             PROVE  MirrorOK(g)
  BY DEF MirrorInv
<1>1. \A key \in OwnKeys(g) : mirror[key].owner \in {0, g}
  BY CandidateTypes DEF Init, OwnKeys, NoMirror
<1>2. hcs[g].phase = "available" => g \in queue
  BY DEF Init, Existing
<1> QED BY <1>1, <1>2 DEF MirrorOK

LEMMA NextMirrors ==
  TypeOK /\ CopyInv /\ MirrorInv /\ [Next]_vars => CopyInv' /\ MirrorInv'
<1> SUFFICES ASSUME TypeOK, CopyInv, MirrorInv, [Next]_vars
             PROVE  CopyInv' /\ MirrorInv'
  OBVIOUS
<1>1. CASE UNCHANGED vars
  <2>1. Outer
    <3>1. UNCHANGED <<hcs, kube, pc, seen, data, failed, mirror, lost, queue, kubeCache, kwatch>>
      BY <1>1 DEF vars, clusterVars, hubVars, workVars, watchVars, historyVars
    <3> QED BY <3>1 DEF Outer, CopyInv
  <2> QED BY <2>1, OuterCopy, OuterMirrors
<1>2. CASE Next
  <2>1. \/ \E h \in HCs : Reconcile(h) \/ Fails(h)
        \/ \E h \in HCs : World(h)
        \/ \E h \in HCs : SeeSecret(h) \/ WatchKubeconfig(h)
        \/ \E name \in Names : WatchKlusterlet(name)
        \/ \E name \in Names : \/ Import(name) \/ Deploy(name) \/ AddNamespace(name)
                               \/ Detach(name) \/ RemoveMC(name)
        \/ Restart
    BY <1>2 DEF Next
  <2>2. ASSUME NEW h \in HCs, Reconcile(h) \/ Fails(h)
        PROVE  CopyInv' /\ MirrorInv'
    BY <2>2, WorkCopy, WorkMirrors
  <2>3. Outer => CopyInv' /\ MirrorInv'
    BY OuterCopy, OuterMirrors
  <2>4. Restart => CopyInv' /\ MirrorInv'
    BY RestartCopy, RestartMirrors
  <2> QED BY <2>1, <2>2, <2>3, <2>4, WorldOuter, WatchOuter, ImportOuter
<1> QED BY <1>1, <1>2

\* At rest nothing is between the kubeconfig, its copy in the informer and the hub.
LEMMA MirrorsSettled == TypeOK /\ CopyInv /\ MirrorInv => SettledMirrors
<1> SUFFICES ASSUME TypeOK, MirrorInv, NEW h \in HCs,
                    Settled(h), Alone(h), hcs[h].phase = "available"
             PROVE  KubeconfigMirrored(h) /\ PasswordMirrored(h)
  BY DEF SettledMirrors
<1>1. h \notin queue /\ pc[h] = "idle" /\ h \notin kwatch /\ kubeCache[h] = kube[h]
  BY DEF Settled
<1>2. KubeconfigOK(h) /\ PasswordOK(h)
  BY <1>1 DEF MirrorInv, MirrorOK
<1>3. KubeconfigMirrored(h)
  BY <1>1, <1>2 DEF KubeconfigOK, KubeconfigStored, KubeconfigMirrored
<1>4. PasswordMirrored(h)
  BY <1>1, <1>2 DEF PasswordOK
<1> QED BY <1>3, <1>4

\* Once nothing is left to do for an HC that is up and whose MC name no other HC
\* has, the hub holds its current kubeconfig and password under that name
\* (createOrUpdateMirrorSecrets, with the watcher of kubeconfig changes).
THEOREM Mirrors == Spec => []SettledMirrors
BY InitType, NextType, InitCopy, InitMirrors, NextMirrors, MirrorsSettled, PTL DEF Spec

-----------------------------------------------------------------------------
(* The import of an HC that is gone                                        *)

\* No HC is discovered under the name of another one.
DiscoveredApart == \A h \in HCs : Apart(h)

\* A reconcile takes MCs and klusterlets only towards their end.
LEMMA WorkImport ==
  ASSUME TypeOK, NEW h \in HCs, Reconcile(h) \/ Fails(h), NEW name \in Names
  PROVE  /\ mc'[name] = mc[name] \/ (mc[name] # "absent" /\ mc'[name] = "deleting")
         /\ klusterlet'[name] = klusterlet[name]
              \/ (klusterlet[name] = "held" /\ klusterlet'[name] = "free")
<1> USE DEF clusterVars, hubVars
<1>1. CASE DeleteMC(h)
  <2>1. MCName(h, seen[h]) \in Names
    BY NameTypes DEF TypeOK
  <2> QED BY <1>1, <2>1 DEF DeleteMC, TypeOK
<1>2. CASE Release(h)
  <2>1. MCName(h, seen[h]) \in Names
    BY NameTypes DEF TypeOK
  <2> QED BY <1>2, <2>1 DEF Release, TypeOK
<1>3. CASE UNCHANGED <<mc, klusterlet>>
  BY <1>3
<1>4. DeleteMC(h) \/ Release(h) \/ UNCHANGED <<mc, klusterlet>>
  BY DEF Reconcile, Fails, GetHC, GetMC, DeleteMirrors, GetKubeconfig, PutExternal,
         PushKubeconfig, GetPassword, PushPassword, Claim, MirrorFails, DeleteMirrorsFails,
         DeletePasswordFails, ClusterFails
<1> QED BY <1>1, <1>2, <1>3, <1>4

\* A klusterlet never outlives its MC: both go together.
LEMMA WorkKlusterlets ==
  ASSUME TypeOK, ImportInv, NEW h \in HCs, Reconcile(h) \/ Fails(h), NEW name \in Names
  PROVE  klusterlet'[name] # "absent" => mc'[name] \in {"hosted", "deleting"}
<1>1. klusterlet[name] # "absent" => mc[name] \in {"hosted", "deleting"}
  BY DEF ImportInv
<1> QED BY <1>1, WorkImport

\* The reconcile of an HC that is gone goes through its calls in order.
LEMMA OwnCleared ==
  ASSUME TypeOK, CopyInv, ImportInv, NEW h \in HCs, Reconcile(h) \/ Fails(h), Alone(h), Apart(h),
         Gone(h)'
  PROVE  Cleared(h)'
<1> DEFINE N == NameOf[h]
<1> USE DEF clusterVars, hubVars
<1>0. UNCHANGED hcs /\ hcs[h].phase = "absent" /\ h \notin queue' /\ h \notin lost' /\ N \in Names
  BY WorkOthers DEF Gone
<1>a. klusterlet[N] # "absent" => mc[N] \in {"hosted", "deleting"}
  BY <1>0 DEF ImportInv
<1>b. ASSUME h \notin queue, pc[h] # "idle"
      PROVE  seen[h] = NoHC /\ MCName(h, seen[h]) = N /\ pc[h] \notin MirrorSteps
  <2>1. seen[h].phase = "absent"
    BY <1>0, <1>b DEF CopyInv, SeenOK
  <2>2. seen[h] = NoHC /\ pc[h] \notin MirrorSteps
    BY <2>1 DEF CopyInv, CopyOK, RealHC
  <2> QED BY <2>2 DEF MCName, NoHC
<1>c. h \notin queue /\ h \notin lost => Cleared(h)
  BY <1>0 DEF ImportInv, Gone
<1>1. CASE GetHC(h)
  <2>1. pc'[h] = "getMC"
    BY <1>0, <1>1 DEF GetHC, Goto, TypeOK, FirstStep
  <2> QED BY <2>1 DEF Cleared
<1>2. CASE GetMC(h)
  BY <1>0, <1>2, <1>b DEF GetMC, Goto, TypeOK, Cleared
<1>3. CASE DeleteMC(h)
  <2>1. h \notin queue /\ seen[h].phase = "absent" /\ MCName(h, seen[h]) = N
    BY <1>0, <1>3, <1>b DEF DeleteMC, NoHC
  <2>2. CASE mc[N] # "absent"
    BY <1>0, <1>3, <2>1, <2>2 DEF DeleteMC, Goto, TypeOK, Cleared
  <2>3. CASE mc[N] = "absent"
    BY <1>0, <1>3, <1>a, <2>1, <2>3 DEF DeleteMC, AfterCluster, Goto, TypeOK, Cleared
  <2> QED BY <2>2, <2>3
<1>4. CASE Release(h)
  <2>1. h \notin queue /\ h \notin lost /\ seen[h].phase = "absent" /\ MCName(h, seen[h]) = N
    BY <1>0, <1>4, <1>b DEF Release, NoHC, historyVars
  <2>2. mc'[N] # "hosted"
    BY <1>4, <1>c, <2>1 DEF Release, Cleared
  <2>3. klusterlet'[N] # "held"
    BY <1>0, <1>4, <2>1 DEF Release, TypeOK
  <2> QED BY <2>2, <2>3 DEF Cleared
<1>5. CASE DeleteMirrors(h)
  <2>1. h \notin queue /\ h \notin lost /\ pc[h] = "deleteMirrors" /\ UNCHANGED <<mc, klusterlet>>
    BY <1>0, <1>5 DEF DeleteMirrors, historyVars
  <2> QED BY <1>c, <2>1 DEF Cleared
<1>6. CASE \/ GetKubeconfig(h) \/ PutExternal(h) \/ PushKubeconfig(h) \/ GetPassword(h)
           \/ PushPassword(h) \/ Claim(h) \/ MirrorFails(h) \/ DeletePasswordFails(h)
  <2>1. pc[h] \in MirrorSteps
    BY <1>6 DEF GetKubeconfig, PutExternal, PushKubeconfig, GetPassword, PushPassword, Claim,
                MirrorFails, DeletePasswordFails, NextStep, MirrorSteps
  <2>2. h \notin queue
    BY <1>0, <1>6 DEF GetKubeconfig, PutExternal, PushKubeconfig, GetPassword, PushPassword,
                      Claim, Requeue, MirrorFails, DeletePasswordFails
  <2> QED BY <1>b, <2>1, <2>2 DEF MirrorSteps
<1>7. CASE DeleteMirrorsFails(h)
  BY <1>0, <1>7 DEF DeleteMirrorsFails, Requeue
<1>8. CASE ClusterFails(h)
  <2>1. h \notin queue /\ pc[h] # "idle"
    BY <1>0, <1>8 DEF ClusterFails, ClusterSteps
  <2>2. seen[h].phase = "absent"
    BY <1>b, <2>1 DEF NoHC
  <2> QED BY <1>0, <1>8, <2>2 DEF ClusterFails
<1> QED
  BY <1>1, <1>2, <1>3, <1>4, <1>5, <1>6, <1>7, <1>8 DEF Reconcile, Fails

LEMMA WorkGone ==
  ASSUME TypeOK, CopyInv, ImportInv, NEW h \in HCs, Reconcile(h) \/ Fails(h)
  PROVE  ImportInv'
<1>1. ASSUME NEW g \in HCs, Alone(g), Apart(g), Gone(g)'
      PROVE  Cleared(g)'
  <2>1. CASE g = h
    BY <1>1, <2>1, OwnCleared
  <2>2. CASE g # h
    <3>1. Undisturbed(g) /\ UNCHANGED hcs
      BY <2>2, WorkOthers
    <3>2. Cleared(g)
      BY <1>1, <3>1 DEF ImportInv, Gone, Undisturbed
    <3>3. mc'[NameOf[g]] \in {mc[NameOf[g]], "deleting"} /\ klusterlet'[NameOf[g]] \in {klusterlet[NameOf[g]], "free"}
      BY WorkImport
    <3> QED BY <3>1, <3>2, <3>3 DEF Cleared, Undisturbed
  <2> QED BY <2>1, <2>2
<1> QED BY <1>1, WorkKlusterlets DEF ImportInv, Alone, Candidates, Apart

\* Outside the reconcile an HC that is gone stays as it is.
LEMMA OuterGone == ASSUME Outer, NEW g \in HCs, Gone(g)' PROVE Gone(g) /\ pc'[g] = pc[g]
BY DEF Outer, Gone

LEMMA PlainGone ==
  ASSUME ImportInv, Outer, UNCHANGED <<mc, klusterlet>>
  PROVE  ImportInv'
<1>1. ASSUME NEW g \in HCs, Alone(g), Apart(g), Gone(g)'
      PROVE  Cleared(g)'
  <2>1. Gone(g) /\ pc'[g] = pc[g]
    BY <1>1, OuterGone
  <2> QED BY <1>1, <2>1 DEF ImportInv, Cleared
<1> QED BY <1>1 DEF ImportInv, Alone, Candidates, Apart

\* No MC is imported under the name of an HC that is alone and gone.
LEMMA NotImported ==
  ASSUME TypeOK, CopyInv, NEW g \in HCs, Alone(g), Apart(g), hcs[g].phase = "absent"
  PROVE  Reachable(NameOf[g]) = {}
<1> SUFFICES ASSUME NEW r \in HCs, hcs[r].phase = "available", NameOf[g] \in ImportNames(r)
             PROVE  FALSE
  BY DEF Reachable
<1>1. r # g
  OBVIOUS
<1>2. Candidates(r) \cap Candidates(g) = {} /\ NameOf[g] \in Candidates(g)
  BY <1>1 DEF Alone, Candidates
<1>3. {NameOf[r], MCName(r, hcs[r])} \subseteq Candidates(r)
  BY CandidateTypes DEF Candidates, CopyInv, TypeOK
<1>4. hcs[r].anno \in Candidates(r) \cup {NoName}
  BY DEF CopyInv, RealHC, Candidates
<1>5. NameOf[g] # KlusterletName(r, hcs[r])
  BY <1>1, <1>2, <1>3 DEF KlusterletName, Apart
<1> QED BY <1>2, <1>3, <1>4, <1>5 DEF ImportNames

LEMMA ImportGone ==
  ASSUME TypeOK, CopyInv, ImportInv, NEW name \in Names, Outer,
         Import(name) \/ Deploy(name) \/ AddNamespace(name) \/ Detach(name) \/ RemoveMC(name)
  PROVE  ImportInv'
<1> USE DEF clusterVars, hubVars
<1>1. ASSUME NEW n \in Names
      PROVE  klusterlet'[n] # "absent" => mc'[n] \in {"hosted", "deleting"}
  <2>1. klusterlet[n] # "absent" => mc[n] \in {"hosted", "deleting"}
    BY DEF ImportInv
  <2>2. CASE Import(name)
    BY <2>1, <2>2 DEF Import, TypeOK
  <2>3. CASE Deploy(name)
    BY <2>1, <2>3 DEF Deploy, TypeOK
  <2>4. CASE AddNamespace(name)
    BY <2>1, <2>4 DEF AddNamespace
  <2>5. CASE Detach(name)
    BY <2>1, <2>5 DEF Detach, TypeOK
  <2>6. CASE RemoveMC(name)
    BY <2>1, <2>6 DEF RemoveMC, TypeOK
  <2> QED BY <2>2, <2>3, <2>4, <2>5, <2>6
<1>2. ASSUME NEW g \in HCs, Alone(g), Apart(g), Gone(g)'
      PROVE  Cleared(g)'
  <2>1. Gone(g) /\ pc'[g] = pc[g] /\ NameOf[g] \in Names
    BY <1>2, OuterGone
  <2>2. Cleared(g)
    BY <1>2, <2>1 DEF ImportInv
  <2>3. CASE Import(name)
    <3>1. name # NameOf[g]
      BY <1>2, <2>1, <2>3, NotImported DEF Import, Gone
    <3> QED BY <2>1, <2>2, <2>3, <3>1 DEF Import, TypeOK, Cleared
  <2>4. CASE Deploy(name)
    BY <2>1, <2>2, <2>4 DEF Deploy, TypeOK, Cleared
  <2>5. CASE AddNamespace(name)
    BY <2>1, <2>2, <2>5 DEF AddNamespace, Cleared
  <2>6. CASE Detach(name)
    BY <2>1, <2>2, <2>6 DEF Detach, TypeOK, Cleared
  <2>7. CASE RemoveMC(name)
    BY <2>1, <2>2, <2>7 DEF RemoveMC, TypeOK, Cleared
  <2> QED BY <2>3, <2>4, <2>5, <2>6, <2>7
<1> QED BY <1>1, <1>2 DEF ImportInv, Alone, Candidates, Apart

\* What a restart interrupts for an HC that is gone counts as lost.
LEMMA RestartGone ==
  ASSUME TypeOK, ImportInv, Restart
  PROVE  ImportInv'
<1>1. UNCHANGED <<hcs, mc, klusterlet>>
  BY DEF Restart, clusterVars, hubVars
<1>2. ASSUME NEW g \in HCs, Alone(g), Apart(g), Gone(g)'
      PROVE  Cleared(g)'
  <2>1. Gone(g) /\ pc[g] = "idle" /\ pc'[g] = "idle"
    BY <1>1, <1>2 DEF Gone, Restart, Existing
  <2> QED BY <1>1, <1>2, <2>1 DEF ImportInv, Cleared
<1> QED BY <1>1, <1>2 DEF ImportInv, Alone, Candidates, Apart

LEMMA InitGone == Init => ImportInv
<1> SUFFICES ASSUME Init PROVE ImportInv
  OBVIOUS
<1>1. \A name \in Names : mc[name] = "absent" /\ klusterlet[name] = "absent"
  BY DEF Init
<1> QED BY <1>1 DEF ImportInv, Cleared

LEMMA NextGone == TypeOK /\ CopyInv /\ ImportInv /\ [Next]_vars => ImportInv'
<1> SUFFICES ASSUME TypeOK, CopyInv, ImportInv, [Next]_vars
             PROVE  ImportInv'
  OBVIOUS
<1>1. CASE UNCHANGED vars
  <2>1. UNCHANGED <<hcs, pc, queue, lost, mc, klusterlet>>
    BY <1>1 DEF vars, clusterVars, hubVars, workVars, historyVars
  <2> QED BY <2>1 DEF ImportInv, Gone, Cleared
<1>2. CASE Next
  <2>1. ASSUME NEW h \in HCs, Reconcile(h) \/ Fails(h)
        PROVE  ImportInv'
    BY <2>1, WorkGone
  <2>2. ASSUME NEW h \in HCs, World(h)
        PROVE  ImportInv'
    <3>1. UNCHANGED <<mc, klusterlet>>
      <4>1. CreateHC(h) => UNCHANGED <<mc, klusterlet>>
        BY DEF CreateHC
      <4>2. BecomeAvailable(h) \/ BecomeUnavailable(h) => UNCHANGED <<mc, klusterlet>>
        BY DEF BecomeAvailable, BecomeUnavailable
      <4>3. CompleteVersion(h) \/ DeleteHC(h) => UNCHANGED <<mc, klusterlet>>
        BY DEF CompleteVersion, DeleteHC
      <4>4. Vanish(h) \/ Join(h) => UNCHANGED <<mc, klusterlet>>
        BY DEF Vanish, Join
      <4>5. \A v : PublishKubeconfig(h, v) \/ Rotate(h, v) => UNCHANGED <<mc, klusterlet>>
        BY DEF PublishKubeconfig, Rotate
      <4>6. \A v : SetPassword(h, v) \/ Annotate(h, v) => UNCHANGED <<mc, klusterlet>>
        BY DEF SetPassword, Annotate
      <4> QED BY <2>2, <4>1, <4>2, <4>3, <4>4, <4>5, <4>6 DEF World
    <3> QED BY <2>2, <3>1, WorldOuter, PlainGone
  <2>3. ASSUME \/ \E h \in HCs : SeeSecret(h) \/ WatchKubeconfig(h)
               \/ \E name \in Names : WatchKlusterlet(name)
        PROVE  ImportInv'
    <3>1. UNCHANGED <<mc, klusterlet>>
      BY <2>3 DEF SeeSecret, WatchKubeconfig, WatchKlusterlet, clusterVars, hubVars
    <3> QED BY <2>3, <3>1, WatchOuter, PlainGone
  <2>4. ASSUME NEW name \in Names,
               Import(name) \/ Deploy(name) \/ AddNamespace(name) \/ Detach(name) \/ RemoveMC(name)
        PROVE  ImportInv'
    BY <2>4, ImportOuter, ImportGone
  <2>5. CASE Restart
    BY <2>5, RestartGone
  <2> QED BY <1>2, <2>1, <2>2, <2>3, <2>4, <2>5 DEF Next
<1> QED BY <1>1, <1>2

\* SettledGone for each HC under whose name no other is discovered.
SettledApart ==
  \A h \in HCs : Settled(h) /\ hcs[h].phase = "absent" /\ h \notin lost /\ Alone(h) /\ Apart(h) =>
    mc[NameOf[h]] # "hosted" /\ klusterlet[NameOf[h]] # "held"

\* At rest, an HC that is gone, whose names no other HC has or is discovered
\* under, leaves no hosted MC of its name and no klusterlet that waits for a
\* clean-up (deleteManagedCluster), unless a call failed or the agent restarted:
\* whatever names the other HCs share or are discovered under.
THEOREM ImportsApart == Spec => []SettledApart
<1>1. ImportInv => SettledApart
  BY DEF ImportInv, SettledApart, Settled, Gone, Cleared
<1> QED
  BY <1>1, InitType, NextType, InitCopy, InitMirrors, NextMirrors, InitGone, NextGone, PTL
     DEF Spec

\* The same of every HC, when none is discovered under the name of another.
THEOREM Imports ==
  ASSUME DiscoveredApart
  PROVE  Spec => []SettledGone
<1>1. SettledApart => SettledGone
  BY DEF SettledApart, SettledGone, DiscoveredApart
<1> QED BY <1>1, ImportsApart, PTL
=============================================================================
