--------------------------- MODULE LabelSyncProofs ---------------------------
(***************************************************************************)
(* Theorems about LabelSync for every set of keys, values and HCs and any  *)
(* number of changes.                                                      *)
(***************************************************************************)
EXTENDS LabelSync, WellFoundedInduction, TLAPS

USE ConstantsAssumption

-----------------------------------------------------------------------------
(* What the sync operators return.                                         *)

\* An MC with no labels is one of the label maps.
LEMMA EmptyType == Empty \in Labels
BY DEF Empty, Labels

\* What is propagated of a label map is a label map.
LEMMA PropagatedType ==
  ASSUME NEW labels \in Labels PROVE Propagated(labels) \in Labels
BY DEF Propagated, Labels

\* A sync of label maps gives a label map and a set of tracked keys.
LEMMA SyncedType ==
  ASSUME NEW labels \in Labels, NEW src \in Labels, NEW tracked \in SUBSET Keys
  PROVE  /\ Synced(labels, src, tracked) \in Labels
         /\ Cleared(labels, tracked) \in Labels
         /\ Managed(labels, src, tracked) \in SUBSET Keys
BY DEF Synced, Cleared, Managed, KeysOf, Labels

\* A merge patch of label maps gives a label map.
LEMMA PatchedType ==
  ASSUME NEW now \in Labels, NEW base \in Labels, NEW new \in Labels
  PROVE  PatchedLabels(now, base, new) \in Labels
BY DEF PatchedLabels, Labels

\* The labels taken from the hub MC are a label map.
LEMMA HubSourceType ==
  ASSUME NEW h \in HubState PROVE HubSource(h) \in Labels
<1>1. Propagated(h.labels) \in Labels
  BY PropagatedType DEF HubState
<1> QED BY <1>1 DEF HubSource, Labels

\* Every form of sync of the spoke MC gives a spoke MC.
LEMMA NewSpokeType ==
  ASSUME NEW mc \in SpokeState, NEW src \in Labels
  PROVE  /\ HCSynced(mc, src) \in SpokeState
         /\ FromHubSynced(mc, src) \in SpokeState
         /\ HCRemoved(mc) \in SpokeState
         /\ HubRemoved(mc) \in SpokeState
<1>1. mc.labels \in Labels /\ mc.hcTracked \in SUBSET Keys /\ mc.hubTracked \in SUBSET Keys
  BY DEF SpokeState
<1>2. /\ Synced(mc.labels, src, mc.hcTracked) \in Labels
      /\ Managed(mc.labels, src, mc.hcTracked) \in SUBSET Keys
      /\ Cleared(mc.labels, mc.hcTracked) \in Labels
  BY <1>1, SyncedType
<1>3. /\ Synced(mc.labels, src, mc.hubTracked) \in Labels
      /\ Managed(mc.labels, src, mc.hubTracked) \in SUBSET Keys
      /\ Cleared(mc.labels, mc.hubTracked) \in Labels
  BY <1>1, SyncedType
<1> QED BY <1>1, <1>2, <1>3 DEF HCSynced, FromHubSynced, HCRemoved, HubRemoved, SpokeState

\* Every form of sync of the hub MC gives a hub MC.
LEMMA NewHubType ==
  ASSUME NEW h \in HubState, NEW src \in Labels
  PROVE  HubSynced(h, src) \in HubState /\ HCRemoved(h) \in HubState
<1>1. h.labels \in Labels /\ h.hcTracked \in SUBSET Keys
  BY DEF HubState
<1>2. /\ Synced(h.labels, src, h.hcTracked) \in Labels
      /\ Managed(h.labels, src, h.hcTracked) \in SUBSET Keys
      /\ Cleared(h.labels, h.hcTracked) \in Labels
  BY <1>1, SyncedType
<1> QED BY <1>1, <1>2 DEF HubSynced, HCRemoved, HubState

\* The patch of the spoke MC leaves a spoke MC.
LEMMA PatchSpokeType ==
  ASSUME TypeOK, NEW new \in SpokeState PROVE PatchSpoke(new) \in SpokeState
<1>1. PatchedLabels(spoke.labels, seenMC.labels, new.labels) \in Labels
  BY PatchedType DEF TypeOK, SpokeState
<1> QED BY <1>1 DEF PatchSpoke, PatchedSet, TypeOK, SpokeState

\* The patch of the hub MC leaves a hub MC.
LEMMA PatchHubType ==
  ASSUME TypeOK, NEW new \in HubState PROVE PatchHub(new) \in HubState
<1>1. PatchedLabels(hub.labels, seenHub.labels, new.labels) \in Labels
  BY PatchedType DEF TypeOK, HubState
<1> QED BY <1>1 DEF PatchHub, PatchedSet, TypeOK, HubState

-----------------------------------------------------------------------------
(* findHostedCluster                                                       *)

\* A set of HCs that is not empty has a first one in the order of the list.
LEMMA FirstExists ==
  ASSUME NEW T \in SUBSET HCs, T # {}
  PROVE  \E h \in T : \A g \in T : h <= g
<1>1. IsWellFoundedOn(OpToRel(<, Nat), Nat)
  BY NatLessThanWellFounded
<1>2. PICK h \in T : \A g \in T : ~ (<<g, h>> \in OpToRel(<, Nat))
  BY <1>1, WFMin
<1>3. \A g \in T : ~ (g < h)
  BY <1>2 DEF OpToRel
<1> QED BY <1>3

\* findHostedCluster returns an HC or none.
LEMMA FoundType ==
  ASSUME hcs \in [HCs -> HCState] PROVE FindHostedCluster \in Found
<1> DEFINE decisive == {h \in HCs : hcs[h].match \in {"anno", "infra"}}
           named == {h \in HCs : hcs[h].match = "name"}
           first == CHOOSE h \in decisive : \A g \in decisive : h <= g
           only  == CHOOSE h \in named : TRUE
<1>1. decisive # {} => first \in HCs
  BY FirstExists
<1>2. named # {} => only \in HCs
  OBVIOUS
<1>3. \A h \in HCs : hcs[h].labels \in Labels
  BY DEF HCState
<1>4. decisive # {} => FindHostedCluster = [result |-> "one", labels |-> hcs[first].labels]
  BY DEF FindHostedCluster
<1>5. decisive = {} /\ named # {} =>
        FindHostedCluster \in {[result |-> "one", labels |-> hcs[only].labels],
                               [result |-> "ambiguous", labels |-> Empty]}
  BY DEF FindHostedCluster
<1>6. decisive = {} /\ named = {} => FindHostedCluster = NoMatch
  BY DEF FindHostedCluster
<1> HIDE DEF decisive, named, first, only
<1>7. CASE decisive # {}
  <2>1. hcs[first].labels \in Labels
    BY <1>1, <1>3, <1>7
  <2> QED BY <2>1, <1>4, <1>7 DEF Found
<1>8. CASE decisive = {} /\ named # {}
  <2>1. hcs[only].labels \in Labels
    BY <1>2, <1>3, <1>8
  <2> QED BY <2>1, <1>5, <1>8, EmptyType DEF Found
<1>9. CASE decisive = {} /\ named = {}
  BY <1>6, <1>9, EmptyType DEF Found, NoMatch
<1> QED BY <1>7, <1>8, <1>9

-----------------------------------------------------------------------------
(* Type correctness                                                        *)

\* So do the changes of users.
LEMMA UsersType == TypeOK /\ Users => TypeOK'
<1> SUFFICES ASSUME TypeOK, Users PROVE TypeOK'
  OBVIOUS
<1> USE DEF Edit, envVars, TypeOK
<1>1. ASSUME NEW labels \in Labels, NEW k \in Keys, NEW v \in Values \cup {NoLabel}
      PROVE  [labels EXCEPT ![k] = v] \in Labels
  BY DEF Labels
<1>2. ASSUME NEW k \in Keys, NEW v \in Values \cup {NoLabel}, EditSpokeLabel(k, v)
      PROVE  TypeOK'
  <2>1. [spoke.labels EXCEPT ![k] = v] \in Labels
    BY <1>1 DEF SpokeState
  <2> QED BY <1>2, <2>1 DEF EditSpokeLabel, SpokeState, SpokeWakes
<1>3. ASSUME NEW k \in Keys, NEW v \in Values \cup {NoLabel}, EditHubLabel(k, v)
      PROVE  TypeOK'
  <2>1. [hub.labels EXCEPT ![k] = v] \in Labels
    BY <1>1 DEF HubState
  <2> QED BY <1>3, <2>1 DEF EditHubLabel, HubState
<1>4. ASSUME NEW k \in Keys, NEW v \in Values \cup {NoLabel}, NEW h \in HCs, EditHC(h, k, v)
      PROVE  TypeOK'
  <2>1. [hcs[h].labels EXCEPT ![k] = v] \in Labels
    BY <1>1 DEF HCState
  <2> QED BY <1>4, <2>1 DEF EditHC, HCState, Wakes
<1>5. ASSUME NEW kind \in {"plain", "hosted"}, SetCreatedVia(kind) PROVE TypeOK'
  BY <1>5 DEF SetCreatedVia, SpokeState, SpokeWakes
<1>6. ASSUME NEW kind \in {"plain", "hosted"}, NEW labels \in Labels, CreateSpoke(kind, labels)
      PROVE  TypeOK'
  <2>1. spoke' \in SpokeState
    <3>1. spoke' = [kind |-> kind, uid |-> spoke.uid + 1, labels |-> labels,
                    hcTracked |-> {}, hubTracked |-> {}]
      BY <1>6 DEF CreateSpoke, NoSpoke
    <3> QED BY <3>1 DEF SpokeState
  <2> QED BY <1>6, <2>1 DEF CreateSpoke, KeysOf
<1>7. CASE DeleteSpoke
  BY <1>7, EmptyType DEF DeleteSpoke, SpokeState, NoSpoke
<1>8. ASSUME NEW labels \in Labels, CreateHub(labels) PROVE TypeOK'
  <2>1. hub' \in HubState
    <3>1. hub' = [exists |-> TRUE, labels |-> labels, hcTracked |-> {}]
      BY <1>8 DEF CreateHub, NoHub
    <3> QED BY <3>1 DEF HubState
  <2> QED BY <1>8, <2>1 DEF CreateHub
<1>9. CASE DeleteHub
  BY <1>9, EmptyType DEF DeleteHub, HubState, NoHub
<1>10. ASSUME NEW h \in HCs, DeleteHC(h) PROVE TypeOK'
  BY <1>10, EmptyType DEF DeleteHC, HCState, NoHC, Wakes
<1>11. ASSUME NEW h \in HCs, NEW match \in Matches, RematchHC(h, match) PROVE TypeOK'
  BY <1>11 DEF RematchHC, HCState
<1>12. ASSUME NEW h \in HCs, NEW match \in Matches, NEW labels \in Labels,
              CreateHC(h, match, labels)
       PROVE  TypeOK'
  BY <1>12 DEF CreateHC, HCState, Wakes
<1> HIDE DEF Edit, envVars, TypeOK
<1> QED
  BY <1>2, <1>3, <1>4, <1>5, <1>6, <1>7, <1>8, <1>9, <1>10, <1>11, <1>12 DEF Users

\* Every action keeps every variable in its type.
LEMMA TypeStep == TypeOK /\ [Next]_vars => TypeOK'
<1> SUFFICES ASSUME TypeOK, [Next]_vars PROVE TypeOK'
  OBVIOUS
<1>a. ASSUME NEW new \in SpokeState, NEW next \in Steps, WriteSpoke(new, next),
             UNCHANGED <<hub, hcs, seenMC, seenHC, seenHub, edits>>
      PROVE  TypeOK'
  <2>1. PatchSpoke(new) \in SpokeState
    BY PatchSpokeType
  <2>2. \A old, mc : SpokeWakes(old, mc) \in BOOLEAN
    BY DEF SpokeWakes
  <2> QED BY <1>a, <2>1, <2>2 DEF WriteSpoke, TypeOK, Steps
<1>b. ASSUME NEW new \in HubState, WriteHub(new) PROVE TypeOK'
  <2>1. PatchHub(new) \in HubState
    BY PatchHubType
  <2> QED BY <1>b, <2>1 DEF WriteHub, TypeOK, Steps
<1>c. seenMC \in SpokeState /\ seenHub \in HubState /\ Propagated(seenHC.labels) \in Labels
  BY PropagatedType DEF TypeOK, Found
<1>d. HubSource(seenHub) \in Labels
  BY <1>c, HubSourceType
<1>1. CASE GetSpoke
  BY <1>1 DEF GetSpoke, TypeOK, Steps
<1>2. CASE ListHCs
  <2>1. FindHostedCluster \in Found
    BY FoundType DEF TypeOK
  <2> QED BY <1>2, <2>1 DEF ListHCs, TypeOK, Steps
<1>3. CASE SyncHCToSpoke
  <2>1. HCSynced(seenMC, Propagated(seenHC.labels)) \in SpokeState
    BY <1>c, NewSpokeType
  <2> QED BY <1>3, <1>a, <2>1 DEF SyncHCToSpoke, Steps
<1>4. CASE RemoveHCFromSpoke
  <2>1. HCRemoved(seenMC) \in SpokeState
    BY <1>c, NewSpokeType
  <2> QED BY <1>4, <1>a, <2>1 DEF RemoveHCFromSpoke, Steps
<1>5. CASE GetHub
  BY <1>5 DEF GetHub, TypeOK, Steps
<1>6. CASE SyncHCToHub
  <2>1. HubSynced(seenHub, Propagated(seenHC.labels)) \in HubState
    BY <1>c, NewHubType
  <2> QED BY <1>6, <1>b, <2>1 DEF SyncHCToHub
<1>7. CASE RemoveHCFromHub
  <2>1. HCRemoved(seenHub) \in HubState
    BY <1>c, NewHubType
  <2> QED BY <1>7, <1>b, <2>1 DEF RemoveHCFromHub
<1>8. CASE RefetchSpoke
  BY <1>8 DEF RefetchSpoke, TypeOK, Steps
<1>9. CASE GetHubAgain
  BY <1>9 DEF GetHubAgain, TypeOK, Steps
<1>10. CASE SyncHubToSpoke
  <2>1. FromHubSynced(seenMC, HubSource(seenHub)) \in SpokeState
    BY <1>c, <1>d, NewSpokeType
  <2> QED BY <1>10, <1>a, <2>1 DEF SyncHubToSpoke, Steps
<1>11. CASE RemoveHubFromSpoke
  <2>1. HubRemoved(seenMC) \in SpokeState
    BY <1>c, NewSpokeType
  <2> QED BY <1>11, <1>a, <2>1 DEF RemoveHubFromSpoke, Steps
<1>12. CASE Abort
  BY <1>12 DEF Abort, TypeOK, Steps
<1>13. CASE Users
  BY <1>13, UsersType
<1>14. CASE UNCHANGED vars
  BY <1>14 DEF vars, TypeOK
<1> QED
  BY <1>1, <1>2, <1>3, <1>4, <1>5, <1>6, <1>7, <1>8, <1>9, <1>10, <1>11, <1>12,
     <1>13, <1>14 DEF Next, Worker

\* Labels stay maps from keys to values and tracking annotations sets of keys,
\* whatever users do and whenever the agent fails.
THEOREM TypeCorrect == Spec => []TypeOK
<1>1. ASSUME Init PROVE TypeOK
  <2>1. spoke \in SpokeState /\ local \subseteq Keys
    <3>1. PICK labels \in Labels : /\ spoke = [NoSpoke(0) EXCEPT !.kind = "hosted", !.labels = labels]
                                   /\ local = KeysOf(labels)
      BY <1>1 DEF Init
    <3>2. spoke = [kind |-> "hosted", uid |-> 0, labels |-> labels,
                   hcTracked |-> {}, hubTracked |-> {}]
      BY <3>1 DEF NoSpoke
    <3> QED BY <3>1, <3>2 DEF SpokeState, KeysOf
  <2>2. hub \in HubState /\ seenHub \in HubState
    <3>1. NoHub \in HubState
      BY EmptyType DEF NoHub, HubState
    <3>2. \A labels \in Labels : [exists |-> TRUE, labels |-> labels, hcTracked |-> {}] \in HubState
      BY DEF HubState
    <3>3. seenHub = NoHub
      BY <1>1 DEF Init
    <3>4. hub = NoHub \/ \E labels \in Labels : hub = [exists |-> TRUE, labels |-> labels, hcTracked |-> {}]
      BY <1>1 DEF Init
    <3> QED BY <3>1, <3>2, <3>3, <3>4
  <2>3. seenMC \in SpokeState /\ seenHC \in Found /\ hcs \in [HCs -> HCState]
    BY <1>1, EmptyType DEF Init, NoSpoke, NoHC, NoMatch, SpokeState, Found, HCState
  <2> QED BY <1>1, <2>1, <2>2, <2>3 DEF Init, TypeOK, Steps
<1> QED BY <1>1, TypeStep, PTL DEF Spec

-----------------------------------------------------------------------------
(* The agent never loses track of a label it wrote.  The property alone is *)
(* not inductive: a patch is computed from the worker's copy of the MC, so *)
(* the invariant adds how far that copy may be from the MC itself.         *)

\* While the worker holds a copy of the MC that still exists, only a user's
\* own label, or a label a user removed, differs from the copy.
CopyCurrent ==
  /\ pc \in {"findHC", "syncHCToSpoke", "getHubAgain", "syncHubToSpoke"}
  /\ spoke.kind # "absent"
  /\ spoke.uid = seenMC.uid
  => /\ spoke.hcTracked = seenMC.hcTracked
     /\ spoke.hubTracked = seenMC.hubTracked
     /\ \A k \in Keys : k \in local \/ spoke.labels[k] \in {seenMC.labels[k], NoLabel}

TrackInv == AgentLabelsTracked /\ CopyCurrent /\ seenMC.uid <= spoke.uid

\* What a sync must guarantee of the copy it leaves, for the patch to be safe:
\* what it writes it tracks, and what it stops tracking it removes.
KeepsTrack(old, new) ==
  \A k \in KeysOf(new.labels) :
    \/ k \in new.hcTracked \cup new.hubTracked
    \/ new.labels[k] = old.labels[k] /\ k \notin old.hcTracked \cup old.hubTracked

\* A sync tracks every label it writes.
LEMMA SyncKeepsTrack ==
  ASSUME NEW mc \in SpokeState, NEW src \in Labels
  PROVE  /\ KeepsTrack(mc, HCSynced(mc, src)) /\ KeepsTrack(mc, HCRemoved(mc))
         /\ KeepsTrack(mc, FromHubSynced(mc, src)) /\ KeepsTrack(mc, HubRemoved(mc))
<1> USE DEF KeepsTrack, KeysOf, SpokeState, Labels
<1>1. KeepsTrack(mc, HCSynced(mc, src))
  BY DEF HCSynced, Synced, Managed
<1>2. KeepsTrack(mc, FromHubSynced(mc, src))
  BY DEF FromHubSynced, Synced, Managed
<1>3. KeepsTrack(mc, HCRemoved(mc))
  BY DEF HCRemoved, Cleared
<1>4. KeepsTrack(mc, HubRemoved(mc))
  BY DEF HubRemoved, Cleared
<1> QED BY <1>1, <1>2, <1>3, <1>4

\* The patch of a sync leaves no label of the agent untracked.
LEMMA WriteKeepsTrack ==
  ASSUME TypeOK, TrackInv, NEW new \in SpokeState, NEW next,
         pc \in {"syncHCToSpoke", "syncHubToSpoke"}, next \in {"getHub", "idle"},
         KeepsTrack(seenMC, new), WriteSpoke(new, next), seenMC' = seenMC
  PROVE  TrackInv'
<1>1. CopyCurrent' /\ (seenMC.uid <= spoke.uid)'
  BY DEF TypeOK, TrackInv, CopyCurrent, WriteSpoke, PatchSpoke, SpokeState
<1>2. AgentLabelsTracked'
  <2>1. CASE UNCHANGED <<spoke, local, strayed>>
    BY <2>1 DEF TrackInv, AgentLabelsTracked, KeysOf
  <2>2. CASE spoke.kind # "absent" /\ spoke' = PatchSpoke(new)
             /\ local' = {k \in local : new.labels[k] = seenMC.labels[k]}
             /\ strayed' = (strayed \/ spoke.uid # seenMC.uid)
    <3> SUFFICES ASSUME ~strayed', NEW k \in Keys, spoke'.labels[k] # NoLabel, k \notin local'
                 PROVE  k \in spoke'.hcTracked \cup spoke'.hubTracked
      BY DEF AgentLabelsTracked, KeysOf
    <3>1. ~strayed /\ spoke.uid = seenMC.uid
      BY <2>2 DEF TypeOK
    <3>2. /\ spoke.hcTracked = seenMC.hcTracked /\ spoke.hubTracked = seenMC.hubTracked
          /\ k \in local \/ spoke.labels[k] \in {seenMC.labels[k], NoLabel}
      BY <2>2, <3>1 DEF TrackInv, CopyCurrent
    <3>3. /\ spoke'.hcTracked = new.hcTracked /\ spoke'.hubTracked = new.hubTracked
          /\ spoke'.labels[k] = IF new.labels[k] = seenMC.labels[k] THEN spoke.labels[k]
                                ELSE new.labels[k]
      BY <2>2, <3>2 DEF PatchSpoke, PatchedLabels, PatchedSet, TypeOK, SpokeState
    <3>4. CASE new.labels[k] # seenMC.labels[k]
      BY <3>3, <3>4 DEF KeepsTrack, KeysOf
    <3>5. CASE new.labels[k] = seenMC.labels[k]
      <4>1. k \notin local /\ spoke.labels[k] = seenMC.labels[k] /\ spoke.labels[k] # NoLabel
        BY <2>2, <3>2, <3>3, <3>5
      <4>2. k \in seenMC.hcTracked \cup seenMC.hubTracked
        BY <3>1, <3>2, <4>1 DEF TrackInv, AgentLabelsTracked, KeysOf
      <4> QED BY <3>3, <3>5, <4>1, <4>2 DEF KeepsTrack, KeysOf
    <3> QED BY <3>4, <3>5
  <2> QED BY <2>1, <2>2 DEF WriteSpoke
<1> QED BY <1>1, <1>2 DEF TrackInv

\* Neither do the changes of users.
LEMMA UsersKeepTrack == TypeOK /\ TrackInv /\ Users => TrackInv'
<1> SUFFICES ASSUME TypeOK, TrackInv, Users PROVE TrackInv'
  OBVIOUS
<1> USE DEF Edit, envVars, TrackInv, AgentLabelsTracked, CopyCurrent, KeysOf
<1>1. CASE UNCHANGED <<spoke, pc, seenMC, local, strayed>>
  BY <1>1
<1>2. ASSUME NEW k \in Keys, NEW v \in Values \cup {NoLabel}, EditSpokeLabel(k, v)
      PROVE  TrackInv'
  <2>1. /\ spoke'.kind = spoke.kind /\ spoke'.uid = spoke.uid
        /\ spoke'.hcTracked = spoke.hcTracked /\ spoke'.hubTracked = spoke.hubTracked
        /\ \A j \in Keys : spoke'.labels[j] = IF j = k THEN v ELSE spoke.labels[j]
    BY <1>2 DEF EditSpokeLabel, TypeOK, SpokeState, Labels
  <2> QED BY <1>2, <2>1 DEF EditSpokeLabel
<1>3. ASSUME NEW kind \in {"plain", "hosted"}, SetCreatedVia(kind) PROVE TrackInv'
  BY <1>3 DEF SetCreatedVia, TypeOK, SpokeState
<1>4. ASSUME NEW kind \in {"plain", "hosted"}, NEW labels \in Labels, CreateSpoke(kind, labels)
      PROVE  TrackInv'
  <2>1. spoke' = [kind |-> kind, uid |-> spoke.uid + 1, labels |-> labels,
                  hcTracked |-> {}, hubTracked |-> {}]
    BY <1>4 DEF CreateSpoke, NoSpoke
  <2>2. seenMC.uid < spoke.uid + 1
    BY DEF TypeOK, SpokeState
  <2>3. seenMC' = seenMC /\ seenMC.uid \in Nat /\ spoke.uid \in Nat /\ local' = KeysOf(labels)
    BY <1>4 DEF CreateSpoke, TypeOK, SpokeState
  <2> QED BY <2>1, <2>2, <2>3
<1>5. CASE DeleteSpoke
  BY <1>5 DEF DeleteSpoke, NoSpoke, Empty, TypeOK, SpokeState
<1> HIDE DEF Edit, envVars, TrackInv, AgentLabelsTracked, CopyCurrent, KeysOf
<1> QED
  <2>1. \/ UNCHANGED <<spoke, pc, seenMC, local, strayed>>
        \/ DeleteSpoke
        \/ \E k \in Keys, v \in Values \cup {NoLabel} : EditSpokeLabel(k, v)
        \/ \E kind \in {"plain", "hosted"} :
             SetCreatedVia(kind) \/ \E labels \in Labels : CreateSpoke(kind, labels)
    BY DEF Users, envVars, EditHubLabel, EditHC, CreateHub, DeleteHub, DeleteHC, RematchHC, CreateHC
  <2> QED BY <1>1, <1>2, <1>3, <1>4, <1>5, <2>1

\* No action leaves a label of the agent untracked.
LEMMA TrackStep == TypeOK /\ TrackInv /\ [Next]_vars => TrackInv'
<1> SUFFICES ASSUME TypeOK, TrackInv, [Next]_vars PROVE TrackInv'
  OBVIOUS
<1>a. seenMC \in SpokeState /\ Propagated(seenHC.labels) \in Labels /\ HubSource(seenHub) \in Labels
  BY PropagatedType, HubSourceType DEF TypeOK, Found
<1>1. CASE (GetSpoke /\ pc' = "findHC") \/ (RefetchSpoke /\ pc' = "getHubAgain")
  BY <1>1 DEF GetSpoke, RefetchSpoke, TrackInv, AgentLabelsTracked, CopyCurrent, TypeOK, SpokeState
<1>2. CASE /\ UNCHANGED <<spoke, seenMC, local, strayed>>
           /\ \/ pc' \notin {"findHC", "syncHCToSpoke", "getHubAgain", "syncHubToSpoke"}
              \/ pc = "findHC" /\ pc' = "syncHCToSpoke"
              \/ pc = "getHubAgain" /\ pc' = "syncHubToSpoke"
              \/ pc' = pc
  BY <1>2 DEF TrackInv, AgentLabelsTracked, CopyCurrent
<1>3. CASE SyncHCToSpoke
  <2>1. /\ HCSynced(seenMC, Propagated(seenHC.labels)) \in SpokeState
        /\ KeepsTrack(seenMC, HCSynced(seenMC, Propagated(seenHC.labels)))
    BY <1>a, NewSpokeType, SyncKeepsTrack
  <2> QED BY <1>3, <2>1, WriteKeepsTrack DEF SyncHCToSpoke
<1>4. CASE RemoveHCFromSpoke
  <2>1. HCRemoved(seenMC) \in SpokeState /\ KeepsTrack(seenMC, HCRemoved(seenMC))
    BY <1>a, NewSpokeType, SyncKeepsTrack
  <2> QED BY <1>4, <2>1, WriteKeepsTrack DEF RemoveHCFromSpoke
<1>5. CASE SyncHubToSpoke
  <2>1. /\ FromHubSynced(seenMC, HubSource(seenHub)) \in SpokeState
        /\ KeepsTrack(seenMC, FromHubSynced(seenMC, HubSource(seenHub)))
    BY <1>a, NewSpokeType, SyncKeepsTrack
  <2> QED BY <1>5, <2>1, WriteKeepsTrack DEF SyncHubToSpoke
<1>6. CASE RemoveHubFromSpoke
  <2>1. HubRemoved(seenMC) \in SpokeState /\ KeepsTrack(seenMC, HubRemoved(seenMC))
    BY <1>a, NewSpokeType, SyncKeepsTrack
  <2> QED BY <1>6, <2>1, WriteKeepsTrack DEF RemoveHubFromSpoke
<1>7. CASE Users
  BY <1>7, UsersKeepTrack
<1>8. CASE UNCHANGED vars
  <2>1. spoke' = spoke /\ seenMC' = seenMC /\ local' = local /\ strayed' = strayed /\ pc' = pc
    BY <1>8 DEF vars
  <2> QED BY <2>1 DEF TrackInv, AgentLabelsTracked, CopyCurrent
<1>9. CASE GetSpoke
  <2>1. /\ UNCHANGED <<spoke, local, strayed>>
        /\ pc' = "findHC" \/ (pc' = "idle" /\ UNCHANGED seenMC)
    BY <1>9 DEF GetSpoke
  <2> QED BY <1>1, <1>2, <1>9, <2>1
<1>10. CASE RefetchSpoke
  <2>1. /\ UNCHANGED <<spoke, local, strayed>>
        /\ pc' = "getHubAgain" \/ (pc' = "idle" /\ UNCHANGED seenMC)
    BY <1>10 DEF RefetchSpoke
  <2> QED BY <1>1, <1>2, <1>10, <2>1
<1>11. CASE ListHCs \/ GetHub \/ SyncHCToHub \/ RemoveHCFromHub \/ GetHubAgain \/ Abort
  BY <1>2, <1>11 DEF ListHCs, GetHub, SyncHCToHub, RemoveHCFromHub, WriteHub, GetHubAgain, Abort
<1> QED
  BY <1>3, <1>4, <1>5, <1>6, <1>7, <1>8, <1>9, <1>10, <1>11 DEF Next, Worker

\* A label on the spoke MC that no user wrote is in one of the two tracking
\* annotations, whatever users change between the agent's reads and patches.
THEOREM AgentTracks == Spec => []AgentLabelsTracked
<1>1. ASSUME Init PROVE TrackInv
  <2>1. PICK labels \in Labels : /\ spoke = [NoSpoke(0) EXCEPT !.kind = "hosted", !.labels = labels]
                                 /\ local = KeysOf(labels)
    BY <1>1 DEF Init
  <2>2. spoke.labels = labels /\ spoke.uid = 0
    BY <2>1 DEF NoSpoke
  <2>3. pc = "idle" /\ seenMC.uid = 0
    BY <1>1 DEF Init, NoSpoke
  <2> QED BY <2>1, <2>2, <2>3 DEF TrackInv, AgentLabelsTracked, CopyCurrent, KeysOf
<1>2. TrackInv => AgentLabelsTracked
  BY DEF TrackInv
<1> QED BY <1>1, <1>2, TypeCorrect, TrackStep, PTL DEF Spec

\* Between a read of the spoke MC and a patch without a change in between,
\* the agent leaves the labels alone that it does not track.
THEOREM LocalKept == Spec => LocalLabelsKeptUnlessRaced
<1> DEFINE Kept == \A k \in KeysOf(spoke.labels) \ (spoke.hcTracked \cup spoke.hubTracked) :
                     spoke'.labels[k] = spoke.labels[k]
<1>1. ASSUME TypeOK, Worker, spoke = seenMC PROVE Kept
  <2>a. seenMC \in SpokeState /\ Propagated(seenHC.labels) \in Labels /\ HubSource(seenHub) \in Labels
    BY <1>1, PropagatedType, HubSourceType DEF TypeOK, Found
  <2>1. ASSUME NEW new \in SpokeState, NEW next, WriteSpoke(new, next),
               \A k \in KeysOf(seenMC.labels) \ (seenMC.hcTracked \cup seenMC.hubTracked) :
                 new.labels[k] = seenMC.labels[k]
        PROVE  Kept
    <3>1. CASE spoke' = spoke
      BY <3>1
    <3>2. CASE spoke' = PatchSpoke(new)
      <4>1. spoke'.labels = PatchedLabels(spoke.labels, seenMC.labels, new.labels)
        BY <3>2, <2>a, <1>1 DEF PatchSpoke, SpokeState
      <4> QED BY <1>1, <2>1, <4>1 DEF PatchedLabels, KeysOf
    <3> QED BY <2>1, <3>1, <3>2 DEF WriteSpoke
  <2>2. CASE SyncHCToSpoke
    <3>1. HCSynced(seenMC, Propagated(seenHC.labels)) \in SpokeState
      BY <2>a, NewSpokeType
    <3> QED BY <2>1, <2>2, <2>a, <3>1
            DEF SyncHCToSpoke, HCSynced, Synced, Managed, KeysOf, SpokeState, Labels
  <2>3. CASE RemoveHCFromSpoke
    <3>1. HCRemoved(seenMC) \in SpokeState
      BY <2>a, NewSpokeType
    <3> QED BY <2>1, <2>3, <2>a, <3>1 DEF RemoveHCFromSpoke, HCRemoved, Cleared, KeysOf, SpokeState
  <2>4. CASE SyncHubToSpoke
    <3>1. FromHubSynced(seenMC, HubSource(seenHub)) \in SpokeState
      BY <2>a, NewSpokeType
    <3> QED BY <2>1, <2>4, <2>a, <3>1
            DEF SyncHubToSpoke, FromHubSynced, Synced, Managed, KeysOf, SpokeState, Labels
  <2>5. CASE RemoveHubFromSpoke
    <3>1. HubRemoved(seenMC) \in SpokeState
      BY <2>a, NewSpokeType
    <3> QED BY <2>1, <2>5, <2>a, <3>1 DEF RemoveHubFromSpoke, HubRemoved, Cleared, KeysOf, SpokeState
  <2>6. CASE UNCHANGED spoke
    BY <2>6
  <2> QED
    BY <1>1, <2>2, <2>3, <2>4, <2>5, <2>6
    DEF Worker, GetSpoke, ListHCs, GetHub, SyncHCToHub, RemoveHCFromHub, WriteHub,
        RefetchSpoke, GetHubAgain
<1>2. TypeOK /\ [Next]_vars => [Worker /\ spoke = seenMC => Kept]_vars
  BY <1>1
<1> QED BY <1>2, TypeCorrect, PTL DEF Spec, LocalLabelsKeptUnlessRaced

-----------------------------------------------------------------------------
(* The worker rests only on MCs that agree with their HC and hub.  Every   *)
(* change of what a reconcile reads queues another one, its own patches    *)
(* included.  So as long as nothing is queued, the reconcile under way has *)
(* found nothing to patch, and its copies are the objects themselves.      *)

\* The spoke MC, or the hub MC, has no need of a patch for HC f.
SpokeAgrees(f) ==
  /\ f.result = "one" => HCSynced(spoke, Propagated(f.labels)) = spoke
  /\ f.result = "none" => HCRemoved(spoke) = spoke

HubAgreesWith(f) ==
  hub.exists => /\ f.result = "one" => HubSynced(hub, Propagated(f.labels)) = hub
                /\ f.result = "none" => HCRemoved(hub) = hub

HubSyncedSpoke ==
  /\ hub.exists => FromHubSynced(spoke, HubSource(hub)) = spoke
  /\ ~hub.exists => HubRemoved(spoke) = spoke

\* What holds at each step of a reconcile while nothing is queued, of the HC
\* that this reconcile, or the last one, has found.
Quiet ==
  /\ pc \in {"findHC", "syncHCToSpoke", "getHubAgain", "syncHubToSpoke"} => seenMC = spoke
  /\ pc \in {"syncHCToSpoke", "getHub", "syncHCToHub"} => seenHC.result # "ambiguous"
  /\ pc \in {"syncHCToHub", "syncHubToSpoke"} => seenHub = hub
  /\ pc \notin {"findHC", "syncHCToSpoke"} => SpokeAgrees(seenHC)
  /\ pc \in {"refetch", "getHubAgain", "syncHubToSpoke", "idle"} => HubAgreesWith(seenHC)
  /\ pc = "idle" => HubSyncedSpoke

SettledInv ==
  /\ seenHC.result = "none" => seenHC.labels = Empty
  /\ ~hub.exists => hub = NoHub
  /\ ~queued /\ Hosted => Quiet

\* Whether the HC found is still the one to follow is another matter: the
\* events of an HC that matches by infraID queue another MC, and annotating
\* one queues none.  Without these the HC found is the current one.
MatchedByName == \A h \in HCs : hcs[h].match \in {"absent", "anno", "name", "other"}

CurrentInv ==
  /\ MatchedByName
  /\ ~queued /\ Hosted /\ pc # "findHC" => seenHC = FindHostedCluster

\* A change of an HC that matches neither before nor after it leaves what
\* findHostedCluster returns.
LEMMA HCUnchanged ==
  ASSUME hcs \in [HCs -> HCState], NEW g \in HCs, hcs' = [hcs EXCEPT ![g] = hcs'[g]],
         hcs[g].match \notin {"anno", "infra", "name"},
         hcs'[g].match \notin {"anno", "infra", "name"}
  PROVE  FindHostedCluster' = FindHostedCluster
<1> DEFINE decisive == {h \in HCs : hcs[h].match \in {"anno", "infra"}}
           named == {h \in HCs : hcs[h].match = "name"}
           first == CHOOSE h \in decisive : \A i \in decisive : h <= i
           only  == CHOOSE h \in named : TRUE
<1>1. \A h \in HCs : h # g => hcs'[h] = hcs[h]
  OBVIOUS
<1>2. decisive' = decisive /\ named' = named
  BY <1>1
<1>3. decisive # {} => hcs'[first] = hcs[first]
  BY <1>1, FirstExists
<1>4. named # {} => hcs'[only] = hcs[only]
  BY <1>1
<1>5. FindHostedCluster =
        IF decisive # {} THEN [result |-> "one", labels |-> hcs[first].labels]
        ELSE IF named = {} THEN NoMatch
        ELSE IF \E h \in named : named = {h} THEN [result |-> "one", labels |-> hcs[only].labels]
        ELSE [result |-> "ambiguous", labels |-> Empty]
  BY DEF FindHostedCluster
<1>6. FindHostedCluster' =
        IF decisive # {} THEN [result |-> "one", labels |-> hcs'[first].labels]
        ELSE IF named = {} THEN NoMatch
        ELSE IF \E h \in named : named = {h} THEN [result |-> "one", labels |-> hcs'[only].labels]
        ELSE [result |-> "ambiguous", labels |-> Empty]
  <2>1. FindHostedCluster' =
        IF decisive' # {} THEN [result |-> "one", labels |-> hcs'[CHOOSE h \in decisive' : \A i \in decisive' : h <= i].labels]
        ELSE IF named' = {} THEN NoMatch
        ELSE IF \E h \in named' : named' = {h} THEN [result |-> "one", labels |-> hcs'[CHOOSE h \in named' : TRUE].labels]
        ELSE [result |-> "ambiguous", labels |-> Empty]
    BY DEF FindHostedCluster, NoMatch, Empty
  <2> HIDE DEF decisive, named
  <2> QED BY <1>2, <2>1
<1> HIDE DEF decisive, named, first, only
<1> QED BY <1>3, <1>4, <1>5, <1>6

\* The patch of the spoke MC keeps created-via and a queued request.
LEMMA WriteKeeps ==
  ASSUME TypeOK, NEW new, NEW next, WriteSpoke(new, next)
  PROVE  spoke'.kind = spoke.kind /\ (queued => queued')
<1>1. PatchSpoke(new).kind = spoke.kind
  BY DEF PatchSpoke, TypeOK, SpokeState
<1> QED BY <1>1 DEF WriteSpoke, TypeOK

\* The patch of the hub MC touches nothing but it and the queue, never creates
\* the MC, and keeps a queued request.
LEMMA WriteHubKeeps ==
  ASSUME TypeOK, NEW new, WriteHub(new)
  PROVE  /\ UNCHANGED <<spoke, hcs, seenMC, seenHC, seenHub>>
         /\ hub'.exists = hub.exists /\ (queued => queued')
         /\ ~hub.exists => hub' = hub
<1>1. PatchHub(new).exists = hub.exists
  BY DEF PatchHub, TypeOK, HubState
<1> QED BY <1>1 DEF WriteHub, TypeOK

\* A write that leaves nothing queued has changed nothing.
LEMMA QuietWrite ==
  ASSUME TypeOK, NEW new \in SpokeState, NEW next, new.kind = spoke.kind, new.uid = spoke.uid,
         seenMC = spoke, WriteSpoke(new, next), ~queued', Hosted
  PROVE  new = spoke /\ spoke' = spoke /\ pc' = next /\ ~queued
<1>1. CASE new # seenMC /\ spoke' = PatchSpoke(new) /\ queued' = (queued \/ SpokeWakes(spoke, spoke'))
  <2>1. /\ spoke'.kind = spoke.kind
        /\ spoke'.labels = PatchedLabels(spoke.labels, spoke.labels, new.labels)
        /\ spoke'.hcTracked = new.hcTracked /\ spoke'.hubTracked = new.hubTracked
    BY <1>1 DEF PatchSpoke, PatchedSet, TypeOK, SpokeState
  <2>2. spoke'.labels = new.labels
    BY <2>1 DEF PatchedLabels, TypeOK, SpokeState, Labels
  <2>3. /\ spoke'.labels = spoke.labels /\ spoke'.hcTracked = spoke.hcTracked
        /\ spoke'.hubTracked = spoke.hubTracked
    BY <1>1, <2>1 DEF SpokeWakes, Hosted
  <2>4. spoke \in SpokeState
    BY DEF TypeOK
  <2>5. new.labels = spoke.labels /\ new.hcTracked = spoke.hcTracked /\ new.hubTracked = spoke.hubTracked
    BY <2>1, <2>2, <2>3
  <2>6. \A r \in SpokeState : r = [kind |-> r.kind, uid |-> r.uid, labels |-> r.labels,
                                   hcTracked |-> r.hcTracked, hubTracked |-> r.hubTracked]
    BY DEF SpokeState
  <2>7. new = spoke
    BY <2>4, <2>5, <2>6
  <2> QED BY <1>1, <2>7
<1> QED BY <1>1 DEF WriteSpoke, Hosted

\* So has a write of the hub MC that leaves nothing queued.
LEMMA QuietHubWrite ==
  ASSUME TypeOK, NEW new \in HubState, new.exists = hub.exists, seenHub = hub,
         WriteHub(new), ~queued'
  PROVE  new = hub /\ hub' = hub /\ spoke' = spoke /\ hcs' = hcs /\ pc' = "refetch" /\ ~queued
<1>1. CASE new # seenHub /\ hub' = PatchHub(new) /\ queued' = (queued \/ hub' # hub)
  <2>1. /\ hub'.labels = PatchedLabels(hub.labels, hub.labels, new.labels)
        /\ hub'.hcTracked = new.hcTracked
    BY <1>1 DEF PatchHub, PatchedSet, TypeOK, HubState
  <2>2. hub'.labels = new.labels
    BY <2>1 DEF PatchedLabels, TypeOK, HubState, Labels
  <2>3. hub' = hub
    BY <1>1
  <2>4. new = hub
    BY <2>1, <2>2, <2>3 DEF TypeOK, HubState
  <2> QED BY <1>1, <2>4
<1> QED BY <1>1 DEF WriteHub

\* A change of users that queues nothing changes no match.
LEMMA UsersMatchByName ==
  ASSUME TypeOK, MatchedByName, "infra" \notin Matches, MayRematch = FALSE, Users
  PROVE  MatchedByName'
<1> USE DEF MatchedByName, TypeOK, HCState
<1>1. CASE hcs' = hcs
  BY <1>1
<1>2. ASSUME NEW h \in HCs, NEW k \in Keys, NEW v \in Values \cup {NoLabel}, EditHC(h, k, v)
      PROVE  MatchedByName'
  BY <1>2 DEF EditHC
<1>3. ASSUME NEW h \in HCs, DeleteHC(h) PROVE MatchedByName'
  BY <1>3 DEF DeleteHC, NoHC
<1>4. ASSUME NEW h \in HCs, NEW match \in Matches, NEW labels \in Labels, CreateHC(h, match, labels)
      PROVE  MatchedByName'
  BY <1>4 DEF CreateHC
<1> HIDE DEF MatchedByName, TypeOK, HCState
<1> QED
  BY <1>1, <1>2, <1>3, <1>4 DEF Users, EditSpokeLabel, EditHubLabel, SetCreatedVia, CreateSpoke,
     DeleteSpoke, CreateHub, DeleteHub, RematchHC

\* A change of users that queues nothing leaves both MCs alone.
LEMMA QuietUsers ==
  ASSUME TypeOK, Users, ~queued', Hosted'
  PROVE  /\ ~queued /\ spoke' = spoke /\ hub' = hub
         /\ UNCHANGED <<pc, seenMC, seenHC, seenHub>>
<1> USE DEF Edit, envVars
<1>1. ASSUME NEW k \in Keys, NEW v \in Values \cup {NoLabel}, EditSpokeLabel(k, v) PROVE FALSE
  <2>1. spoke'.kind = spoke.kind /\ spoke'.labels[k] = v /\ spoke.labels[k] # v
    BY <1>1 DEF EditSpokeLabel, TypeOK, SpokeState, Labels
  <2> QED BY <1>1, <2>1 DEF EditSpokeLabel, SpokeWakes, Hosted
<1>2. ASSUME NEW kind \in {"plain", "hosted"}, SetCreatedVia(kind) PROVE FALSE
  BY <1>2 DEF SetCreatedVia, SpokeWakes, Hosted, TypeOK, SpokeState
<1>3. ASSUME NEW kind \in {"plain", "hosted"}, NEW labels \in Labels, CreateSpoke(kind, labels)
      PROVE  FALSE
  <2>1. spoke' = [kind |-> kind, uid |-> spoke.uid + 1, labels |-> labels,
                  hcTracked |-> {}, hubTracked |-> {}]
    BY <1>3 DEF CreateSpoke, NoSpoke
  <2> QED BY <1>3, <2>1 DEF CreateSpoke, Hosted
<1>4. /\ ~DeleteHub
      /\ \A labels : ~CreateHub(labels)
  BY DEF DeleteHub, CreateHub
<1>5. \A k, v : ~EditHubLabel(k, v)
  BY DEF EditHubLabel
<1>6. ~DeleteSpoke
  BY DEF DeleteSpoke, NoSpoke, Hosted
<1> DEFINE Kept == ~queued /\ spoke' = spoke /\ hub' = hub /\ UNCHANGED <<pc, seenMC, seenHC, seenHub>>
<1>7. ASSUME NEW h \in HCs, NEW k \in Keys, NEW v \in Values \cup {NoLabel}, EditHC(h, k, v) PROVE Kept
  BY <1>7 DEF EditHC
<1>8. ASSUME NEW h \in HCs, DeleteHC(h) PROVE Kept
  BY <1>8 DEF DeleteHC
<1>9. ASSUME NEW h \in HCs, NEW match \in Matches, RematchHC(h, match) PROVE Kept
  BY <1>9 DEF RematchHC
<1>10. ASSUME NEW h \in HCs, NEW match \in Matches, NEW labels \in Labels, CreateHC(h, match, labels)
       PROVE  Kept
  BY <1>10 DEF CreateHC
<1> HIDE DEF Edit, envVars, Kept
<1>11. Kept
  BY <1>1, <1>2, <1>3, <1>4, <1>5, <1>6, <1>7, <1>8, <1>9, <1>10 DEF Users
<1> QED BY <1>11 DEF Kept

\* Nor does it change the HC to follow, if HCs match by name or annotation only.
LEMMA QuietFound ==
  ASSUME TypeOK, MatchedByName, "infra" \notin Matches, MayRematch = FALSE,
         Users, ~queued'
  PROVE  FindHostedCluster' = FindHostedCluster
<1>0. hcs' = hcs => FindHostedCluster' = FindHostedCluster
  BY DEF FindHostedCluster, NoMatch, Empty
<1>1. ASSUME NEW g \in HCs, hcs' = [hcs EXCEPT ![g] = hcs'[g]],
             hcs[g].match \in {"absent", "other"}, hcs'[g].match \in {"absent", "other"}
      PROVE  FindHostedCluster' = FindHostedCluster
  BY <1>1, HCUnchanged DEF TypeOK
<1>2. ASSUME NEW h \in HCs, NEW k \in Keys, NEW v \in Values \cup {NoLabel}, EditHC(h, k, v)
      PROVE  /\ hcs' = [hcs EXCEPT ![h] = hcs'[h]]
             /\ hcs[h].match \in {"absent", "other"} /\ hcs'[h].match \in {"absent", "other"}
  BY <1>2 DEF EditHC, Wakes, MatchedByName, TypeOK, HCState
<1>3. ASSUME NEW h \in HCs, DeleteHC(h)
      PROVE  /\ hcs' = [hcs EXCEPT ![h] = hcs'[h]]
             /\ hcs[h].match \in {"absent", "other"} /\ hcs'[h].match \in {"absent", "other"}
  BY <1>3 DEF DeleteHC, NoHC, Wakes, MatchedByName, TypeOK, HCState
<1>4. ASSUME NEW h \in HCs, NEW match \in Matches, NEW labels \in Labels,
             CreateHC(h, match, labels)
      PROVE  /\ hcs' = [hcs EXCEPT ![h] = hcs'[h]]
             /\ hcs[h].match \in {"absent", "other"} /\ hcs'[h].match \in {"absent", "other"}
  BY <1>4 DEF CreateHC, Wakes, TypeOK, HCState
<1>5. \A h \in HCs, match \in Matches : ~RematchHC(h, match)
  BY DEF RematchHC
<1>6. \/ hcs' = hcs
      \/ \E h \in HCs : /\ hcs' = [hcs EXCEPT ![h] = hcs'[h]]
                        /\ hcs[h].match \in {"absent", "other"} /\ hcs'[h].match \in {"absent", "other"}
  BY <1>2, <1>3, <1>4, <1>5
     DEF Users, EditSpokeLabel, EditHubLabel, SetCreatedVia, CreateSpoke, DeleteSpoke, CreateHub, DeleteHub
<1> QED BY <1>0, <1>1, <1>6

\* No action breaks the invariant about what a resting agent has done.
LEMMA SettledStep == TypeOK /\ SettledInv /\ [Next]_vars => SettledInv'
<1> SUFFICES ASSUME TypeOK, SettledInv, [Next]_vars PROVE SettledInv'
  OBVIOUS
<1>a. /\ seenMC \in SpokeState /\ seenHub \in HubState
      /\ Propagated(seenHC.labels) \in Labels /\ HubSource(seenHub) \in Labels
  BY PropagatedType, HubSourceType DEF TypeOK, Found
<1>b. /\ seenHC' = seenHC => (seenHC.result = "none" => seenHC.labels = Empty)'
      /\ hub' = hub => (~hub.exists => hub = NoHub)'
  BY DEF SettledInv, Empty, NoHub
<1>c. spoke' = spoke /\ seenHC' = seenHC => SpokeAgrees(seenHC)' = SpokeAgrees(seenHC)
  BY DEF SpokeAgrees, HCSynced, HCRemoved, Propagated, Managed, Synced, Cleared, KeysOf
<1>d. hub' = hub /\ seenHC' = seenHC => HubAgreesWith(seenHC)' = HubAgreesWith(seenHC)
  BY DEF HubAgreesWith, HubSynced, HCRemoved, Propagated, Managed, Synced, Cleared, KeysOf
<1>e. spoke' = spoke /\ hub' = hub => HubSyncedSpoke' = HubSyncedSpoke
  BY DEF HubSyncedSpoke, FromHubSynced, HubSource, HubRemoved, Propagated, Managed, Synced, Cleared, KeysOf
\* A step that leaves both MCs and the worker alone and starts from Quiet.
<1>f. ASSUME ~queued, Hosted, spoke' = spoke, hub' = hub, UNCHANGED <<pc, seenMC, seenHC, seenHub>>
      PROVE  Quiet'
  BY <1>c, <1>d, <1>e, <1>f DEF SettledInv, Quiet
<1>1. CASE GetSpoke
  BY <1>1, <1>b DEF GetSpoke, SettledInv, Quiet, Hosted
<1>2. CASE ListHCs
  <2>0. (seenHC.result = "none" => seenHC.labels = Empty)'
    BY <1>2 DEF ListHCs, FindHostedCluster, NoMatch, Empty
  <2> SUFFICES ASSUME ~queued', Hosted' PROVE Quiet'
    BY <1>2, <1>b, <2>0 DEF ListHCs, SettledInv
  <2>1. Quiet /\ spoke' = spoke /\ hub' = hub /\ seenMC' = seenMC
    BY <1>2 DEF ListHCs, SettledInv, Hosted
  <2>2. CASE seenHC'.result = "ambiguous"
    BY <1>2, <2>1, <2>2 DEF ListHCs, Quiet, SpokeAgrees, HubAgreesWith
  <2>3. CASE seenHC'.result # "ambiguous"
    BY <1>2, <2>1, <2>3 DEF ListHCs, Quiet
  <2> QED BY <2>2, <2>3
<1>3. ASSUME pc = "syncHCToSpoke", NEW new \in SpokeState, new.kind = seenMC.kind, new.uid = seenMC.uid,
             WriteSpoke(new, "getHub"),
             UNCHANGED <<hub, hcs, seenMC, seenHC, seenHub, edits>>,
             seenHC.result = "one" => new = HCSynced(seenMC, Propagated(seenHC.labels)),
             seenHC.result = "none" => new = HCRemoved(seenMC)
      PROVE  SettledInv'
  <2> SUFFICES ASSUME ~queued', Hosted' PROVE Quiet'
    BY <1>3, <1>b DEF SettledInv
  <2>1. ~queued /\ Hosted
    BY <1>3, WriteKeeps DEF Hosted
  <2>2. seenMC = spoke /\ seenHC.result # "ambiguous"
    BY <1>3, <2>1 DEF SettledInv, Quiet
  <2>3. new = spoke /\ spoke' = spoke /\ pc' = "getHub"
    BY <1>3, <2>1, <2>2, QuietWrite
  <2>4. SpokeAgrees(seenHC)
    BY <1>3, <2>2, <2>3 DEF SpokeAgrees
  <2> QED BY <1>3, <1>b, <1>c, <2>2, <2>3, <2>4 DEF Quiet
<1>4. CASE SyncHCToSpoke
  <2>1. HCSynced(seenMC, Propagated(seenHC.labels)) \in SpokeState
    BY <1>a, NewSpokeType
  <2>2. /\ HCSynced(seenMC, Propagated(seenHC.labels)).kind = seenMC.kind
        /\ HCSynced(seenMC, Propagated(seenHC.labels)).uid = seenMC.uid
    BY <1>a DEF HCSynced, SpokeState
  <2> QED BY <1>3, <1>4, <2>1, <2>2 DEF SyncHCToSpoke
<1>5. CASE RemoveHCFromSpoke
  <2>1. HCRemoved(seenMC) \in SpokeState
    BY <1>a, NewSpokeType
  <2>2. HCRemoved(seenMC).kind = seenMC.kind /\ HCRemoved(seenMC).uid = seenMC.uid
    BY <1>a DEF HCRemoved, SpokeState
  <2> QED BY <1>3, <1>5, <2>1, <2>2 DEF RemoveHCFromSpoke
<1>6. CASE GetHub
  <2> SUFFICES ASSUME ~queued', Hosted' PROVE Quiet'
    BY <1>6, <1>b DEF GetHub, SettledInv
  <2>1. Quiet /\ pc = "getHub" /\ spoke' = spoke /\ hub' = hub /\ seenHC' = seenHC /\ seenHub' = hub
    BY <1>6 DEF GetHub, SettledInv, Hosted
  <2>2. SpokeAgrees(seenHC)'
    BY <1>6, <1>c, <2>1 DEF GetHub, Quiet
  <2>3. CASE hub.exists
    BY <1>6, <2>1, <2>2, <2>3 DEF GetHub, Quiet
  <2>4. CASE ~hub.exists
    BY <1>6, <2>1, <2>2, <2>4 DEF GetHub, Quiet, HubAgreesWith
  <2> QED BY <2>3, <2>4
<1>7. ASSUME pc = "syncHCToHub", NEW new \in HubState, new.exists = seenHub.exists, WriteHub(new),
             seenHC.result = "one" => new = HubSynced(seenHub, Propagated(seenHC.labels)),
             seenHC.result = "none" => new = HCRemoved(seenHub)
      PROVE  SettledInv'
  <2>0. /\ hcs' = hcs /\ spoke' = spoke /\ seenMC' = seenMC /\ seenHC' = seenHC
        /\ hub'.exists = hub.exists /\ (queued => queued')
        /\ ~hub.exists => hub' = hub
    BY <1>7, WriteHubKeeps
  <2>a. (~hub.exists => hub = NoHub)'
    BY <2>0 DEF SettledInv, NoHub, Empty
  <2> SUFFICES ASSUME ~queued', Hosted' PROVE Quiet'
    BY <1>b, <2>0, <2>a DEF SettledInv
  <2>1. ~queued /\ Hosted /\ Quiet
    BY <2>0 DEF Hosted, SettledInv
  <2>2. seenHub = hub /\ SpokeAgrees(seenHC) /\ seenHC.result # "ambiguous"
    BY <1>7, <2>1 DEF Quiet
  <2>3. new = hub /\ hub' = hub /\ pc' = "refetch"
    BY <1>7, <2>2, QuietHubWrite
  <2>4. HubAgreesWith(seenHC)
    BY <1>7, <2>2, <2>3 DEF HubAgreesWith
  <2> QED BY <1>b, <1>c, <1>d, <2>0, <2>2, <2>3, <2>4 DEF Quiet
<1>8. CASE SyncHCToHub
  <2>1. HubSynced(seenHub, Propagated(seenHC.labels)) \in HubState
    BY <1>a, NewHubType
  <2>2. HubSynced(seenHub, Propagated(seenHC.labels)).exists = seenHub.exists
    BY <1>a DEF HubSynced, HubState
  <2> QED BY <1>7, <1>8, <2>1, <2>2 DEF SyncHCToHub
<1>9. CASE RemoveHCFromHub
  <2>1. HCRemoved(seenHub) \in HubState
    BY <1>a, NewHubType
  <2>2. HCRemoved(seenHub).exists = seenHub.exists
    BY <1>a DEF HCRemoved, HubState
  <2> QED BY <1>7, <1>9, <2>1, <2>2 DEF RemoveHCFromHub
<1>10. CASE RefetchSpoke
  <2> SUFFICES ASSUME ~queued', Hosted' PROVE Quiet'
    BY <1>10, <1>b DEF RefetchSpoke, SettledInv
  <2>1. /\ Quiet /\ pc = "refetch" /\ pc' = "getHubAgain"
        /\ spoke' = spoke /\ hub' = hub /\ seenMC' = spoke
    BY <1>10 DEF RefetchSpoke, SettledInv, Hosted
  <2> QED BY <1>10, <1>b, <1>c, <1>d, <2>1 DEF RefetchSpoke, Quiet
<1>11. CASE GetHubAgain
  <2> SUFFICES ASSUME ~queued', Hosted' PROVE Quiet'
    BY <1>11, <1>b DEF GetHubAgain, SettledInv
  <2>1. /\ Quiet /\ pc = "getHubAgain" /\ pc' = "syncHubToSpoke"
        /\ spoke' = spoke /\ hub' = hub /\ seenMC' = seenMC /\ seenHub' = hub
    BY <1>11 DEF GetHubAgain, SettledInv, Hosted
  <2> QED BY <1>11, <1>b, <1>c, <1>d, <2>1 DEF GetHubAgain, Quiet
<1>12. ASSUME pc = "syncHubToSpoke", NEW new \in SpokeState, new.kind = seenMC.kind, new.uid = seenMC.uid,
              WriteSpoke(new, "idle"),
              UNCHANGED <<hub, hcs, seenMC, seenHC, seenHub, edits>>,
              seenHub.exists => new = FromHubSynced(seenMC, HubSource(seenHub)),
              ~seenHub.exists => new = HubRemoved(seenMC)
       PROVE  SettledInv'
  <2> SUFFICES ASSUME ~queued', Hosted' PROVE Quiet'
    BY <1>12, <1>b DEF SettledInv
  <2>1. ~queued /\ Hosted
    BY <1>12, WriteKeeps DEF Hosted
  <2>2. seenMC = spoke /\ seenHub = hub /\ SpokeAgrees(seenHC) /\ HubAgreesWith(seenHC)
    BY <1>12, <2>1 DEF SettledInv, Quiet
  <2>3. new = spoke /\ spoke' = spoke /\ pc' = "idle"
    BY <1>12, <2>1, <2>2, QuietWrite
  <2>4. HubSyncedSpoke
    BY <1>12, <2>2, <2>3 DEF HubSyncedSpoke
  <2> QED BY <1>12, <1>b, <1>c, <1>d, <1>e, <2>2, <2>3, <2>4 DEF Quiet
<1>13. CASE SyncHubToSpoke
  <2>1. FromHubSynced(seenMC, HubSource(seenHub)) \in SpokeState
    BY <1>a, NewSpokeType
  <2>2. /\ FromHubSynced(seenMC, HubSource(seenHub)).kind = seenMC.kind
        /\ FromHubSynced(seenMC, HubSource(seenHub)).uid = seenMC.uid
    BY <1>a DEF FromHubSynced, SpokeState
  <2> QED BY <1>12, <1>13, <2>1, <2>2 DEF SyncHubToSpoke
<1>14. CASE RemoveHubFromSpoke
  <2>1. HubRemoved(seenMC) \in SpokeState
    BY <1>a, NewSpokeType
  <2>2. HubRemoved(seenMC).kind = seenMC.kind /\ HubRemoved(seenMC).uid = seenMC.uid
    BY <1>a DEF HubRemoved, SpokeState
  <2> QED BY <1>12, <1>14, <2>1, <2>2 DEF RemoveHubFromSpoke
<1>15. CASE Abort
  BY <1>15, <1>b DEF Abort, SettledInv
<1>16. CASE Users
  <2>1. ~queued' /\ Hosted' => Quiet'
    <3> SUFFICES ASSUME ~queued', Hosted' PROVE Quiet'
      OBVIOUS
    <3>1. ~queued /\ spoke' = spoke /\ hub' = hub /\ UNCHANGED <<pc, seenMC, seenHC, seenHub>>
      BY <1>16, QuietUsers
    <3> QED BY <3>1, <1>f DEF Hosted
  <2>2. seenHC' = seenHC
    BY <1>16 DEF Users, EditSpokeLabel, EditHubLabel, SetCreatedVia, CreateSpoke, DeleteSpoke, EditHC,
                 CreateHub, DeleteHub, DeleteHC, RematchHC, CreateHC, envVars
  <2>3. ~hub'.exists => hub' = NoHub
    <3>1. \A labels \in Labels : CreateHub(labels) => hub'.exists
      BY DEF CreateHub, NoHub
    <3>2. \A k, v : EditHubLabel(k, v) => hub'.exists
      BY DEF EditHubLabel, TypeOK, HubState
    <3>3. DeleteHub => hub' = NoHub
      BY DEF DeleteHub
    <3>4. hub' = hub \/ DeleteHub \/ (\E labels \in Labels : CreateHub(labels)) \/ (\E k, v : EditHubLabel(k, v))
      BY <1>16 DEF Users, EditSpokeLabel, SetCreatedVia, CreateSpoke, DeleteSpoke, EditHC,
                   DeleteHC, RematchHC, CreateHC
    <3> QED BY <3>1, <3>2, <3>3, <3>4 DEF SettledInv, NoHub, Empty
  <2> QED BY <1>b, <2>1, <2>2, <2>3 DEF SettledInv, NoHub, Empty
<1>17. CASE UNCHANGED vars
  <2>1. spoke' = spoke /\ hub' = hub /\ UNCHANGED <<pc, seenMC, seenHC, seenHub, queued>>
    BY <1>17 DEF vars
  <2> QED BY <2>1, <1>b, <1>f DEF SettledInv, Hosted
<1> QED
  BY <1>1, <1>2, <1>4, <1>5, <1>6, <1>8, <1>9, <1>10, <1>11, <1>13, <1>14, <1>15,
     <1>16, <1>17 DEF Next, Worker

\* While HCs match by name or annotation only, the HC found stays the current one.
LEMMA CurrentStep ==
  ASSUME "infra" \notin Matches, MayRematch = FALSE
  PROVE  TypeOK /\ CurrentInv /\ [Next]_vars => CurrentInv'
<1> SUFFICES ASSUME TypeOK, CurrentInv, [Next]_vars PROVE CurrentInv'
  OBVIOUS
<1>a. hcs' = hcs => FindHostedCluster' = FindHostedCluster /\ MatchedByName'
  BY DEF FindHostedCluster, NoMatch, Empty, CurrentInv, MatchedByName
<1>b. ASSUME hcs' = hcs, seenHC' = seenHC, pc # "findHC", ~queued' /\ Hosted' => ~queued /\ Hosted
      PROVE  CurrentInv'
  BY <1>a, <1>b DEF CurrentInv
<1>c. ASSUME NEW new, NEW next, WriteSpoke(new, next) PROVE ~queued' /\ Hosted' => ~queued /\ Hosted
  BY <1>c, WriteKeeps DEF Hosted
<1>1. CASE GetSpoke
  BY <1>1, <1>a DEF GetSpoke, CurrentInv, Hosted
<1>2. CASE ListHCs
  BY <1>2, <1>a DEF ListHCs, CurrentInv
<1>3. CASE SyncHCToSpoke
  BY <1>3, <1>b, <1>c DEF SyncHCToSpoke
<1>4. CASE RemoveHCFromSpoke
  BY <1>4, <1>b, <1>c DEF RemoveHCFromSpoke
<1>5. CASE GetHub
  BY <1>5, <1>b DEF GetHub, Hosted
<1>6. CASE SyncHCToHub \/ RemoveHCFromHub
  <2> SUFFICES ASSUME NEW new, WriteHub(new), pc = "syncHCToHub" PROVE CurrentInv'
    BY <1>6 DEF SyncHCToHub, RemoveHCFromHub
  <2>1. UNCHANGED <<spoke, hcs, seenHC>> /\ (queued => queued')
    BY WriteHubKeeps
  <2> QED BY <1>b, <2>1 DEF Hosted
<1>7. CASE RefetchSpoke \/ GetHubAgain
  BY <1>7, <1>b DEF RefetchSpoke, GetHubAgain, Hosted
<1>8. CASE SyncHubToSpoke
  BY <1>8, <1>b, <1>c DEF SyncHubToSpoke
<1>9. CASE RemoveHubFromSpoke
  BY <1>9, <1>b, <1>c DEF RemoveHubFromSpoke
<1>10. CASE Abort
  BY <1>10, <1>a DEF Abort, CurrentInv
<1>11. CASE Users
  <2>1. MatchedByName'
    BY <1>11, UsersMatchByName DEF CurrentInv
  <2> SUFFICES ASSUME ~queued', Hosted', pc' # "findHC" PROVE seenHC' = FindHostedCluster'
    BY <2>1 DEF CurrentInv
  <2>2. ~queued /\ spoke' = spoke /\ UNCHANGED <<pc, seenHC>>
    BY <1>11, QuietUsers
  <2>3. FindHostedCluster' = FindHostedCluster
    BY <1>11, QuietFound DEF CurrentInv
  <2> QED BY <2>2, <2>3 DEF CurrentInv, Hosted
<1>12. CASE UNCHANGED vars
  BY <1>12, <1>a DEF vars, CurrentInv, Hosted
<1> QED
  BY <1>1, <1>2, <1>3, <1>4, <1>5, <1>6, <1>7, <1>8, <1>9, <1>10, <1>11, <1>12 DEF Next, Worker

\* The keys an HC that findHostedCluster returned has for the MCs.
FoundKeys(f) == KeysOf(f.labels) \ SystemKeys

\* The spoke MC, and a hub MC that exists, carry the labels of f and track none
\* that f has not, and no key of the spoke MC has two owners.
Follows(f) ==
  /\ FoundKeys(f) \subseteq KeysOf(spoke.labels)
  /\ \A k \in spoke.hcTracked : k \in FoundKeys(f) /\ spoke.labels[k] = f.labels[k]
  /\ hub.exists =>
       /\ FoundKeys(f) \subseteq KeysOf(hub.labels)
       /\ \A k \in hub.hcTracked : k \in FoundKeys(f) /\ hub.labels[k] = f.labels[k]
  /\ spoke.hcTracked \cap spoke.hubTracked = {}

SettledFollowsFound == Settled /\ seenHC.result # "ambiguous" => Follows(seenHC)

\* MCs that need no patch carry the labels.
LEMMA AgreedFollows ==
  ASSUME TypeOK, NEW f \in Found, f.result # "ambiguous", f.result = "none" => f.labels = Empty,
         SpokeAgrees(f), HubAgreesWith(f)
  PROVE  Follows(f)
<1> DEFINE src == Propagated(f.labels)
<1>1. FoundKeys(f) = KeysOf(src) /\ \A k \in FoundKeys(f) : src[k] = f.labels[k]
  BY DEF FoundKeys, Propagated, KeysOf
<1>2. CASE f.result = "one"
  <2>1. /\ spoke.labels = Synced(spoke.labels, src, spoke.hcTracked)
        /\ spoke.hcTracked = Managed(spoke.labels, src, spoke.hcTracked)
        /\ spoke.hubTracked = spoke.hubTracked \ Managed(spoke.labels, src, spoke.hcTracked)
    <3>1. HCSynced(spoke, src) = spoke
      BY <1>2 DEF SpokeAgrees
    <3> QED BY <3>1 DEF HCSynced, TypeOK, SpokeState
  <2>2. ASSUME hub.exists
        PROVE  /\ hub.labels = Synced(hub.labels, src, hub.hcTracked)
               /\ hub.hcTracked = Managed(hub.labels, src, hub.hcTracked)
    <3>1. HubSynced(hub, src) = hub
      BY <1>2, <2>2 DEF HubAgreesWith
    <3> QED BY <3>1 DEF HubSynced, TypeOK, HubState
  <2> HIDE DEF src
  <2>3. /\ FoundKeys(f) \subseteq KeysOf(spoke.labels)
        /\ \A k \in spoke.hcTracked : k \in FoundKeys(f) /\ spoke.labels[k] = f.labels[k]
    BY <1>1, <2>1 DEF Synced, Managed, KeysOf
  <2>4. ASSUME hub.exists
        PROVE  /\ FoundKeys(f) \subseteq KeysOf(hub.labels)
               /\ \A k \in hub.hcTracked : k \in FoundKeys(f) /\ hub.labels[k] = f.labels[k]
    BY <1>1, <2>2, <2>4 DEF Synced, Managed, KeysOf
  <2>5. spoke.hcTracked \cap spoke.hubTracked = {}
    BY <2>1
  <2> QED BY <2>3, <2>4, <2>5 DEF Follows
<1>3. CASE f.result = "none"
  <2>1. spoke.hcTracked = {}
    <3>1. HCRemoved(spoke) = spoke
      BY <1>3 DEF SpokeAgrees
    <3> QED BY <3>1 DEF HCRemoved, TypeOK, SpokeState
  <2>2. hub.exists => hub.hcTracked = {}
    <3> SUFFICES ASSUME hub.exists PROVE hub.hcTracked = {}
      OBVIOUS
    <3>1. HCRemoved(hub) = hub
      BY <1>3 DEF HubAgreesWith
    <3> QED BY <3>1 DEF HCRemoved, TypeOK, HubState
  <2>3. FoundKeys(f) = {}
    BY <1>3 DEF FoundKeys, KeysOf, Empty
  <2> QED BY <2>1, <2>2, <2>3 DEF Follows
<1> QED BY <1>2, <1>3 DEF Found

\* The invariant about a resting agent holds of every behaviour.
LEMMA SettledInvariant == Spec => []SettledInv
<1>1. Init => SettledInv
  BY DEF Init, SettledInv, NoMatch
<1> QED BY <1>1, TypeCorrect, SettledStep, PTL DEF Spec

\* However HCs match and whatever users annotate: once the agent rests, the
\* spoke MC and the hub MC carry the labels of the HC that the last reconcile
\* found, claim no others, and no key has two owners (Reconcile, 94-133).  An
\* MC falls behind only by an HC whose change woke nobody.
THEOREM FollowsFound == Spec => []SettledFollowsFound
<1>1. ASSUME TypeOK, SettledInv PROVE SettledFollowsFound
  <2> SUFFICES ASSUME Settled, seenHC.result # "ambiguous" PROVE Follows(seenHC)
    BY DEF SettledFollowsFound
  <2>1. SpokeAgrees(seenHC) /\ HubAgreesWith(seenHC)
    BY <1>1 DEF SettledInv, Quiet, Settled
  <2> QED BY <1>1, <2>1, AgreedFollows DEF SettledInv, TypeOK
<1> QED BY <1>1, TypeCorrect, SettledInvariant, PTL

\* And the second stage, however HCs match: once the agent rests, the spoke MC
\* has every key of the hub MC that an administrator set, and what it tracks
\* for the hub is still on the hub with that value (Reconcile, lines 135-159).
THEOREM FollowsHub == Spec => []SettledFollowsHub
<1>1. ASSUME TypeOK, SettledInv PROVE SettledFollowsHub
  <2> SUFFICES ASSUME Settled PROVE SettledFollowsHub
    BY DEF SettledFollowsHub
  <2>1. HubSyncedSpoke
    BY <1>1 DEF SettledInv, Quiet, Settled
  <2>2. CASE hub.exists
    <3>1. FromHubSynced(spoke, HubSource(hub)) = spoke
      BY <2>1, <2>2 DEF HubSyncedSpoke
    <3>2. /\ spoke.labels = Synced(spoke.labels, HubSource(hub), spoke.hubTracked)
          /\ spoke.hubTracked = Managed(spoke.labels, HubSource(hub), spoke.hubTracked)
      BY <1>1, <3>1 DEF FromHubSynced, TypeOK, SpokeState
    <3>3. /\ AdminKeys = KeysOf(HubSource(hub))
          /\ \A k \in AdminKeys : HubSource(hub)[k] = hub.labels[k]
      BY DEF AdminKeys, HubSource, Propagated, KeysOf
    <3> QED BY <3>2, <3>3 DEF SettledFollowsHub, Synced, Managed, KeysOf
  <2>3. CASE ~hub.exists
    <3>1. HubRemoved(spoke) = spoke
      BY <2>1, <2>3 DEF HubSyncedSpoke
    <3>2. spoke.hubTracked = {}
      BY <1>1, <3>1 DEF HubRemoved, TypeOK, SpokeState
    <3>3. AdminKeys = {}
      BY <2>3, <1>1 DEF AdminKeys, KeysOf, SettledInv, NoHub, Empty
    <3> QED BY <3>2, <3>3 DEF SettledFollowsHub
  <2> QED BY <2>2, <2>3
<1> QED BY <1>1, TypeCorrect, SettledInvariant, PTL

\* When no HC is matched by infraID and none is annotated after its creation:
\* once the agent rests, the spoke MC and the hub MC carry the labels of the
\* HC, the spoke MC those of the hub MC, and no key has two owners.
THEOREM SettledAgree ==
  ASSUME "infra" \notin Matches, MayRematch = FALSE
  PROVE  Spec => [](/\ SettledFollowsHC /\ SettledHubFollowsHC
                    /\ SettledFollowsHub /\ SettledOneOwner)
<1>1. Init => CurrentInv
  BY DEF Init, CurrentInv, MatchedByName, NoHC
<1>2. ASSUME SettledFollowsFound, CurrentInv
      PROVE  SettledFollowsHC /\ SettledHubFollowsHC /\ SettledOneOwner
  <2> SUFFICES ASSUME Settled, FindHostedCluster.result # "ambiguous"
               PROVE  SettledFollowsHC /\ SettledHubFollowsHC /\ SettledOneOwner
    BY DEF SettledFollowsHC, SettledHubFollowsHC, SettledOneOwner
  <2>1. seenHC = FindHostedCluster
    BY <1>2 DEF CurrentInv, Settled
  <2>2. Follows(FindHostedCluster) /\ HCKeys = FoundKeys(FindHostedCluster)
    BY <1>2, <2>1 DEF SettledFollowsFound, HCKeys, FoundKeys
  <2> QED BY <2>2 DEF Follows, SettledFollowsHC, SettledHubFollowsHC, SettledOneOwner
<1>3. Spec => []CurrentInv
  BY <1>1, TypeCorrect, CurrentStep, PTL DEF Spec
<1> QED BY <1>2, <1>3, FollowsFound, FollowsHub, PTL

\* Under the same conditions the hub MC alone (syncHCLabelsToMC): once the agent
\* rests, it has every label of the HC, and a label it tracks has the HC's value.
THEOREM HubAgrees ==
  ASSUME "infra" \notin Matches, MayRematch = FALSE
  PROVE  Spec => []SettledHubFollowsHC
BY SettledAgree, PTL
=============================================================================
