------------------------------ MODULE LabelSync ------------------------------
(***************************************************************************)
(* The LabelAgent of pkg/agent/managedcluster_sync_controller.go.          *)
(*                                                                         *)
(* For one hosted cluster three objects carry labels: the HostedCluster    *)
(* (HC) and the ManagedCluster on the MCE cluster (the "spoke" MC), and    *)
(* the ManagedCluster on the ACM hub (the "hub" MC).  One worker copies HC *)
(* labels to the spoke MC and the hub MC, and hub labels to the spoke MC,  *)
(* with live reads and JSON merge patches that carry no resource version.  *)
(* Which labels it owns is recorded in annotations: hc-propagated-labels   *)
(* (hcTracked, on both MCs) and propagated-labels (hubTracked, spoke MC).  *)
(*                                                                         *)
(* Every access to the API server is one action; users change labels and   *)
(* create or delete objects between any two of them.                       *)
(***************************************************************************)
EXTENDS Naturals, FiniteSets

CONSTANTS
  Keys,          \* label keys
  SystemKeys,    \* the keys isSystemLabel rejects
  Values,        \* label values
  NoLabel,       \* the key is not in the label map
  HCs,           \* HostedClusters, numbered in the order a List returns them
  Matches,       \* the ways an HC may match the spoke MC: see HCState
  MayRematch,    \* whether a user may annotate an existing HC
  MaxEdits       \* bound: changes by users, plus failed reconciles

ASSUME ConstantsAssumption ==
  /\ SystemKeys \subseteq Keys
  /\ NoLabel \notin Values
  /\ HCs \subseteq Nat
  /\ IsFiniteSet(HCs)
  /\ Matches \subseteq {"anno", "infra", "name", "other"}
  /\ MayRematch \in BOOLEAN
  /\ MaxEdits \in Nat

VARIABLES
  spoke,    \* the spoke MC
  hub,      \* the hub MC
  hcs,      \* the HostedClusters on the spoke
  queued,   \* whether the work queue holds the request of this spoke MC
  pc,       \* what the worker does next
  seenMC,   \* the worker's copy of the spoke MC
  seenHC,   \* what findHostedCluster returned
  seenHub,  \* the worker's copy of the hub MC
  local,    \* history: keys of spoke labels last written by a user
  strayed,  \* history: a patch changed a spoke MC other than the one it read
  edits     \* changes made so far (bounds the model)

vars == <<spoke, hub, hcs, queued, pc, seenMC, seenHC, seenHub, local, strayed, edits>>
envVars == <<pc, seenMC, seenHC, seenHub, strayed>>

Labels   == [Keys -> Values \cup {NoLabel}]
Empty    == [k \in Keys |-> NoLabel]
KeysOf(labels) == {k \in Keys : labels[k] # NoLabel}

(***************************************************************************)
(* "hosted": the MC carries created-via: hypershift; "plain": it does not. *)
(***************************************************************************)
SpokeState == [kind: {"absent", "plain", "hosted"}, uid: Nat, labels: Labels,
               hcTracked: SUBSET Keys, hubTracked: SUBSET Keys]
HubState   == [exists: BOOLEAN, labels: Labels, hcTracked: SUBSET Keys]

(***************************************************************************)
(* How an HC relates to the spoke MC: "anno", its managedcluster-name      *)
(* annotation names it; "infra", no annotation, another name, the infraID  *)
(* of the MC's label; "name", no annotation and the MC's name; "other", an *)
(* annotation naming another MC, or nothing in common.                     *)
(***************************************************************************)
HCState == [match: {"absent", "anno", "infra", "name", "other"}, labels: Labels]
Found   == [result: {"none", "one", "ambiguous"}, labels: Labels]

NoSpoke(uid) == [kind |-> "absent", uid |-> uid, labels |-> Empty,
                 hcTracked |-> {}, hubTracked |-> {}]
NoHub == [exists |-> FALSE, labels |-> Empty, hcTracked |-> {}]
NoHC  == [match |-> "absent", labels |-> Empty]
NoMatch == [result |-> "none", labels |-> Empty]

Steps == {"idle", "findHC", "syncHCToSpoke", "getHub", "syncHCToHub",
          "refetch", "getHubAgain", "syncHubToSpoke"}

TypeOK ==
  /\ spoke \in SpokeState
  /\ hub \in HubState
  /\ hcs \in [HCs -> HCState]
  /\ queued \in BOOLEAN
  /\ pc \in Steps
  /\ seenMC \in SpokeState
  /\ seenHC \in Found
  /\ seenHub \in HubState
  /\ local \subseteq Keys
  /\ strayed \in BOOLEAN
  /\ edits \in Nat

-----------------------------------------------------------------------------
(* Definitions named Bug... are the plausible mistakes that show what each *)
(* property would catch; no specification uses them.                       *)

(* What one sync computes: labels of the target, labels of the source and  *)
(* the keys tracked so far.  HC and hub labels follow the same rule.       *)

Propagated(labels) == [k \in Keys |-> IF k \in SystemKeys THEN NoLabel ELSE labels[k]]

BugManagedAlways(labels, src, tracked) == KeysOf(src)
BugManagedEmptyKey(labels, src, tracked) ==
  LET managed == {k \in KeysOf(src) : labels[k] \in {NoLabel, src[k]} \/ k \in tracked}
  IN  IF managed = {} THEN {NoLabel} ELSE managed
Managed(labels, src, tracked) ==
  {k \in KeysOf(src) : labels[k] \in {NoLabel, src[k]} \/ k \in tracked}

BugSyncedNoRemoval(labels, src, tracked) ==
  [k \in Keys |-> IF k \in Managed(labels, src, tracked) THEN src[k] ELSE labels[k]]
Synced(labels, src, tracked) ==
  [k \in Keys |-> IF k \in Managed(labels, src, tracked) THEN src[k]
                  ELSE IF k \in tracked THEN NoLabel
                  ELSE labels[k]]

HCSynced(mc, src) ==
  [mc EXCEPT !.labels = Synced(mc.labels, src, mc.hcTracked),
             !.hcTracked = Managed(mc.labels, src, mc.hcTracked),
             !.hubTracked = @ \ Managed(mc.labels, src, mc.hcTracked)]

HubSynced(h, src) ==
  [h EXCEPT !.labels = Synced(h.labels, src, h.hcTracked),
            !.hcTracked = Managed(h.labels, src, h.hcTracked)]

HubSource(h) ==
  [k \in Keys |-> IF k \in h.hcTracked THEN NoLabel ELSE Propagated(h.labels)[k]]

FromHubSynced(mc, src) ==
  [mc EXCEPT !.labels = Synced(mc.labels, src, mc.hubTracked),
             !.hubTracked = Managed(mc.labels, src, mc.hubTracked)]

\* The source is gone: what was copied from it goes, and with it the annotation.
Cleared(labels, tracked) == [k \in Keys |-> IF k \in tracked THEN NoLabel ELSE labels[k]]

HCRemoved(mc) ==
  [mc EXCEPT !.labels = Cleared(mc.labels, mc.hcTracked), !.hcTracked = {}]

HubRemoved(mc) ==
  [mc EXCEPT !.labels = Cleared(mc.labels, mc.hubTracked), !.hubTracked = {}]

(***************************************************************************)
(* A merge patch: what differs between the copy read and the copy computed *)
(* is written over the object's current state.  A label is a field of the  *)
(* patch of its own, a tracking annotation is replaced as a whole.  (An    *)
(* imported MC always carries labels outside Keys - name, cloud, vendor -  *)
(* so no patch empties its label map.)                                     *)
(***************************************************************************)
PatchedLabels(now, base, new) == [k \in Keys |-> IF new[k] = base[k] THEN now[k] ELSE new[k]]
PatchedSet(now, base, new) == IF new = base THEN now ELSE new

PatchSpoke(new) ==
  [spoke EXCEPT !.labels = PatchedLabels(@, seenMC.labels, new.labels),
                !.hcTracked = PatchedSet(@, seenMC.hcTracked, new.hcTracked),
                !.hubTracked = PatchedSet(@, seenMC.hubTracked, new.hubTracked)]

PatchHub(new) ==
  [hub EXCEPT !.labels = PatchedLabels(@, seenHub.labels, new.labels),
              !.hcTracked = PatchedSet(@, seenHub.hcTracked, new.hcTracked)]

-----------------------------------------------------------------------------
(* The HC of the spoke MC: an annotation or infraID match ends the loop,   *)
(* name matches count only when the loop finds neither.                    *)

FindHostedCluster ==
  LET decisive == {h \in HCs : hcs[h].match \in {"anno", "infra"}}
      named    == {h \in HCs : hcs[h].match = "name"}
  IN  IF decisive # {}
        THEN LET first == CHOOSE h \in decisive : \A g \in decisive : h <= g
             IN  [result |-> "one", labels |-> hcs[first].labels]
      ELSE IF named = {} THEN NoMatch
      ELSE IF \E h \in named : named = {h}
        THEN [result |-> "one", labels |-> hcs[CHOOSE h \in named : TRUE].labels]
      ELSE [result |-> "ambiguous", labels |-> Empty]

\* mapHCToSpokeMC: the request goes to the MC the annotation or the HC's name names.
BugWakesByNameOnly(h) == h.match = "name"
Wakes(h) == h.match \in {"anno", "name"}

\* labelEventFilters, for an update of the spoke MC from old to new.
BugSpokeWakesTrackingOnly(old, new) ==
  /\ new.kind = "hosted"
  /\ old.hcTracked # new.hcTracked \/ old.hubTracked # new.hubTracked \/ old.kind # new.kind
SpokeWakes(old, new) ==
  /\ new.kind = "hosted"
  /\ \/ old.labels # new.labels
     \/ old.hcTracked # new.hcTracked
     \/ old.hubTracked # new.hubTracked
     \/ old.kind # new.kind

-----------------------------------------------------------------------------
(* The worker: Reconcile, one action per access to an API server.          *)

Hosted == spoke.kind = "hosted"

GetSpoke ==
  /\ pc = "idle" /\ queued
  /\ queued' = FALSE
  /\ \/ /\ Hosted
        /\ pc' = "findHC" /\ seenMC' = spoke
     \/ /\ ~Hosted
        /\ UNCHANGED <<pc, seenMC>>
  /\ UNCHANGED <<spoke, hub, hcs, seenHC, seenHub, local, strayed, edits>>

ListHCs ==
  /\ pc = "findHC"
  /\ seenHC' = FindHostedCluster
  /\ pc' = IF seenHC'.result = "ambiguous" THEN "refetch" ELSE "syncHCToSpoke"
  /\ UNCHANGED <<spoke, hub, hcs, queued, seenMC, seenHub, local, strayed, edits>>

(***************************************************************************)
(* Patches the spoke MC from seenMC to new and goes on at next.  Without a *)
(* difference no call is made.  A patch of an MC that is gone fails, and   *)
(* the request is queued again.  The event of the patch may queue it too.  *)
(***************************************************************************)
WriteSpoke(new, next) ==
  \/ /\ new = seenMC
     /\ pc' = next
     /\ UNCHANGED <<spoke, queued, local, strayed>>
  \/ /\ new # seenMC /\ spoke.kind = "absent"
     /\ pc' = "idle" /\ queued' = TRUE
     /\ UNCHANGED <<spoke, local, strayed>>
  \/ /\ new # seenMC /\ spoke.kind # "absent"
     /\ spoke' = PatchSpoke(new)
     /\ pc' = next
     /\ queued' = (queued \/ SpokeWakes(spoke, spoke'))
     /\ local' = {k \in local : new.labels[k] = seenMC.labels[k]}
     /\ strayed' = (strayed \/ spoke.uid # seenMC.uid)

SyncHCToSpoke ==
  /\ pc = "syncHCToSpoke" /\ seenHC.result = "one"
  /\ WriteSpoke(HCSynced(seenMC, Propagated(seenHC.labels)), "getHub")
  /\ UNCHANGED <<hub, hcs, seenMC, seenHC, seenHub, edits>>

RemoveHCFromSpoke ==
  /\ pc = "syncHCToSpoke" /\ seenHC.result = "none"
  /\ WriteSpoke(HCRemoved(seenMC), "getHub")
  /\ UNCHANGED <<hub, hcs, seenMC, seenHC, seenHub, edits>>

GetHub ==
  /\ pc = "getHub"
  /\ seenHub' = hub
  /\ pc' = IF hub.exists THEN "syncHCToHub" ELSE "refetch"
  /\ UNCHANGED <<spoke, hub, hcs, queued, seenMC, seenHC, local, strayed, edits>>

WriteHub(new) ==
  /\ \/ /\ new = seenHub
        /\ pc' = "refetch"
        /\ UNCHANGED <<hub, queued>>
     \/ /\ new # seenHub /\ ~hub.exists
        /\ pc' = "idle" /\ queued' = TRUE
        /\ UNCHANGED hub
     \/ /\ new # seenHub /\ hub.exists
        /\ hub' = PatchHub(new)
        /\ pc' = "refetch"
        /\ queued' = (queued \/ hub' # hub)
  /\ UNCHANGED <<spoke, hcs, seenMC, seenHC, seenHub, local, strayed, edits>>

SyncHCToHub ==
  /\ pc = "syncHCToHub" /\ seenHC.result = "one"
  /\ WriteHub(HubSynced(seenHub, Propagated(seenHC.labels)))

BugRemoveHCFromHubSkipped ==
  /\ pc = "syncHCToHub" /\ seenHC.result = "none"
  /\ WriteHub(seenHub)
RemoveHCFromHub ==
  /\ pc = "syncHCToHub" /\ seenHC.result = "none"
  /\ WriteHub(HCRemoved(seenHub))

\* The second read of the spoke MC does not look at created-via again.
BugRefetchSpoke ==
  /\ pc = "refetch"
  /\ pc' = "getHubAgain"
  /\ UNCHANGED <<spoke, hub, hcs, queued, seenMC, seenHC, seenHub, local, strayed, edits>>
RefetchSpoke ==
  /\ pc = "refetch"
  /\ \/ /\ spoke.kind # "absent"
        /\ pc' = "getHubAgain" /\ seenMC' = spoke
     \/ /\ spoke.kind = "absent"
        /\ pc' = "idle"
        /\ UNCHANGED seenMC
  /\ UNCHANGED <<spoke, hub, hcs, queued, seenHC, seenHub, local, strayed, edits>>

GetHubAgain ==
  /\ pc = "getHubAgain"
  /\ seenHub' = hub
  /\ pc' = "syncHubToSpoke"
  /\ UNCHANGED <<spoke, hub, hcs, queued, seenMC, seenHC, local, strayed, edits>>

SyncHubToSpoke ==
  /\ pc = "syncHubToSpoke" /\ seenHub.exists
  /\ WriteSpoke(FromHubSynced(seenMC, HubSource(seenHub)), "idle")
  /\ UNCHANGED <<hub, hcs, seenMC, seenHC, seenHub, edits>>

RemoveHubFromSpoke ==
  /\ pc = "syncHubToSpoke" /\ ~seenHub.exists
  /\ WriteSpoke(HubRemoved(seenMC), "idle")
  /\ UNCHANGED <<hub, hcs, seenMC, seenHC, seenHub, edits>>

\* An API call fails and the request is retried, or the agent restarts and
\* lists every hosted MC.
Abort ==
  /\ pc # "idle" /\ edits < MaxEdits
  /\ pc' = "idle" /\ queued' = TRUE
  /\ edits' = edits + 1
  /\ UNCHANGED <<spoke, hub, hcs, seenMC, seenHC, seenHub, local, strayed>>

Worker == \/ GetSpoke \/ ListHCs
          \/ SyncHCToSpoke \/ RemoveHCFromSpoke
          \/ GetHub \/ SyncHCToHub \/ RemoveHCFromHub
          \/ RefetchSpoke \/ GetHubAgain
          \/ SyncHubToSpoke \/ RemoveHubFromSpoke

-----------------------------------------------------------------------------
(* What users and other controllers do, and the events it causes.          *)

Edit == edits < MaxEdits /\ edits' = edits + 1

EditSpokeLabel(k, v) ==
  /\ Edit /\ spoke.kind # "absent"
  /\ spoke.labels[k] # v
  /\ spoke' = [spoke EXCEPT !.labels[k] = v]
  /\ queued' = (queued \/ SpokeWakes(spoke, spoke'))
  /\ local' = IF v = NoLabel THEN local \ {k} ELSE local \cup {k}
  /\ UNCHANGED <<hub, hcs, envVars>>

SetCreatedVia(kind) ==
  /\ Edit /\ spoke.kind # "absent" /\ spoke.kind # kind
  /\ spoke' = [spoke EXCEPT !.kind = kind]
  /\ queued' = (queued \/ SpokeWakes(spoke, spoke'))
  /\ UNCHANGED <<hub, hcs, local, envVars>>

CreateSpoke(kind, labels) ==
  /\ Edit /\ spoke.kind = "absent"
  /\ spoke' = [NoSpoke(spoke.uid + 1) EXCEPT !.kind = kind, !.labels = labels]
  /\ queued' = (queued \/ kind = "hosted")
  /\ local' = KeysOf(labels)
  /\ UNCHANGED <<hub, hcs, envVars>>

DeleteSpoke ==
  /\ Edit /\ spoke.kind # "absent"
  /\ spoke' = NoSpoke(spoke.uid)
  /\ local' = {}
  /\ UNCHANGED <<hub, hcs, queued, envVars>>

\* The hub watch has no predicate: an update of anything else (v is the
\* current value) wakes the worker as well.
EditHubLabel(k, v) ==
  /\ Edit /\ hub.exists
  /\ hub' = [hub EXCEPT !.labels[k] = v]
  /\ queued' = TRUE
  /\ UNCHANGED <<spoke, hcs, local, envVars>>

CreateHub(labels) ==
  /\ Edit /\ ~hub.exists
  /\ hub' = [NoHub EXCEPT !.exists = TRUE, !.labels = labels]
  /\ queued' = TRUE
  /\ UNCHANGED <<spoke, hcs, local, envVars>>

DeleteHub ==
  /\ Edit /\ hub.exists
  /\ hub' = NoHub
  /\ queued' = TRUE
  /\ UNCHANGED <<spoke, hcs, local, envVars>>

EditHC(h, k, v) ==
  /\ Edit /\ hcs[h].match # "absent" /\ hcs[h].labels[k] # v
  /\ hcs' = [hcs EXCEPT ![h].labels[k] = v]
  /\ queued' = (queued \/ Wakes(hcs[h]))
  /\ UNCHANGED <<spoke, hub, local, envVars>>

CreateHC(h, match, labels) ==
  /\ Edit /\ hcs[h].match = "absent"
  /\ hcs' = [hcs EXCEPT ![h] = [match |-> match, labels |-> labels]]
  /\ queued' = (queued \/ Wakes(hcs'[h]))
  /\ UNCHANGED <<spoke, hub, local, envVars>>

DeleteHC(h) ==
  /\ Edit /\ hcs[h].match # "absent"
  /\ hcs' = [hcs EXCEPT ![h] = NoHC]
  /\ queued' = (queued \/ Wakes(hcs[h]))
  /\ UNCHANGED <<spoke, hub, local, envVars>>

\* hcLabelEventFilters passes label changes only: annotating an HC wakes nobody.
RematchHC(h, match) ==
  /\ Edit /\ MayRematch
  /\ hcs[h].match \notin {"absent", match}
  /\ hcs' = [hcs EXCEPT ![h].match = match]
  /\ UNCHANGED <<spoke, hub, queued, local, envVars>>

Users ==
  \/ \E k \in Keys, v \in Values \cup {NoLabel} :
       EditSpokeLabel(k, v) \/ EditHubLabel(k, v) \/ \E h \in HCs : EditHC(h, k, v)
  \/ \E kind \in {"plain", "hosted"} :
       SetCreatedVia(kind) \/ \E labels \in Labels : CreateSpoke(kind, labels)
  \/ DeleteSpoke
  \/ \E labels \in Labels : CreateHub(labels)
  \/ DeleteHub
  \/ \E h \in HCs :
       \/ DeleteHC(h)
       \/ \E match \in Matches : RematchHC(h, match) \/ \E labels \in Labels : CreateHC(h, match, labels)

Next == Worker \/ Abort \/ Users

\* The agent starts beside objects that no earlier agent has labelled.
Init ==
  /\ \E labels \in Labels :
       /\ spoke = [NoSpoke(0) EXCEPT !.kind = "hosted", !.labels = labels]
       /\ local = KeysOf(labels)
  /\ hub \in {NoHub} \cup {[exists |-> TRUE, labels |-> labels, hcTracked |-> {}] : labels \in Labels}
  /\ hcs = [h \in HCs |-> NoHC]
  /\ queued = TRUE
  /\ pc = "idle"
  /\ seenMC = NoSpoke(0) /\ seenHC = NoMatch /\ seenHub = NoHub
  /\ strayed = FALSE
  /\ edits = 0

Spec == Init /\ [][Next]_vars

\* The single worker keeps running; users owe nothing.
FairSpec == Spec /\ WF_vars(Worker)

-----------------------------------------------------------------------------
(* Properties.                                                             *)

\* Nothing is queued and the worker rests, on an MC the agent is in charge of.
Settled == pc = "idle" /\ ~queued /\ Hosted

\* The keys that should reach an MC from the HC, and the spoke MC from the hub.
HCKeys == KeysOf(FindHostedCluster.labels) \ SystemKeys
AdminKeys == KeysOf(hub.labels) \ (SystemKeys \cup hub.hcTracked)

\* Once the agent rests, the spoke MC carries every propagated key of its
\* HC, with the HC's value wherever the agent claims it, claims no key that
\* HC lacks and keeps none when there is no HC (Reconcile, 94-133).
SettledFollowsHC ==
  Settled /\ FindHostedCluster.result # "ambiguous" =>
    /\ HCKeys \subseteq KeysOf(spoke.labels)
    /\ \A k \in spoke.hcTracked :
         k \in HCKeys /\ spoke.labels[k] = FindHostedCluster.labels[k]

\* The same for the hub MC: HC labels reach it, and leave it with the HC.
SettledHubFollowsHC ==
  Settled /\ hub.exists /\ FindHostedCluster.result # "ambiguous" =>
    /\ HCKeys \subseteq KeysOf(hub.labels)
    /\ \A k \in hub.hcTracked :
         k \in HCKeys /\ hub.labels[k] = FindHostedCluster.labels[k]

\* Once the agent rests, the spoke MC carries every key an administrator set
\* on the hub MC, with the hub's value wherever the agent claims it, and none
\* that left the hub (Reconcile, 135-159).
SettledFollowsHub ==
  Settled =>
    /\ AdminKeys \subseteq KeysOf(spoke.labels)
    /\ \A k \in spoke.hubTracked : k \in AdminKeys /\ spoke.labels[k] = hub.labels[k]

\* Once the agent rests, no key is claimed both for the HC and for the hub
\* (lines 304-314): two owners would take turns at writing it.
SettledOneOwner ==
  Settled /\ FindHostedCluster.result # "ambiguous" => spoke.hcTracked \cap spoke.hubTracked = {}

\* A label on the spoke MC that no user wrote is recorded in one of the two
\* annotations, else no later sync would ever remove it.  (A patch that lands
\* on an MC deleted and re-created since the read is set apart.)
AgentLabelsTracked ==
  ~strayed => \A k \in KeysOf(spoke.labels) \ local : k \in spoke.hcTracked \cup spoke.hubTracked

\* Line 413 "skip (locally set)": unless the spoke MC changed since it was read,
\* the worker leaves a label alone that is in neither annotation.
LocalLabelsKeptUnlessRaced ==
  [][Worker /\ spoke = seenMC =>
       \A k \in KeysOf(spoke.labels) \ (spoke.hcTracked \cup spoke.hubTracked) :
         spoke'.labels[k] = spoke.labels[k]]_vars

\* Each write of the worker wakes it again, yet it comes to rest.
Converges == <>[](pc = "idle" /\ ~queued)
=============================================================================
