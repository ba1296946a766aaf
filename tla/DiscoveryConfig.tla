---------------------------- MODULE DiscoveryConfig ----------------------------
(***************************************************************************)
(* DiscoveryConfigController, pkg/manager/discovery_config_controller.go.  *)
(*                                                                         *)
(* The variable configureMceImport of the AddOnDeploymentConfig            *)
(* hypershift-addon-deploy-config (here: config) decides where the addons  *)
(* of imported MCE clusters are installed.  "true" changes that config     *)
(* itself, then, one after the other, the AddOnDeploymentConfig            *)
(* addon-ns-config, the ClusterManagementAddOns that refer to it, and the  *)
(* KlusterletConfig mce-import-klusterlet-config; "false" takes all of it  *)
(* back, unless a ManagedCluster (MC) uses that KlusterletConfig.          *)
(*                                                                         *)
(* Each of these objects is read and then written with the version read;   *)
(* a conflict or a failed call ends the request, which comes again.  The   *)
(* controller has one worker and watches config only.                      *)
(***************************************************************************)
EXTENDS Naturals, FiniteSets

CONSTANTS
  Placed,     \* how many ClusterManagementAddOns are installed by placement
  MCs,        \* the MCs that may use the KlusterletConfig
  Changes,    \* the kinds of changes that may happen
  MaxChanges  \* bound: how many of them

ASSUME ConstantsAssumption ==
  /\ Placed \in Nat
  /\ Changes \subseteq {"config", "acm", "object", "use", "callFails", "restart"}
  /\ MaxChanges \in Nat

VARIABLES
  config,   \* hypershift-addon-deploy-config
  info,     \* the ConfigMap that tells what it was
  acm,      \* ACM is installed
  objs,     \* the objects, in the order the controller comes to them
  using,    \* the MCs that use the KlusterletConfig
  queued,   \* a request is in the work queue
  pc,       \* the next call of the running reconcile
  copy,     \* its copy of config
  at,       \* the object it is at
  found,    \* its copy of that object
  fresh,    \* nobody wrote the object it read last since then
  stale,    \* history: objects changed since the controller was done with them
  skipped,  \* history: the last request ended because ACM was not installed
  refused,  \* history: the last request found MCs that use the KlusterletConfig
  late,     \* history: MCs that began to use it after the controller looked
  changes   \* changes so far (bounds the model)

worldVars == <<config, acm, objs, using>>
workVars == <<pc, copy, at, found, fresh>>
historyVars == <<stale, skipped, refused, late>>
vars == <<worldVars, info, queued, workVars, historyVars, changes>>

(* The objects.  An object is "discovery" as the controller leaves it when *)
(* the import is on and "absent" when it does not exist; "plain" is a      *)
(* ClusterManagementAddOn without a reference to addon-ns-config.  "other" *)
(* is, of addon-ns-config and the KlusterletConfig, any other content; of  *)
(* an addon by placement, one without the global placement; of             *)
(* application-manager, one with the reference that is not Manual.         *)
NsConfig == 1
PlacedAddons == 2 .. Placed + 1
AppManager == Placed + 2
Klusterlet == Placed + 3
Objects == 1 .. Placed + 3
Addons == PlacedAddons \cup {AppManager}

StatesOf(o) == {"absent", "other", "discovery"} \cup (IF o \in Addons THEN {"plain"} ELSE {})
States == {"absent", "other", "discovery", "plain"}

\* config's two variables and namespace: as the controller leaves them when
\* the import is on ("discovery") or off ("default"), or neither.
Layouts == {"default", "discovery", "mixed"}
ConfigState == [switch: {"true", "false", "unset"}, layout: Layouts]
NoConfig == [switch |-> "none", layout |-> "default"]
Exists == config # NoConfig

TypeOK ==
  /\ config \in ConfigState \cup {NoConfig}
  /\ info \in ConfigState \cup {NoConfig}
  /\ acm \in BOOLEAN
  /\ objs \in [Objects -> States] /\ \A o \in Objects : objs[o] \in StatesOf(o)
  /\ using \subseteq MCs
  /\ queued \in BOOLEAN
  /\ pc \in {"idle", "acm", "users", "layout", "read", "write", "info"}
  /\ copy \in ConfigState \cup {NoConfig}
  /\ at \in Objects
  /\ found \in States
  /\ fresh \in BOOLEAN
  /\ stale \subseteq Objects
  /\ skipped \in BOOLEAN
  /\ refused \in BOOLEAN
  /\ late \subseteq MCs
  /\ changes \in Nat

-----------------------------------------------------------------------------
(* What a pass makes of an object.  A ClusterManagementAddOn that does not *)
(* exist is left out, one without the global placement is written as it is,*)
(* and application-manager loses its placements for good.  The pass to off *)
(* does not touch an application-manager that is not Manual ("other"), and *)
(* so leaves its reference.                                                *)

TurnedOn(o, s) ==
  IF (o \in Addons /\ s = "absent") \/ (o \in PlacedAddons /\ s = "other") THEN s ELSE "discovery"
TurnedOff(o, s) == IF o \notin Addons THEN "absent" ELSE IF s = "discovery" THEN "plain" ELSE s

Target(o, s) == IF copy.switch = "true" THEN TurnedOn(o, s) ELSE TurnedOff(o, s)
TargetLayout == IF copy.switch = "true" THEN "discovery" ELSE "default"

\* The controller updates a placed addon that has no global placement, too.
Writes(o, s) ==
  \/ Target(o, s) # s
  \/ copy.switch = "true" /\ o \in PlacedAddons /\ s = "other"

-----------------------------------------------------------------------------
(* Reconcile, call by call.  Definitions named Bug... are the plausible    *)
(* mistakes that show what each property would catch; no specification     *)
(* uses them.                                                              *)

Rest ==
  /\ pc' = "idle"
  /\ copy' = NoConfig
  /\ at' = NsConfig
  /\ found' = "absent"
  /\ fresh' = FALSE

Retry == Rest /\ queued' = TRUE

GetConfig ==
  /\ pc = "idle" /\ queued
  /\ queued' = FALSE
  /\ \/ /\ ~Exists
        /\ UNCHANGED <<workVars, historyVars>>
     \/ /\ Exists
        /\ pc' = "acm"
        /\ copy' = config
        /\ fresh' = TRUE
        /\ skipped' = FALSE /\ refused' = FALSE
        /\ UNCHANGED <<at, found, stale, late>>
  /\ UNCHANGED <<worldVars, info, changes>>

\* isACMInstalled, then the value of configureMceImport.
CheckACM ==
  /\ pc = "acm"
  /\ \/ /\ ~acm
        /\ Rest
        /\ skipped' = TRUE
     \/ /\ acm
        /\ pc' = CASE copy.switch = "true"  -> "layout"
                   [] copy.switch = "false" -> "users"
                   [] copy.switch = "unset" -> "info"
        /\ UNCHANGED <<copy, at, found, fresh, skipped>>
  /\ UNCHANGED <<worldVars, info, queued, stale, refused, late, changes>>

BugCheckUsers ==
  /\ pc = "users"
  /\ pc' = "layout" /\ late' = {}
  /\ UNCHANGED <<worldVars, info, queued, copy, at, found, fresh, stale, skipped, refused, changes>>
\* checkManagedClustersUsingKlusterletConfig.
CheckUsers ==
  /\ pc = "users"
  /\ pc' = IF using = {} THEN "layout" ELSE "info"
  /\ refused' = (using # {})
  /\ late' = {}
  /\ UNCHANGED <<worldVars, info, queued, copy, at, found, fresh, stale, skipped, changes>>

\* Ensure or remove config's own variables: an update is an event.
PutLayout ==
  /\ pc = "layout"
  /\ \/ /\ copy.layout = TargetLayout
        /\ pc' = "read"
        /\ UNCHANGED <<config, queued, copy, at, found, fresh>>
     \/ /\ copy.layout # TargetLayout /\ fresh
        /\ config' = [config EXCEPT !.layout = TargetLayout]
        /\ copy' = [copy EXCEPT !.layout = TargetLayout]
        /\ queued' = TRUE
        /\ pc' = "read"
        /\ UNCHANGED <<at, found, fresh>>
     \/ /\ copy.layout # TargetLayout /\ ~fresh
        /\ Retry
        /\ UNCHANGED config
  /\ UNCHANGED <<acm, objs, using, info, historyVars, changes>>

BugNextObject == pc' = "read" /\ at' = at + 1 /\ UNCHANGED <<copy, found, fresh, queued>>
\* The next object, or the ConfigMap after the last.
NextObject ==
  /\ IF at = Klusterlet THEN pc' = "info" /\ UNCHANGED at ELSE pc' = "read" /\ at' = at + 1
  /\ UNCHANGED <<copy, found, fresh, queued>>

BugReadOnce ==
  /\ pc = "read"
  /\ stale' = stale \ {at}
  /\ \/ /\ ~Writes(at, objs[at])
        /\ (copy.switch = "false" /\ objs[at] = "absent") \/ at = Klusterlet
        /\ pc' = "info"
        /\ UNCHANGED <<copy, at, found, fresh, queued>>
     \/ /\ ~Writes(at, objs[at])
        /\ ~(copy.switch = "false" /\ objs[at] = "absent") /\ at # Klusterlet
        /\ NextObject
     \/ /\ Writes(at, objs[at])
        /\ pc' = "write"
        /\ found' = objs[at]
        /\ fresh' = TRUE
        /\ UNCHANGED <<copy, at, queued>>
  /\ UNCHANGED <<worldVars, info, skipped, refused, late, changes>>
BugReadMissing ==
  /\ pc = "read"
  /\ stale' = stale \ {at}
  /\ \/ /\ objs[at] = "absent" /\ at \in Addons
        /\ Retry
     \/ /\ ~(objs[at] = "absent" /\ at \in Addons) /\ ~Writes(at, objs[at])
        /\ NextObject
     \/ /\ Writes(at, objs[at])
        /\ pc' = "write"
        /\ found' = objs[at]
        /\ fresh' = TRUE
        /\ UNCHANGED <<copy, at, queued>>
  /\ UNCHANGED <<worldVars, info, skipped, refused, late, changes>>
\* Get of the object.
ReadObject ==
  /\ pc = "read"
  /\ stale' = stale \ {at}
  /\ \/ /\ ~Writes(at, objs[at])
        /\ NextObject
     \/ /\ Writes(at, objs[at])
        /\ pc' = "write"
        /\ found' = objs[at]
        /\ fresh' = TRUE
        /\ UNCHANGED <<copy, at, queued>>
  /\ UNCHANGED <<worldVars, info, skipped, refused, late, changes>>

\* A delete asks for no version: it fails only when the object is gone.
Accepted == fresh \/ (copy.switch = "false" /\ at \notin Addons /\ objs[at] # "absent")

BugWriteNow ==
  /\ pc = "write"
  /\ \/ /\ Accepted
        /\ objs' = [objs EXCEPT ![at] = IF config.switch = "true" THEN TurnedOn(at, found)
                                        ELSE TurnedOff(at, found)]
        /\ NextObject
     \/ /\ ~Accepted
        /\ Retry
        /\ UNCHANGED objs
  /\ UNCHANGED <<config, acm, using, info, historyVars, changes>>
\* Create, Update or Delete of the object.
WriteObject ==
  /\ pc = "write"
  /\ \/ /\ Accepted
        /\ objs' = [objs EXCEPT ![at] = Target(at, found)]
        /\ NextObject
     \/ /\ ~Accepted
        /\ Retry
        /\ UNCHANGED objs
  /\ UNCHANGED <<config, acm, using, info, historyVars, changes>>

\* createOrUpdateAddonConfigMap, from the copy in memory.
PutInfo ==
  /\ pc = "info"
  /\ info' = copy
  /\ Rest
  /\ UNCHANGED <<worldVars, queued, historyVars, changes>>

Reconcile ==
  GetConfig \/ CheckACM \/ CheckUsers \/ PutLayout \/ ReadObject \/ WriteObject \/ PutInfo

-----------------------------------------------------------------------------
(* Users, ACM, failures.                                                   *)

Change(what) == what \in Changes /\ changes < MaxChanges /\ changes' = changes + 1

\* config is created, changed or deleted: an event.
EditConfig ==
  /\ Change("config")
  /\ config' \in (ConfigState \cup {NoConfig}) \ {config}
  /\ queued' = TRUE
  /\ fresh' = (fresh /\ pc \notin {"acm", "users", "layout"})
  /\ UNCHANGED <<acm, objs, using, info, pc, copy, at, found, historyVars>>

\* ACM is installed or removed: no event.
FlipACM ==
  /\ Change("acm")
  /\ acm' = ~acm
  /\ UNCHANGED <<config, objs, using, info, queued, workVars, historyVars>>

\* Somebody else changes one of the objects: no event.
EditObject(o) ==
  /\ Change("object")
  /\ \E s \in StatesOf(o) \ {objs[o]} : objs' = [objs EXCEPT ![o] = s]
  /\ \/ pc = "write" /\ o = at /\ fresh' = FALSE /\ UNCHANGED stale
     \/ ~(pc = "write" /\ o = at) /\ stale' = stale \cup {o} /\ UNCHANGED fresh
  /\ UNCHANGED <<config, acm, using, info, queued, pc, copy, at, found, skipped, refused, late>>

\* An MC begins or ceases to use the KlusterletConfig: no event.
EditMC(m) ==
  /\ Change("use")
  /\ \/ m \notin using /\ using' = using \cup {m} /\ late' = late \cup {m}
     \/ m \in using /\ using' = using \ {m} /\ UNCHANGED late
  /\ UNCHANGED <<config, acm, objs, info, queued, workVars, stale, skipped, refused>>

\* Any call returns an error: the request comes again.
CallFails ==
  /\ Change("callFails")
  /\ pc # "idle"
  /\ Retry
  /\ UNCHANGED <<worldVars, info, historyVars>>

\* The manager restarts, and lists what is there.
Restart ==
  /\ Change("restart")
  /\ Rest
  /\ queued' = Exists
  /\ UNCHANGED <<worldVars, info, historyVars>>

Environment ==
  \/ EditConfig \/ FlipACM
  \/ \E o \in Objects : EditObject(o)
  \/ \E m \in MCs : EditMC(m)
  \/ CallFails \/ Restart

Init ==
  /\ config = NoConfig
  /\ info = NoConfig
  /\ acm \in BOOLEAN
  /\ objs \in [Objects -> States] /\ \A o \in Objects : objs[o] \in StatesOf(o) \ {"discovery"}
  /\ using = {}
  /\ queued = FALSE
  /\ pc = "idle"
  /\ copy = NoConfig
  /\ at = NsConfig
  /\ found = "absent"
  /\ fresh = FALSE
  /\ stale = {}
  /\ skipped = FALSE
  /\ refused = FALSE
  /\ late = {}
  /\ changes = 0

Next == Reconcile \/ Environment

Spec == Init /\ [][Next]_vars

\* The worker takes the next request and goes on with the one it has.
FairSpec == Spec /\ WF_vars(Reconcile)

-----------------------------------------------------------------------------
Resting == pc = "idle" /\ ~queued

\* Everything is on: each addon that exists and can be changed has the
\* reference, and addon-ns-config and the KlusterletConfig are there.  An addon
\* by placement without the global placement has no place for the reference.
SwitchedOn ==
  /\ config.layout = "discovery"
  /\ \A o \in Objects \ stale :
       \/ objs[o] = "discovery"
       \/ o \in Addons /\ objs[o] = "absent"
       \/ o \in PlacedAddons /\ objs[o] = "other"

\* The addons with a reference to addon-ns-config where the controller puts it.
Referring == {o \in Addons : objs[o] = "discovery" \/ (o = AppManager /\ objs[o] = "other")}

\* Everything is off: addon-ns-config and the KlusterletConfig are gone, and no
\* addon refers to the former, with one exception: removeSpecialAddOnConfig
\* (lines 680-696) looks for the reference in a Manual application-manager only,
\* and leaves it in one that is not Manual, although line 665 promises
\* "Manual strategy without supportedConfigs".
SwitchedOff ==
  /\ config.layout = "default"
  /\ \A o \in {NsConfig, Klusterlet} \ stale : objs[o] = "absent"
  /\ \A o \in Referring \ stale : o = AppManager /\ objs[o] = "other"

\* When the controller rests its work is complete, in the direction of config:
\* everything is on (SwitchedOn), or everything is off (SwitchedOff) but for the
\* reference of an application-manager that is not Manual, which stays; off is
\* not asked for if MCs used the KlusterletConfig when the controller looked.
\* And the ConfigMap for monitoring, written from the copy in its memory, tells
\* what config is.  All that despite changes between its calls, conflicts,
\* failures half-way and restarts (Reconcile, lines 105-196).  What others
\* changed after the controller looked is not seen, nor that ACM came later.
SettledConfigured ==
  Resting /\ ~skipped =>
    /\ config.switch = "true" => SwitchedOn
    /\ config.switch = "false" /\ ~refused => SwitchedOff
    /\ Exists => info = config

\* The controller never deletes the KlusterletConfig under an MC that used it
\* when it looked, however long ago that was (lines 142-188).
KeptForUsers ==
  [][\A m \in using \ late :
       WriteObject /\ at = Klusterlet /\ copy.switch = "false" => UNCHANGED objs]_vars

\* The controller comes to rest: neither its own update of config, nor an
\* addon that does not exist or cannot be changed keeps it awake.
ComesToRest == []<>Resting

\* Refinement: side, pass and choice as DiscoverySwitch has them, with
\* config's layout as object 0.  An object is on a side if a pass to that side
\* leaves it alone; so an application-manager that is not Manual is on the side
\* "off" with its reference.
Direction(switch) == CASE switch = "true" -> "on" [] switch = "false" -> "off" [] OTHER -> "none"
Side(o, s) ==
  LET On == s = TurnedOn(o, s)
      Off == s = TurnedOff(o, s)
  IN  IF On /\ Off THEN "both" ELSE IF On THEN "on" ELSE IF Off THEN "off" ELSE "mixed"
LayoutSide == [default |-> "off", discovery |-> "on", mixed |-> "mixed"]
Pass == IF pc = "idle" \/ refused THEN "idle" ELSE Direction(copy.switch)

Switch == INSTANCE DiscoverySwitch WITH
  Objects <- Objects \cup {0},
  Noticed <- {0},
  choice  <- Direction(config.switch),
  side    <- [o \in Objects \cup {0} |-> IF o = 0 THEN LayoutSide[config.layout] ELSE Side(o, objs[o])],
  pass    <- Pass,
  begun   <- Pass \in {"on", "off"} /\ pc \in {"read", "write", "info"},
  pending <- queued,
  touched <- IF pc = "write" /\ ~fresh THEN stale \cup {at} ELSE stale,
  gaveUp  <- skipped \/ refused

\* The controller moves everything to one side, chosen when it began, whatever
\* the user chooses while it is under way, and goes on until it is done.
ImplementsSwitch == Switch!Spec
=============================================================================
