------------------------- MODULE DiscoveryConfigProofs -------------------------
(***************************************************************************)
(* Theorems about DiscoveryConfig, for any number of addons and of         *)
(* ManagedClusters, and any number of changes: its types, what it has done *)
(* when it rests, whom it keeps the KlusterletConfig for, and that it      *)
(* implements DiscoverySwitch.                                             *)
(***************************************************************************)
EXTENDS DiscoveryConfig, TLAPS

USE ConstantsAssumption DEF ConstantsAssumption

-----------------------------------------------------------------------------
(* The objects and their states.                                           *)

LEMMA ObjectFacts ==
  /\ Objects \subseteq Nat /\ 0 \notin Objects
  /\ NsConfig \in Objects /\ Klusterlet \in Objects
  /\ \A o \in Objects : o # Klusterlet => o + 1 \in Objects
  /\ \A o \in Objects : ~(o < NsConfig)
  /\ \A o, p \in Objects : o < p + 1 <=> o < p \/ o = p
  /\ \A o \in Objects : o < Klusterlet \/ o = Klusterlet
  BY DEF Objects, NsConfig, Klusterlet

\* A pass leaves an object in a state it may have.
LEMMA TurnedTyped ==
  ASSUME NEW o \in Objects, NEW s \in States
  PROVE  /\ TurnedOn(o, s) \in StatesOf(o) /\ TurnedOff(o, s) \in StatesOf(o)
         /\ Target(o, s) \in StatesOf(o) /\ StatesOf(o) \subseteq States
<1>1. PlacedAddons \subseteq Addons
  BY DEF Addons
<1> QED
  BY <1>1 DEF TurnedOn, TurnedOff, Target, StatesOf, States

\* A second pass in the same direction leaves it alone.
LEMMA TurnedTwice ==
  ASSUME NEW o, NEW s
  PROVE  /\ TurnedOn(o, TurnedOn(o, s)) = TurnedOn(o, s)
         /\ TurnedOff(o, TurnedOff(o, s)) = TurnedOff(o, s)
         /\ Target(o, Target(o, s)) = Target(o, s)
  BY DEF TurnedOn, TurnedOff, Target

\* Objects that a pass to on leaves alone, and config on that side, are all
\* that SwitchedOn asks for; the same of SwitchedOff.
LEMMA LeftAlone ==
  ASSUME TypeOK
  PROVE  /\ SwitchedOn <=> /\ config.layout = "discovery"
                           /\ \A o \in Objects \ stale : objs[o] = TurnedOn(o, objs[o])
         /\ SwitchedOff <=> /\ config.layout = "default"
                            /\ \A o \in Objects \ stale : objs[o] = TurnedOff(o, objs[o])
<1>1. \A o \in Objects : objs[o] \in StatesOf(o)
  BY DEF TypeOK
<1>2. /\ Objects = {NsConfig, Klusterlet} \cup Addons /\ NsConfig \notin Addons /\ Klusterlet \notin Addons
      /\ PlacedAddons \subseteq Addons /\ AppManager \in Addons /\ AppManager \notin PlacedAddons
      /\ \A o \in Addons : o \in PlacedAddons \/ o = AppManager
  BY ConstantsAssumption DEF Objects, NsConfig, Klusterlet, Addons, PlacedAddons, AppManager
<1>3. \A o \in Objects :
        objs[o] = TurnedOn(o, objs[o])
          <=> \/ objs[o] = "discovery"
              \/ o \in Addons /\ objs[o] = "absent"
              \/ o \in PlacedAddons /\ objs[o] = "other"
  BY DEF TurnedOn
<1>4. \A o \in {NsConfig, Klusterlet} : objs[o] = TurnedOff(o, objs[o]) <=> objs[o] = "absent"
  BY <1>2 DEF TurnedOff
<1>5. \A o \in Addons : objs[o] = TurnedOff(o, objs[o]) <=> objs[o] # "discovery"
  BY <1>2 DEF TurnedOff
<1>6. \A o \in Addons : objs[o] # "discovery" <=> (o \in Referring => o = AppManager /\ objs[o] = "other")
  BY <1>2 DEF Referring
<1>7. Referring \subseteq Addons
  BY DEF Referring
<1> QED
  BY <1>2, <1>3, <1>4, <1>5, <1>6, <1>7 DEF SwitchedOn, SwitchedOff

-----------------------------------------------------------------------------
(* Type correctness.                                                       *)

\* The running reconcile has a copy of a config that existed, and until it has
\* dealt with config itself, one that is fresh is that config.
CopyTyped ==
  /\ pc # "idle" => copy \in ConfigState
  /\ pc \in {"acm", "users", "layout"} /\ fresh => copy = config

TypeInv == TypeOK /\ CopyTyped

LEMMA RestTyped ==
  ASSUME Rest
  PROVE  /\ pc' = "idle" /\ copy' \in ConfigState \cup {NoConfig} /\ at' \in Objects
         /\ found' \in States /\ fresh' \in BOOLEAN /\ CopyTyped'
  BY ObjectFacts DEF Rest, States, CopyTyped

LEMMA NextObjectTyped ==
  ASSUME TypeOK, NextObject
  PROVE  pc' \in {"read", "info"} /\ at' \in Objects /\ UNCHANGED <<copy, found, fresh, queued>>
  BY ObjectFacts DEF NextObject, TypeOK

LEMMA InitTyped == Init => TypeInv
<1> SUFFICES ASSUME Init PROVE TypeInv
  OBVIOUS
<1>1. objs \in [Objects -> States] /\ \A o \in Objects : objs[o] \in StatesOf(o)
  BY DEF Init
<1>2. NsConfig \in Objects /\ "absent" \in States
  BY ObjectFacts DEF States
<1> QED
  BY <1>1, <1>2 DEF Init, TypeInv, TypeOK, CopyTyped

LEMMA NextTyped ==
  ASSUME TypeInv, [Next]_vars
  PROVE  TypeInv'
<1> USE DEF TypeInv
<1>1. CASE GetConfig
  BY <1>1 DEF GetConfig, TypeOK, CopyTyped, Exists, worldVars, workVars, historyVars
<1>2. CASE CheckACM
  <2>1. CASE Rest
    BY <1>2, <2>1, RestTyped DEF CheckACM, TypeOK, worldVars
  <2>2. CASE ~Rest
    <3>1. copy.switch \in {"true", "false", "unset"} /\ pc = "acm"
      BY <1>2 DEF CheckACM, CopyTyped, ConfigState
    <3>2. pc' \in {"layout", "users", "info"} /\ UNCHANGED <<copy, at, found, fresh, skipped>>
      BY <1>2, <2>2, <3>1 DEF CheckACM
    <3> QED
      BY <1>2, <3>1, <3>2 DEF CheckACM, TypeOK, CopyTyped, worldVars
  <2> QED
    BY <2>1, <2>2
<1>3. CASE CheckUsers
  BY <1>3 DEF CheckUsers, TypeOK, CopyTyped, worldVars
<1>4. CASE PutLayout
  <2>1. TargetLayout \in Layouts
    BY DEF TargetLayout, Layouts
  <2>2. CASE Retry
    BY <1>4, <2>2, RestTyped DEF PutLayout, Retry, TypeOK, historyVars
  <2>3. CASE ~Retry
    <3>1. /\ pc' = "read" /\ pc = "layout" /\ queued' \in BOOLEAN
          /\ UNCHANGED <<acm, objs, using, info, historyVars, changes, at, found, fresh>>
      BY <1>4, <2>3 DEF PutLayout, TypeOK
    <3>2. CASE UNCHANGED <<config, copy>>
      BY <3>1, <3>2 DEF TypeOK, CopyTyped, historyVars
    <3>3. CASE ~UNCHANGED <<config, copy>>
      <4>1. /\ config' = [config EXCEPT !.layout = TargetLayout]
            /\ copy' = [copy EXCEPT !.layout = TargetLayout]
            /\ copy = config /\ copy \in ConfigState
        BY <1>4, <2>3, <3>3 DEF PutLayout, CopyTyped
      <4>2. config' \in ConfigState /\ copy' \in ConfigState
        BY <2>1, <4>1 DEF ConfigState
      <4> QED
        BY <3>1, <4>2 DEF TypeOK, CopyTyped, historyVars
    <3> QED
      BY <3>2, <3>3
  <2> QED
    BY <2>2, <2>3
<1>5. CASE ReadObject
  <2>1. CASE NextObject
    BY <1>5, <2>1, NextObjectTyped DEF ReadObject, TypeOK, CopyTyped, worldVars
  <2>2. CASE ~NextObject
    BY <1>5, <2>2 DEF ReadObject, TypeOK, CopyTyped, worldVars
  <2> QED
    BY <2>1, <2>2
<1>6. CASE WriteObject
  <2>1. Target(at, found) \in StatesOf(at) /\ Target(at, found) \in States
    BY TurnedTyped DEF TypeOK
  <2>2. CASE Accepted
    BY <1>6, <2>1, <2>2, NextObjectTyped DEF WriteObject, TypeOK, CopyTyped, historyVars
  <2>3. CASE ~Accepted
    BY <1>6, <2>3, RestTyped DEF WriteObject, Retry, TypeOK, historyVars
  <2> QED
    BY <2>2, <2>3
<1>7. CASE PutInfo
  BY <1>7, RestTyped DEF PutInfo, TypeOK, worldVars, historyVars
<1>8. CASE EditConfig
  <2>1. fresh' \in BOOLEAN
    BY <1>8 DEF EditConfig
  <2>2. pc \in {"acm", "users", "layout"} => ~fresh'
    BY <1>8 DEF EditConfig
  <2>3. CopyTyped'
    BY <1>8, <2>2 DEF EditConfig, CopyTyped
  <2>4. config' \in ConfigState \cup {NoConfig} /\ queued' \in BOOLEAN /\ changes' \in Nat
    BY <1>8 DEF EditConfig, Change, TypeOK
  <2>5. UNCHANGED <<acm, objs, using, info, pc, copy, at, found, stale, skipped, refused, late>>
    BY <1>8 DEF EditConfig, historyVars
  <2> QED
    BY <2>1, <2>3, <2>4, <2>5 DEF TypeOK
<1>9. CASE FlipACM
  BY <1>9 DEF FlipACM, Change, TypeOK, CopyTyped, workVars, historyVars
<1>10. ASSUME NEW o \in Objects, EditObject(o)
       PROVE  TypeInv'
  <2>1. PICK s \in StatesOf(o) : objs' = [objs EXCEPT ![o] = s]
    BY <1>10 DEF EditObject
  <2>2. s \in States
    BY DEF StatesOf, States
  <2>3. objs' \in [Objects -> States] /\ \A p \in Objects : objs'[p] \in StatesOf(p)
    BY <2>1, <2>2 DEF TypeOK
  <2>4. stale' \subseteq Objects
    BY <1>10 DEF EditObject, TypeOK
  <2>9. fresh' \in BOOLEAN /\ (fresh' => fresh)
    <3>1. fresh' = FALSE \/ UNCHANGED fresh
      BY <1>10 DEF EditObject
    <3>2. fresh \in BOOLEAN
      BY DEF TypeOK
    <3>3. CASE fresh' = FALSE
      BY <3>3
    <3>4. CASE fresh' = fresh
      BY <3>2, <3>4
    <3> QED
      BY <3>1, <3>3, <3>4
  <2>5. changes' \in Nat
    BY <1>10 DEF EditObject, Change, TypeOK
  <2>6. UNCHANGED <<config, acm, using, info, queued, pc, copy, at, found, skipped, refused, late>>
    BY <1>10 DEF EditObject
  <2>7. TypeOK'
    BY <2>3, <2>4, <2>5, <2>6, <2>9 DEF TypeOK
  <2>8. CopyTyped'
    BY <2>6, <2>9 DEF CopyTyped
  <2> QED
    BY <2>7, <2>8
<1>11. ASSUME NEW m \in MCs, EditMC(m)
       PROVE  TypeInv'
  BY <1>11 DEF EditMC, Change, TypeOK, CopyTyped, workVars
<1>12. CASE CallFails
  BY <1>12, RestTyped DEF CallFails, Change, Retry, TypeOK, worldVars, historyVars
<1>13. CASE Restart
  BY <1>13, RestTyped DEF Restart, Change, TypeOK, worldVars, historyVars, Exists
<1>14. CASE UNCHANGED vars
  BY <1>14 DEF TypeOK, CopyTyped, vars, worldVars, workVars, historyVars
<1> QED
  BY <1>1, <1>2, <1>3, <1>4, <1>5, <1>6, <1>7, <1>8, <1>9, <1>10, <1>11, <1>12, <1>13, <1>14
     DEF Next, Reconcile, Environment

LEMMA TypesHold == Spec => []TypeInv
  BY InitTyped, NextTyped, PTL DEF Spec

\* The types hold for every number of addons and every set of MCs (Reconcile,
\* discovery_config_controller.go:84-196).
THEOREM TypeCorrect == Spec => []TypeOK
<1>1. TypeInv => TypeOK
  BY DEF TypeInv
<1> QED
  BY <1>1, TypesHold, PTL

-----------------------------------------------------------------------------
(* The running pass, by the call it comes to next.                         *)

Switches == {"true", "false"}
Deciding == {"acm", "users", "layout"}

\* What the reconcile has decided when it comes to a call.
Decided ==
  /\ pc # "idle" => ~skipped
  /\ pc \in {"idle"} \cup Deciding => at = NsConfig
  /\ pc = "users" => copy.switch = "false"
  /\ pc \in {"layout", "read", "write"} => copy.switch \in Switches
  /\ pc \notin {"idle", "info"} => ~refused
  /\ pc = "info" /\ refused => copy.switch = "false"
  /\ pc = "write" => at \notin stale

\* It moves objects, or has moved them all.
Moving == pc \in {"read", "write", "info"} /\ ~refused /\ copy.switch \in Switches

\* Unless another request waits, the copy is what config is, and the objects
\* behind the one it is at are as config asks.
Moved ==
  ~queued =>
    /\ pc # "idle" => copy = config
    /\ Moving => copy.layout = TargetLayout
    /\ \A o \in Objects \ stale : Moving /\ (pc = "info" \/ o < at) => objs[o] = Target(o, objs[o])

\* The MCs that use the KlusterletConfig began to after the reconcile looked.
UsersLate == pc \in {"layout", "read", "write"} /\ copy.switch = "false" => using \subseteq late

PassInv == TypeInv /\ Decided /\ Moved /\ UsersLate /\ SettledConfigured

LEMMA RestPass ==
  ASSUME Rest
  PROVE  Decided' /\ Moved' /\ UsersLate'
  BY DEF Rest, Decided, Deciding, Moved, Moving, UsersLate

\* The sides stay while config does, and the objects that nobody changed.
LEMMA SameSides ==
  ASSUME config' = config,
         \A o \in Objects \ stale' : o \notin stale /\ objs'[o] = objs[o]
  PROVE  (SwitchedOn => SwitchedOn') /\ (SwitchedOff => SwitchedOff')
<1>1. {NsConfig, Klusterlet} \subseteq Objects /\ Addons \subseteq Objects
  BY ConstantsAssumption DEF Objects, NsConfig, Klusterlet, Addons, PlacedAddons, AppManager
<1>2. SwitchedOn => SwitchedOn'
  BY DEF SwitchedOn
<1>3. \A o \in Referring' \ stale' : o \in Referring \ stale /\ objs'[o] = objs[o]
  BY <1>1 DEF Referring
<1>4. SwitchedOff => SwitchedOff'
  BY <1>1, <1>3 DEF SwitchedOff
<1> QED
  BY <1>2, <1>4

LEMMA AwakeSettled ==
  ASSUME pc' # "idle" \/ queued' = TRUE
  PROVE  SettledConfigured'
  BY DEF SettledConfigured, Resting

\* What the pass of a reconcile is depends on these variables alone.
LEMMA SamePass ==
  ASSUME UNCHANGED <<pc, copy, at, skipped, refused>>
  PROVE  /\ Decided /\ (pc = "write" => at \notin stale') => Decided'
         /\ UNCHANGED <<config, queued>> /\ Moved
              /\ (\A o \in Objects \ stale' : Moving /\ (pc = "info" \/ o < at) =>
                    objs'[o] = Target(o, objs'[o]))
            => Moved'
<1>1. Moving' = Moving /\ TargetLayout' = TargetLayout
  BY DEF Moving, TargetLayout
<1> QED
  BY <1>1 DEF Decided, Moved, Target, Moving

LEMMA InitPass == Init => PassInv
<1> SUFFICES ASSUME Init PROVE PassInv
  OBVIOUS
<1>1. Decided /\ Moved /\ UsersLate
  BY DEF Init, Decided, Deciding, Moved, Moving, UsersLate
<1>2. SettledConfigured
  BY DEF Init, SettledConfigured, Exists, NoConfig
<1> QED
  BY <1>1, <1>2, InitTyped DEF PassInv

LEMMA ReconcilePass ==
  ASSUME PassInv, Reconcile
  PROVE  Decided' /\ Moved' /\ UsersLate' /\ SettledConfigured'
<1> USE DEF PassInv, TypeInv
<1>1. CASE GetConfig
  <2>1. CASE Exists
    <3>1. /\ pc' = "acm" /\ copy' = config /\ skipped' = FALSE /\ refused' = FALSE
          /\ UNCHANGED <<config, at>> /\ pc = "idle"
      BY <1>1, <2>1 DEF GetConfig, worldVars, workVars
    <3> QED
      BY <3>1, AwakeSettled DEF Decided, Deciding, Moved, Moving, UsersLate
  <2>2. CASE ~Exists
    <3>1. pc = "idle" /\ UNCHANGED <<pc, at, config>>
      BY <1>1, <2>2 DEF GetConfig, worldVars, workVars
    <3>2. config' = NoConfig
      BY <2>2, <3>1 DEF Exists
    <3>3. SettledConfigured'
      BY <3>2 DEF SettledConfigured, Exists, NoConfig
    <3> QED
      BY <3>1, <3>3 DEF Decided, Deciding, Moved, Moving, UsersLate
  <2> QED
    BY <2>1, <2>2
<1>2. CASE CheckACM
  <2>1. CASE ~acm
    <3>1. Rest /\ skipped' = TRUE
      BY <1>2, <2>1 DEF CheckACM
    <3> QED
      BY <3>1, RestPass DEF SettledConfigured
  <2>2. CASE acm
    <3>1. copy.switch \in {"true", "false", "unset"} /\ pc = "acm"
      BY <1>2 DEF CheckACM, CopyTyped, ConfigState
    <3>2. /\ pc' = CASE copy.switch = "true"  -> "layout"
                     [] copy.switch = "false" -> "users"
                     [] copy.switch = "unset" -> "info"
          /\ UNCHANGED <<config, queued, copy, at, skipped, refused>>
      BY <1>2, <2>2 DEF CheckACM, worldVars
    <3>3. /\ pc' \in {"layout", "users", "info"}
          /\ pc' = "layout" => copy.switch = "true"
          /\ pc' = "users" => copy.switch = "false"
          /\ pc' = "info" => copy.switch = "unset"
      BY <3>1, <3>2
    <3> QED
      BY <3>1, <3>2, <3>3, AwakeSettled
         DEF Decided, Deciding, Switches, Moved, Moving, UsersLate
  <2> QED
    BY <2>1, <2>2
<1>3. CASE CheckUsers
  <2>1. /\ pc = "users" /\ pc' \in {"layout", "info"}
        /\ pc' = "layout" => using = {} /\ refused' = FALSE
        /\ pc' = "info" => refused' = TRUE
        /\ UNCHANGED <<config, using, queued, copy, at, skipped>>
    BY <1>3 DEF CheckUsers, worldVars
  <2> QED
    BY <2>1, AwakeSettled DEF Decided, Deciding, Switches, Moved, Moving, UsersLate
<1>4. CASE PutLayout
  <2>1. CASE Retry
    BY <2>1, RestPass, AwakeSettled DEF Retry
  <2>2. CASE ~Retry
    <3>1. pc = "layout" /\ pc' = "read" /\ UNCHANGED <<using, at, skipped, refused, late>>
      BY <1>4, <2>2 DEF PutLayout, historyVars
    <3>2. copy'.switch = copy.switch
      <4>1. CASE UNCHANGED copy
        BY <4>1
      <4>2. CASE copy' = [copy EXCEPT !.layout = TargetLayout]
        BY <3>1, <4>2 DEF CopyTyped, ConfigState
      <4> QED
        BY <1>4, <2>2, <4>1, <4>2 DEF PutLayout
    <3>3. ~queued' => copy.layout = TargetLayout /\ UNCHANGED <<config, copy, queued>>
      BY <1>4, <2>2 DEF PutLayout
    <3>4. Moved'
      BY <3>1, <3>3, ObjectFacts DEF Decided, Deciding, Moved, Moving, TargetLayout
    <3> QED
      BY <3>1, <3>2, <3>4, AwakeSettled DEF Decided, Deciding, UsersLate
  <2> QED
    BY <2>1, <2>2
<1>5. CASE ReadObject
  <2>1. /\ pc = "read" /\ stale' = stale \ {at}
        /\ UNCHANGED <<config, objs, using, queued, copy, skipped, refused, late>>
    BY <1>5 DEF ReadObject, NextObject, worldVars
  <2>2. CASE Writes(at, objs[at])
    <3>1. pc' = "write" /\ UNCHANGED at
      BY <1>5, <2>2 DEF ReadObject
    <3>2. Moved'
      BY <2>1, <3>1, ObjectFacts DEF TypeOK, Moved, Moving, Target, TargetLayout
    <3> QED
      BY <2>1, <3>1, <3>2, AwakeSettled DEF Decided, Deciding, UsersLate
  <2>3. CASE ~Writes(at, objs[at])
    <3>1. IF at = Klusterlet THEN pc' = "info" /\ UNCHANGED at ELSE pc' = "read" /\ at' = at + 1
      BY <1>5, <2>3 DEF ReadObject, NextObject
    <3>2. objs[at] = Target(at, objs[at])
      BY <2>3 DEF Writes
    <3>3. \A o \in Objects : pc' = "info" \/ o < at' => o < at \/ o = at
      BY <2>1, <3>1, ObjectFacts DEF TypeOK
    <3>4. Moved'
      BY <2>1, <3>1, <3>2, <3>3 DEF Moved, Moving, Target, TargetLayout
    <3> QED
      BY <2>1, <3>1, <3>4, AwakeSettled DEF Decided, Deciding, UsersLate
  <2> QED
    BY <2>2, <2>3
<1>6. CASE WriteObject
  <2>1. CASE Retry
    BY <2>1, RestPass, AwakeSettled DEF Retry
  <2>2. CASE ~Retry
    <3>1. /\ pc = "write" /\ objs' = [objs EXCEPT ![at] = Target(at, found)]
          /\ UNCHANGED <<config, using, queued, copy, stale, skipped, refused, late>>
      BY <1>6, <2>2 DEF WriteObject, NextObject, historyVars
    <3>2. IF at = Klusterlet THEN pc' = "info" /\ UNCHANGED at ELSE pc' = "read" /\ at' = at + 1
      BY <1>6, <2>2 DEF WriteObject, NextObject
    <3>3. objs'[at] = Target(at, objs'[at]) /\ \A o \in Objects \ {at} : objs'[o] = objs[o]
      BY <3>1, TurnedTwice DEF TypeOK
    <3>4. \A o \in Objects : pc' = "info" \/ o < at' => o < at \/ o = at
      BY <3>2, ObjectFacts DEF TypeOK
    <3>5. Moved'
      BY <3>1, <3>2, <3>3, <3>4 DEF Moved, Moving, Target, TargetLayout
    <3> QED
      BY <3>1, <3>2, <3>5, AwakeSettled DEF Decided, Deciding, UsersLate
  <2> QED
    BY <2>1, <2>2
<1>7. CASE PutInfo
  <2>1. /\ pc = "info" /\ info' = copy /\ Rest
        /\ UNCHANGED <<config, objs, queued, stale, skipped, refused>>
    BY <1>7 DEF PutInfo, worldVars, historyVars
  <2>2. ASSUME ~queued
        PROVE  /\ config.switch = "true" => SwitchedOn
               /\ config.switch = "false" /\ ~refused => SwitchedOff
               /\ copy = config
    <3>1. copy = config
      BY <2>1, <2>2 DEF Moved
    <3>2. config.switch = "true" => ~refused
      BY <2>1, <3>1 DEF Decided
    <3>3. config.switch \in Switches /\ ~refused =>
            config.layout = TargetLayout /\ \A o \in Objects \ stale : objs[o] = Target(o, objs[o])
      BY <2>1, <2>2, <3>1 DEF Moved, Moving
    <3> QED
      BY <3>1, <3>2, <3>3, LeftAlone DEF Switches, TargetLayout, Target
  <2>3. SettledConfigured'
    BY <2>1, <2>2, SameSides DEF SettledConfigured, Resting, Exists
  <2> QED
    BY <2>1, <2>3, RestPass
<1> QED
  BY <1>1, <1>2, <1>3, <1>4, <1>5, <1>6, <1>7 DEF Reconcile

LEMMA EnvironmentPass ==
  ASSUME PassInv, Environment
  PROVE  Decided' /\ Moved' /\ UsersLate' /\ SettledConfigured'
<1> USE DEF PassInv, TypeInv
<1>1. CASE EditConfig
  <2>1. queued' = TRUE /\ UNCHANGED <<objs, using, pc, copy, at, stale, skipped, refused, late>>
    BY <1>1 DEF EditConfig, historyVars
  <2> QED
    BY <2>1, SamePass, AwakeSettled DEF Decided, Moved, UsersLate
<1>2. CASE FlipACM
  <2>1. UNCHANGED <<config, objs, using, info, queued, pc, copy, at, stale, skipped, refused, late>>
    BY <1>2 DEF FlipACM, workVars, historyVars
  <2> QED
    BY <2>1, SamePass, SameSides DEF Decided, Moved, UsersLate, SettledConfigured, Resting, Exists
<1>3. ASSUME NEW o \in Objects, EditObject(o)
      PROVE  Decided' /\ Moved' /\ UsersLate' /\ SettledConfigured'
  <2>1. /\ \A p \in Objects \ {o} : objs'[p] = objs[p]
        /\ stale' = IF pc = "write" /\ o = at THEN stale ELSE stale \cup {o}
        /\ UNCHANGED <<config, using, info, queued, pc, copy, at, skipped, refused, late>>
    BY <1>3 DEF EditObject, TypeOK
  <2>2. pc = "write" => at \notin stale'
    BY <2>1 DEF Decided
  <2>3. \A p \in Objects \ stale' : pc = "info" \/ p < at \/ pc = "idle" =>
          p \in Objects \ stale /\ objs'[p] = objs[p]
    BY <2>1, ObjectFacts DEF TypeOK
  <2>4. Moved'
    <3>1. ASSUME ~queued
          PROVE  \A p \in Objects \ stale' : Moving /\ (pc = "info" \/ p < at) =>
                   objs'[p] = Target(p, objs'[p])
      BY <2>3, <3>1 DEF Moved
    <3>2. CASE queued
      BY <2>1, <3>2 DEF Moved
    <3>3. CASE ~queued
      BY <2>1, <3>1, <3>3, SamePass
    <3> QED
      BY <3>2, <3>3
  <2>5. SettledConfigured'
    <3>1. CASE pc = "idle"
      BY <2>1, <2>3, <3>1, SameSides DEF SettledConfigured, Resting, Exists
    <3>2. CASE pc # "idle"
      BY <2>1, <3>2, AwakeSettled
    <3> QED
      BY <3>1, <3>2
  <2> QED
    BY <2>1, <2>2, <2>4, <2>5, SamePass DEF UsersLate
<1>4. ASSUME NEW m \in MCs, EditMC(m)
      PROVE  Decided' /\ Moved' /\ UsersLate' /\ SettledConfigured'
  <2>1. UNCHANGED <<config, objs, info, queued, pc, copy, at, stale, skipped, refused>>
    BY <1>4 DEF EditMC, workVars
  <2>2. using \subseteq late => using' \subseteq late'
    BY <1>4 DEF EditMC
  <2> QED
    BY <2>1, <2>2, SamePass, SameSides DEF Decided, Moved, UsersLate, SettledConfigured, Resting, Exists
<1>5. CASE CallFails
  BY <1>5, RestPass, AwakeSettled DEF CallFails, Retry
<1>6. CASE Restart
  <2>1. Rest /\ queued' = Exists /\ UNCHANGED config
    BY <1>6 DEF Restart, worldVars
  <2>2. SettledConfigured'
    <3>1. CASE Exists
      BY <2>1, <3>1, AwakeSettled
    <3>2. CASE ~Exists
      BY <2>1, <3>2 DEF SettledConfigured, Exists, NoConfig
    <3> QED
      BY <3>1, <3>2
  <2> QED
    BY <2>1, <2>2, RestPass
<1> QED
  BY <1>1, <1>2, <1>3, <1>4, <1>5, <1>6 DEF Environment

LEMMA NextPass ==
  ASSUME PassInv, [Next]_vars
  PROVE  PassInv'
<1>1. TypeInv'
  BY NextTyped DEF PassInv
<1>2. CASE Reconcile
  BY <1>1, <1>2, ReconcilePass DEF PassInv
<1>3. CASE Environment
  BY <1>1, <1>3, EnvironmentPass DEF PassInv
<1>4. CASE UNCHANGED vars
  <2>1. UNCHANGED <<config, objs, using, info, queued, pc, copy, at, stale, skipped, refused, late>>
    BY <1>4 DEF vars, worldVars, workVars, historyVars
  <2>2. Decided' /\ Moved' /\ UsersLate' /\ SettledConfigured'
    BY <2>1, SamePass, SameSides
       DEF PassInv, Decided, Moved, UsersLate, SettledConfigured, Resting, Exists
  <2> QED
    BY <1>1, <2>2 DEF PassInv
<1> QED
  BY <1>2, <1>3, <1>4 DEF Next

LEMMA PassHolds == Spec => []PassInv
  BY InitPass, NextPass, PTL DEF Spec

-----------------------------------------------------------------------------
(* What the controller promises.                                           *)

\* At rest the work is complete in the direction of config, and the ConfigMap
\* tells what config is: the mid-reconcile invariant Moved says of every
\* unfinished pass which of it is done already (Reconcile, lines 105-196).
THEOREM Configured == Spec => []SettledConfigured
<1>1. PassInv => SettledConfigured
  BY DEF PassInv
<1> QED
  BY <1>1, PassHolds, PTL

\* No KlusterletConfig is deleted under an MC that used it when the controller
\* looked, for any set of MCs (Reconcile, lines 142-188).
THEOREM KeepsForUsers == Spec => KeptForUsers
<1>1. ASSUME PassInv, [Next]_vars
      PROVE  [\A m \in using \ late :
                WriteObject /\ at = Klusterlet /\ copy.switch = "false" => UNCHANGED objs]_vars
  BY <1>1 DEF PassInv, UsersLate, WriteObject
<1> QED
  BY <1>1, PassHolds, PTL DEF Spec, KeptForUsers

-----------------------------------------------------------------------------
(* The refinement.  The variables of DiscoverySwitch by their names, with  *)
(* the same expressions as in Switch.                                      *)

All == Objects \cup {0}
Choice == Direction(config.switch)
SideOfAll == [o \in Objects \cup {0} |->
                IF o = 0 THEN LayoutSide[config.layout] ELSE Side(o, objs[o])]
Begun == Pass \in {"on", "off"} /\ pc \in {"read", "write", "info"}
Touched == IF pc = "write" /\ ~fresh THEN stale \cup {at} ELSE stale
GaveUp == skipped \/ refused

LEMMA DirectionTyped ==
  ASSUME NEW switch
  PROVE  /\ Direction(switch) \in {"on", "off", "none"}
         /\ switch = "true" => Direction(switch) = "on"
         /\ switch = "false" => Direction(switch) = "off"
         /\ switch \notin Switches => Direction(switch) = "none"
  BY DEF Direction, Switches

LEMMA SideTyped ==
  /\ \A o, s : Side(o, s) \in Switch!Sides
  /\ \A layout \in Layouts : LayoutSide[layout] \in Switch!Sides
  BY DEF Side, LayoutSide, Layouts, Switch!Sides

\* Where a pass leaves an object.
LEMMA TargetReached ==
  ASSUME copy.switch \in Switches, NEW o, NEW s, Target(o, s) = s
  PROVE  Side(o, s) \in {Direction(copy.switch), "both"}
<1>1. CASE copy.switch = "true"
  BY <1>1, DirectionTyped DEF Side, Target
<1>2. CASE copy.switch = "false"
  BY <1>2, DirectionTyped DEF Side, Target
<1> QED
  BY <1>1, <1>2 DEF Switches

LEMMA LayoutReached ==
  ASSUME copy.switch \in Switches
  PROVE  LayoutSide[TargetLayout] = Direction(copy.switch)
<1>1. CASE copy.switch = "true"
  BY <1>1, DirectionTyped DEF LayoutSide, TargetLayout
<1>2. CASE copy.switch = "false"
  BY <1>2, DirectionTyped DEF LayoutSide, TargetLayout
<1> QED
  BY <1>1, <1>2 DEF Switches

LEMMA SidesTyped == TypeOK => SideOfAll \in [All -> Switch!Sides]
<1>1. TypeOK => config.layout \in Layouts
  BY DEF TypeOK, ConfigState, NoConfig, Layouts
<1> QED
  BY <1>1, SideTyped DEF All, SideOfAll

LEMMA SideSteps ==
  /\ UNCHANGED <<config, objs>> => UNCHANGED SideOfAll
  /\ UNCHANGED objs => SideOfAll' = [SideOfAll EXCEPT ![0] = LayoutSide[config'.layout]]
  /\ \A o \in Objects : \A s :
       TypeOK /\ UNCHANGED config /\ objs' = [objs EXCEPT ![o] = s]
         => SideOfAll' = [SideOfAll EXCEPT ![o] = Side(o, s)]
<1>1. UNCHANGED <<config, objs>> => UNCHANGED SideOfAll
  BY DEF SideOfAll
<1>2. UNCHANGED objs => SideOfAll' = [SideOfAll EXCEPT ![0] = LayoutSide[config'.layout]]
  BY DEF SideOfAll
<1>3. ASSUME NEW o \in Objects, NEW s,
             TypeOK, UNCHANGED config, objs' = [objs EXCEPT ![o] = s]
      PROVE  SideOfAll' = [SideOfAll EXCEPT ![o] = Side(o, s)]
  BY <1>3, ObjectFacts DEF SideOfAll, TypeOK
<1> QED
  BY <1>1, <1>2, <1>3

LEMMA InitImplements == Init => Switch!Init
<1> SUFFICES ASSUME Init PROVE Switch!Init
  OBVIOUS
<1>1. SideOfAll \in [All -> Switch!Sides]
  BY InitTyped, SidesTyped DEF TypeInv
<1>2. Choice = "none"
  BY DirectionTyped DEF Init, NoConfig, Switches, Choice
<1>3. Pass = "idle" /\ ~Begun /\ ~queued /\ Touched = {} /\ ~GaveUp
  BY DEF Init, Pass, Begun, Touched, GaveUp
<1> QED
  BY <1>1, <1>2, <1>3 DEF Switch!Init, All, Choice, SideOfAll, Begun, Touched, GaveUp

(* Each action of DiscoverySwitch in these names.                          *)

Same == UNCHANGED <<Choice, SideOfAll, Pass, Begun, queued, Touched, GaveUp>>

LEMMA SwitchStutters == Same => UNCHANGED Switch!vars
  BY DEF Same, Switch!vars, Choice, SideOfAll, Begun, Touched, GaveUp

LEMMA SwitchChooses ==
  ASSUME UNCHANGED SideOfAll
           \/ \E side \in Switch!Sides : SideOfAll' = [SideOfAll EXCEPT ![0] = side],
         queued' = TRUE, UNCHANGED <<Pass, Begun, Touched, GaveUp>>
  PROVE  Switch!Next
<1>1. Choice' \in {"on", "off", "none"}
  BY DirectionTyped DEF Choice
<1> QED
  BY <1>1 DEF Switch!Next, Switch!Choose, Choice, SideOfAll, Begun, Touched, GaveUp

LEMMA SwitchTouched ==
  ASSUME NEW o \in Objects, NEW side \in Switch!Sides,
         SideOfAll' = [SideOfAll EXCEPT ![o] = side], Touched' = Touched \cup {o},
         UNCHANGED <<Choice, Pass, Begun, queued, GaveUp>>
  PROVE  Switch!Next
<1>1. o \in (Objects \cup {0}) \ {0}
  BY ObjectFacts
<1> QED
  BY <1>1 DEF Switch!Next, Switch!Touch, Choice, SideOfAll, Begun, Touched, GaveUp

LEMMA SwitchBegins ==
  ASSUME Pass = "idle", queued = TRUE, Pass' = Choice, ~queued', ~Begun', ~GaveUp',
         UNCHANGED <<Choice, SideOfAll, Touched>>
  PROVE  Switch!Next
  BY DEF Switch!Next, Switch!Begin, Choice, SideOfAll, Begun, Touched, GaveUp

LEMMA SwitchIgnores ==
  ASSUME Pass = "idle", Choice = "none", ~queued',
         UNCHANGED <<Choice, SideOfAll, Pass, Begun, Touched, GaveUp>>
  PROVE  Switch!Next
  BY DEF Switch!Next, Switch!Ignore, Choice, SideOfAll, Begun, Touched, GaveUp

LEMMA SwitchLooks ==
  ASSUME Pass \in {"on", "off"}, NEW o \in All, Touched' = Touched \ {o}, Begun',
         UNCHANGED <<Choice, SideOfAll, Pass, queued, GaveUp>>
  PROVE  Switch!Next
  BY DEF Switch!Next, Switch!Look, All, Choice, SideOfAll, Begun, Touched, GaveUp

LEMMA SwitchMoves ==
  ASSUME Pass \in {"on", "off"}, NEW o \in All, NEW side \in Switch!Sides,
         side \in {Pass, "both"}, SideOfAll' = [SideOfAll EXCEPT ![o] = side],
         o \in Touched => Pass = "off",
         Touched' \in {Touched, Touched \ {o}}, Begun', queued' \in {queued, TRUE},
         UNCHANGED <<Choice, Pass, GaveUp>>
  PROVE  Switch!Next
  BY DEF Switch!Next, Switch!Move, Switch!Reached, All, Choice, SideOfAll, Begun, Touched, GaveUp

LEMMA SwitchFinishes ==
  ASSUME Pass # "idle",
         queued = TRUE \/ Pass = "none"
           \/ \A o \in All \ Touched : SideOfAll[o] \in {Pass, "both"},
         Pass' = "idle", ~Begun', UNCHANGED <<Choice, SideOfAll, queued, Touched, GaveUp>>
  PROVE  Switch!Next
<1>1. Switch!Complete(Pass) \/ queued
  BY DEF Switch!Complete, Switch!Reached, All, SideOfAll, Touched
<1> QED
  BY <1>1 DEF Switch!Next, Switch!Finish, Choice, SideOfAll, Begun, Touched, GaveUp

LEMMA SwitchGivesUp ==
  ASSUME Pass # "idle", ~Begun, Pass' = "idle", ~Begun', GaveUp',
         UNCHANGED <<Choice, SideOfAll, queued, Touched>>
  PROVE  Switch!Next
  BY DEF Switch!Next, Switch!GiveUp, Choice, SideOfAll, Begun, Touched, GaveUp

LEMMA SwitchAborts ==
  ASSUME Rest, queued' = TRUE \/ Choice = "none", UNCHANGED <<config, objs, stale, skipped, refused>>
  PROVE  Switch!Next
<1>1. Pass' = "idle" /\ ~Begun' /\ Touched' \subseteq Touched
  BY DEF Rest, Pass, Begun, Touched
<1>2. UNCHANGED <<Choice, SideOfAll, GaveUp>>
  BY SideSteps DEF Choice, GaveUp
<1>3. queued' \/ Choice = "none"
  OBVIOUS
<1> QED
  BY <1>1, <1>2, <1>3 DEF Switch!Next, Switch!Abort, Choice, SideOfAll, Begun, Touched, GaveUp

(* Each step of the controller and of its environment is one of them.      *)

\* What a pass is, in each call.
LEMMA PassFacts ==
  ASSUME TypeInv, Decided
  PROVE  /\ pc \in {"idle"} \/ refused => Pass = "idle" /\ ~Begun
         /\ pc # "idle" /\ ~refused => Pass = Direction(copy.switch)
         /\ pc \in Deciding => Pass # "idle" /\ ~Begun
         /\ pc \in {"layout", "read", "write"} => Pass \in {"on", "off"} /\ copy.switch \in Switches
         /\ pc \in {"read", "write"} => Begun
  BY DirectionTyped DEF Pass, Begun, Decided, Deciding, Switches

LEMMA ReconcileImplements ==
  ASSUME PassInv, Reconcile
  PROVE  Switch!Next \/ UNCHANGED Switch!vars
<1> USE DEF PassInv, TypeInv
<1>1. CASE GetConfig
  <2>1. /\ pc = "idle" /\ queued = TRUE /\ queued' = FALSE
        /\ UNCHANGED <<config, objs, stale>>
    BY <1>1 DEF GetConfig, TypeOK, worldVars, historyVars
  <2>2. UNCHANGED <<Choice, SideOfAll>> /\ Pass = "idle"
    BY <2>1, SideSteps DEF Choice, Pass
  <2>3. CASE Exists
    <3>1. pc' = "acm" /\ copy' = config /\ skipped' = FALSE /\ refused' = FALSE
      BY <1>1, <2>1, <2>3 DEF GetConfig, workVars
    <3>2. Pass' = Choice /\ ~Begun' /\ ~GaveUp' /\ UNCHANGED Touched
      BY <2>1, <3>1, DirectionTyped DEF Pass, Choice, Begun, GaveUp, Touched
    <3> QED
      BY <2>1, <2>2, <3>2, SwitchBegins
  <2>4. CASE ~Exists
    <3>1. UNCHANGED <<pc, copy, at, fresh, skipped, refused>>
      BY <1>1, <2>1, <2>4 DEF GetConfig, workVars, historyVars
    <3>2. Choice = "none"
      BY <2>4, DirectionTyped DEF Exists, NoConfig, Switches, Choice
    <3>3. UNCHANGED <<Pass, Begun, Touched, GaveUp>>
      BY <2>1, <3>1 DEF Pass, Begun, Touched, GaveUp
    <3> QED
      BY <2>1, <2>2, <3>2, <3>3, SwitchIgnores
  <2> QED
    BY <2>3, <2>4
<1>2. CASE CheckACM
  <2>1. pc = "acm" /\ UNCHANGED <<config, objs, queued, stale, refused>>
    BY <1>2 DEF CheckACM, worldVars
  <2>2. UNCHANGED <<Choice, SideOfAll>> /\ Pass # "idle" /\ ~Begun
    BY <2>1, SideSteps, PassFacts DEF Choice, Deciding
  <2>3. CASE ~acm
    <3>1. Rest /\ skipped' = TRUE
      BY <1>2, <2>3 DEF CheckACM
    <3>2. Pass' = "idle" /\ ~Begun' /\ GaveUp' /\ UNCHANGED Touched
      BY <2>1, <3>1 DEF Rest, Pass, Begun, GaveUp, Touched
    <3> QED
      BY <2>1, <2>2, <3>2, SwitchGivesUp
  <2>4. CASE acm
    <3>1. copy.switch \in {"true", "false", "unset"}
      BY <2>1 DEF CopyTyped, ConfigState
    <3>2. /\ pc' = CASE copy.switch = "true"  -> "layout"
                     [] copy.switch = "false" -> "users"
                     [] copy.switch = "unset" -> "info"
          /\ UNCHANGED <<copy, at, fresh, skipped>>
      BY <1>2, <2>4 DEF CheckACM
    <3>3. pc' \in {"layout", "users", "info"} /\ (pc' = "info" => copy.switch = "unset")
      BY <3>1, <3>2
    <3>4. UNCHANGED <<Pass, Begun, Touched, GaveUp>>
      BY <2>1, <2>2, <3>2, <3>3, DirectionTyped DEF Pass, Begun, Touched, GaveUp, Switches
    <3> QED
      BY <2>1, <2>2, <3>4, SwitchStutters DEF Same
  <2> QED
    BY <2>3, <2>4
<1>3. CASE CheckUsers
  <2>1. /\ pc = "users" /\ refused' \in BOOLEAN /\ refused = FALSE
        /\ pc' = IF refused' THEN "info" ELSE "layout"
        /\ UNCHANGED <<config, objs, queued, copy, at, fresh, stale, skipped>>
    BY <1>3 DEF CheckUsers, Decided, TypeOK, worldVars
  <2>2. UNCHANGED <<Choice, SideOfAll, Touched>> /\ Pass # "idle" /\ ~Begun
    BY <2>1, SideSteps, PassFacts DEF Choice, Deciding, Touched
  <2>3. CASE refused'
    <3>1. Pass' = "idle" /\ ~Begun' /\ GaveUp'
      BY <2>3 DEF Pass, Begun, GaveUp
    <3> QED
      BY <2>1, <2>2, <3>1, SwitchGivesUp
  <2>4. CASE ~refused'
    <3>1. UNCHANGED <<Pass, Begun, GaveUp>>
      BY <2>1, <2>2, <2>4 DEF Pass, Begun, GaveUp
    <3> QED
      BY <2>1, <2>2, <3>1, SwitchStutters DEF Same
  <2> QED
    BY <2>3, <2>4
<1>4. CASE PutLayout
  <2>1. pc = "layout" /\ UNCHANGED <<objs, stale, skipped, refused>>
    BY <1>4 DEF PutLayout, historyVars
  <2>2. /\ Pass \in {"on", "off"} /\ copy.switch \in Switches /\ ~refused
        /\ Pass = Direction(copy.switch)
    BY <2>1, PassFacts DEF Decided
  <2>3. 0 \in All /\ 0 \notin Touched /\ Touched = stale /\ UNCHANGED GaveUp
    BY <2>1, ObjectFacts DEF All, Touched, TypeOK, GaveUp
  <2>4. CASE copy.layout = TargetLayout
    <3>1. pc' = "read" /\ UNCHANGED <<config, queued, copy>>
      BY <1>4, <2>4 DEF PutLayout
    <3>2. Begun' /\ UNCHANGED <<Pass, Touched>>
      BY <2>1, <2>2, <3>1 DEF Pass, Begun, Touched
    <3>3. UNCHANGED <<Choice, SideOfAll>>
      BY <2>1, <3>1, SideSteps DEF Choice
    <3> QED
      BY <2>2, <2>3, <3>1, <3>2, <3>3, SwitchLooks
  <2>5. CASE copy.layout # TargetLayout /\ fresh
    <3>1. /\ copy = config /\ copy \in ConfigState /\ pc' = "read" /\ queued' = TRUE
          /\ config' = [config EXCEPT !.layout = TargetLayout]
          /\ copy' = [copy EXCEPT !.layout = TargetLayout]
      BY <1>4, <2>1, <2>5 DEF PutLayout, CopyTyped
    <3>2. /\ config'.switch = config.switch /\ copy'.switch = copy.switch
          /\ config'.layout = TargetLayout
      BY <3>1 DEF ConfigState
    <3>3. Begun' /\ UNCHANGED <<Pass, Choice, Touched>>
      BY <2>1, <2>2, <3>1, <3>2 DEF Pass, Choice, Begun, Touched
    <3>4. SideOfAll' = [SideOfAll EXCEPT ![0] = Pass]
      BY <2>1, <2>2, <3>2, SideSteps, LayoutReached
    <3>5. Pass \in Switch!Sides
      BY <2>2 DEF Switch!Sides
    <3> QED
      BY <2>2, <2>3, <3>1, <3>3, <3>4, <3>5, SwitchMoves
  <2>6. CASE copy.layout # TargetLayout /\ ~fresh
    BY <1>4, <2>1, <2>6, SwitchAborts DEF PutLayout, Retry
  <2> QED
    BY <2>4, <2>5, <2>6
<1>5. CASE ReadObject
  <2>1. /\ pc = "read" /\ stale' = stale \ {at}
        /\ UNCHANGED <<config, objs, queued, copy, skipped, refused>>
    BY <1>5 DEF ReadObject, NextObject, worldVars
  <2>2. pc' \in {"read", "info"} \/ (pc' = "write" /\ fresh' = TRUE)
    BY <1>5 DEF ReadObject, NextObject
  <2>3. Pass \in {"on", "off"} /\ ~refused /\ at \in All
    BY <2>1, PassFacts DEF Decided, TypeOK, All
  <2>4. UNCHANGED <<Choice, SideOfAll, Pass, GaveUp>> /\ Begun'
    BY <2>1, <2>2, <2>3, SideSteps DEF Choice, Pass, GaveUp, Begun
  <2>5. Touched' = Touched \ {at}
    BY <2>1, <2>2 DEF Touched
  <2> QED
    BY <2>1, <2>3, <2>4, <2>5, SwitchLooks
<1>6. CASE WriteObject
  <2>1. pc = "write" /\ UNCHANGED <<config, stale, skipped, refused>>
    BY <1>6 DEF WriteObject, historyVars
  <2>2. /\ Pass \in {"on", "off"} /\ copy.switch \in Switches /\ ~refused /\ at \in All
        /\ Pass = Direction(copy.switch)
    BY <2>1, PassFacts DEF Decided, TypeOK, All
  <2>3. CASE Accepted
    <3>1. /\ objs' = [objs EXCEPT ![at] = Target(at, found)] /\ pc' \in {"read", "info"}
          /\ UNCHANGED <<copy, queued>>
      BY <1>6, <2>3 DEF WriteObject, NextObject
    <3>2. SideOfAll' = [SideOfAll EXCEPT ![at] = Side(at, Target(at, found))]
      BY <2>1, <3>1, SideSteps DEF TypeOK
    <3>3. Side(at, Target(at, found)) \in {Pass, "both"}
      BY <2>2, TurnedTwice, TargetReached
    <3>4. at \notin stale /\ Touched' = Touched \ {at}
      BY <2>1, <3>1 DEF Decided, Touched
    <3>5. at \in Touched => Pass = "off"
      <4>1. at \in Touched => copy.switch = "false"
        BY <2>3, <3>4 DEF Touched, Accepted
      <4> QED
        BY <2>2, <4>1, DirectionTyped
    <3>6. UNCHANGED <<Choice, Pass, GaveUp>> /\ Begun'
      BY <2>1, <2>2, <3>1 DEF Choice, Pass, GaveUp, Begun
    <3>7. Side(at, Target(at, found)) \in Switch!Sides
      BY SideTyped
    <3> QED
      BY <2>2, <3>1, <3>2, <3>3, <3>4, <3>5, <3>6, <3>7, SwitchMoves
  <2>4. CASE ~Accepted
    BY <1>6, <2>1, <2>4, SwitchAborts DEF WriteObject, Retry
  <2> QED
    BY <2>3, <2>4
<1>7. CASE PutInfo
  <2>1. pc = "info" /\ Rest /\ UNCHANGED <<config, objs, queued, stale, skipped, refused>>
    BY <1>7 DEF PutInfo, worldVars, historyVars
  <2>2. UNCHANGED <<Choice, SideOfAll, GaveUp, Touched>> /\ Pass' = "idle" /\ ~Begun'
    BY <2>1, SideSteps DEF Rest, Choice, GaveUp, Touched, Pass, Begun
  <2>3. CASE refused
    <3>1. Pass = "idle" /\ UNCHANGED Begun
      BY <2>1, <2>3 DEF Rest, Pass, Begun
    <3> QED
      BY <2>1, <2>2, <3>1, SwitchStutters DEF Same
  <2>4. CASE ~refused
    <3>1. Pass = Direction(copy.switch) /\ Pass \in {"on", "off", "none"} /\ Touched = stale
      BY <2>1, <2>4, DirectionTyped DEF Pass, Touched
    <3>2. ASSUME ~queued, copy.switch \in Switches, NEW o \in All \ Touched
          PROVE  SideOfAll[o] \in {Pass, "both"}
      <4>1. copy = config /\ copy.layout = TargetLayout
        BY <2>1, <2>4, <3>2 DEF Moved, Moving
      <4>2. CASE o = 0
        BY <3>1, <3>2, <4>1, <4>2, LayoutReached DEF SideOfAll, All
      <4>3. CASE o # 0
        <5>1. o \in Objects \ stale
          BY <3>1, <3>2, <4>3 DEF All
        <5>2. Target(o, objs[o]) = objs[o]
          BY <2>1, <2>4, <3>2, <5>1 DEF Moved, Moving
        <5>3. SideOfAll[o] = Side(o, objs[o])
          BY <4>3, <5>1 DEF SideOfAll
        <5> QED
          BY <3>1, <3>2, <5>2, <5>3, TargetReached
      <4> QED
        BY <4>2, <4>3
    <3>3. queued = TRUE \/ Pass = "none" \/ \A o \in All \ Touched : SideOfAll[o] \in {Pass, "both"}
      BY <3>1, <3>2, DirectionTyped DEF TypeOK
    <3> QED
      BY <2>1, <2>2, <3>1, <3>3, SwitchFinishes
  <2> QED
    BY <2>3, <2>4
<1> QED
  BY <1>1, <1>2, <1>3, <1>4, <1>5, <1>6, <1>7 DEF Reconcile

LEMMA EnvironmentImplements ==
  ASSUME PassInv, Environment
  PROVE  Switch!Next \/ UNCHANGED Switch!vars
<1> USE DEF PassInv, TypeInv
<1>1. CASE EditConfig
  <2>1. /\ config' \in ConfigState \cup {NoConfig} /\ queued' = TRUE
        /\ UNCHANGED <<objs, pc, copy, at, stale, skipped, refused>>
        /\ pc = "write" => UNCHANGED fresh
    <3>1. pc = "write" => fresh' = fresh
      BY <1>1 DEF EditConfig, TypeOK
    <3> QED
      BY <1>1, <3>1 DEF EditConfig, historyVars
  <2>2. config'.layout \in Layouts
    BY <2>1 DEF ConfigState, NoConfig, Layouts
  <2>3. \E side \in Switch!Sides : SideOfAll' = [SideOfAll EXCEPT ![0] = side]
    BY <2>1, <2>2, SideSteps, SideTyped
  <2>4. UNCHANGED <<Pass, Begun, Touched, GaveUp>>
    BY <2>1 DEF Pass, Begun, Touched, GaveUp
  <2> QED
    BY <2>1, <2>3, <2>4, SwitchChooses
<1>2. CASE FlipACM
  <2>1. UNCHANGED <<config, objs, queued, pc, copy, at, fresh, stale, skipped, refused>>
    BY <1>2 DEF FlipACM, workVars, historyVars
  <2>2. Same
    BY <2>1, SideSteps DEF Same, Choice, Pass, Begun, Touched, GaveUp
  <2> QED
    BY <2>2, SwitchStutters
<1>3. ASSUME NEW o \in Objects, EditObject(o)
      PROVE  Switch!Next
  <2>1. PICK s \in StatesOf(o) : objs' = [objs EXCEPT ![o] = s]
    BY <1>3 DEF EditObject
  <2>2. UNCHANGED <<config, queued, pc, copy, at, skipped, refused>>
    BY <1>3 DEF EditObject
  <2>3. SideOfAll' = [SideOfAll EXCEPT ![o] = Side(o, s)] /\ Side(o, s) \in Switch!Sides
    BY <2>1, <2>2, SideSteps, SideTyped
  <2>4. Touched' = Touched \cup {o}
    <3>1. CASE pc = "write" /\ o = at
      <4>1. fresh' = FALSE /\ stale' = stale
        BY <1>3, <3>1 DEF EditObject
      <4> QED
        BY <2>2, <3>1, <4>1 DEF Touched
    <3>2. CASE ~(pc = "write" /\ o = at)
      <4>1. fresh' = fresh /\ stale' = stale \cup {o}
        BY <1>3, <3>2 DEF EditObject
      <4> QED
        BY <2>2, <4>1 DEF Touched
    <3> QED
      BY <3>1, <3>2
  <2>5. UNCHANGED <<Choice, Pass, Begun, GaveUp>>
    BY <2>2 DEF Choice, Pass, Begun, GaveUp
  <2> QED
    BY <2>2, <2>3, <2>4, <2>5, SwitchTouched
<1>4. ASSUME NEW m \in MCs, EditMC(m)
      PROVE  UNCHANGED Switch!vars
  <2>1. UNCHANGED <<config, objs, queued, pc, copy, at, fresh, stale, skipped, refused>>
    BY <1>4 DEF EditMC, workVars
  <2>2. Same
    BY <2>1, SideSteps DEF Same, Choice, Pass, Begun, Touched, GaveUp
  <2> QED
    BY <2>2, SwitchStutters
<1>5. CASE CallFails
  BY <1>5, SwitchAborts DEF CallFails, Retry, worldVars, historyVars
<1>6. CASE Restart
  <2>1. Rest /\ queued' = Exists /\ UNCHANGED <<config, objs, stale, skipped, refused>>
    BY <1>6 DEF Restart, worldVars, historyVars
  <2>2. queued' = TRUE \/ Choice = "none"
    <3>1. CASE Exists
      BY <2>1, <3>1
    <3>2. CASE ~Exists
      BY <3>2, DirectionTyped DEF Exists, NoConfig, Switches, Choice
    <3> QED
      BY <3>1, <3>2
  <2> QED
    BY <2>1, <2>2, SwitchAborts
<1> QED
  BY <1>1, <1>2, <1>3, <1>4, <1>5, <1>6 DEF Environment

LEMMA StepImplements ==
  ASSUME PassInv, [Next]_vars
  PROVE  [Switch!Next]_(Switch!vars)
<1>1. CASE Reconcile
  BY <1>1, ReconcileImplements
<1>2. CASE Environment
  BY <1>2, EnvironmentImplements
<1>3. CASE UNCHANGED vars
  <2>1. UNCHANGED <<config, objs, queued, pc, copy, at, fresh, stale, skipped, refused>>
    BY <1>3 DEF vars, worldVars, workVars, historyVars
  <2>2. Same
    BY <2>1, SideSteps DEF Same, Choice, Pass, Begun, Touched, GaveUp
  <2> QED
    BY <2>2, SwitchStutters
<1> QED
  BY <1>1, <1>2, <1>3 DEF Next

\* The controller implements DiscoverySwitch: each of its calls, and whatever
\* happens between them, is a step of a pass that moves every object to the
\* side chosen when it began, or changes nothing of it (Reconcile, lines
\* 84-196), for any number of addons and MCs.
THEOREM Implements == Spec => ImplementsSwitch
<1>1. Init => Switch!Init
  BY InitImplements
<1>2. PassInv /\ [Next]_vars => [Switch!Next]_(Switch!vars)
  BY StepImplements
<1> QED
  BY <1>1, <1>2, PassHolds, PTL DEF Spec, ImplementsSwitch, Switch!Spec
=============================================================================
