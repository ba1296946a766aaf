--------------------------- MODULE AgentReportsProofs ---------------------------
(***************************************************************************)
(* Theorems about the controllers with which an agent tells the hub about  *)
(* its cluster: those that import or announce HCs (HostedClusterImport)    *)
(* and the one that reports the state of the addon (AddonStatus, in the    *)
(* second half).                                                           *)
(*                                                                         *)
(* For every set of HCs and URLs, every bound and every choice of changes, *)
(* HostedClusterImport is type correct, and what its controllers have      *)
(* nothing left to do for is announced, or imported, as it is.             *)
(***************************************************************************)
EXTENDS HostedClusterImport, AddonStatus, TLAPS

USE ConstantsAssumption DEF ConstantsAssumption

-----------------------------------------------------------------------------
(* Type correctness.                                                       *)

WorldTyped ==
  /\ local \in BOOLEAN /\ acm \in BOOLEAN
  /\ hcs \in [HCs -> HCState]
  /\ cleanup \subseteq HCs

HubTyped ==
  /\ mc \in [HCs -> {"absent", "present", "deleting"}]
  /\ ns \subseteq HCs /\ kac \subseteq ns
  /\ dcs \subseteq DCState

WorkTyped ==
  /\ queue \subseteq HCs
  /\ job \in HCs \cup {NoJob}
  /\ pc \in {"idle"} \cup (IF local THEN LocalSteps ELSE RemoteSteps)
  /\ pc = "idle" <=> job = NoJob
  /\ job # NoJob => seen \in HCState
  /\ dc \in DCState \cup {NoDC}

HistoryTyped ==
  /\ gaveUp \in [HCs -> SUBSET {"mc", "kac"}]
  /\ blind \subseteq HCs /\ missed \subseteq HCs
  /\ changes \in Nat

LEMMA Parts == TypeOK <=> WorldTyped /\ HubTyped /\ WorkTyped /\ HistoryTyped
  BY DEF TypeOK, WorldTyped, HubTyped, WorkTyped, HistoryTyped

LEMMA Assembled ==
  ASSUME WorldTyped', HubTyped', WorkTyped', HistoryTyped'
  PROVE  TypeOK'
  BY DEF TypeOK, WorldTyped, HubTyped, WorkTyped, HistoryTyped

\* Each kind of step belongs to one of the two controllers.
LEMMA StepsOf ==
  ASSUME TypeOK
  PROVE  /\ pc \in LocalSteps => local
         /\ pc \in RemoteSteps => ~local
         /\ pc # "idle" => job \in HCs /\ seen \in HCState
  BY DEF TypeOK, LocalSteps, RemoteSteps

\* The three things that can become of the worker.
LEMMA DoneWork ==
  ASSUME Done, queue' \subseteq HCs
  PROVE  WorkTyped'
  BY DEF Done, WorkTyped

LEMMA GotoWork ==
  ASSUME TypeOK, NEW step, Goto(step), local' = local, pc # "idle",
         step \in IF local THEN LocalSteps ELSE RemoteSteps, queue' \subseteq HCs
  PROVE  WorkTyped'
  BY StepsOf DEF TypeOK, Goto, WorkTyped, LocalSteps, RemoteSteps

LEMMA KeptWork ==
  ASSUME TypeOK, UNCHANGED workVars, local' = local, queue' \subseteq HCs
  PROVE  WorkTyped'
  BY DEF TypeOK, workVars, WorkTyped

LEMMA TakenWork ==
  ASSUME TypeOK, NEW h \in HCs, job = NoJob, job' = h, seen' = hcs[h], UNCHANGED dc, local' = local,
         pc' \in IF local THEN LocalSteps ELSE RemoteSteps, queue' \subseteq HCs
  PROVE  WorkTyped'
  BY DEF TypeOK, WorkTyped, LocalSteps, RemoteSteps

LEMMA GaveUpTyped ==
  ASSUME TypeOK, NEW h \in HCs, NEW what \in SUBSET {"mc", "kac"}
  PROVE  /\ [gaveUp EXCEPT ![h] = what] \in [HCs -> SUBSET {"mc", "kac"}]
         /\ [gaveUp EXCEPT ![h] = @ \cup what] \in [HCs -> SUBSET {"mc", "kac"}]
<1>1. gaveUp[h] \cup what \in SUBSET {"mc", "kac"}
  BY DEF TypeOK
<1> QED
  BY <1>1 DEF TypeOK

LEMMA UndoneTyped ==
  ASSUME TypeOK, pc # "idle", NEW what \in SUBSET {"mc", "kac"}, Undone(what)
  PROVE  gaveUp' \in [HCs -> SUBSET {"mc", "kac"}]
  BY StepsOf, GaveUpTyped DEF Undone

\* AutoImportController's calls.
LEMMA AutoImportTyped ==
  ASSUME TypeOK, NEW h \in HCs, AutoImport(h)
  PROVE  TypeOK'
<1>1. WorldTyped' /\ local' = local
  BY DEF TypeOK, WorldTyped, AutoImport, GetLocal, GetMC, CreateMC, CheckACM, FindNamespace, TimeOut, CreateKAC
<1>2. HubTyped'
  <2>1. CASE CreateMC
    BY <2>1, StepsOf DEF TypeOK, HubTyped, CreateMC
  <2>2. CASE CreateKAC
    <3>1. kac' \subseteq ns /\ UNCHANGED <<mc, ns, dcs>>
      BY <2>2 DEF TypeOK, CreateKAC
    <3> QED
      BY <3>1 DEF TypeOK, HubTyped
  <2>3. CASE UNCHANGED hubVars
    BY <2>3 DEF TypeOK, HubTyped, hubVars
  <2> QED
    BY <2>1, <2>2, <2>3 DEF AutoImport, GetLocal, GetMC, CheckACM, FindNamespace, TimeOut, hubVars
<1>3. WorkTyped'
  <2>1. CASE GetLocal(h)
    <3>1. local /\ job = NoJob /\ queue' \subseteq HCs
      BY <2>1 DEF TypeOK, GetLocal, Take
    <3>2. \/ UNCHANGED workVars
          \/ job' = h /\ pc' = "getMC" /\ seen' = hcs[h] /\ UNCHANGED dc
      BY <2>1 DEF GetLocal
    <3> QED
      BY <1>1, <3>1, <3>2, KeptWork, TakenWork DEF LocalSteps
  <2>2. CASE GetMC \/ CreateMC \/ CheckACM \/ FindNamespace \/ TimeOut \/ CreateKAC
    <3>1. pc \in LocalSteps /\ pc # "idle" /\ queue' \subseteq HCs
      BY <2>2 DEF TypeOK, GetMC, CreateMC, CheckACM, FindNamespace, TimeOut, CreateKAC, LocalSteps
    <3>2. Done \/ \E step \in LocalSteps : Goto(step)
      BY <2>2 DEF GetMC, CreateMC, CheckACM, FindNamespace, TimeOut, CreateKAC, LocalSteps
    <3> QED
      BY <1>1, <3>1, <3>2, StepsOf, DoneWork, GotoWork
  <2> QED
    BY <2>1, <2>2 DEF AutoImport
<1>4. HistoryTyped'
  <2>1. UNCHANGED <<blind, missed, changes>>
    BY DEF AutoImport, GetLocal, GetMC, CreateMC, CheckACM, FindNamespace, TimeOut, CreateKAC, historyVars
  <2>2. gaveUp' \in [HCs -> SUBSET {"mc", "kac"}]
    <3>1. CASE GetLocal(h)
      BY <3>1, GaveUpTyped DEF TypeOK, GetLocal
    <3>2. CASE GetMC \/ CreateMC \/ CheckACM \/ FindNamespace \/ TimeOut \/ CreateKAC
      <4>1. pc # "idle"
        BY <3>2 DEF GetMC, CreateMC, CheckACM, FindNamespace, TimeOut, CreateKAC
      <4>2. UNCHANGED gaveUp \/ Undone({"mc", "kac"}) \/ Undone({"kac"})
        BY <3>2 DEF GetMC, CreateMC, CheckACM, FindNamespace, TimeOut, CreateKAC, historyVars
      <4> QED
        BY <4>1, <4>2, UndoneTyped DEF TypeOK
    <3> QED
      BY <3>1, <3>2 DEF AutoImport
  <2> QED
    BY <2>1, <2>2 DEF TypeOK, HistoryTyped
<1> QED
  BY <1>1, <1>2, <1>3, <1>4, Assembled

\* DiscoveryAgent's calls.
LEMMA ReportedTyped ==
  ASSUME NEW version \in 0 .. MaxVersion
  PROVE  Reported(version) \in 0 .. MaxVersion
  BY DEF Reported

LEMMA NewDCTyped ==
  ASSUME TypeOK, pc # "idle"
  PROVE  NewDC \in DCState /\ NewDC.hc = job
<1>1. job \in HCs /\ seen.id \in Nat /\ seen.url \in Urls /\ seen.version \in 0 .. MaxVersion
  BY StepsOf DEF HCState
<1>2. Reported(seen.version) \in 0 .. MaxVersion
  BY <1>1, ReportedTyped
<1> QED
  BY <1>1, <1>2 DEF NewDC, DCState

\* What UpdateDC writes.
Updating(d) == [d EXCEPT !.url = NewDC.url, !.version = NewDC.version]

LEMMA UpdatingTyped ==
  ASSUME TypeOK, pc # "idle", NEW d \in DCState
  PROVE  /\ Updating(d) \in DCState /\ Updating(d).hc = d.hc
         /\ Updating(d).url = seen.url /\ Updating(d).version = Reported(seen.version)
<1>1. NewDC.url \in Urls /\ NewDC.version \in 0 .. MaxVersion
  BY NewDCTyped DEF DCState
<1>2. NewDC.url = seen.url /\ NewDC.version = Reported(seen.version)
  BY DEF NewDC
<1> QED
  BY <1>1, <1>2 DEF Updating, DCState

\* Of the agent's calls these change the DCs.
LEMMA DCsTyped ==
  ASSUME TypeOK, CreateDC \/ UpdateDC \/ DeleteDC
  PROVE  dcs' \subseteq DCState /\ UNCHANGED <<mc, ns, kac>>
<1>1. CASE CreateDC
  <2>1. dcs' \subseteq dcs \cup {NewDC} /\ pc # "idle"
    BY <1>1 DEF CreateDC
  <2> QED
    BY <1>1, <2>1, NewDCTyped DEF CreateDC, TypeOK
<1>2. CASE UpdateDC
  <2>1. CASE dc \in dcs
    <3>1. pc # "idle" /\ dc \in DCState /\ dcs' = (dcs \ {dc}) \cup {Updating(dc)}
      BY <1>2, <2>1 DEF UpdateDC, TypeOK, Updating
    <3> QED
      BY <1>2, <3>1, UpdatingTyped DEF UpdateDC, TypeOK
  <2>2. CASE dc \notin dcs
    BY <1>2, <2>2 DEF UpdateDC, TypeOK
  <2> QED
    BY <2>1, <2>2
<1>3. CASE DeleteDC
  BY <1>3 DEF DeleteDC, TypeOK
<1> QED
  BY <1>1, <1>2, <1>3

LEMMA DiscoverTyped ==
  ASSUME TypeOK, NEW h \in HCs, Discover(h)
  PROVE  TypeOK'
<1>1. WorldTyped' /\ local' = local
  BY DEF TypeOK, WorldTyped, Discover, GetRemote, List, CreateDC, UpdateDC, DeleteDC
<1>2. HubTyped'
  <2>1. CASE CreateDC \/ UpdateDC \/ DeleteDC
    BY <2>1, DCsTyped DEF TypeOK, HubTyped
  <2>2. CASE GetRemote(h) \/ List
    <3>1. UNCHANGED hubVars
      BY <2>2 DEF GetRemote, List
    <3> QED
      BY <3>1 DEF TypeOK, HubTyped, hubVars
  <2> QED
    BY <2>1, <2>2 DEF Discover
<1>3. WorkTyped'
  <2>1. CASE GetRemote(h)
    <3>1. ~local /\ job = NoJob /\ queue' \subseteq HCs
      BY <2>1 DEF TypeOK, GetRemote, Take
    <3>2. \/ UNCHANGED workVars
          \/ job' = h /\ pc' = "list" /\ seen' = hcs[h] /\ UNCHANGED dc
      BY <2>1 DEF GetRemote
    <3> QED
      BY <1>1, <3>1, <3>2, KeptWork, TakenWork DEF RemoteSteps
  <2>2. CASE List
    <3>1. pc = "list" /\ pc \in RemoteSteps /\ job \in HCs /\ queue' \subseteq HCs
      BY <2>2, StepsOf DEF TypeOK, List, Retry, RemoteSteps
    <3>2. \/ Done \/ Goto("createDC")
          \/ \E d \in dcs : /\ StepFor(d) # "idle" /\ pc' = StepFor(d)
                            /\ dc' = d /\ UNCHANGED <<job, seen>>
      BY <2>2 DEF List, Retry
    <3>3. ASSUME NEW d \in dcs, StepFor(d) # "idle", pc' = StepFor(d), dc' = d, UNCHANGED <<job, seen>>
          PROVE  WorkTyped'
      <4>1. pc' \in RemoteSteps /\ pc' # "idle"
        BY <3>3 DEF StepFor, RemoteSteps
      <4>2. d \in DCState /\ seen \in HCState /\ job # NoJob
        BY <3>1, <3>3, StepsOf DEF TypeOK
      <4> QED
        BY <1>1, <3>1, <3>3, <4>1, <4>2, StepsOf DEF WorkTyped
    <3> QED
      BY <1>1, <3>1, <3>2, <3>3, DoneWork, GotoWork, StepsOf DEF RemoteSteps
  <2>3. CASE CreateDC \/ UpdateDC \/ DeleteDC
    <3>1. Done /\ job \in HCs
      BY <2>3, StepsOf DEF CreateDC, UpdateDC, DeleteDC, Retry
    <3>2. queue' \subseteq HCs
      BY <2>3, <3>1 DEF TypeOK, CreateDC, UpdateDC, DeleteDC, Retry
    <3> QED
      BY <3>1, <3>2, DoneWork
  <2> QED
    BY <2>1, <2>2, <2>3 DEF Discover
<1>4. HistoryTyped'
  <2>1. CASE GetRemote(h)
    BY <2>1 DEF TypeOK, HistoryTyped, GetRemote
  <2>2. CASE List \/ CreateDC \/ UpdateDC \/ DeleteDC
    <3>1. UNCHANGED <<historyVars, changes>>
      BY <2>2 DEF List, CreateDC, UpdateDC, DeleteDC
    <3> QED
      BY <3>1 DEF TypeOK, HistoryTyped, historyVars
  <2> QED
    BY <2>1, <2>2 DEF Discover
<1> QED
  BY <1>1, <1>2, <1>3, <1>4, Assembled

\* Everything around the agent.
LEMMA HCFields ==
  ASSUME NEW hc \in HCState
  PROVE  /\ [hc EXCEPT !.available = TRUE] \in HCState
         /\ [hc EXCEPT !.available = FALSE] \in HCState
         /\ \A url \in Urls : [hc EXCEPT !.url = url] \in HCState
         /\ [hc EXCEPT !.phase = "deleting"] \in HCState
         /\ [hc EXCEPT !.phase = "absent", !.available = FALSE] \in HCState
         /\ hc.version < MaxVersion => [hc EXCEPT !.version = @ + 1] \in HCState
<1>1. /\ hc \in [phase: {"absent", "live", "deleting"}, available: BOOLEAN,
                 id: Nat, url: Urls, version: 0 .. MaxVersion]
      /\ hc.version \in 0 .. MaxVersion
  BY DEF HCState
<1>2. /\ [hc EXCEPT !.available = TRUE] \in HCState
      /\ [hc EXCEPT !.available = FALSE] \in HCState
  BY <1>1 DEF HCState
<1>3. \A url \in Urls : [hc EXCEPT !.url = url] \in HCState
  BY <1>1 DEF HCState
<1>4. [hc EXCEPT !.phase = "deleting"] \in HCState
  BY <1>1 DEF HCState
<1>5. [hc EXCEPT !.phase = "absent", !.available = FALSE] \in HCState
  BY <1>1 DEF HCState
<1>6. ASSUME hc.version < MaxVersion
      PROVE  [hc EXCEPT !.version = @ + 1] \in HCState
  <2>1. hc.version + 1 \in 0 .. MaxVersion
    BY <1>1, <1>6
  <2> QED
    BY <1>1, <2>1 DEF HCState
<1> QED
  BY <1>2, <1>3, <1>4, <1>5, <1>6

LEMMA Observed ==
  ASSUME TypeOK, NEW h \in HCs, NEW hc \in HCState, Observe(h, hc)
  PROVE  /\ hcs' \in [HCs -> HCState] /\ hcs'[h] = hc
         /\ \A g \in HCs \ {h} : hcs'[g] = hcs[g]
         /\ UNCHANGED <<local, acm, hubVars, workVars>>
<1>1. hcs \in [HCs -> HCState] /\ hcs' = [hcs EXCEPT ![h] = hc]
  BY DEF TypeOK, Observe
<1>2. /\ hcs' \in [HCs -> HCState] /\ hcs'[h] = hc
      /\ \A g \in HCs \ {h} : hcs'[g] = hcs[g]
  BY <1>1
<1> QED
  BY <1>2 DEF Observe

\* What happens to an HC itself.
HCStep(h) ==
  \/ CreateHC(h) \/ BecomeAvailable(h) \/ BecomeUnavailable(h) \/ NextVersion(h)
  \/ ChangeUrl(h) \/ DeleteHC(h) \/ Vanish(h)

LEMMA HCObserved ==
  ASSUME TypeOK, NEW h \in HCs, HCStep(h)
  PROVE  \E hc \in HCState : Observe(h, hc)
<1>1. hcs[h] \in HCState
  BY DEF TypeOK
<1>2. CASE CreateHC(h)
  <2>1. PICK url \in Urls : Observe(h, [phase |-> "live", available |-> FALSE, id |-> hcs[h].id + 1,
                                       url |-> url, version |-> 0])
    BY <1>2 DEF CreateHC
  <2>2. [phase |-> "live", available |-> FALSE, id |-> hcs[h].id + 1, url |-> url, version |-> 0] \in HCState
    BY <1>1 DEF HCState
  <2> QED
    BY <2>1, <2>2
<1>3. CASE BecomeAvailable(h)
  BY <1>1, <1>3, HCFields DEF BecomeAvailable
<1>4. CASE BecomeUnavailable(h)
  BY <1>1, <1>4, HCFields DEF BecomeUnavailable
<1>5. CASE NextVersion(h)
  <2>1. hcs[h].version < MaxVersion /\ Observe(h, [hcs[h] EXCEPT !.version = @ + 1])
    BY <1>5 DEF NextVersion
  <2> QED
    BY <1>1, <2>1, HCFields
<1>6. CASE ChangeUrl(h)
  <2>1. PICK url \in Urls : Observe(h, [hcs[h] EXCEPT !.url = url])
    BY <1>6 DEF ChangeUrl
  <2> QED
    BY <1>1, <2>1, HCFields
<1>7. CASE DeleteHC(h)
  BY <1>1, <1>7, HCFields DEF DeleteHC
<1>8. CASE Vanish(h)
  BY <1>1, <1>8, HCFields DEF Vanish
<1> QED
  BY <1>2, <1>3, <1>4, <1>5, <1>6, <1>7, <1>8 DEF HCStep

LEMMA CountTyped ==
  ASSUME TypeOK, NEW h \in HCs, EnvironmentOf(h)
  PROVE  changes' \in Nat
<1>1. CASE NextVersion(h)
  <2>1. hcs[h].version \in Nat
    BY DEF TypeOK, HCState
  <2>2. UNCHANGED changes \/ Change("version")
    BY <1>1, <2>1 DEF NextVersion
  <2> QED
    BY <2>2 DEF Change, TypeOK
<1>2. CASE ~NextVersion(h)
  BY <1>2 DEF TypeOK, EnvironmentOf, CreateHC, BecomeAvailable, BecomeUnavailable, ChangeUrl, Touch, DeleteHC, Vanish,
     CleanUp, AddNamespace, RemoveMC, ImportByUser, Detach, EditDC, Change
<1> QED
  BY <1>1, <1>2

LEMMA HCStepTyped ==
  ASSUME TypeOK, NEW h \in HCs, HCStep(h)
  PROVE  TypeOK'
<1>1. /\ hcs' \in [HCs -> HCState]
      /\ UNCHANGED <<local, acm, hubVars, workVars>>
  BY HCObserved, Observed
<1>2. cleanup' \subseteq HCs /\ queue' \subseteq HCs
  BY DEF TypeOK, HCStep, CreateHC, BecomeAvailable, BecomeUnavailable, NextVersion, ChangeUrl, DeleteHC, Vanish,
     Created, Updated, Deleted
<1>3. UNCHANGED <<gaveUp, missed>> /\ blind' \subseteq HCs
  BY DEF TypeOK, HCStep, CreateHC, BecomeAvailable, BecomeUnavailable, NextVersion, ChangeUrl, DeleteHC, Vanish,
     historyVars
<1>4. changes' \in Nat
  BY CountTyped DEF HCStep, EnvironmentOf
<1>5. WorldTyped'
  BY <1>1, <1>2 DEF TypeOK, WorldTyped
<1>6. HubTyped'
  BY <1>1 DEF TypeOK, HubTyped, hubVars
<1>7. WorkTyped'
  BY <1>1, <1>2, KeptWork
<1>8. HistoryTyped'
  BY <1>3, <1>4 DEF TypeOK, HistoryTyped
<1> QED
  BY <1>5, <1>6, <1>7, <1>8, Assembled

LEMMA EnvironmentTyped ==
  ASSUME TypeOK, NEW h \in HCs, EnvironmentOf(h), ~HCStep(h)
  PROVE  TypeOK'
<1>1. UNCHANGED <<local, acm, hcs, workVars>>
  BY DEF EnvironmentOf, HCStep, Touch, CleanUp, AddNamespace, RemoveMC, ImportByUser, Detach, EditDC
<1>2. cleanup' \subseteq HCs /\ queue' \subseteq HCs
  BY DEF TypeOK, EnvironmentOf, HCStep, Touch, CleanUp, AddNamespace, RemoveMC, ImportByUser, Detach, EditDC, Updated
<1>3. WorldTyped'
  BY <1>1, <1>2 DEF TypeOK, WorldTyped
<1>4. WorkTyped'
  BY <1>1, <1>2, KeptWork
<1>5. HubTyped'
  <2>1. CASE CleanUp(h) \/ ImportByUser(h) \/ Detach(h)
    <3>1. UNCHANGED <<ns, kac, dcs>>
      BY <2>1 DEF CleanUp, ImportByUser, Detach
    <3>2. mc[h] \in {"absent", "present", "deleting"}
      BY DEF TypeOK
    <3>3. mc' \in [HCs -> {"absent", "present", "deleting"}]
      BY <2>1, <3>2 DEF TypeOK, CleanUp, ImportByUser, Detach
    <3> QED
      BY <3>1, <3>3 DEF TypeOK, HubTyped
  <2>2. CASE AddNamespace(h)
    BY <2>2 DEF TypeOK, HubTyped, AddNamespace
  <2>3. CASE RemoveMC(h)
    <3>1. mc' \in [HCs -> {"absent", "present", "deleting"}] /\ UNCHANGED dcs
      BY <2>3 DEF TypeOK, RemoveMC
    <3>2. ns' \subseteq HCs /\ kac' \subseteq ns'
      BY <2>3 DEF TypeOK, RemoveMC
    <3> QED
      BY <3>1, <3>2 DEF TypeOK, HubTyped
  <2>4. CASE EditDC(h)
    <3>1. UNCHANGED <<mc, ns, kac>>
      BY <2>4 DEF EditDC
    <3>2. ASSUME NEW url \in Urls
          PROVE  [hc |-> h, id |-> 0, url |-> url, version |-> 0] \in DCState
      BY DEF DCState
    <3>3. dcs' \subseteq DCState
      BY <2>4, <3>2 DEF EditDC, TypeOK
    <3> QED
      BY <3>1, <3>3 DEF TypeOK, HubTyped
  <2>5. CASE Touch(h)
    BY <2>5 DEF TypeOK, HubTyped, Touch, hubVars
  <2> QED
    BY <2>1, <2>2, <2>3, <2>4, <2>5 DEF EnvironmentOf, HCStep
<1>6. HistoryTyped'
  <2>1. UNCHANGED missed /\ blind' \subseteq HCs
    BY DEF TypeOK, EnvironmentOf, HCStep, Touch, CleanUp, AddNamespace, RemoveMC, ImportByUser, Detach, EditDC,
       historyVars
  <2>2. UNCHANGED gaveUp \/ gaveUp' = [gaveUp EXCEPT ![h] = {"mc", "kac"}]
    BY DEF EnvironmentOf, HCStep, Touch, CleanUp, AddNamespace, RemoveMC, ImportByUser, Detach, EditDC, historyVars
  <2>3. gaveUp' \in [HCs -> SUBSET {"mc", "kac"}]
    BY <2>2, GaveUpTyped DEF TypeOK
  <2> QED
    BY <2>1, <2>3, CountTyped DEF TypeOK, HistoryTyped
<1> QED
  BY <1>3, <1>4, <1>5, <1>6, Assembled

LEMMA CallFailsTyped ==
  ASSUME TypeOK, CallFails
  PROVE  TypeOK'
<1>1. WorldTyped' /\ HubTyped' /\ local' = local
  BY DEF TypeOK, WorldTyped, HubTyped, hubVars, CallFails
<1>2. UNCHANGED <<blind, missed>> /\ changes' \in Nat
  BY DEF TypeOK, CallFails, Change
<1>3. CASE pc = "idle"
  <2>1. PICK h \in queue : queue' = queue \ {h} /\ gaveUp' = [gaveUp EXCEPT ![h] = {"mc", "kac"}]
    BY <1>3 DEF CallFails, LocalSteps, RemoteSteps
  <2>2. UNCHANGED workVars
    BY <1>3 DEF CallFails, LocalSteps, RemoteSteps
  <2>3. h \in HCs /\ queue' \subseteq HCs
    BY <2>1 DEF TypeOK
  <2>4. WorkTyped'
    BY <1>1, <2>2, <2>3, KeptWork
  <2>5. HistoryTyped'
    BY <1>2, <2>1, <2>3, GaveUpTyped DEF TypeOK, HistoryTyped
  <2> QED
    BY <1>1, <2>4, <2>5, Assembled
<1>4. CASE pc # "idle"
  <2>1. queue' \subseteq HCs
    BY <1>4, StepsOf DEF TypeOK, CallFails, Retry
  <2>2. Done \/ (pc \in LocalSteps /\ Goto("acm"))
    BY <1>4 DEF CallFails, Retry, LocalSteps
  <2>3. UNCHANGED gaveUp \/ Undone({"mc", "kac"}) \/ Undone({"kac"})
    BY <1>4 DEF CallFails
  <2>4. WorkTyped'
    BY <1>1, <1>4, <2>1, <2>2, DoneWork, GotoWork, StepsOf DEF LocalSteps
  <2>5. HistoryTyped'
    BY <1>2, <1>4, <2>3, UndoneTyped DEF TypeOK, HistoryTyped
  <2> QED
    BY <1>1, <2>4, <2>5, Assembled
<1> QED
  BY <1>3, <1>4

LEMMA RestartTyped ==
  ASSUME TypeOK, Restart
  PROVE  TypeOK'
<1>1. WorldTyped' /\ HubTyped'
  BY DEF TypeOK, WorldTyped, HubTyped, hubVars, Restart
<1>2. Done /\ queue' \subseteq HCs
  BY DEF Restart
<1>3. HistoryTyped'
  BY DEF TypeOK, HistoryTyped, Restart, Change
<1> QED
  BY <1>1, <1>2, <1>3, DoneWork, Assembled

LEMMA FlipTyped ==
  ASSUME TypeOK, FlipACM
  PROVE  TypeOK'
<1>1. WorldTyped' /\ HubTyped' /\ HistoryTyped' /\ local' = local
  BY DEF TypeOK, WorldTyped, HubTyped, HistoryTyped, hubVars, historyVars, FlipACM, Change
<1>2. WorkTyped'
  BY <1>1, KeptWork DEF FlipACM, TypeOK
<1> QED
  BY <1>1, <1>2, Assembled

LEMMA InitTyped == Init => TypeOK
<1> SUFFICES ASSUME Init PROVE TypeOK
  OBVIOUS
<1>1. PICK url \in Urls :
        hcs = [h \in HCs |-> [phase |-> "absent", available |-> FALSE, id |-> 0, url |-> url, version |-> 0]]
  BY DEF Init
<1>2. [phase |-> "absent", available |-> FALSE, id |-> 0, url |-> url, version |-> 0] \in HCState
  BY DEF HCState
<1>3. WorldTyped
  BY <1>1, <1>2 DEF Init, WorldTyped
<1>4. HubTyped /\ WorkTyped /\ HistoryTyped
  BY DEF Init, HubTyped, WorkTyped, HistoryTyped
<1> QED
  BY <1>3, <1>4, Parts

LEMMA NextTyped == TypeOK /\ [Next]_vars => TypeOK'
<1> SUFFICES ASSUME TypeOK, [Next]_vars PROVE TypeOK'
  OBVIOUS
<1>1. CASE UNCHANGED vars
  BY <1>1 DEF TypeOK, vars, hubVars, workVars, historyVars
<1>2. CASE Next
  BY <1>2, AutoImportTyped, DiscoverTyped, HCStepTyped, EnvironmentTyped, CallFailsTyped, RestartTyped, FlipTyped
     DEF Next
<1> QED
  BY <1>1, <1>2

\* The types hold for every set of HCs and URLs and every bound (all of
\* auto_import_controller.go and discovery_agent.go).
THEOREM TypeCorrect == Spec => []TypeOK
  BY InitTyped, NextTyped, PTL DEF Spec

-----------------------------------------------------------------------------
(* What DiscoveryAgent has nothing left to do for is announced.            *)

\* The worker holds a DC only while it is about to update or delete it, and that
\* is one of the HC it works on.
Writing == {"updateDC", "deleteDC"}

HeldDC ==
  /\ dc # NoDC => pc \in Writing
  /\ pc \in Writing => dc \in DCState /\ dc.hc = job

\* Since the worker read its HC, nothing changed that matters without a new
\* request for it: a change of the version is an event, but for those that are
\* not reported; so is the end of a deletion, if not its beginning.
Current(h) ==
  /\ seen.url = hcs[h].url
  /\ Reported(seen.version) = Reported(hcs[h].version)
  /\ seen.phase = "absent" <=> hcs[h].phase = "absent"

\* Nor did the DCs since they were listed, but for the end of the one it holds.
Listed(h) ==
  /\ pc = "createDC" => seen.phase # "absent" /\ DCsOf(h) = {}
  /\ pc = "updateDC" => seen.phase # "absent" /\ DCsOf(h) \subseteq {dc}
  /\ pc = "deleteDC" => seen.phase = "absent" /\ DCsOf(h) \subseteq {dc}

Told(h) ==
  /\ Ready(h) => Announced(h)
  /\ hcs[h].phase = "absent" /\ h \notin missed => DCsOf(h) = {}

Quiet(h) == ~local /\ h \notin queue /\ h \notin blind

WorkedOn(h) == Quiet(h) /\ job = h => Current(h) /\ Listed(h)
LeftAlone(h) == Quiet(h) /\ job # h => Told(h)

DiscoveredInv == HeldDC /\ \A h \in HCs : WorkedOn(h) /\ LeftAlone(h)

LEMMA NoDCs == NoDC \notin DCState /\ NoDC.hc = NoJob
  BY DEF NoDC, DCState

LEMMA InitDiscovered == Init => DiscoveredInv
<1> SUFFICES ASSUME Init PROVE DiscoveredInv
  OBVIOUS
<1>1. HeldDC
  BY DEF Init, HeldDC, Writing
<1>2. ASSUME NEW h \in HCs
      PROVE  WorkedOn(h) /\ LeftAlone(h)
  <2>1. job # h /\ DCsOf(h) = {} /\ hcs[h].phase = "absent"
    BY DEF Init, DCsOf
  <2> QED
    BY <2>1 DEF WorkedOn, LeftAlone, Told, Ready, Live
<1> QED
  BY <1>1, <1>2 DEF DiscoveredInv

\* The worker drops what it holds when it ends, and holds only what it lists.
LEMMA NextHeld ==
  ASSUME TypeOK, HeldDC, [Next]_vars
  PROVE  HeldDC'
<1>1. CASE Done
  BY <1>1 DEF Done, HeldDC, Writing
<1>2. CASE UNCHANGED <<pc, dc, job>>
  BY <1>2 DEF HeldDC
<1>3. ASSUME NEW step \in {"createMC", "acm", "namespace", "createKAC", "createDC"}, Goto(step),
             pc \in {"getMC", "createMC", "acm", "namespace", "list"}
      PROVE  HeldDC'
  BY <1>3 DEF HeldDC, Goto, Writing
<1>4. ASSUME NEW d \in dcs, DCsOf(job) = {d}, StepFor(d) # "idle", pc' = StepFor(d), dc' = d, UNCHANGED job
      PROVE  HeldDC'
  <2>1. d \in DCState /\ d.hc = job
    BY <1>4 DEF TypeOK, DCsOf
  <2>2. pc' \in Writing
    BY <1>4 DEF StepFor, Writing
  <2> QED
    BY <1>4, <2>1, <2>2 DEF HeldDC
<1>5. ASSUME NEW h \in HCs, AutoImport(h)
      PROVE  HeldDC'
  <2>1. CASE GetLocal(h)
    <3>1. UNCHANGED <<pc, dc, job>> \/ (pc = "idle" /\ pc' = "getMC" /\ UNCHANGED dc)
      BY <2>1 DEF GetLocal, Take, TypeOK, workVars
    <3> QED
      BY <3>1, <1>2 DEF HeldDC, Writing
  <2>2. CASE GetMC \/ CreateMC \/ CheckACM \/ FindNamespace \/ TimeOut \/ CreateKAC
    BY <2>2, <1>1, <1>3 DEF GetMC, CreateMC, CheckACM, FindNamespace, TimeOut, CreateKAC
  <2> QED
    BY <1>5, <2>1, <2>2 DEF AutoImport
<1>6. ASSUME NEW h \in HCs, Discover(h)
      PROVE  HeldDC'
  <2>1. CASE GetRemote(h)
    <3>1. UNCHANGED <<pc, dc, job>> \/ (pc = "idle" /\ pc' = "list" /\ UNCHANGED dc)
      BY <2>1 DEF GetRemote, Take, TypeOK, workVars
    <3> QED
      BY <3>1, <1>2 DEF HeldDC, Writing
  <2>2. CASE List
    <3>1. \/ Done \/ Goto("createDC")
          \/ \E d \in dcs : /\ DCsOf(job) = {d} /\ StepFor(d) # "idle"
                            /\ pc' = StepFor(d) /\ dc' = d /\ UNCHANGED job
      BY <2>2 DEF List, Retry
    <3>2. pc = "list"
      BY <2>2 DEF List
    <3> QED
      BY <3>1, <3>2, <1>1, <1>3, <1>4
  <2>3. CASE CreateDC \/ UpdateDC \/ DeleteDC
    BY <2>3, <1>1 DEF CreateDC, UpdateDC, DeleteDC, Retry
  <2> QED
    BY <1>6, <2>1, <2>2, <2>3 DEF Discover
<1>7. ASSUME NEW h \in HCs, EnvironmentOf(h)
      PROVE  UNCHANGED <<pc, dc, job>>
  BY <1>7 DEF EnvironmentOf, CreateHC, BecomeAvailable, BecomeUnavailable, NextVersion, ChangeUrl, Touch, DeleteHC,
     Vanish, CleanUp, AddNamespace, RemoveMC, ImportByUser, Detach, EditDC, Observe, workVars
<1>8. CASE CallFails
  <2>1. Done \/ UNCHANGED <<pc, dc, job>> \/ (pc = "getMC" /\ Goto("acm"))
    BY <1>8 DEF CallFails, Retry, workVars
  <2> QED
    BY <2>1, <1>1, <1>2, <1>3
<1>9. CASE Restart \/ FlipACM \/ UNCHANGED vars
  BY <1>9, <1>1, <1>2 DEF Restart, FlipACM, vars, workVars
<1> QED
  BY <1>2, <1>5, <1>6, <1>7, <1>8, <1>9 DEF Next

\* What a step leaves of an HC, so that what holds of it still holds.
SameHC(h) ==
  /\ UNCHANGED local /\ hcs'[h] = hcs[h]
  /\ DCsOf(h)' = DCsOf(h)
  /\ h \in queue => h \in queue'
  /\ h \in blind => h \in blind'
  /\ h \in missed => h \in missed'
  /\ IF job = h THEN UNCHANGED <<job, pc, seen, dc>> ELSE job' # h

LEMMA SameAnnounced ==
  ASSUME NEW h \in HCs, Announced(h), hcs'[h].url = hcs[h].url,
         Reported(hcs'[h].version) = Reported(hcs[h].version), DCsOf(h)' = DCsOf(h)
  PROVE  Announced(h)'
<1>1. PICK d \in dcs : /\ DCsOf(h) = {d}
                       /\ d.url = hcs[h].url /\ d.version = Reported(hcs[h].version)
  BY DEF Announced
<1>2. d \in dcs'
  BY <1>1 DEF DCsOf
<1>3. d.url = hcs'[h].url /\ d.version = Reported(hcs'[h].version) /\ DCsOf(h)' = {d}
  BY <1>1
<1> QED
  BY <1>2, <1>3 DEF Announced

LEMMA SameKept ==
  ASSUME NEW h \in HCs, WorkedOn(h), LeftAlone(h), SameHC(h)
  PROVE  WorkedOn(h)' /\ LeftAlone(h)'
<1>1. CASE ~Quiet(h)
  BY <1>1 DEF SameHC, Quiet, WorkedOn, LeftAlone
<1>2. CASE Quiet(h) /\ job = h
  <2>1. Current(h) /\ Listed(h)
    BY <1>2 DEF WorkedOn
  <2>2. Current(h)' /\ Listed(h)'
    BY <1>2, <2>1 DEF SameHC, Current, Listed
  <2> QED
    BY <1>2, <2>2 DEF SameHC, WorkedOn, LeftAlone
<1>3. CASE Quiet(h) /\ job # h
  <2>1. Told(h)
    BY <1>3 DEF LeftAlone
  <2>2. Ready(h)' = Ready(h) /\ (Ready(h) => Announced(h)')
    BY <2>1, SameAnnounced DEF SameHC, Ready, Live, Told
  <2>3. Told(h)'
    BY <2>1, <2>2 DEF SameHC, Told
  <2> QED
    BY <1>3, <2>3 DEF SameHC, WorkedOn, LeftAlone
<1> QED
  BY <1>1, <1>2, <1>3

\* The local agent announces nothing.
LEMMA LocalSame ==
  ASSUME NEW h \in HCs, local, UNCHANGED local
  PROVE  WorkedOn(h)' /\ LeftAlone(h)'
  BY DEF WorkedOn, LeftAlone, Quiet

\* Get of the HC: with nothing done yet, nothing can be stale.
LEMMA GetRemoteKeeps ==
  ASSUME TypeOK, DiscoveredInv, NEW g \in HCs, NEW h \in HCs, GetRemote(h)
  PROVE  WorkedOn(g)' /\ LeftAlone(g)'
<1>1. ~local /\ job = NoJob /\ queue' = queue \ {h} /\ blind' = blind \ {h}
      /\ UNCHANGED <<local, hcs, dcs>>
  BY DEF GetRemote, Take, hubVars
<1>2. DCsOf(g)' = DCsOf(g)
  BY <1>1 DEF DCsOf
<1>3. CASE g # h
  <2>1. job' # g /\ job # g /\ (g \in missed => g \in missed')
    BY <1>1, <1>3 DEF GetRemote, workVars
  <2>2. SameHC(g)
    BY <1>1, <1>2, <1>3, <2>1 DEF SameHC
  <2> QED
    BY <2>2, SameKept DEF DiscoveredInv
<1>4. CASE g = h
  <2>1. CASE hcs[h].phase # "absent" /\ ~hcs[h].available /\ UNCHANGED workVars
    <3>1. job' # g /\ ~Ready(g)' /\ hcs'[g].phase # "absent"
      BY <1>1, <1>4, <2>1 DEF Ready, workVars
    <3> QED
      BY <3>1 DEF WorkedOn, LeftAlone, Told
  <2>2. CASE job' = h /\ pc' = "list" /\ seen' = hcs[h]
    <3>1. Current(g)' /\ Listed(g)'
      BY <1>1, <1>4, <2>2 DEF Current, Listed
    <3> QED
      BY <1>4, <2>2, <3>1 DEF WorkedOn, LeftAlone
  <2> QED
    BY <2>1, <2>2 DEF GetRemote
<1> QED
  BY <1>3, <1>4

\* A call for another HC.
LEMMA OtherCall ==
  ASSUME TypeOK, NEW g \in HCs, WorkedOn(g), LeftAlone(g), job \in HCs, g # job, job' \in {job, NoJob},
         queue \subseteq queue', UNCHANGED <<local, hcs, blind, missed>>, DCsOf(g)' = DCsOf(g)
  PROVE  WorkedOn(g)' /\ LeftAlone(g)'
<1>1. SameHC(g)
  BY DEF SameHC
<1> QED
  BY <1>1, SameKept

\* A call after which the request is repeated.
LEMMA RetryCall ==
  ASSUME NEW h \in HCs, h = job, Retry
  PROVE  WorkedOn(h)' /\ LeftAlone(h)'
  BY DEF Retry, WorkedOn, LeftAlone, Quiet

\* A call that ends the request.
LEMMA LastCall ==
  ASSUME TypeOK, NEW h \in HCs, Done, Quiet(h)' => Told(h)'
  PROVE  WorkedOn(h)' /\ LeftAlone(h)'
  BY DEF Done, WorkedOn, LeftAlone

\* The DCs of the HC, once listed, decide.
LEMMA ListKeeps ==
  ASSUME TypeOK, DiscoveredInv, NEW g \in HCs, List
  PROVE  WorkedOn(g)' /\ LeftAlone(g)'
<1>1. /\ pc = "list" /\ job \in HCs
      /\ UNCHANGED <<local, hcs, dcs, blind, missed>> /\ DCsOf(g)' = DCsOf(g)
  BY StepsOf DEF List, hubVars, historyVars, DCsOf
<1>2. queue \subseteq queue' /\ job' \in {job, NoJob}
  BY DEF List, Retry, Done, Goto
<1>3. CASE g # job
  BY <1>1, <1>2, <1>3, OtherCall DEF DiscoveredInv
<1>4. CASE g = job /\ Retry
  BY <1>1, <1>4, RetryCall
<1>5. CASE g = job /\ ~Retry
  <2>1. Quiet(g)' => Quiet(g) /\ Current(g)
    BY <1>1, <1>2, <1>5 DEF Quiet, DiscoveredInv, WorkedOn
  <2>2. CASE DCsOf(job) = {} /\ seen.phase = "absent" /\ Done
    <3>1. Quiet(g)' => Told(g)'
      BY <1>1, <1>5, <2>1, <2>2 DEF Current, Told, Ready, Live
    <3> QED
      BY <2>2, <3>1, LastCall
  <2>3. CASE DCsOf(job) = {} /\ seen.phase # "absent" /\ Goto("createDC")
    <3>1. UNCHANGED <<job, seen>> /\ pc' = "createDC"
      BY <2>3 DEF Goto
    <3>2. Quiet(g)' => Current(g)' /\ Listed(g)'
      BY <1>1, <1>5, <2>1, <2>3, <3>1 DEF Current, Listed
    <3> QED
      BY <1>5, <3>1, <3>2 DEF WorkedOn, LeftAlone
  <2>4. ASSUME NEW d \in dcs, DCsOf(job) = {d}, StepFor(d) = "idle", Done
        PROVE  WorkedOn(g)' /\ LeftAlone(g)'
    <3>1. seen.phase # "absent" /\ UpToDate(d)
      BY <2>4 DEF StepFor
    <3>2. d.url = seen.url /\ d.version = Reported(seen.version)
      BY <3>1 DEF UpToDate, NewDC
    <3>3. Quiet(g) => Announced(g)
      BY <1>5, <2>1, <2>4, <3>2, <1>1 DEF Current, Announced, DiscoveredInv, WorkedOn
    <3>4. Quiet(g)' => Announced(g)'
      BY <1>1, <2>1, <3>3, SameAnnounced
    <3>5. Quiet(g)' => hcs'[g].phase # "absent"
      BY <1>1, <2>1, <3>1 DEF Current
    <3>6. Quiet(g)' => Told(g)'
      BY <3>4, <3>5 DEF Told
    <3> QED
      BY <2>4, <3>6, LastCall
  <2>5. ASSUME NEW d \in dcs, DCsOf(job) = {d}, StepFor(d) # "idle", pc' = StepFor(d), dc' = d,
               UNCHANGED <<job, seen>>
        PROVE  WorkedOn(g)' /\ LeftAlone(g)'
    <3>1. \/ pc' = "deleteDC" /\ seen.phase = "absent"
          \/ pc' = "updateDC" /\ seen.phase # "absent"
      BY <2>5 DEF StepFor
    <3>2. Quiet(g)' => Current(g)' /\ Listed(g)'
      BY <1>1, <1>5, <2>1, <2>5, <3>1 DEF Current, Listed
    <3> QED
      BY <1>5, <2>5, <3>2 DEF WorkedOn, LeftAlone
  <2> QED
    BY <1>5, <2>2, <2>3, <2>4, <2>5 DEF List
<1> QED
  BY <1>3, <1>4, <1>5

\* DCs of other HCs are not touched.
LEMMA OtherDCs ==
  ASSUME TypeOK, HeldDC, NEW g \in HCs, g # job, CreateDC \/ UpdateDC \/ DeleteDC
  PROVE  DCsOf(g)' = DCsOf(g)
<1>1. CASE CreateDC
  <2>1. NewDC.hc = job
    BY DEF NewDC
  <2> QED
    BY <1>1, <2>1 DEF CreateDC, DCsOf
<1>2. CASE UpdateDC
  <2>1. CASE dc \in dcs
    <3>1. dc.hc = job /\ dc \in DCState /\ pc # "idle"
      BY <1>2, <2>1 DEF UpdateDC, HeldDC, Writing
    <3>2. dcs' = (dcs \ {dc}) \cup {Updating(dc)} /\ Updating(dc).hc = job
      BY <1>2, <2>1, <3>1, UpdatingTyped DEF UpdateDC, Updating
    <3> QED
      BY <3>1, <3>2 DEF DCsOf
  <2>2. CASE dc \notin dcs
    BY <1>2, <2>2 DEF UpdateDC, DCsOf
  <2> QED
    BY <2>1, <2>2
<1>3. CASE DeleteDC
  <2>1. dc.hc = job
    BY <1>3 DEF DeleteDC, HeldDC, Writing
  <2> QED
    BY <1>3, <2>1 DEF DeleteDC, DCsOf
<1> QED
  BY <1>1, <1>2, <1>3

\* The one DC the HC has in the end tells what was read of it, or there is none if
\* the HC is gone.
LEMMA WrittenDC ==
  ASSUME TypeOK, DiscoveredInv, CreateDC \/ UpdateDC \/ DeleteDC, ~Retry,
         NEW h \in HCs, h = job, Quiet(h)
  PROVE  IF seen.phase = "absent" THEN DCsOf(h)' = {}
         ELSE \E d \in dcs' : /\ DCsOf(h)' = {d}
                              /\ d.url = seen.url /\ d.version = Reported(seen.version)
<1>1. Listed(h) /\ HeldDC
  BY DEF DiscoveredInv, WorkedOn
<1>2. CASE CreateDC
  <2>1. dcs' = dcs \cup {NewDC} /\ pc = "createDC" /\ UNCHANGED <<hcs>>
    BY <1>2 DEF CreateDC
  <2>2. NewDC.hc = h /\ NewDC.url = seen.url /\ NewDC.version = Reported(seen.version)
    BY DEF NewDC
  <2>3. seen.phase # "absent" /\ DCsOf(h) = {}
    BY <1>1, <2>1 DEF Listed
  <2>4. {d \in dcs' : d.hc = h} = {NewDC} /\ NewDC \in dcs'
    BY <2>1, <2>2, <2>3 DEF DCsOf
  <2> QED
    BY <2>2, <2>3, <2>4 DEF DCsOf
<1>3. CASE UpdateDC
  <2>1. dc \in dcs /\ pc = "updateDC" /\ dcs' = (dcs \ {dc}) \cup {Updating(dc)}
    BY <1>3 DEF UpdateDC, Updating
  <2>2. dc \in DCState /\ dc.hc = h
    BY <1>1, <2>1 DEF HeldDC, Writing
  <2>3. Updating(dc).hc = h /\ Updating(dc).url = seen.url /\ Updating(dc).version = Reported(seen.version)
    BY <2>1, <2>2, UpdatingTyped
  <2>4. seen.phase # "absent" /\ DCsOf(h) \subseteq {dc}
    BY <1>1, <2>1 DEF Listed
  <2>5. {d \in dcs' : d.hc = h} = {Updating(dc)} /\ Updating(dc) \in dcs'
    BY <2>1, <2>3, <2>4 DEF DCsOf
  <2> QED
    BY <2>3, <2>4, <2>5 DEF DCsOf
<1>4. CASE DeleteDC
  <2>1. dcs' = dcs \ {dc} /\ pc = "deleteDC"
    BY <1>4 DEF DeleteDC
  <2>2. seen.phase = "absent" /\ DCsOf(h) \subseteq {dc}
    BY <1>1, <2>1 DEF Listed
  <2> QED
    BY <2>1, <2>2 DEF DCsOf
<1> QED
  BY <1>2, <1>3, <1>4

LEMMA WriteKeeps ==
  ASSUME TypeOK, DiscoveredInv, NEW g \in HCs, CreateDC \/ UpdateDC \/ DeleteDC
  PROVE  WorkedOn(g)' /\ LeftAlone(g)'
<1>1. /\ job \in HCs /\ Done
      /\ UNCHANGED <<local, hcs, blind, missed>>
  BY StepsOf DEF CreateDC, UpdateDC, DeleteDC, Retry, historyVars
<1>2. queue \subseteq queue' /\ job' \in {job, NoJob}
  BY <1>1 DEF CreateDC, UpdateDC, DeleteDC, Retry, Done
<1>3. CASE g # job
  BY <1>1, <1>2, <1>3, OtherCall, OtherDCs DEF DiscoveredInv
<1>4. CASE g = job /\ Retry
  BY <1>4, RetryCall
<1>5. CASE g = job /\ ~Retry
  <2>1. Quiet(g)' => Quiet(g)
    BY <1>1, <1>2 DEF Quiet
  <2>2. Quiet(g) => Current(g)
    BY <1>5 DEF DiscoveredInv, WorkedOn
  <2>3. CASE Quiet(g)' /\ seen.phase = "absent"
    <3>1. DCsOf(g)' = {} /\ hcs'[g].phase = "absent"
      BY <1>1, <1>5, <2>1, <2>2, <2>3, WrittenDC DEF Current
    <3>2. Told(g)'
      BY <3>1 DEF Told, Ready, Live
    <3> QED
      BY <1>1, <3>2, LastCall
  <2>4. CASE Quiet(g)' /\ seen.phase # "absent"
    <3>1. PICK d \in dcs' : /\ DCsOf(g)' = {d}
                            /\ d.url = seen.url /\ d.version = Reported(seen.version)
      BY <1>5, <2>1, <2>4, WrittenDC
    <3>2. d.url = hcs'[g].url /\ d.version = Reported(hcs'[g].version) /\ hcs'[g].phase # "absent"
      BY <1>1, <2>1, <2>2, <2>4, <3>1 DEF Current
    <3>3. Told(g)'
      BY <3>1, <3>2 DEF Told, Announced
    <3> QED
      BY <1>1, <3>3, LastCall
  <2>5. CASE ~Quiet(g)'
    BY <1>1, <2>5, LastCall
  <2> QED
    BY <2>3, <2>4, <2>5
<1> QED
  BY <1>3, <1>4, <1>5

\* What changes with an event, or is known to be without one.
LEMMA Unquiet ==
  ASSUME NEW h \in HCs, ~Quiet(h)'
  PROVE  WorkedOn(h)' /\ LeftAlone(h)'
  BY DEF WorkedOn, LeftAlone

\* What changes without one, but does not matter to the controller.
LEMMA HarmlessKeeps ==
  ASSUME NEW h \in HCs, WorkedOn(h), LeftAlone(h),
         UNCHANGED <<local, dcs, workVars, blind, missed>>, queue \subseteq queue',
         hcs'[h].url = hcs[h].url, Reported(hcs'[h].version) = Reported(hcs[h].version),
         hcs[h].phase # "absent", hcs'[h].phase # "absent", Ready(h)' => Ready(h)
  PROVE  WorkedOn(h)' /\ LeftAlone(h)'
<1>1. DCsOf(h)' = DCsOf(h) /\ UNCHANGED <<job, pc, seen, dc>>
  BY DEF DCsOf, workVars
<1>2. Quiet(h)' => Quiet(h)
  BY DEF Quiet
<1>3. Current(h) => Current(h)'
  BY <1>1 DEF Current
<1>4. Listed(h) => Listed(h)'
  BY <1>1 DEF Listed
<1>5. Told(h) => Told(h)'
  <2>1. Announced(h) => Announced(h)'
    BY <1>1, SameAnnounced
  <2> QED
    BY <2>1 DEF Told
<1> QED
  BY <1>1, <1>2, <1>3, <1>4, <1>5 DEF WorkedOn, LeftAlone

LEMMA HCStepKeeps ==
  ASSUME TypeOK, DiscoveredInv, ~local, NEW g \in HCs, NEW h \in HCs, HCStep(h)
  PROVE  WorkedOn(g)' /\ LeftAlone(g)'
<1>1. PICK hc \in HCState : Observe(h, hc)
  BY HCObserved
<1>2. /\ hcs'[h] = hc /\ (g # h => hcs'[g] = hcs[g])
      /\ UNCHANGED <<local, acm, hubVars, workVars>>
  BY <1>1, Observed
<1>3. UNCHANGED dcs /\ DCsOf(g)' = DCsOf(g) /\ UNCHANGED <<job, pc, seen, dc>>
  BY <1>2 DEF hubVars, workVars, DCsOf
<1>4. queue \subseteq queue' /\ blind \subseteq blind' /\ UNCHANGED missed
  BY DEF HCStep, CreateHC, BecomeAvailable, BecomeUnavailable, NextVersion, ChangeUrl, DeleteHC, Vanish,
     Created, Updated, Deleted, historyVars
<1>5. CASE g # h
  <2>1. SameHC(g)
    BY <1>2, <1>3, <1>4, <1>5 DEF SameHC
  <2> QED
    BY <2>1, SameKept DEF DiscoveredInv
<1>6. CASE g = h /\ (CreateHC(h) \/ BecomeAvailable(h) \/ Vanish(h) \/ ChangeUrl(h))
  <2>1. h \in queue' \/ h \in blind'
    BY <1>6 DEF CreateHC, BecomeAvailable, Vanish, ChangeUrl, Created, Updated, Deleted, Live
  <2> QED
    BY <1>6, <2>1, Unquiet DEF Quiet
<1>7. CASE g = h /\ (BecomeUnavailable(h) \/ DeleteHC(h))
  <2>1. hcs \in [HCs -> HCState] /\ hcs[h] \in HCState
    BY DEF TypeOK
  <2>2. /\ hcs'[h].url = hcs[h].url /\ hcs'[h].version = hcs[h].version
        /\ hcs[h].phase # "absent" /\ hcs'[h].phase # "absent" /\ ~Ready(h)'
    BY <1>7, <2>1 DEF BecomeUnavailable, DeleteHC, Observe, HCState, Ready, Live
  <2>3. UNCHANGED blind
    BY <1>7 DEF BecomeUnavailable, DeleteHC, historyVars
  <2> QED
    BY <1>2, <1>3, <1>4, <1>7, <2>2, <2>3, HarmlessKeeps DEF DiscoveredInv
<1>8. CASE g = h /\ NextVersion(h)
  <2>1. CASE hcs[h].version = 0
    <3>1. hcs \in [HCs -> HCState] /\ hcs[h] \in HCState
      BY DEF TypeOK
    <3>2. /\ hcs'[h].url = hcs[h].url /\ hcs'[h].version = 1 /\ hcs'[h].phase = "live" /\ hcs[h].phase = "live"
          /\ hcs'[h].available = hcs[h].available
      BY <1>8, <2>1, <3>1 DEF NextVersion, Observe, HCState, Live
    <3>3. Reported(hcs'[h].version) = Reported(hcs[h].version)
      BY <2>1, <3>2 DEF Reported
    <3>4. Ready(h)' => Ready(h)
      BY <3>2 DEF Ready, Live
    <3>5. UNCHANGED blind
      BY <1>8 DEF NextVersion, historyVars
    <3> QED
      BY <1>2, <1>3, <1>4, <1>8, <3>2, <3>3, <3>4, <3>5, HarmlessKeeps DEF DiscoveredInv
  <2>2. CASE hcs[h].version # 0
    <3>1. h \in queue'
      BY <1>8, <2>2 DEF NextVersion, Updated, Live
    <3> QED
      BY <1>8, <3>1, Unquiet DEF Quiet
  <2> QED
    BY <2>1, <2>2
<1> QED
  BY <1>5, <1>6, <1>7, <1>8 DEF HCStep

\* Somebody else's change of a DC.
LEMMA EditDCKeeps ==
  ASSUME TypeOK, DiscoveredInv, NEW g \in HCs, NEW h \in HCs, EditDC(h)
  PROVE  WorkedOn(g)' /\ LeftAlone(g)'
<1>1. UNCHANGED <<local, hcs, queue, job, pc, seen, dc, missed>> /\ blind \subseteq blind'
  BY DEF EditDC, workVars
<1>2. CASE g # h
  <2>1. DCsOf(g)' = DCsOf(g)
    BY <1>2 DEF EditDC, DCsOf
  <2>2. SameHC(g)
    BY <1>1, <2>1 DEF SameHC
  <2> QED
    BY <2>2, SameKept DEF DiscoveredInv
<1>3. CASE g = h /\ h \in blind'
  BY <1>3, Unquiet DEF Quiet
<1>4. CASE g = h /\ h \notin blind'
  <2>1. PICK d \in DCsOf(h) : dcs' = dcs \ {d} /\ dc = d /\ UNCHANGED blind
    BY <1>4 DEF EditDC
  <2>2. dc # NoDC /\ d.hc = h
    BY <2>1, NoDCs DEF TypeOK, DCsOf
  <2>3. job = h
    BY <2>1, <2>2 DEF DiscoveredInv, HeldDC
  <2>4. DCsOf(h)' \subseteq DCsOf(h)
    BY <2>1 DEF DCsOf
  <2>5. Quiet(h)' => Quiet(h)
    BY <1>1, <2>1 DEF Quiet
  <2>6. Quiet(h)' => Current(h)' /\ Listed(h)'
    BY <1>1, <2>2, <2>3, <2>4, <2>5 DEF DiscoveredInv, WorkedOn, HeldDC, Writing, Current, Listed
  <2> QED
    BY <1>1, <1>4, <2>3, <2>6 DEF WorkedOn, LeftAlone
<1> QED
  BY <1>2, <1>3, <1>4

\* What has nothing to do with the HC or its DCs.
LEMMA StillKeeps ==
  ASSUME TypeOK, DiscoveredInv, NEW g \in HCs,
         UNCHANGED <<local, hcs, dcs, workVars, blind, missed>>, queue \subseteq queue'
  PROVE  WorkedOn(g)' /\ LeftAlone(g)'
<1>1. SameHC(g)
  BY DEF SameHC, DCsOf, workVars
<1> QED
  BY <1>1, SameKept DEF DiscoveredInv

LEMMA EnvironmentKeeps ==
  ASSUME TypeOK, DiscoveredInv, ~local, NEW g \in HCs, NEW h \in HCs, EnvironmentOf(h)
  PROVE  WorkedOn(g)' /\ LeftAlone(g)'
<1>1. CASE HCStep(h)
  BY <1>1, HCStepKeeps
<1>2. CASE EditDC(h)
  BY <1>2, EditDCKeeps
<1>3. CASE Touch(h) \/ CleanUp(h) \/ AddNamespace(h) \/ RemoveMC(h) \/ ImportByUser(h) \/ Detach(h)
  <2>1. UNCHANGED <<local, hcs, dcs, workVars, blind, missed>> /\ queue \subseteq queue'
    BY <1>3 DEF Touch, CleanUp, AddNamespace, RemoveMC, ImportByUser, Detach, Updated, hubVars, historyVars
  <2> QED
    BY <2>1, StillKeeps
<1> QED
  BY <1>1, <1>2, <1>3 DEF EnvironmentOf, HCStep

LEMMA CallFailsKeeps ==
  ASSUME TypeOK, DiscoveredInv, ~local, NEW g \in HCs, CallFails
  PROVE  WorkedOn(g)' /\ LeftAlone(g)'
<1>1. pc \notin LocalSteps /\ "getMC" \in LocalSteps
  BY StepsOf DEF LocalSteps
<1>2. Retry /\ pc \in RemoteSteps
  BY <1>1 DEF CallFails
<1>3. job \in HCs /\ UNCHANGED <<local, hcs, dcs, blind, missed>>
  BY <1>2, StepsOf DEF CallFails, hubVars, RemoteSteps
<1>4. DCsOf(g)' = DCsOf(g) /\ job' = NoJob /\ queue \subseteq queue'
  BY <1>2, <1>3 DEF DCsOf, Retry, Done
<1> QED
  BY <1>2, <1>3, <1>4, OtherCall, RetryCall DEF DiscoveredInv

LEMMA RestartKeeps ==
  ASSUME TypeOK, NEW g \in HCs, Restart
  PROVE  WorkedOn(g)' /\ LeftAlone(g)'
<1>1. CASE hcs[g].phase = "absent"
  <2>1. g \in missed' /\ hcs' = hcs /\ Done
    BY <1>1 DEF Restart
  <2>2. Told(g)'
    BY <1>1, <2>1 DEF Told, Ready, Live
  <2> QED
    BY <2>1, <2>2, LastCall
<1>2. CASE hcs[g].phase # "absent"
  <2>1. g \in queue'
    BY <1>2 DEF Restart
  <2> QED
    BY <2>1, Unquiet DEF Quiet
<1> QED
  BY <1>1, <1>2

LEMMA NextDiscovered ==
  ASSUME TypeOK, DiscoveredInv, [Next]_vars
  PROVE  DiscoveredInv'
<1>1. HeldDC'
  BY NextHeld DEF DiscoveredInv
<1>2. local' = local
  BY DEF Next, vars, AutoImport, GetLocal, GetMC, CreateMC, CheckACM, FindNamespace, TimeOut, CreateKAC,
     Discover, GetRemote, List, CreateDC, UpdateDC, DeleteDC,
     EnvironmentOf, CreateHC, BecomeAvailable, BecomeUnavailable, NextVersion, ChangeUrl, Touch, DeleteHC, Vanish,
     CleanUp, AddNamespace, RemoveMC, ImportByUser, Detach, EditDC, Observe, FlipACM, CallFails, Restart
<1>3. ASSUME NEW g \in HCs
      PROVE  WorkedOn(g)' /\ LeftAlone(g)'
  <2>1. CASE local
    BY <1>2, <2>1, LocalSame
  <2>2. CASE ~local
    <3>1. ASSUME NEW h \in HCs, AutoImport(h)
          PROVE  FALSE
      BY <2>2, <3>1, StepsOf DEF AutoImport, GetLocal, GetMC, CreateMC, CheckACM, FindNamespace, TimeOut, CreateKAC,
         LocalSteps
    <3>2. ASSUME NEW h \in HCs, Discover(h)
          PROVE  WorkedOn(g)' /\ LeftAlone(g)'
      BY <3>2, GetRemoteKeeps, ListKeeps, WriteKeeps DEF Discover
    <3>3. ASSUME NEW h \in HCs, EnvironmentOf(h)
          PROVE  WorkedOn(g)' /\ LeftAlone(g)'
      BY <2>2, <3>3, EnvironmentKeeps
    <3>4. CASE FlipACM \/ UNCHANGED vars
      <4>1. UNCHANGED <<local, hcs, dcs, workVars, blind, missed, queue>>
        BY <3>4 DEF FlipACM, vars, hubVars, historyVars
      <4> QED
        BY <4>1, StillKeeps
    <3> QED
      BY <2>2, <3>1, <3>2, <3>3, <3>4, CallFailsKeeps, RestartKeeps DEF Next
  <2> QED
    BY <2>1, <2>2
<1> QED
  BY <1>1, <1>3 DEF DiscoveredInv

LEMMA DiscoveredSettled == DiscoveredInv => SettledDiscovered
<1> SUFFICES ASSUME DiscoveredInv, NEW h \in HCs, ~local, Resting(h), h \notin blind
             PROVE  /\ Ready(h) => Announced(h)
                    /\ hcs[h].phase = "absent" /\ h \notin missed => DCsOf(h) = {}
  BY DEF SettledDiscovered
<1>1. Told(h)
  BY DEF DiscoveredInv, LeftAlone, Quiet, Resting
<1> QED
  BY <1>1 DEF Told

\* However many HCs, DCs of others, conflicts, failed calls and restarts there are,
\* an agent with no request for an HC has it announced as it is, unless a change
\* raised no event (DiscoveryAgent.Reconcile, discovery_agent.go:72-195).
THEOREM DiscoversAll == Spec => []SettledDiscovered
<1>1. Init => TypeOK /\ DiscoveredInv
  BY InitTyped, InitDiscovered
<1>2. TypeOK /\ DiscoveredInv /\ [Next]_vars => (TypeOK /\ DiscoveredInv)'
  BY NextTyped, NextDiscovered
<1> QED
  BY <1>1, <1>2, DiscoveredSettled, PTL DEF Spec

-----------------------------------------------------------------------------
(* What AutoImportController has nothing left to do for is imported.       *)

\* The safety half of EventuallyImported: an HC that exists, with no request queued
\* or worked on, is imported with its KlusterletAddonConfig, or a request gave that
\* up (AutoImportController.Reconcile, lines 72-131).  It need not be available: a
\* request for one that is not yet is repeated.
SettledImported == \A h \in HCs : local /\ Resting(h) /\ Live(h) => Imported(h)

GaveUp(h) == gaveUp[h] = {"mc", "kac"}
HasMC(h) == mc[h] = "present" \/ GaveUp(h)
HasKAC(h) == h \in kac \/ "kac" \in gaveUp[h]

\* From the call on that finds or creates the MC there is one: nobody deletes the
\* MC of an HC that exists but a user who detaches it, and one that was going when
\* the request began is given up.
PastMC == {"acm", "namespace", "createKAC"}
Importing(h) ==
  /\ job = h /\ pc = "createMC" /\ mc[h] = "deleting" => GaveUp(h)
  /\ job = h /\ pc \in PastMC => HasMC(h)
  /\ job # h => HasMC(h) /\ HasKAC(h)

ImportedOrGivenUp(h) == local /\ h \notin queue /\ Live(h) => Importing(h)
ImportInv == \A h \in HCs : ImportedOrGivenUp(h)

LEMMA InitImport == Init => ImportInv
<1> SUFFICES ASSUME Init, NEW h \in HCs PROVE ~Live(h)
  BY DEF ImportInv, ImportedOrGivenUp
<1> QED
  BY DEF Init, Live

\* What does not touch the HC, its MC or what is left undone for it.
LEMMA SameImport ==
  ASSUME NEW g \in HCs, ImportedOrGivenUp(g), UNCHANGED local, hcs'[g].phase = hcs[g].phase,
         g \in queue => g \in queue', mc'[g] = mc[g], g \in kac => g \in kac', gaveUp'[g] = gaveUp[g],
         IF job = g THEN UNCHANGED <<job, pc>> ELSE job' # g
  PROVE  ImportedOrGivenUp(g)'
<1>1. Live(g)' = Live(g) /\ GaveUp(g)' = GaveUp(g) /\ HasMC(g)' = HasMC(g) /\ (HasKAC(g) => HasKAC(g)')
  BY DEF Live, GaveUp, HasMC, HasKAC
<1> QED
  BY <1>1 DEF ImportedOrGivenUp, Importing

\* What ends with a request queued, or with the HC going or gone.
LEMMA NotAsked ==
  ASSUME NEW g \in HCs, g \in queue' \/ hcs'[g].phase # "live" \/ ~local'
  PROVE  ImportedOrGivenUp(g)'
  BY DEF ImportedOrGivenUp, Live

\* The calls for an HC touch no other.
LEMMA CallsImport ==
  ASSUME TypeOK, ImportInv, NEW g \in HCs,
         GetMC \/ CreateMC \/ CheckACM \/ FindNamespace \/ TimeOut \/ CreateKAC
  PROVE  ImportedOrGivenUp(g)'
<1>1. /\ job \in HCs /\ local /\ UNCHANGED <<local, hcs, queue>>
      /\ job' \in {job, NoJob}
  BY StepsOf DEF GetMC, CreateMC, CheckACM, FindNamespace, TimeOut, CreateKAC, LocalSteps, Goto, Done
<1>2. gaveUp \in [HCs -> SUBSET {"mc", "kac"}] /\ mc \in [HCs -> {"absent", "present", "deleting"}]
  BY DEF TypeOK
<1>3. CASE g # job
  <2>1. mc'[g] = mc[g] /\ (g \in kac => g \in kac')
    BY <1>2, <1>3 DEF GetMC, CreateMC, CheckACM, FindNamespace, TimeOut, CreateKAC, hubVars
  <2>2. gaveUp'[g] = gaveUp[g]
    BY <1>2, <1>3 DEF GetMC, CreateMC, CheckACM, FindNamespace, TimeOut, CreateKAC, Undone, historyVars
  <2> QED
    BY <1>1, <1>3, <2>1, <2>2, SameImport DEF ImportInv
<1>4. CASE g = job
  <2>1. CASE ~(g \notin queue /\ Live(g))
    BY <1>1, <2>1, NotAsked DEF Live
  <2>2. CASE g \notin queue /\ Live(g)
    <3>1. Importing(g)
      BY <1>1, <2>2 DEF ImportInv, ImportedOrGivenUp
    <3>2. CASE GetMC
      <4>1. /\ pc = "getMC" /\ UNCHANGED <<job, mc>>
            /\ pc' = IF mc[g] = "absent" THEN "createMC" ELSE "acm"
        BY <1>4, <3>2 DEF GetMC, Goto, hubVars
      <4>2. mc[g] = "deleting" => GaveUp(g)'
        BY <1>2, <1>4, <3>2 DEF GetMC, Undone, GaveUp
      <4>3. Importing(g)'
        BY <1>2, <1>4, <4>1, <4>2 DEF Importing, HasMC, PastMC
      <4> QED
        BY <4>3 DEF ImportedOrGivenUp
    <3>3. CASE CreateMC
      <4>1. /\ pc = "createMC" /\ UNCHANGED <<job, gaveUp>> /\ pc' = "acm"
            /\ mc'[g] = IF mc[g] = "absent" THEN "present" ELSE mc[g]
        BY <1>2, <1>4, <3>3 DEF CreateMC, Goto, historyVars
      <4>2. HasMC(g)'
        BY <1>2, <1>4, <3>1, <4>1 DEF Importing, HasMC, GaveUp
      <4>3. Importing(g)'
        BY <1>4, <4>1, <4>2 DEF Importing, PastMC
      <4> QED
        BY <4>3 DEF ImportedOrGivenUp
    <3>4. CASE CheckACM \/ FindNamespace \/ TimeOut \/ CreateKAC
      <4>1. pc \in PastMC /\ HasMC(g) /\ mc'[g] = mc[g]
        BY <1>4, <3>1, <3>4 DEF CheckACM, FindNamespace, TimeOut, CreateKAC, PastMC, Importing, hubVars
      <4>2. gaveUp'[g] = gaveUp[g] \/ gaveUp'[g] = gaveUp[g] \cup {"kac"}
        BY <1>2, <1>4, <3>4 DEF CheckACM, FindNamespace, TimeOut, CreateKAC, Undone, historyVars
      <4>3. HasMC(g)'
        BY <1>2, <4>1, <4>2 DEF HasMC, GaveUp
      <4>4. \/ UNCHANGED job /\ pc' \in {"namespace", "createKAC"}
            \/ job' = NoJob /\ HasKAC(g)'
        BY <1>2, <1>4, <3>4 DEF CheckACM, FindNamespace, TimeOut, CreateKAC, Undone, Goto, Done, HasKAC
      <4>5. Importing(g)'
        BY <1>1, <1>4, <4>3, <4>4 DEF Importing
      <4> QED
        BY <4>5 DEF ImportedOrGivenUp
    <3> QED
      BY <3>2, <3>3, <3>4
  <2> QED
    BY <2>1, <2>2
<1> QED
  BY <1>3, <1>4

\* A request for an HC begins anew, and is dropped only if the HC is going or gone.
LEMMA GetLocalImport ==
  ASSUME TypeOK, ImportInv, NEW g \in HCs, NEW h \in HCs, GetLocal(h)
  PROVE  ImportedOrGivenUp(g)'
<1>1. job = NoJob /\ job # g /\ UNCHANGED <<local, hcs, mc, kac>>
  BY DEF GetLocal, Take, hubVars
<1>2. CASE g # h
  <2>1. (g \in queue => g \in queue') /\ gaveUp'[g] = gaveUp[g] /\ job' # g
    BY <1>1, <1>2 DEF TypeOK, GetLocal, workVars
  <2> QED
    BY <1>1, <2>1, SameImport DEF ImportInv
<1>3. CASE g = h
  <2>1. CASE hcs[h].phase = "absent" \/ (hcs[h].phase = "deleting" /\ hcs[h].available)
    BY <1>1, <1>3, <2>1, NotAsked
  <2>2. CASE UNCHANGED <<queue, workVars, gaveUp>>
    BY <1>1, <2>2, SameImport DEF ImportInv, workVars
  <2>3. CASE job' = h /\ pc' = "getMC"
    BY <1>3, <2>3 DEF ImportedOrGivenUp, Importing, PastMC
  <2> QED
    BY <2>1, <2>2, <2>3 DEF GetLocal
<1> QED
  BY <1>2, <1>3

LEMMA HCStepImport ==
  ASSUME TypeOK, ImportInv, NEW g \in HCs, NEW h \in HCs, HCStep(h)
  PROVE  ImportedOrGivenUp(g)'
<1>1. PICK hc \in HCState : Observe(h, hc)
  BY HCObserved
<1>2. /\ hcs'[h] = hc /\ (g # h => hcs'[g] = hcs[g])
      /\ UNCHANGED <<local, acm, hubVars, workVars>>
  BY <1>1, Observed
<1>3. UNCHANGED <<mc, kac, gaveUp, job, pc>> /\ queue \subseteq queue'
  BY <1>2 DEF HCStep, CreateHC, BecomeAvailable, BecomeUnavailable, NextVersion, ChangeUrl, DeleteHC, Vanish,
     Created, Updated, Deleted, historyVars, hubVars, workVars
<1>4. CASE hcs'[g].phase = hcs[g].phase
  BY <1>2, <1>3, <1>4, SameImport DEF ImportInv
<1>5. CASE g = h /\ CreateHC(h)
  BY <1>5, NotAsked DEF CreateHC, Created
<1>6. CASE g = h /\ (DeleteHC(h) \/ Vanish(h))
  <2>1. hcs \in [HCs -> HCState] /\ hcs[h] \in HCState
    BY DEF TypeOK
  <2>2. CASE DeleteHC(h)
    <3>1. hcs'[h].phase = "deleting"
      BY <2>1, <2>2 DEF DeleteHC, Observe, HCState
    <3> QED
      BY <1>6, <3>1, NotAsked
  <2>3. CASE Vanish(h)
    <3>1. hcs'[h] = [hcs[h] EXCEPT !.phase = "absent", !.available = FALSE]
      BY <2>1, <2>3 DEF Vanish, Observe
    <3>2. hcs'[h].phase = "absent"
      BY <2>1, <3>1 DEF HCState
    <3> QED
      BY <1>6, <3>2, NotAsked
  <2> QED
    BY <1>6, <2>2, <2>3
<1>7. CASE g = h /\ (BecomeAvailable(h) \/ BecomeUnavailable(h) \/ NextVersion(h) \/ ChangeUrl(h))
  <2>1. hcs \in [HCs -> HCState] /\ hcs[h] \in HCState
    BY DEF TypeOK
  <2>2. hcs'[h].phase = hcs[h].phase
    BY <1>7, <2>1 DEF BecomeAvailable, BecomeUnavailable, NextVersion, ChangeUrl, Observe, HCState
  <2> QED
    BY <1>4, <1>7, <2>2
<1> QED
  BY <1>2, <1>4, <1>5, <1>6, <1>7 DEF HCStep

LEMMA EnvironmentImport ==
  ASSUME TypeOK, ImportInv, NEW g \in HCs, NEW h \in HCs, EnvironmentOf(h)
  PROVE  ImportedOrGivenUp(g)'
<1>1. mc \in [HCs -> {"absent", "present", "deleting"}] /\ gaveUp \in [HCs -> SUBSET {"mc", "kac"}]
  BY DEF TypeOK
<1>2. CASE HCStep(h)
  BY <1>2, HCStepImport
<1>3. CASE ~HCStep(h)
  <2>1. UNCHANGED <<local, hcs, job, pc>> /\ queue \subseteq queue'
    BY <1>3 DEF EnvironmentOf, HCStep, Touch, CleanUp, AddNamespace, RemoveMC, ImportByUser, Detach, EditDC, workVars,
       Updated
  <2>2. CASE g # h \/ Touch(h) \/ AddNamespace(h) \/ EditDC(h)
    <3>1. mc'[g] = mc[g] /\ (g \in kac => g \in kac') /\ gaveUp'[g] = gaveUp[g]
      BY <1>1, <1>3, <2>2 DEF EnvironmentOf, HCStep, Touch, CleanUp, AddNamespace, RemoveMC, ImportByUser, Detach,
         EditDC, hubVars, historyVars
    <3> QED
      BY <2>1, <3>1, SameImport DEF ImportInv
  <2>3. CASE g = h /\ CleanUp(h)
    <3>1. CASE hcs[h].phase = "absent"
      BY <2>1, <2>3, <3>1, NotAsked
    <3>2. CASE hcs[h].phase # "absent"
      <4>1. mc'[g] = mc[g] /\ UNCHANGED <<kac, gaveUp>>
        BY <1>1, <2>3, <3>2 DEF CleanUp, historyVars
      <4> QED
        BY <2>1, <4>1, SameImport DEF ImportInv
    <3> QED
      BY <3>1, <3>2
  <2>4. CASE g = h /\ (RemoveMC(h) \/ ImportByUser(h) \/ Detach(h))
    <3>1. CASE ~(local /\ g \notin queue /\ Live(g))
      BY <2>1, <3>1, NotAsked DEF Live
    <3>2. CASE local /\ g \notin queue /\ Live(g)
      <4>1. Importing(g)
        BY <3>2 DEF ImportInv, ImportedOrGivenUp
      <4>2. CASE RemoveMC(h)
        <5>1. mc[g] = "deleting" /\ mc'[g] = "absent" /\ UNCHANGED gaveUp
          BY <1>1, <2>4, <4>2 DEF RemoveMC, historyVars
        <5>2. HasMC(g) => HasMC(g)' /\ HasKAC(g)'
          BY <5>1 DEF HasMC, HasKAC, GaveUp
        <5> QED
          BY <2>1, <4>1, <5>1, <5>2 DEF Importing, ImportedOrGivenUp
      <4>3. CASE ImportByUser(h)
        <5>1. mc'[g] = "present" /\ UNCHANGED <<kac, gaveUp>>
          BY <1>1, <2>4, <4>3 DEF ImportByUser, historyVars
        <5>2. HasMC(g)' /\ (HasKAC(g) => HasKAC(g)')
          BY <5>1 DEF HasMC, HasKAC
        <5> QED
          BY <2>1, <4>1, <5>1, <5>2 DEF Importing, ImportedOrGivenUp
      <4>4. CASE Detach(h)
        <5>1. GaveUp(g)'
          BY <1>1, <2>4, <4>4 DEF Detach, GaveUp
        <5>2. HasMC(g)' /\ HasKAC(g)'
          BY <5>1 DEF HasMC, HasKAC, GaveUp
        <5> QED
          BY <5>1, <5>2 DEF Importing, ImportedOrGivenUp
      <4> QED
        BY <2>4, <4>2, <4>3, <4>4
    <3> QED
      BY <3>1, <3>2
  <2> QED
    BY <1>3, <2>2, <2>3, <2>4 DEF EnvironmentOf, HCStep
<1> QED
  BY <1>2, <1>3

\* What a failed call leaves undone is noted.
LEMMA CallFailsImport ==
  ASSUME TypeOK, ImportInv, NEW g \in HCs, CallFails
  PROVE  ImportedOrGivenUp(g)'
<1>1. UNCHANGED <<local, hcs, mc, kac>>
  BY DEF CallFails, hubVars
<1>2. gaveUp \in [HCs -> SUBSET {"mc", "kac"}]
  BY DEF TypeOK
<1>3. CASE ~local
  BY <1>1, <1>3, NotAsked
<1>4. CASE local /\ pc = "idle"
  <2>1. PICK h \in queue : queue' = queue \ {h} /\ gaveUp' = [gaveUp EXCEPT ![h] = {"mc", "kac"}]
    BY <1>4 DEF CallFails, LocalSteps, RemoteSteps
  <2>2. UNCHANGED <<job, pc>> /\ job = NoJob
    <3>1. UNCHANGED workVars
      BY <1>4 DEF CallFails, LocalSteps, RemoteSteps
    <3> QED
      BY <1>4, <3>1 DEF TypeOK, workVars
  <2>3. CASE g = h
    <3>1. GaveUp(g)'
      BY <1>2, <2>1, <2>3 DEF GaveUp
    <3>2. HasMC(g)' /\ HasKAC(g)'
      BY <3>1 DEF HasMC, HasKAC, GaveUp
    <3> QED
      BY <3>1, <3>2 DEF ImportedOrGivenUp, Importing
  <2>4. CASE g # h
    BY <1>1, <1>2, <2>1, <2>2, <2>4, SameImport DEF ImportInv
  <2> QED
    BY <2>3, <2>4
<1>5. CASE local /\ pc # "idle"
  <2>1. /\ pc \in LocalSteps /\ job \in HCs /\ UNCHANGED queue
        /\ \/ pc = "getMC" /\ Goto("acm") /\ Undone({"mc", "kac"})
           \/ pc = "createMC" /\ Done /\ Undone({"mc", "kac"})
           \/ pc \in PastMC /\ Done /\ Undone({"kac"})
    BY <1>5, StepsOf DEF CallFails, LocalSteps, PastMC
  <2>2. job' \in {job, NoJob}
    BY <2>1 DEF Goto, Done
  <2>3. CASE g # job
    <3>1. gaveUp'[g] = gaveUp[g]
      BY <1>2, <2>1, <2>3 DEF Undone
    <3> QED
      BY <1>1, <2>1, <2>2, <2>3, <3>1, SameImport DEF ImportInv
  <2>4. CASE g = job
    <3>1. CASE pc \in {"getMC", "createMC"}
      <4>1. GaveUp(g)' /\ pc' \in {"acm", "idle"}
        BY <1>2, <2>1, <2>4, <3>1 DEF Undone, GaveUp, PastMC, Goto, Done
      <4>2. HasMC(g)' /\ HasKAC(g)'
        BY <4>1 DEF HasMC, HasKAC, GaveUp
      <4> QED
        BY <4>1, <4>2 DEF ImportedOrGivenUp, Importing
    <3>2. CASE pc \in PastMC
      <4>1. job' = NoJob /\ gaveUp'[g] = gaveUp[g] \cup {"kac"}
        BY <1>2, <2>1, <2>4, <3>2 DEF Undone, PastMC, Done
      <4>2. HasKAC(g)' /\ (HasMC(g) => HasMC(g)')
        BY <1>1, <1>2, <4>1 DEF HasMC, HasKAC, GaveUp
      <4> QED
        BY <1>1, <2>1, <2>4, <3>2, <4>1, <4>2 DEF ImportInv, ImportedOrGivenUp, Importing, Live
    <3> QED
      BY <2>1, <3>1, <3>2
  <2> QED
    BY <2>3, <2>4
<1> QED
  BY <1>3, <1>4, <1>5

LEMMA NextImport ==
  ASSUME TypeOK, ImportInv, [Next]_vars
  PROVE  ImportInv'
<1> SUFFICES ASSUME NEW g \in HCs
             PROVE  ImportedOrGivenUp(g)'
  BY DEF ImportInv
<1>1. ASSUME NEW h \in HCs, AutoImport(h)
      PROVE  ImportedOrGivenUp(g)'
  BY <1>1, GetLocalImport, CallsImport DEF AutoImport
<1>2. ASSUME NEW h \in HCs, Discover(h)
      PROVE  ImportedOrGivenUp(g)'
  <2>1. ~local /\ UNCHANGED local
    BY <1>2, StepsOf DEF Discover, GetRemote, List, CreateDC, UpdateDC, DeleteDC, RemoteSteps
  <2> QED
    BY <2>1, NotAsked
<1>3. ASSUME NEW h \in HCs, EnvironmentOf(h)
      PROVE  ImportedOrGivenUp(g)'
  BY <1>3, EnvironmentImport
<1>4. CASE FlipACM \/ UNCHANGED vars
  <2>1. UNCHANGED <<local, hcs, queue, mc, kac, gaveUp, job, pc>>
    BY <1>4 DEF FlipACM, vars, hubVars, workVars, historyVars
  <2> QED
    BY <2>1, SameImport DEF ImportInv
<1>5. CASE Restart
  <2>1. g \in queue' \/ hcs'[g].phase # "live"
    BY <1>5 DEF Restart
  <2> QED
    BY <2>1, NotAsked
<1> QED
  BY <1>1, <1>2, <1>3, <1>4, <1>5, CallFailsImport DEF Next

LEMMA ImportSettled == ImportInv => SettledImported
<1> SUFFICES ASSUME ImportInv, NEW h \in HCs, local, Resting(h), Live(h)
             PROVE  Imported(h)
  BY DEF SettledImported
<1>1. HasMC(h) /\ HasKAC(h)
  BY DEF ImportInv, ImportedOrGivenUp, Importing, Resting
<1> QED
  BY <1>1 DEF Imported, HasMC, HasKAC, GaveUp

\* No deletion and re-creation of an HC, no detached cluster, failed call, timeout
\* or restart leaves an HC unimported that no request will look at again, unless a
\* request gave it up (AutoImportController.Reconcile,
\* auto_import_controller.go:72-131).
THEOREM ImportsAll == Spec => []SettledImported
<1>1. Init => TypeOK /\ ImportInv
  BY InitTyped, InitImport
<1>2. TypeOK /\ ImportInv /\ [Next]_vars => (TypeOK /\ ImportInv)'
  BY NextTyped, NextImport
<1> QED
  BY <1>1, <1>2, ImportSettled, PTL DEF Spec

-----------------------------------------------------------------------------
(* The state of the addon.                                                 *)
(*                                                                         *)
(* AddonStatus describes another controller, with a worker of its own: no  *)
(* variable is shared with the controllers above.                          *)

USE StatusAssumption DEF StatusAssumption

Conditions == [status: {"none", "True", "False"}, reasons: SUBSET Reasons]

-----------------------------------------------------------------------------
(* The condition that is computed.                                         *)

\* checkDeployments returns a condition.
LEMMA CheckTyped ==
  ASSUME NEW check \in BOOLEAN, NEW shapes \in [Deployments -> AllShapes]
  PROVE  CheckDeployments(check, shapes) \in Conditions
<1> DEFINE reasons ==
      {OperatorReasons[s] : s \in {shapes[Operator]} \ {"ready"}}
        \cup {DNSReasons[s] : s \in {t \in {shapes[ExternalDNS]} \ {"ready"} : check}}
<1>1. /\ shapes[Operator] \in AllShapes
      /\ shapes[ExternalDNS] \in AllShapes
  BY DEF Deployments
<1>2. AllShapes \ {"ready"} = DOMAIN OperatorReasons /\ DOMAIN DNSReasons
  = DOMAIN OperatorReasons
  BY DEF AllShapes, OperatorReasons, DNSReasons
<1>3. reasons \subseteq Reasons
  BY <1>1, <1>2 DEF Reasons
<1>4. Healthy \in Conditions /\ Condition("True", reasons) \in Conditions
  BY <1>3 DEF Healthy, Condition, Conditions, Reasons
<1> QED
  BY <1>4 DEF CheckDeployments

\* It says what SettledDegraded asks for.
LEMMA CheckTells ==
  ASSUME deployment \in [Deployments -> AllShapes], dnsSecret \in BOOLEAN
  PROVE  LET c == CheckDeployments(dnsSecret, deployment)
         IN  /\ c.status = IF Unhealthy = {} THEN "False" ELSE "True"
             /\ Unhealthy # {} => c.reasons = {Reason(d) : d \in Unhealthy}
<1> DEFINE reasons ==
      {OperatorReasons[s] : s \in {deployment[Operator]} \ {"ready"}}
        \cup {DNSReasons[s] : s \in {t \in {deployment[ExternalDNS]} \ {"ready"} : dnsSecret}}
<1>1. reasons = {Reason(d) : d \in Unhealthy}
  <2>1. ASSUME NEW x \in reasons
        PROVE  x \in {Reason(d) : d \in Unhealthy}
    <3>1. CASE x \in {OperatorReasons[s] : s \in {deployment[Operator]} \ {"ready"}}
      <4>1. Operator \in Unhealthy /\ x = Reason(Operator)
        BY <3>1 DEF Unhealthy, Counted, Reason
      <4> QED
        BY <4>1
    <3>2. CASE x \in {DNSReasons[s] : s \in {t \in {deployment[ExternalDNS]} \ {"ready"} : dnsSecret}}
      <4>1. ExternalDNS \in Unhealthy /\ x = Reason(ExternalDNS)
        BY <3>2 DEF Unhealthy, Counted, Reason
      <4> QED
        BY <4>1
    <3> QED
      BY <3>1, <3>2
  <2>2. ASSUME NEW d \in Unhealthy
        PROVE  Reason(d) \in reasons
    BY <2>2 DEF Unhealthy, Counted, Reason
  <2> QED
    BY <2>1, <2>2
<1>2. (reasons = {}) = (Unhealthy = {})
  BY <1>1
<1>3. CheckDeployments(dnsSecret, deployment)
        = IF reasons # {} THEN Condition("True", reasons) ELSE Healthy
  BY DEF CheckDeployments
<1> QED
  BY <1>1, <1>2, <1>3 DEF Condition, Healthy

\* It depends on the external DNS deployment only if that is checked.
LEMMA CheckSame ==
  ASSUME NEW check \in BOOLEAN, NEW f, NEW g,
         f[Operator] = g[Operator], check => f[ExternalDNS] = g[ExternalDNS]
  PROVE  CheckDeployments(check, f) = CheckDeployments(check, g)
  BY DEF CheckDeployments

LEMMA WantedTyped ==
  ASSUME StatusTypeOK
  PROVE  Wanted \in Conditions
<1>1. Initial \in Conditions
  BY DEF Initial, Condition, Conditions, Reasons
<1>2. CheckDeployments(checkDNS, read) \in Conditions
  BY CheckTyped DEF StatusTypeOK
<1> QED
  BY <1>1, <1>2 DEF Wanted

-----------------------------------------------------------------------------
(* Type correctness.                                                       *)

\* What a step does to the agent's variables that are not a status.
AgentTyped ==
  /\ stage' \in Starting \cup Working \cup {"idle"}
  /\ due' \subseteq Deployments
  /\ subject' \in Deployments \cup {None} /\ (subject' # None) = (stage' \in Working)
  /\ checkDNS' \in BOOLEAN
  /\ read' \in [Deployments -> AllShapes]
  /\ tries' \in 0 .. MaxTries
  /\ untold' \subseteq {"secret", "addon", "restart"}

StatusTyped(s, n) == s # None => s.degraded \in Conditions /\ s.others \in 0 .. n
StatusesTyped == StatusTyped(addon', written') /\ StatusTyped(copy', written')

AroundTyped ==
  /\ deployment' \in [Deployments -> AllShapes]
  /\ dnsSecret' \in BOOLEAN
  /\ faults' \in 0 .. MaxFaults /\ written' \in 0 .. faults'

LEMMA StatusAssembled ==
  ASSUME AgentTyped, StatusesTyped, AroundTyped
  PROVE  StatusTypeOK'
  BY DEF AgentTyped, StatusesTyped, StatusTyped, AroundTyped, StatusTypeOK, Conditions

LEMMA StatusesKept ==
  ASSUME StatusTypeOK
  PROVE  StatusTyped(addon, written) /\ StatusTyped(copy, written)
  BY DEF StatusTypeOK, StatusTyped, Conditions

\* The agent's own steps change nothing of the world but the status.
LEMMA AroundKept ==
  ASSUME StatusTypeOK, Alone
  PROVE  AroundTyped /\ written' = written
  BY DEF StatusTypeOK, Alone, AroundTyped

LEMMA WatchTyped ==
  ASSUME StatusTypeOK, Watch
  PROVE  /\ stage' = "idle" /\ due' \subseteq Deployments
         /\ untold' \subseteq {"secret", "addon", "restart"}
<1>1. due' \subseteq Deployments
  BY DEF Watch
<1> QED
  BY <1>1 DEF StatusTypeOK, Watch

LEMMA StartTyped ==
  ASSUME StatusTypeOK, ReadInitial \/ StatusRestart
  PROVE  StatusTypeOK'
<1>1. AgentTyped
  <2>1. CASE StatusRestart
    BY <2>1 DEF StatusTypeOK, StatusRestart, AgentTyped, Starting, Working
  <2>2. CASE ReadInitial
    <3>1. UNCHANGED <<subject, checkDNS, read>> /\ subject = None
      BY <2>2 DEF StatusTypeOK, ReadInitial, Working
    <3>2. tries' \in 0 .. MaxTries
      BY <2>2 DEF StatusTypeOK, ReadInitial
    <3>3. /\ stage' \in {"idle", "initread", "down"}
          /\ due' \subseteq Deployments /\ untold' \subseteq {"secret", "addon", "restart"}
      <4>1. CASE Watch
        BY <4>1, WatchTyped
      <4>2. CASE ~Watch
        BY <2>2, <4>2 DEF StatusTypeOK, ReadInitial, Stops
      <4> QED
        BY <4>1, <4>2
    <3> QED
      BY <3>1, <3>2, <3>3 DEF StatusTypeOK, AgentTyped, Starting, Working
  <2> QED
    BY <2>1, <2>2
<1>2. AroundTyped /\ written' = written
  BY AroundKept DEF ReadInitial, StatusRestart
<1>3. StatusesTyped
  BY <1>2, StatusesKept DEF ReadInitial, StatusRestart, StatusesTyped
<1> QED
  BY <1>1, <1>2, <1>3, StatusAssembled DEF StatusTypeOK

LEMMA ReadsTyped ==
  ASSUME StatusTypeOK, TakeDeployment \/ ReadSecret \/ ReadOperator \/ ReadExternalDNS
  PROVE  StatusTypeOK'
<1>1. AgentTyped
  <2>1. CASE TakeDeployment
    <3>1. PICK d \in due : subject' = d /\ due' = due \ {d}
      BY <2>1 DEF TakeDeployment
    <3>2. d \in Deployments /\ d # None
      BY <3>1 DEF StatusTypeOK
    <3> QED
      BY <2>1, <3>1, <3>2 DEF StatusTypeOK, TakeDeployment, AgentTyped, Starting, Working
  <2>2. CASE ReadSecret
    BY <2>2 DEF StatusTypeOK, ReadSecret, AgentTyped, Starting, Working
  <2>3. CASE ReadOperator
    <3>1. deployment[Operator] \in AllShapes
      BY DEF StatusTypeOK, Deployments
    <3>2. read' \in [Deployments -> AllShapes]
      BY <2>3, <3>1 DEF StatusTypeOK, ReadOperator
    <3> QED
      BY <2>3, <3>2 DEF StatusTypeOK, ReadOperator, AgentTyped, Starting, Working
  <2>4. CASE ReadExternalDNS
    <3>1. deployment[ExternalDNS] \in AllShapes
      BY DEF StatusTypeOK, Deployments
    <3>2. read' \in [Deployments -> AllShapes]
      BY <2>4, <3>1 DEF StatusTypeOK, ReadExternalDNS
    <3> QED
      BY <2>4, <3>2 DEF StatusTypeOK, ReadExternalDNS, AgentTyped, Starting,
         Working
  <2> QED
    BY <2>1, <2>2, <2>3, <2>4
<1>2. AroundTyped /\ written' = written
  BY AroundKept DEF TakeDeployment, ReadSecret, ReadOperator, ReadExternalDNS
<1>3. StatusesTyped
  BY <1>2, StatusesKept DEF TakeDeployment, ReadSecret, ReadOperator, ReadExternalDNS, StatusesTyped
<1> QED
  BY <1>1, <1>2, <1>3, StatusAssembled DEF StatusTypeOK

\* How an update ends, at startup and in a reconcile.
LEMMA EndsTyped ==
  ASSUME StatusTypeOK, Ends, stage \in {"initread", "initput", "read", "put"},
         UNCHANGED <<checkDNS, read, tries>>
  PROVE  AgentTyped
<1>1. CASE stage \in Starting
  <2>1. Watch /\ UNCHANGED subject /\ subject = None
    BY <1>1 DEF Ends, StatusTypeOK, Starting, Working
  <2> QED
    BY <2>1, WatchTyped DEF StatusTypeOK, AgentTyped, Starting, Working
<1>2. CASE stage \notin Starting
  <2>1. EndReconcile /\ UNCHANGED <<due, untold>>
    BY <1>2 DEF Ends
  <2> QED
    BY <2>1 DEF EndReconcile, StatusTypeOK, AgentTyped, Starting, Working
<1> QED
  BY <1>1, <1>2

LEMMA UpdateTyped ==
  ASSUME StatusTypeOK, ReadStatus \/ WriteStatus \/ RetryOnConflict
  PROVE  StatusTypeOK'
<1>1. AgentTyped
  <2>1. CASE ReadStatus
    <3>1. CASE Ends
      BY <2>1, <3>1, EndsTyped DEF ReadStatus
    <3>2. CASE ~Ends
      <4>1. UNCHANGED <<due, subject, untold, checkDNS, read, tries>>
        BY <2>1, <3>2 DEF ReadStatus
      <4>2. (stage = "read" /\ stage' = "put") \/ (stage = "initread" /\ stage' = "initput")
        BY <2>1, <3>2 DEF ReadStatus
      <4> QED
        BY <4>1, <4>2 DEF StatusTypeOK, AgentTyped, Starting, Working
    <3> QED
      BY <3>1, <3>2
  <2>2. CASE WriteStatus
    BY <2>2, EndsTyped DEF WriteStatus
  <2>3. CASE RetryOnConflict
    <3>1. tries' \in 0 .. MaxTries
      BY <2>3 DEF StatusTypeOK, RetryOnConflict
    <3>2. due' \subseteq Deployments
      BY <2>3 DEF StatusTypeOK, RetryOnConflict, Working
    <3>3. subject' \in Deployments \cup {None} /\ (subject' # None) = (stage' \in Working)
      BY <2>3 DEF StatusTypeOK, RetryOnConflict, Starting, Working,
         EndReconcile, Stops
    <3>4. stage' \in Starting \cup Working \cup {"idle"}
      BY <2>3 DEF StatusTypeOK, RetryOnConflict, Starting, Working,
         EndReconcile, Stops
    <3> QED
      BY <2>3, <3>1, <3>2, <3>3, <3>4 DEF StatusTypeOK, RetryOnConflict, AgentTyped
  <2> QED
    BY <2>1, <2>2, <2>3
<1>2. AroundTyped /\ written' = written
  BY AroundKept DEF ReadStatus, WriteStatus, RetryOnConflict
<1>3. StatusTyped(copy', written)
  <2>1. copy' \in {copy, addon, None}
    BY DEF ReadStatus, WriteStatus, RetryOnConflict
  <2> QED
    BY <2>1, StatusesKept DEF StatusTyped
<1>4. StatusTyped(addon', written)
  <2>1. CASE WriteStatus
    <3>1. addon # None /\ addon.others = copy.others /\ addon' = Status(Wanted, addon.others)
      BY <2>1 DEF WriteStatus, Conflict
    <3> QED
      BY <3>1, WantedTyped, StatusesKept DEF Status, StatusTyped
  <2>2. CASE ReadStatus \/ RetryOnConflict
    BY <2>2, StatusesKept DEF ReadStatus, RetryOnConflict
  <2> QED
    BY <2>1, <2>2
<1> QED
  BY <1>1, <1>2, <1>3, <1>4, StatusAssembled DEF StatusesTyped, StatusTypeOK

SurroundingsStep ==
  \/ Fail \/ Crash \/ \E d \in Deployments : ChangeDeployment(d)
  \/ ChangeSecret \/ WriteOthers \/ ChangeAddon

LEMMA SurroundingsTyped ==
  ASSUME StatusTypeOK, SurroundingsStep
  PROVE  StatusTypeOK'
<1>1. AgentTyped
  <2>1. CASE Fail
    BY <2>1 DEF StatusTypeOK, Fail, AgentTyped, Starting, Working
  <2>2. CASE Crash
    BY <2>2 DEF StatusTypeOK, Crash, AgentTyped, Starting, Working
  <2>3. ASSUME NEW d \in Deployments, ChangeDeployment(d)
        PROVE  AgentTyped
    <3>1. due' \subseteq Deployments
      BY <2>3 DEF StatusTypeOK, ChangeDeployment
    <3> QED
      BY <2>3, <3>1 DEF StatusTypeOK, ChangeDeployment, AgentTyped
  <2>4. CASE ChangeSecret \/ WriteOthers \/ ChangeAddon
    <3>1. UNCHANGED agent /\ untold' \subseteq {"secret", "addon", "restart"}
      BY <2>4 DEF StatusTypeOK, ChangeSecret, WriteOthers, ChangeAddon
    <3> QED
      BY <3>1 DEF StatusTypeOK, agent, AgentTyped
  <2> QED
    BY <2>1, <2>2, <2>3, <2>4 DEF SurroundingsStep
<1>2. AroundTyped
  <2>1. faults' \in 0 .. MaxFaults /\ faults' = faults + 1 /\ written' \in {written, written + 1}
    BY DEF StatusTypeOK, SurroundingsStep, Fail, Crash, ChangeDeployment,
       ChangeSecret, WriteOthers, ChangeAddon,
       Fault
  <2>2. deployment' \in [Deployments -> AllShapes] /\ dnsSecret' \in BOOLEAN
    BY DEF StatusTypeOK, SurroundingsStep, Fail, Crash, ChangeDeployment,
       ChangeSecret, WriteOthers, ChangeAddon
  <2> QED
    BY <2>1, <2>2 DEF StatusTypeOK, AroundTyped
<1>3. written' \in Nat /\ written \in Nat /\ written <= written'
  BY DEF StatusTypeOK, SurroundingsStep, Fail, Crash, ChangeDeployment,
     ChangeSecret, WriteOthers, ChangeAddon
<1>4. copy' \in {copy, None}
  BY DEF SurroundingsStep, Fail, Crash, ChangeDeployment, ChangeSecret,
     WriteOthers, ChangeAddon, agent
<1>5. StatusTyped(copy', written')
  BY <1>3, <1>4, StatusesKept DEF StatusTyped
<1>6. StatusTyped(addon', written')
  <2>1. CASE WriteOthers
    <3>1. addon # None /\ addon' = Status(addon.degraded, written')
      BY <2>1 DEF WriteOthers
    <3> QED
      BY <3>1, <1>3, StatusesKept DEF Status, StatusTyped
  <2>2. CASE ChangeAddon
    <3>1. addon' = None \/ addon' = Status(NotSet, written')
      BY <2>2 DEF ChangeAddon
    <3>2. NotSet \in Conditions
      BY DEF NotSet, Condition, Conditions
    <3> QED
      BY <3>1, <3>2, <1>3 DEF Status, StatusTyped
  <2>3. CASE UNCHANGED addon
    BY <2>3, <1>3, StatusesKept DEF StatusTyped
  <2> QED
    BY <2>1, <2>2, <2>3 DEF SurroundingsStep, Fail, Crash, ChangeDeployment, ChangeSecret
<1> QED
  BY <1>1, <1>2, <1>5, <1>6, StatusAssembled DEF StatusesTyped, StatusTypeOK

LEMMA InitStatus == StatusInit => StatusTypeOK
<1> SUFFICES ASSUME StatusInit PROVE StatusTypeOK
  OBVIOUS
<1>1. addon.degraded \in Conditions /\ addon.others = 0 /\ copy = None
  BY DEF StatusInit, Status, NotSet, Condition, Conditions
<1>2. /\ deployment \in [Deployments -> AllShapes]
      /\ read \in [Deployments -> AllShapes]
  BY DEF StatusInit, AllShapes
<1>3. /\ stage = "init" /\ due = {} /\ subject = None
      /\ written = 0 /\ faults = 0 /\ tries = 0 /\ untold = {}
      /\ dnsSecret \in BOOLEAN /\ checkDNS \in BOOLEAN
  BY DEF StatusInit
<1>4. \A s \in {addon, copy} \ {None} : s.degraded \in Conditions /\ s.others \in 0 .. written
  BY <1>1, <1>3
<1> QED
  BY <1>2, <1>3, <1>4 DEF StatusTypeOK, Starting, Working, Conditions

LEMMA NextStatus == StatusTypeOK /\ [StatusNext]_statusVars => StatusTypeOK'
<1> SUFFICES ASSUME StatusTypeOK, [StatusNext]_statusVars PROVE StatusTypeOK'
  OBVIOUS
<1>1. CASE UNCHANGED statusVars
  BY <1>1 DEF StatusTypeOK, statusVars, agent
<1>2. CASE StatusNext
  BY <1>2, StartTyped, ReadsTyped, UpdateTyped, SurroundingsTyped DEF StatusNext, Agent, SurroundingsStep
<1> QED
  BY <1>1, <1>2

\* The types hold for every bound (all of addon_status_controller.go).
THEOREM StatusTypeCorrect == StatusSpec => []StatusTypeOK
  BY InitStatus, NextStatus, PTL DEF StatusSpec

-----------------------------------------------------------------------------
(* The conditions of other agents.                                         *)

LEMMA InitOthers == StatusInit => OthersKept
  BY DEF StatusInit, OthersKept, Status

\* Without a conflict the copy's conditions are those that are stored.
LEMMA NextOthers ==
  ASSUME OthersKept, [StatusNext]_statusVars
  PROVE  OthersKept'
<1>1. CASE WriteStatus
  <2>1. addon # None /\ addon.others = copy.others /\ addon' = Status(Wanted, addon.others)
    BY <1>1 DEF WriteStatus, Conflict
  <2>2. UNCHANGED written
    BY <1>1 DEF WriteStatus, Alone
  <2> QED
    BY <2>1, <2>2 DEF OthersKept, Status
<1>2. CASE WriteOthers
  BY <1>2 DEF WriteOthers, OthersKept, Status
<1>3. CASE ChangeAddon
  BY <1>3 DEF ChangeAddon, OthersKept, Status
<1>4. CASE UNCHANGED <<addon, written>>
  BY <1>4 DEF OthersKept
<1>5. [StatusNext]_statusVars => \/ WriteStatus \/ WriteOthers \/ ChangeAddon
  \/ UNCHANGED <<addon, written>>
  BY DEF StatusNext, statusVars, Agent, ReadInitial, TakeDeployment, ReadSecret,
     ReadOperator, ReadExternalDNS, ReadStatus,
     RetryOnConflict, StatusRestart, Fail, Crash, ChangeDeployment,
     ChangeSecret, Alone
<1> QED
  BY <1>1, <1>2, <1>3, <1>4, <1>5

\* No write of this agent undoes one of another, however many attempts it may take
\* (updateStatus, addon_status_controller.go:178-214).
THEOREM OthersNeverLost == StatusSpec => []OthersKept
  BY InitOthers, NextOthers, PTL DEF StatusSpec

-----------------------------------------------------------------------------
(* What the condition tells.                                               *)

\* What was read so far in this reconcile is still true, unless an event is queued.
SameOperator == due # {} \/ read[Operator] = deployment[Operator]
SameExternalDNS == due # {} \/ (checkDNS => read[ExternalDNS] = deployment[ExternalDNS])

ReadsCurrent ==
  /\ stage \in {"operator", "dns", "read", "put"} => checkDNS = dnsSecret
  /\ stage \in {"dns", "read", "put"} => SameOperator
  /\ stage \in {"read", "put"} => SameExternalDNS

\* And so is the condition, between two reconciles.
IdleCurrent ==
  stage = "idle" /\ due = {} /\ addon # None
    => addon.degraded = CheckDeployments(dnsSecret, deployment)

CurrentInv == untold = {} => ReadsCurrent /\ IdleCurrent

LEMMA InitCurrent == StatusInit => CurrentInv
  BY DEF StatusInit, CurrentInv, ReadsCurrent, IdleCurrent

\* The updates: what is wanted is what is true, if nothing is queued.
LEMMA WantedCurrent ==
  ASSUME StatusTypeOK, CurrentInv, untold = {}, due = {}, stage \in {"read", "put"}
  PROVE  Wanted = CheckDeployments(dnsSecret, deployment)
<1>1. /\ checkDNS = dnsSecret /\ checkDNS \in BOOLEAN
      /\ read[Operator] = deployment[Operator]
      /\ checkDNS => read[ExternalDNS] = deployment[ExternalDNS]
  BY DEF StatusTypeOK, CurrentInv, ReadsCurrent, SameOperator, SameExternalDNS
<1>2. CheckDeployments(checkDNS, read) = CheckDeployments(checkDNS, deployment)
  BY <1>1, CheckSame DEF StatusTypeOK
<1> QED
  BY <1>1, <1>2 DEF Wanted, Starting

LEMMA WatchCurrent ==
  ASSUME Watch
  PROVE  CurrentInv'
  BY DEF Watch, CurrentInv, ReadsCurrent, IdleCurrent

LEMMA EndsCurrent ==
  ASSUME StatusTypeOK, CurrentInv, Ends, Alone, stage \in {"initread", "initput", "read", "put"},
         stage \in {"read", "put"} => addon' = None \/ addon'.degraded = Wanted
  PROVE  CurrentInv'
<1>1. CASE stage \in Starting
  BY <1>1, WatchCurrent DEF Ends
<1>2. CASE stage \notin Starting
  <2>1. stage \in {"read", "put"} /\ stage' = "idle" /\ UNCHANGED <<due, untold, dnsSecret, deployment>>
    BY <1>2 DEF Ends, EndReconcile, Starting, Alone
  <2>2. ASSUME untold = {}, due = {}, addon' # None
        PROVE  addon'.degraded = CheckDeployments(dnsSecret, deployment)
    BY <2>1, <2>2, WantedCurrent
  <2>3. CheckDeployments(dnsSecret, deployment)' = CheckDeployments(dnsSecret, deployment)
    BY <2>1 DEF CheckDeployments
  <2> QED
    BY <2>1, <2>2, <2>3 DEF CurrentInv, ReadsCurrent, IdleCurrent
<1> QED
  BY <1>1, <1>2

LEMMA UpdateCurrent ==
  ASSUME StatusTypeOK, CurrentInv, ReadStatus \/ WriteStatus \/ RetryOnConflict
  PROVE  CurrentInv'
<1>1. CASE Ends
  <2>1. CASE ReadStatus
    <3>1. stage \in {"initread", "read"} /\ Alone /\ UNCHANGED addon
      BY <2>1 DEF ReadStatus
    <3>2. addon # None => addon.degraded = Wanted
      BY <1>1, <2>1 DEF ReadStatus, Ends, EndReconcile, Watch
    <3> QED
      BY <1>1, <3>1, <3>2, EndsCurrent
  <2>2. CASE WriteStatus
    <3>1. stage \in {"initput", "put"} /\ Alone /\ addon'.degraded = Wanted
      BY <2>2 DEF WriteStatus, Status
    <3> QED
      BY <1>1, <3>1, EndsCurrent
  <2>3. CASE RetryOnConflict
    <3>1. UNCHANGED <<untold, read, checkDNS, deployment, dnsSecret>> /\ stage \in {"initput", "put"}
      BY <2>3 DEF RetryOnConflict, Alone
    <3>2. \/ stage = "put" /\ stage' = "read" /\ due' = due
          \/ stage' \in {"initread", "down"}
          \/ stage' = "idle" /\ due' # {}
      BY <2>3 DEF RetryOnConflict, EndReconcile, Stops
    <3> QED
      BY <3>1, <3>2 DEF CurrentInv, ReadsCurrent, IdleCurrent, SameOperator, SameExternalDNS
  <2> QED
    BY <2>1, <2>2, <2>3
<1>2. CASE ~Ends
  <2>1. UNCHANGED <<untold, read, checkDNS, deployment, dnsSecret>> /\ stage \in {"initread", "read", "initput",
  "put"}
    BY <1>2 DEF ReadStatus, WriteStatus, RetryOnConflict, Alone
  <2>2. \/ stage = "put" /\ stage' = "read" /\ due' = due
        \/ stage = "read" /\ stage' = "put" /\ due' = due
        \/ stage' \in {"initread", "initput", "down"}
        \/ stage' = "idle" /\ due' # {}
    BY <1>2 DEF ReadStatus, WriteStatus, RetryOnConflict, EndReconcile, Stops
  <2> QED
    BY <2>1, <2>2 DEF CurrentInv, ReadsCurrent, IdleCurrent, SameOperator, SameExternalDNS
<1> QED
  BY <1>1, <1>2

LEMMA ReadsKeepCurrent ==
  ASSUME StatusTypeOK, CurrentInv, TakeDeployment \/ ReadSecret \/ ReadOperator \/ ReadExternalDNS
  PROVE  CurrentInv'
<1>1. CASE TakeDeployment
  BY <1>1 DEF TakeDeployment, CurrentInv, ReadsCurrent, IdleCurrent
<1>2. CASE ReadSecret
  BY <1>2 DEF ReadSecret, Alone, CurrentInv, ReadsCurrent, IdleCurrent
<1>3. CASE ReadOperator
  <2>1. read'[Operator] = deployment'[Operator]
    BY <1>3 DEF ReadOperator, Alone, StatusTypeOK, Deployments
  <2>2. stage = "operator" /\ UNCHANGED <<checkDNS, dnsSecret, untold>>
    BY <1>3 DEF ReadOperator, Alone
  <2>3. stage' = "dns" \/ (stage' = "read" /\ ~checkDNS)
    BY <1>3 DEF ReadOperator
  <2> QED
    BY <2>1, <2>2, <2>3 DEF CurrentInv, ReadsCurrent, IdleCurrent, SameOperator, SameExternalDNS
<1>4. CASE ReadExternalDNS
  <2>1. /\ read'[ExternalDNS] = deployment'[ExternalDNS]
        /\ read'[Operator] = read[Operator] /\ deployment' = deployment
    BY <1>4 DEF ReadExternalDNS, Alone, StatusTypeOK, Deployments
  <2>2. stage = "dns" /\ stage' = "read" /\ UNCHANGED <<checkDNS, dnsSecret, untold, due>>
    BY <1>4 DEF ReadExternalDNS, Alone
  <2> QED
    BY <2>1, <2>2 DEF CurrentInv, ReadsCurrent, IdleCurrent, SameOperator, SameExternalDNS
<1> QED
  BY <1>1, <1>2, <1>3, <1>4

LEMMA SurroundingsCurrent ==
  ASSUME StatusTypeOK, CurrentInv, SurroundingsStep
  PROVE  CurrentInv'
<1>1. CASE Fail \/ Crash
  BY <1>1 DEF Fail, Crash, CurrentInv, ReadsCurrent, IdleCurrent
<1>2. ASSUME NEW d \in Deployments, ChangeDeployment(d)
      PROVE  CurrentInv'
  <2>1. UNCHANGED <<stage, untold, checkDNS, dnsSecret>>
    BY <1>2 DEF ChangeDeployment
  <2>2. stage \in Starting \/ due' # {}
    BY <1>2 DEF ChangeDeployment
  <2> QED
    BY <2>1, <2>2 DEF CurrentInv, ReadsCurrent, IdleCurrent, SameOperator, SameExternalDNS, Starting
<1>3. CASE ChangeSecret \/ ChangeAddon
  BY <1>3 DEF ChangeSecret, ChangeAddon, CurrentInv
<1>4. CASE WriteOthers
  <2>1. /\ addon # None /\ addon'.degraded = addon.degraded
        /\ UNCHANGED <<deployment, dnsSecret, stage, due, checkDNS, read, untold>>
    BY <1>4 DEF WriteOthers, Status, agent
  <2>2. CheckDeployments(dnsSecret, deployment)' = CheckDeployments(dnsSecret, deployment)
    BY <2>1 DEF CheckDeployments
  <2> QED
    BY <2>1, <2>2 DEF CurrentInv, ReadsCurrent, IdleCurrent, SameOperator, SameExternalDNS
<1> QED
  BY <1>1, <1>2, <1>3, <1>4 DEF SurroundingsStep

LEMMA NextCurrent ==
  ASSUME StatusTypeOK, CurrentInv, [StatusNext]_statusVars
  PROVE  CurrentInv'
<1>1. CASE UNCHANGED statusVars
  <2>1. UNCHANGED <<deployment, dnsSecret, addon, stage, due, checkDNS, read, untold>>
    BY <1>1 DEF statusVars, agent
  <2>2. CheckDeployments(dnsSecret, deployment)' = CheckDeployments(dnsSecret, deployment)
    BY <2>1 DEF CheckDeployments
  <2> QED
    BY <2>1, <2>2 DEF CurrentInv, ReadsCurrent, IdleCurrent, SameOperator, SameExternalDNS
<1>2. CASE ReadInitial \/ StatusRestart
  <2>1. CASE Watch
    BY <2>1, WatchCurrent
  <2>2. CASE ~Watch
    <3>1. stage' \in {"init", "initread", "down"}
      BY <1>2, <2>2 DEF ReadInitial, StatusRestart, Stops
    <3> QED
      BY <3>1 DEF CurrentInv, ReadsCurrent, IdleCurrent
  <2> QED
    BY <2>1, <2>2
<1> QED
  BY <1>1, <1>2, ReadsKeepCurrent, UpdateCurrent, SurroundingsCurrent DEF StatusNext, Agent, SurroundingsStep

LEMMA CurrentSettled == StatusTypeOK /\ CurrentInv => SettledDegraded
<1> SUFFICES ASSUME StatusTypeOK, CurrentInv, StatusResting, untold = {}
             PROVE  /\ addon.degraded.status = IF Unhealthy = {} THEN "False" ELSE "True"
                    /\ Unhealthy # {} => addon.degraded.reasons = {Reason(d) : d \in Unhealthy}
  BY DEF SettledDegraded
<1>1. addon.degraded = CheckDeployments(dnsSecret, deployment)
  BY DEF CurrentInv, IdleCurrent, StatusResting
<1>2. deployment \in [Deployments -> AllShapes] /\ dnsSecret \in BOOLEAN
  BY DEF StatusTypeOK
<1> QED
  BY <1>1, <1>2, CheckTells DEF StatusTypeOK

\* Whatever the shapes a deployment goes through and the failures on the way, an agent
\* at rest reports what is wrong and nothing else, if no change was one that raises no
\* event (Reconcile, addon_status_controller.go:65-105).
THEOREM Tells == StatusSpec => []SettledDegraded
<1>1. StatusInit => StatusTypeOK /\ CurrentInv
  BY InitStatus, InitCurrent
<1>2. StatusTypeOK /\ CurrentInv /\ [StatusNext]_statusVars => (StatusTypeOK /\ CurrentInv)'
  BY NextStatus, NextCurrent
<1> QED
  BY <1>1, <1>2, CurrentSettled, PTL DEF StatusSpec
=============================================================================
