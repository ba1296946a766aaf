------------------------------- MODULE AddonStatus -------------------------------
(***************************************************************************)
(* The AddonStatusController (pkg/agent/addon_status_controller.go): the   *)
(* Degraded condition of the hypershift ManagedClusterAddOn on the hub,    *)
(* computed from the two deployments of the hypershift namespace whenever  *)
(* one of them changes, and set once when the agent starts.  Whether the   *)
(* external-dns deployment matters depends on a Secret on the hub that is  *)
(* not watched, and other agents write conditions to the same status.      *)
(*                                                                         *)
(* It runs beside the controllers of HostedClusterImport and shares none   *)
(* of its names with that module, so that one module can extend both.      *)
(***************************************************************************)
EXTENDS Naturals, FiniteSets

CONSTANTS
  Operator, ExternalDNS, \* the two deployments
  Shapes,      \* states of a deployment the environment brings about
  MaxTries,    \* attempts of RetryOnConflict
  MaxFaults,   \* changes and faults of the environment
  None

Deployments == {Operator, ExternalDNS}

\* "short": no replica is available, or not all of them.
AllShapes == {"absent", "deleting", "short", "ready"}

ASSUME StatusAssumption ==
  /\ Operator # ExternalDNS /\ None \notin Deployments
  /\ "absent" \in Shapes /\ Shapes \subseteq AllShapes
  /\ MaxTries \in Nat \ {0} /\ MaxFaults \in Nat

VARIABLES
  deployment, \* the shape of each deployment
  dnsSecret,  \* the external DNS Secret exists on the hub
  addon,      \* the status of the ManagedClusterAddOn, None if there is none
  stage,      \* where the agent is
  due,        \* deployments whose reconcile is due
  subject,    \* the deployment whose event is handled
  checkDNS,   \* the Secret was found
  read,       \* the deployments read
  copy,       \* the status read, to be updated
  tries,      \* attempts left
  faults,     \* counter of MaxFaults
  written,    \* history: writes of the other agents
  untold      \* history: what no event told the controller since it last computed

agent == <<stage, due, subject, checkDNS, read, copy, tries>>
statusVars == <<deployment, dnsSecret, addon, agent, faults, written, untold>>

\* Degraded: its status and the reasons joined in it.
OperatorReasons ==
  [absent |-> "OperatorNotFound", deleting |-> "OperatorDeleted",
   short |-> "OperatorNotAllAvailableReplicas"]
DNSReasons ==
  [absent |-> "ExternalDNSNotFound", deleting |-> "ExternalDNSDeleted",
   short |-> "ExternalDNSNotAllAvailableReplicas"]

Condition(status, reasons) == [status |-> status, reasons |-> reasons]
Initial == Condition("True", {"HypershiftDeployed"})
Healthy == Condition("False", {"HypershiftDeployed"})
NotSet == Condition("none", {})

\* (Mutant: external-dns is looked at only if the operator is healthy.)
BugCheckDeployments(check, shapes) ==
  IF shapes[Operator] # "ready" THEN Condition("True", {OperatorReasons[shapes[Operator]]})
  ELSE IF check /\ shapes[ExternalDNS] # "ready"
       THEN Condition("True", {DNSReasons[shapes[ExternalDNS]]}) ELSE Healthy

CheckDeployments(check, shapes) ==
  LET reasons ==
        {OperatorReasons[s] : s \in {shapes[Operator]} \ {"ready"}}
          \cup {DNSReasons[s] : s \in {t \in {shapes[ExternalDNS]} \ {"ready"} : check}}
  IN  IF reasons # {} THEN Condition("True", reasons) ELSE Healthy

\* A status: Degraded, and the conditions of other agents as of their last write,
\* which is its resourceVersion too, for only they write while this agent does.
Status(degraded, others) == [degraded |-> degraded, others |-> others]

Reasons ==
  {"HypershiftDeployed"} \cup {OperatorReasons[x] : x \in DOMAIN OperatorReasons}
    \cup {DNSReasons[x] : x \in DOMAIN DNSReasons}

Starting == {"down", "init", "initread", "initput"}
Working == {"secret", "operator", "dns", "read", "put"}

StatusTypeOK ==
  /\ deployment \in [Deployments -> AllShapes]
  /\ dnsSecret \in BOOLEAN
  /\ \A s \in {addon, copy} \ {None} :
       /\ s.degraded \in [status: {"none", "True", "False"}, reasons: SUBSET Reasons]
       /\ s.others \in 0 .. written
  /\ stage \in Starting \cup Working \cup {"idle"}
  /\ due \subseteq Deployments
  /\ subject \in Deployments \cup {None} /\ (subject # None) = (stage \in Working)
  /\ checkDNS \in BOOLEAN
  /\ read \in [Deployments -> AllShapes]
  /\ tries \in 0 .. MaxTries
  /\ faults \in 0 .. MaxFaults /\ written \in 0 .. faults
  /\ untold \subseteq {"secret", "addon", "restart"}

StatusInit ==
  /\ deployment \in [Deployments -> Shapes]
  /\ dnsSecret \in BOOLEAN
  /\ addon = Status(NotSet, 0)
  /\ stage = "init" /\ due = {} /\ subject = None /\ checkDNS = FALSE
  /\ read = [d \in Deployments |-> "absent"]
  /\ copy = None /\ tries = 0
  /\ faults = 0 /\ written = 0 /\ untold = {}

-----------------------------------------------------------------------------
\* What the steps share.

Alone == UNCHANGED <<deployment, dnsSecret, faults, written>>

\* An error ends the reconcile, which is then repeated.
Fail ==
  /\ stage \in Working /\ faults < MaxFaults /\ faults' = faults + 1
  /\ due' = due \cup {subject} /\ stage' = "idle" /\ subject' = None
  /\ UNCHANGED <<deployment, dnsSecret, addon, checkDNS, read, copy, tries, written, untold>>

EndReconcile == stage' = "idle" /\ subject' = None
Stops == stage' = "down"

-----------------------------------------------------------------------------
\* UpdateInitialStatus, before the manager and its watches start.  Without the
\* addon, or after an error, the agent exits.

\* A condition that a reconcile wrote as healthy, or that an earlier start wrote.
Keeps(degraded) == degraded.reasons = {"HypershiftDeployed"} /\ degraded.status # "none"

\* The watch of the deployments begins with those there are.
Watch ==
  /\ stage' = "idle" /\ due' = {d \in Deployments : deployment[d] # "absent"}
  /\ untold' = untold \cup (IF due' = {} THEN {"restart"} ELSE {})

ReadInitial ==
  /\ stage = "init"
  /\ \/ /\ addon # None /\ Keeps(addon.degraded) /\ Watch /\ UNCHANGED tries
     \/ /\ addon # None /\ ~Keeps(addon.degraded)
        /\ stage' = "initread" /\ tries' = MaxTries /\ UNCHANGED <<due, untold>>
     \/ addon = None /\ Stops /\ UNCHANGED <<due, tries, untold>>
  /\ Alone /\ UNCHANGED <<addon, subject, checkDNS, read, copy>>

-----------------------------------------------------------------------------
\* Reconcile

TakeDeployment ==
  /\ stage = "idle"
  /\ \E d \in due : subject' = d /\ due' = due \ {d}
  /\ stage' = "secret"
  /\ Alone /\ UNCHANGED <<addon, checkDNS, read, copy, tries, untold>>

\* shouldCheckExternalDNSDeployment
ReadSecret ==
  /\ stage = "secret"
  /\ checkDNS' = dnsSecret
  /\ stage' = "operator" /\ untold' = {}
  /\ Alone /\ UNCHANGED <<addon, due, subject, read, copy, tries>>

\* getDeployment
ReadOperator ==
  /\ stage = "operator"
  /\ read' = [read EXCEPT ![Operator] = deployment[Operator]]
  /\ IF checkDNS THEN stage' = "dns" /\ UNCHANGED tries ELSE stage' = "read" /\ tries' = MaxTries
  /\ Alone /\ UNCHANGED <<addon, due, subject, checkDNS, copy, untold>>

ReadExternalDNS ==
  /\ stage = "dns"
  /\ read' = [read EXCEPT ![ExternalDNS] = deployment[ExternalDNS]]
  /\ stage' = "read" /\ tries' = MaxTries
  /\ Alone /\ UNCHANGED <<addon, due, subject, checkDNS, copy, untold>>

-----------------------------------------------------------------------------
\* updateStatus: read, change, write, and again after a conflict.

Wanted == IF stage \in Starting THEN Initial ELSE CheckDeployments(checkDNS, read)

Ends == IF stage \in Starting THEN Watch /\ UNCHANGED subject ELSE EndReconcile /\ UNCHANGED <<due, untold>>

ReadStatus ==
  /\ stage \in {"initread", "read"}
  /\ \/ /\ addon # None /\ addon.degraded # Wanted
        /\ copy' = addon
        /\ stage' = (IF stage = "read" THEN "put" ELSE "initput")
        /\ UNCHANGED <<due, subject, untold>>
     \/ (addon # None => addon.degraded = Wanted) /\ Ends /\ UNCHANGED copy
  /\ Alone /\ UNCHANGED <<addon, checkDNS, read, tries>>

\* (Mutant: what was read is written back whatever others wrote since.)
BugConflict == FALSE

Conflict == addon.others # copy.others

WriteStatus ==
  /\ stage \in {"initput", "put"}
  /\ addon # None /\ ~Conflict
  /\ addon' = Status(Wanted, copy.others)
  /\ Ends /\ copy' = None
  /\ Alone /\ UNCHANGED <<checkDNS, read, tries>>

\* After the last attempt the conflict is an error, and so is a missing addon.
\* (Mutant: attempts are not limited.)
BugRetryOnConflict ==
  /\ stage \in {"initput", "put"}
  /\ addon # None /\ Conflict
  /\ copy' = None /\ tries' = tries - 1
  /\ stage' = (IF stage = "put" THEN "read" ELSE "initread")
  /\ Alone /\ UNCHANGED <<addon, due, subject, checkDNS, read, untold>>

RetryOnConflict ==
  /\ stage \in {"initput", "put"}
  /\ addon # None => Conflict
  /\ copy' = None
  /\ \/ /\ addon # None /\ tries > 1 /\ tries' = tries - 1
        /\ stage' = (IF stage = "put" THEN "read" ELSE "initread") /\ UNCHANGED <<due, subject>>
     \/ /\ addon = None \/ tries = 1
        /\ IF stage = "initput" THEN Stops /\ UNCHANGED <<due, subject>>
           ELSE EndReconcile /\ due' = due \cup {subject}
        /\ UNCHANGED tries
  /\ Alone /\ UNCHANGED <<addon, checkDNS, read, untold>>

-----------------------------------------------------------------------------
\* The environment.

Fault == faults < MaxFaults /\ faults' = faults + 1

\* A deployment is created, scaled, deleted or changes its replicas: an event of
\* it, if the agent watches (AddonStatusPredicateFunctions).
ChangeDeployment(d) ==
  /\ Fault
  /\ \E s \in Shapes \ {deployment[d]} : deployment' = [deployment EXCEPT ![d] = s]
  /\ due' = IF stage \in Starting THEN due ELSE due \cup {d}
  /\ UNCHANGED <<dnsSecret, addon, stage, subject, checkDNS, read, copy, tries, written, untold>>

ChangeSecret ==
  /\ Fault
  /\ dnsSecret' = ~dnsSecret /\ untold' = untold \cup {"secret"}
  /\ UNCHANGED <<deployment, addon, agent, written>>

\* The registration agent writes its condition.
WriteOthers ==
  /\ Fault /\ addon # None
  /\ written' = written + 1 /\ addon' = Status(addon.degraded, written')
  /\ UNCHANGED <<deployment, dnsSecret, agent, untold>>

\* The addon is disabled, or enabled again.
ChangeAddon ==
  /\ Fault
  /\ \/ addon # None /\ addon' = None /\ UNCHANGED written
     \/ addon = None /\ written' = written + 1 /\ addon' = Status(NotSet, written')
  /\ untold' = untold \cup {"addon"}
  /\ UNCHANGED <<deployment, dnsSecret, agent>>

Crash ==
  /\ Fault
  /\ stage' = "down" /\ due' = {} /\ subject' = None /\ copy' = None
  /\ UNCHANGED <<deployment, dnsSecret, addon, checkDNS, read, tries, written, untold>>

StatusRestart ==
  /\ stage = "down" /\ stage' = "init"
  /\ Alone /\ UNCHANGED <<addon, due, subject, checkDNS, read, copy, tries, untold>>

-----------------------------------------------------------------------------
Agent ==
  \/ ReadInitial \/ TakeDeployment \/ ReadSecret \/ ReadOperator \/ ReadExternalDNS
  \/ ReadStatus \/ WriteStatus \/ RetryOnConflict \/ StatusRestart

StatusNext ==
  \/ Agent \/ Fail \/ Crash
  \/ \E d \in Deployments : ChangeDeployment(d)
  \/ ChangeSecret \/ WriteOthers \/ ChangeAddon

StatusSpec == StatusInit /\ [][StatusNext]_statusVars

-----------------------------------------------------------------------------
\* Properties

StatusResting == stage = "idle" /\ due = {} /\ addon # None

\* The deployments that count, and the reason for which one of them is unhealthy.
Counted == {Operator} \cup {d \in {ExternalDNS} : dnsSecret}
Reason(d) == (IF d = Operator THEN OperatorReasons ELSE DNSReasons)[deployment[d]]
Unhealthy == {d \in Counted : deployment[d] # "ready"}

\* At rest Degraded tells the present state of the deployments, and names
\* everything that is wrong with them, unless something changed that raises no
\* event (Reconcile :65-105, checkDeployments addon_status_helper.go:56-123).
SettledDegraded ==
  StatusResting /\ untold = {} =>
    /\ addon.degraded.status = IF Unhealthy = {} THEN "False" ELSE "True"
    /\ Unhealthy # {} => addon.degraded.reasons = {Reason(d) : d \in Unhealthy}

\* The conditions of other agents are never lost (updateStatus :178-214).
OthersKept == addon # None => addon.others = written
=============================================================================
