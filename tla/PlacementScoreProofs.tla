------------------------ MODULE PlacementScoreProofs ------------------------
(***************************************************************************)
(* Theorems about PlacementScore for every set of HCs, every number of     *)
(* concurrent reconciles, every limit and any number of changes.           *)
(***************************************************************************)
EXTENDS PlacementScore, FiniteSetTheorems, TLAPS

USE ConstantsAssumption DEF ConstantsAssumption

ClaimSteps == {"getClaim", "putClaim"}

-----------------------------------------------------------------------------
(* The invariant behind SoloSyncRepairs.                                   *)

\* Reconciles run only when the startup sync is over; a sync that does not
\* write claims is before the first one.
PhaseInv ==
  /\ phase = "starting" => Active \subseteq {Startup} /\ queue = {}
  /\ phase = "running" => pc[Startup] = "idle"
  /\ \A s \in Syncs : pc[s] \notin ClaimSteps => claim[s] = "full"

\* A solo sync is the only one that runs, and its List did not fail.
SoloInv ==
  solo => /\ \A s, t \in Active : s = t
          /\ \A s \in Syncs : pc[s] # "putFailure"

\* Requests that are queued, or will be when the watches start.
Pending == IF phase = "running" THEN queue # {} ELSE hcs # {}

\* The claims written before the sync came to claim c.
ClaimsBefore(c) ==
  LET n == Cardinality(hcs)
  IN  /\ c # "full" => claims["full"] = ClaimValue("full", n)
      /\ c = "zero" => claims["above"] = ClaimValue("above", n)

\* What the sync counted is still true, and so is what it has written.
Current(s) ==
  /\ pc[s] = "putScore" => count[s] = Cardinality(hcs)
  /\ pc[s] \in ClaimSteps =>
       count[s] = Cardinality(hcs) /\ ScoreExact /\ ClaimsBefore(claim[s])

RepairInv ==
  solo /\ ~missed /\ ~Pending =>
    /\ Active = {} /\ phase = "running" => ScoreExact /\ ClaimsExact
    /\ \A s \in Active : Current(s)

-----------------------------------------------------------------------------
(* The invariant behind SettledScore, while HCs are only created.          *)

\* No List fails, and the score never tells more HCs than there are, nor more
\* than a sync counted that could still store its count.
GrowInv ==
  /\ crd \/ hcs = {}
  /\ queue \subseteq hcs
  /\ \A s \in HCs : pc[s] # "idle" => s \in hcs
  /\ \A s \in Syncs : pc[s] # "putFailure"
  /\ score.updated # "false"
  /\ score.value <= Cardinality(hcs)
  /\ \A s \in Syncs : pc[s] = "putScore" =>
       /\ count[s] <= Cardinality(hcs)
       /\ s \in fresh => score.value <= count[s]

\* A sync that will store the right count, or run again.
WillFix(s) ==
  \/ pc[s] = "listHCs"
  \/ pc[s] = "putScore" /\ (s \notin fresh \/ count[s] = Cardinality(hcs))

FixInv ==
  \/ phase = "starting" /\ pc[Startup] = "idle"
  \/ Pending
  \/ ScoreExact
  \/ \E s \in Syncs : WillFix(s)

-----------------------------------------------------------------------------
(* Numbers of HCs and limits.                                              *)

\* Any number of HCs is a natural number, and one more HC counts one more.
LEMMA Counting ==
  ASSUME NEW S \in SUBSET HCs
  PROVE  /\ Cardinality(S) \in Nat
         /\ IsFiniteSet(S)
         /\ (S = {}) <=> (Cardinality(S) = 0)
         /\ \A h \in HCs \ S : Cardinality(S \cup {h}) = Cardinality(S) + 1
<1>1. IsFiniteSet(S)
  BY FS_Subset
<1> QED BY <1>1, FS_CardinalityType, FS_EmptySet, FS_AddElement

\* The score of any count is one the API accepts.
LEMMA ScoreValueType ==
  ASSUME NEW n \in Nat
  PROVE  ScoreValue(n) \in 0..MaxScore /\ ScoreValue(n) <= n
BY DEF ScoreValue

\* Whatever the environment variables hold, 1 <= threshold <= max: a hosting
\* cluster that is full is above the threshold too (getMaxAndThresholdHCCount).
THEOREM LimitsOrdered ==
  /\ ThresholdHostedClusterCount \in Nat \ {0}
  /\ MaxHostedClusterCount \in Nat
  /\ ThresholdHostedClusterCount <= MaxHostedClusterCount
BY DEF ThresholdHostedClusterCount, MaxHostedClusterCount, LimitsUsable, LimitOr,
       DefaultMax, DefaultThreshold

-----------------------------------------------------------------------------
(* Type correctness                                                        *)

\* A sync that rests keeps the types.
LEMMA RestType ==
  ASSUME TypeOK, NEW s \in Syncs, Rest(s)
  PROVE  /\ pc' \in [Syncs -> Steps]
         /\ count' \in [Syncs -> Nat]
         /\ claim' \in [Syncs -> ClaimNames]
BY DEF TypeOK, Rest, Steps, ClaimNames

\* So does one that goes on to its next claim.
LEMMA NextClaimType ==
  ASSUME TypeOK, NEW s \in Syncs, NextClaim(s)
  PROVE  /\ pc' \in [Syncs -> Steps]
         /\ count' \in [Syncs -> Nat]
         /\ claim' \in [Syncs -> ClaimNames]
         /\ phase' \in {"starting", "running"}
         /\ queue' \subseteq HCs
<1>1. CASE claim[s] # "zero"
  BY <1>1 DEF NextClaim, TypeOK, Steps, ClaimNames
<1>2. CASE claim[s] = "zero"
  BY <1>2, RestType DEF NextClaim, Return, TypeOK
<1> QED BY <1>1, <1>2

\* A step of a sync keeps the types.
LEMMA SyncType ==
  ASSUME TypeOK, NEW s \in Syncs, Sync(s) \/ ListFails(s) \/ CallFails(s)
  PROVE  TypeOK'
<1>1. CASE GetScore(s)
  BY <1>1 DEF GetScore, TypeOK, Steps, ScoreSteps
<1>2. CASE ListHCs(s)
  BY <1>2, Counting DEF ListHCs, TypeOK, Steps, ScoreSteps
<1>3. CASE PutScore(s)
  <2>1. [value |-> ScoreValue(count[s]), updated |-> "true"] \in ScoreState
    BY ScoreValueType DEF ScoreState, TypeOK
  <2> QED BY <1>3, <2>1 DEF PutScore, StoreScore, TypeOK, Steps
<1>4. CASE PutFailure(s)
  <2>1. [score EXCEPT !.updated = "false"] \in ScoreState
    BY DEF ScoreState, TypeOK
  <2> QED BY <1>4, <2>1, RestType DEF PutFailure, StoreScore, Return, TypeOK
<1>5. CASE GetClaim(s)
  <2>1. CASE NextClaim(s) /\ UNCHANGED fresh
    BY <1>5, <2>1, NextClaimType DEF GetClaim, TypeOK
  <2>2. CASE /\ pc' = [pc EXCEPT ![s] = "putClaim"]
             /\ fresh' = fresh \cup {s}
             /\ UNCHANGED <<phase, queue, count, claim>>
    BY <1>5, <2>2 DEF GetClaim, TypeOK, Steps
  <2> QED BY <1>5, <2>1, <2>2 DEF GetClaim
<1>6. CASE PutClaim(s)
  <2>1. Wanted(s) \in ClaimState
    BY DEF Wanted, ClaimValue, FormatBool, ClaimState
  <2>2. claims' \in [ClaimNames -> ClaimState]
    BY <1>6, <2>1 DEF PutClaim, TypeOK
  <2> QED BY <1>6, <2>2, NextClaimType DEF PutClaim, TypeOK
<1>7. CASE Conflict(s)
  BY <1>7, RestType DEF Conflict, Fail, TypeOK, Syncs
<1>8. CASE ListFails(s)
  <2>1. changes' \in Nat
    BY <1>8 DEF ListFails, Change, TypeOK
  <2> QED BY <1>8, <2>1 DEF ListFails, TypeOK, Steps, ScoreSteps
<1>9. CASE CallFails(s)
  BY <1>9, RestType DEF CallFails, Change, Fail, TypeOK, Syncs
<1> QED BY <1>1, <1>2, <1>3, <1>4, <1>5, <1>6, <1>7, <1>8, <1>9 DEF Sync

\* So does what happens around the agent.
LEMMA ChangeType ==
  ASSUME TypeOK,
         \/ \E h \in HCs : CreateHC(h) \/ DeleteHC(h) \/ TouchHC(h)
         \/ ToggleCRD \/ Restart
  PROVE  TypeOK'
<1>1. ASSUME NEW h \in HCs, CreateHC(h) PROVE TypeOK'
  BY <1>1 DEF CreateHC, Change, Notify, NoSync, TypeOK
<1>2. ASSUME NEW h \in HCs, DeleteHC(h) PROVE TypeOK'
  BY <1>2 DEF DeleteHC, Change, Notify, NoSync, TypeOK
<1>3. ASSUME NEW h \in HCs, TouchHC(h) PROVE TypeOK'
  BY <1>3 DEF TouchHC, Change, Notify, NoSync, TypeOK
<1>4. CASE ToggleCRD
  BY <1>4 DEF ToggleCRD, Change, NoSync, TypeOK
<1>5. CASE Restart
  BY <1>5 DEF Restart, Change, TypeOK, Steps, ClaimNames
<1> QED BY <1>1, <1>2, <1>3, <1>4, <1>5

\* The types hold initially.
LEMMA TypeInit == Init => TypeOK
<1> SUFFICES ASSUME Init PROVE TypeOK
  OBVIOUS
<1>1. hcs \subseteq HCs /\ crd \in BOOLEAN
  BY DEF Init
<1>2. score \in ScoreState
  BY DEF Init, NoScore, ScoreState
<1>3. claims \in [ClaimNames -> ClaimState]
  BY DEF Init, ClaimNames, ClaimState
<1>4. /\ pc \in [Syncs -> Steps]
      /\ count \in [Syncs -> Nat]
      /\ claim \in [Syncs -> ClaimNames]
  BY DEF Init, Steps, ClaimNames
<1> QED BY <1>1, <1>2, <1>3, <1>4 DEF Init, TypeOK

\* Every action keeps the types.
LEMMA TypeStep == TypeOK /\ [Next]_vars => TypeOK'
<1> SUFFICES ASSUME TypeOK, [Next]_vars PROVE TypeOK'
  OBVIOUS
<1>1. CASE Next
  BY <1>1, SyncType, ChangeType DEF Next
<1>2. CASE UNCHANGED vars
  BY <1>2 DEF vars, TypeOK
<1> QED BY <1>1, <1>2

\* The types hold; the score is always one the AddOnPlacementScore API accepts.
THEOREM TypeCorrect == Spec => []TypeOK
BY TypeInit, TypeStep, PTL DEF Spec

-----------------------------------------------------------------------------
(* What a step does to the syncs, in the terms the proofs below need.      *)

\* A sync that rests leaves the other syncs alone.
LEMMA RestOthers ==
  ASSUME TypeOK, NEW s \in Syncs, Rest(s)
  PROVE  /\ pc'[s] = "idle" /\ claim'[s] = "full"
         /\ \A t \in Syncs \ {s} : /\ pc'[t] = pc[t]
                                   /\ count'[t] = count[t]
                                   /\ claim'[t] = claim[t]
         /\ Active' = Active \ {s}
BY DEF TypeOK, Rest, Active

\* So does one that goes on to its next claim.
LEMMA NextClaimOthers ==
  ASSUME TypeOK, NEW s \in Syncs, NextClaim(s)
  PROVE  /\ \A t \in Syncs \ {s} : /\ pc'[t] = pc[t]
                                   /\ count'[t] = count[t]
                                   /\ claim'[t] = claim[t]
         /\ \/ pc'[s] = "idle" /\ claim'[s] = "full" /\ Return(s) /\ claim[s] = "zero"
            \/ /\ pc'[s] = "getClaim"
               /\ claim[s] # "zero"
               /\ claim'[s] = IF claim[s] = "full" THEN "above" ELSE "zero"
               /\ count'[s] = count[s]
               /\ UNCHANGED <<phase, queue>>
<1>1. CASE claim[s] # "zero"
  BY <1>1 DEF NextClaim, TypeOK
<1>2. CASE claim[s] = "zero"
  BY <1>2, RestOthers DEF NextClaim, Return
<1> QED BY <1>1, <1>2

\* The phases keep apart the startup sync and the reconciles.
LEMMA PhaseStep == TypeOK /\ PhaseInv /\ [Next]_vars => PhaseInv'
<1> SUFFICES ASSUME TypeOK, PhaseInv, [Next]_vars PROVE PhaseInv'
  OBVIOUS
<1> USE DEF PhaseInv, ClaimSteps
<1>1. ASSUME NEW s \in Syncs, GetScore(s) PROVE PhaseInv'
  BY <1>1 DEF GetScore, MayStart, Active, TypeOK, Syncs
<1>2. ASSUME NEW s \in Syncs, ListHCs(s) PROVE PhaseInv'
  BY <1>2 DEF ListHCs, Active, TypeOK
<1>3. ASSUME NEW s \in Syncs, PutScore(s) PROVE PhaseInv'
  BY <1>3 DEF PutScore, Active, TypeOK
<1>4. ASSUME NEW s \in Syncs, Return(s), pc[s] # "idle" PROVE PhaseInv'
  <2>1. Rest(s) /\ phase' = "running"
    BY <1>4 DEF Return
  <2>2. s = Startup \/ pc[Startup] = "idle"
    BY <1>4 DEF Active, TypeOK
  <2>3. pc'[Startup] = "idle"
    BY <2>1, <2>2, RestOthers DEF Syncs
  <2>4. \A t \in Syncs : pc'[t] \notin ClaimSteps => claim'[t] = "full"
    BY <2>1, RestOthers
  <2> QED BY <2>1, <2>3, <2>4
<1>5. ASSUME NEW s \in Syncs, Fail(s), pc[s] # "idle" PROVE PhaseInv'
  <2>1. Rest(s) /\ phase' = phase
    BY <1>5 DEF Fail
  <2>2. \A t \in Syncs : pc'[t] \notin ClaimSteps => claim'[t] = "full"
    BY <2>1, RestOthers
  <2>3. phase = "starting" => Active' \subseteq {Startup} /\ queue' = {}
    BY <1>5, <2>1, RestOthers DEF Fail, Active
  <2>4. phase = "running" => pc'[Startup] = "idle"
    BY <2>1, RestOthers DEF Syncs
  <2> QED BY <2>1, <2>2, <2>3, <2>4
<1>6. ASSUME NEW s \in Syncs, NextClaim(s), pc[s] \in ClaimSteps PROVE PhaseInv'
  <2>1. CASE Return(s)
    BY <1>4, <1>6, <2>1
  <2>2. CASE pc'[s] = "getClaim" /\ UNCHANGED <<phase, queue>>
    <3>1. Active' = Active
      BY <1>6, <2>2, NextClaimOthers DEF Active
    <3>2. pc'[Startup] = "idle" <=> pc[Startup] = "idle"
      BY <1>6, <2>2, NextClaimOthers DEF Syncs
    <3> QED BY <1>6, <2>2, <3>1, <3>2, NextClaimOthers
  <2> QED BY <1>6, <2>1, <2>2, NextClaimOthers
<1>7. ASSUME NEW s \in Syncs, GetClaim(s) PROVE PhaseInv'
  <2>1. CASE NextClaim(s)
    BY <1>6, <1>7, <2>1 DEF GetClaim
  <2>2. CASE pc' = [pc EXCEPT ![s] = "putClaim"] /\ UNCHANGED <<phase, queue, count, claim>>
    BY <1>7, <2>2 DEF GetClaim, Active, TypeOK
  <2> QED BY <1>7, <2>1, <2>2 DEF GetClaim
<1>8. ASSUME NEW s \in Syncs, ListFails(s) PROVE PhaseInv'
  BY <1>8 DEF ListFails, Active, TypeOK
<1>9. ASSUME NEW h \in HCs, CreateHC(h) \/ DeleteHC(h) \/ TouchHC(h) PROVE PhaseInv'
  BY <1>9 DEF CreateHC, DeleteHC, TouchHC, Notify, NoSync, Active
<1>10. CASE ToggleCRD
  BY <1>10 DEF ToggleCRD, NoSync, Active
<1>11. CASE Restart
  BY <1>11 DEF Restart, Active, Syncs
<1>12. CASE UNCHANGED vars
  BY <1>12 DEF vars, Active
<1>13. ASSUME NEW s \in Syncs, PutFailure(s) PROVE PhaseInv'
  BY <1>4, <1>13 DEF PutFailure
<1>14. ASSUME NEW s \in Syncs, Conflict(s) PROVE PhaseInv'
  BY <1>5, <1>14 DEF Conflict
<1>15. ASSUME NEW s \in Syncs, CallFails(s) PROVE PhaseInv'
  BY <1>5, <1>15 DEF CallFails
<1>16. ASSUME NEW s \in Syncs, PutClaim(s) PROVE PhaseInv'
  BY <1>6, <1>16 DEF PutClaim
<1> QED BY <1>1, <1>2, <1>3, <1>7, <1>8, <1>9, <1>10, <1>11, <1>12, <1>13, <1>14, <1>15, <1>16
        DEF Next, Sync

-----------------------------------------------------------------------------
(* A sync that runs alone repairs everything.                              *)

\* A sync that is solo stays alone, and its List does not fail.
LEMMA SoloStep == TypeOK /\ SoloInv /\ [Next]_vars => SoloInv'
<1> SUFFICES ASSUME TypeOK, SoloInv, [Next]_vars PROVE SoloInv'
  OBVIOUS
<1>1. ASSUME NEW s \in Syncs, GetScore(s) PROVE SoloInv'
  BY <1>1 DEF GetScore, SoloInv, Active, TypeOK
<1>2. ASSUME NEW s \in Syncs, ListFails(s) PROVE SoloInv'
  BY <1>2 DEF ListFails, SoloInv
<1>3. ASSUME solo' = solo, Active' \subseteq Active,
             \A s \in Syncs : pc'[s] = "putFailure" => pc[s] = "putFailure"
      PROVE  SoloInv'
  BY <1>3 DEF SoloInv
<1>4. ASSUME NEW s \in Syncs, Rest(s), solo' = solo PROVE SoloInv'
  BY <1>3, <1>4, RestOthers
<1>5. ASSUME NEW s \in Syncs, NextClaim(s), solo' = solo, pc[s] \in ClaimSteps PROVE SoloInv'
  <2>1. Active' \subseteq Active
    BY <1>5, NextClaimOthers DEF Active, ClaimSteps
  <2>2. \A t \in Syncs : pc'[t] = "putFailure" => pc[t] = "putFailure"
    BY <1>5, NextClaimOthers
  <2> QED BY <1>3, <1>5, <2>1, <2>2
<1>6. ASSUME NEW s \in Syncs, ListHCs(s) \/ PutScore(s) PROVE SoloInv'
  BY <1>3, <1>6 DEF ListHCs, PutScore, Active, TypeOK
<1>7. ASSUME NEW s \in Syncs, PutFailure(s) \/ Conflict(s) \/ CallFails(s) PROVE SoloInv'
  BY <1>4, <1>7 DEF PutFailure, Conflict, CallFails, Fail, Return
<1>8. ASSUME NEW s \in Syncs, PutClaim(s) PROVE SoloInv'
  BY <1>5, <1>8 DEF PutClaim, ClaimSteps
<1>9. ASSUME NEW s \in Syncs, GetClaim(s) PROVE SoloInv'
  <2>1. CASE NextClaim(s)
    BY <1>5, <1>9, <2>1 DEF GetClaim, ClaimSteps
  <2>2. CASE pc' = [pc EXCEPT ![s] = "putClaim"]
    BY <1>3, <1>9, <2>2 DEF GetClaim, Active, TypeOK
  <2> QED BY <1>9, <2>1, <2>2 DEF GetClaim
<1>10. ASSUME NEW h \in HCs, CreateHC(h) \/ DeleteHC(h) \/ TouchHC(h) PROVE SoloInv'
  BY <1>3, <1>10 DEF CreateHC, DeleteHC, TouchHC, NoSync, Active
<1>11. CASE ToggleCRD \/ UNCHANGED vars
  BY <1>3, <1>11 DEF ToggleCRD, NoSync, vars, Active
<1>12. CASE Restart
  BY <1>3, <1>12 DEF Restart, Active
<1> QED BY <1>1, <1>2, <1>6, <1>7, <1>8, <1>9, <1>10, <1>11, <1>12 DEF Next, Sync

\* A claim that is right takes a current sync on to the next, or to its end.
LEMMA ClaimDone ==
  ASSUME TypeOK, PhaseInv, SoloInv, RepairInv,
         NEW s \in Syncs, pc[s] \in ClaimSteps, NextClaim(s),
         claims'[claim[s]] = ClaimValue(claim[s], count[s]),
         \A c \in ClaimNames \ {claim[s]} : claims'[c] = claims[c],
         UNCHANGED <<hcs, score, solo, missed>>
  PROVE  RepairInv'
<1> SUFFICES ASSUME solo, ~missed, ~Pending'
             PROVE  /\ Active' = {} /\ phase' = "running" => ScoreExact /\ ClaimsExact'
                    /\ \A t \in Active' : Current(t)'
  BY DEF RepairInv, ScoreExact
<1>1. Active = {s}
  BY DEF Active, SoloInv, ClaimSteps
<1>2. phase = "starting" <=> s = Startup
  BY <1>1 DEF PhaseInv, Active, TypeOK
<1>3. ~Pending
  <2>1. CASE UNCHANGED <<phase, queue>>
    BY <2>1 DEF Pending
  <2>2. CASE Return(s)
    BY <1>2, <2>2 DEF Pending, Return, TypeOK
  <2> QED BY <2>1, <2>2, NextClaimOthers
<1>4. count[s] = Cardinality(hcs) /\ ScoreExact /\ ClaimsBefore(claim[s])
  BY <1>1, <1>3 DEF RepairInv, Current
<1>5. claims'[claim[s]] = ClaimValue(claim[s], Cardinality(hcs))
  BY <1>4
<1>6. CASE pc'[s] = "idle" /\ claim[s] = "zero"
  <2>1. Active' = {}
    BY <1>1, <1>6, NextClaimOthers DEF Active
  <2>2. \A c \in ClaimNames : claims'[c] = ClaimValue(c, Cardinality(hcs))
    BY <1>4, <1>5, <1>6 DEF ClaimsBefore, ClaimNames
  <2>3. ClaimsExact'
    BY <2>2 DEF ClaimsExact, ClaimNames, ClaimValue
  <2> QED BY <1>4, <2>1, <2>3
<1>7. CASE /\ pc'[s] = "getClaim"
           /\ claim[s] # "zero"
           /\ claim'[s] = IF claim[s] = "full" THEN "above" ELSE "zero"
           /\ count'[s] = count[s]
  <2>1. Active' = {s}
    BY <1>1, <1>7, NextClaimOthers DEF Active
  <2>2. claim[s] \in {"full", "above"}
    BY <1>7 DEF TypeOK, ClaimNames
  <2>3. claims'["full"] = ClaimValue("full", Cardinality(hcs))
    BY <1>4, <1>5, <2>2 DEF ClaimsBefore, ClaimNames
  <2>4. claim'[s] = "zero" => claims'["above"] = ClaimValue("above", Cardinality(hcs))
    BY <1>5, <1>7, <2>2
  <2>5. Current(s)'
    BY <1>4, <1>7, <2>3, <2>4 DEF Current, ClaimsBefore, ScoreExact, ClaimSteps
  <2> QED BY <2>1, <2>5
<1> QED BY <1>6, <1>7, NextClaimOthers

\* A call that fails leaves a request, or the startup sync to be made again.
LEMMA FailRepairs ==
  ASSUME TypeOK, PhaseInv, SoloInv, RepairInv,
         NEW s \in Syncs, pc[s] # "idle", Fail(s), UNCHANGED <<hcs, solo, missed>>
  PROVE  RepairInv'
<1> SUFFICES ASSUME solo PROVE RepairInv'
  BY DEF RepairInv
<1>1. Active = {s} /\ Active' = {}
  BY RestOthers DEF Active, SoloInv, Fail
<1>2. CASE s \in HCs
  <2>1. phase' = "running" /\ s \in queue'
    BY <1>1, <1>2 DEF PhaseInv, Fail, TypeOK
  <2> QED BY <2>1 DEF RepairInv, Pending
<1>3. CASE s = Startup
  <2>1. phase' = "starting"
    BY <1>3 DEF PhaseInv, Fail, TypeOK
  <2> QED BY <1>1, <2>1 DEF RepairInv
<1> QED BY <1>2, <1>3 DEF Syncs

\* No action breaks the invariant about what a solo sync has repaired.
LEMMA RepairStep ==
  TypeOK /\ PhaseInv /\ SoloInv /\ RepairInv /\ [Next]_vars => RepairInv'
<1> SUFFICES ASSUME TypeOK, PhaseInv, SoloInv, RepairInv, [Next]_vars PROVE RepairInv'
  OBVIOUS
<1>1. ASSUME NEW s \in Syncs, GetScore(s) PROVE RepairInv'
  <2> SUFFICES ASSUME solo' PROVE Active' # {} /\ \A t \in Active' : Current(t)'
    BY DEF RepairInv
  <2>1. Active' = {s} /\ pc'[s] = "listHCs"
    BY <1>1 DEF GetScore, Active, TypeOK
  <2> QED BY <2>1 DEF Current, ClaimSteps
<1>2. ASSUME NEW s \in Syncs, ListHCs(s) PROVE RepairInv'
  <2> SUFFICES ASSUME solo PROVE Active' # {} /\ \A t \in Active' : Current(t)'
    BY <1>2 DEF RepairInv, ListHCs
  <2>1. Active' = {s}
    BY <1>2 DEF ListHCs, Active, SoloInv, TypeOK
  <2>2. pc'[s] = "putScore" /\ count'[s] = Cardinality(hcs) /\ hcs' = hcs
    BY <1>2 DEF ListHCs, TypeOK
  <2> QED BY <2>1, <2>2 DEF Current, ClaimSteps
<1>3. ASSUME NEW s \in Syncs, PutScore(s) PROVE RepairInv'
  <2> SUFFICES ASSUME solo, ~missed, ~Pending PROVE Active' # {} /\ \A t \in Active' : Current(t)'
    BY <1>3 DEF RepairInv, PutScore, Pending
  <2>1. Active = {s} /\ Active' = {s}
    BY <1>3 DEF PutScore, Active, SoloInv, TypeOK
  <2>2. count[s] = Cardinality(hcs) /\ claim[s] = "full"
    BY <1>3, <2>1 DEF PutScore, RepairInv, Current, PhaseInv, ClaimSteps
  <2>3. /\ score' = [value |-> ScoreValue(count[s]), updated |-> "true"]
        /\ UNCHANGED <<hcs, count, claim>> /\ pc'[s] = "getClaim"
    BY <1>3 DEF PutScore, StoreScore, TypeOK
  <2>4. ScoreExact' /\ ClaimsBefore(claim[s])'
    BY <2>2, <2>3 DEF ScoreExact, ClaimsBefore
  <2> QED BY <2>1, <2>2, <2>3, <2>4 DEF Current
<1>4. ASSUME NEW s \in Syncs, PutFailure(s) PROVE RepairInv'
  BY <1>4 DEF PutFailure, SoloInv, RepairInv
<1>5. ASSUME NEW s \in Syncs, Conflict(s) \/ CallFails(s) PROVE RepairInv'
  BY <1>5, FailRepairs DEF Conflict, CallFails
<1>6. ASSUME NEW s \in Syncs, GetClaim(s) PROVE RepairInv'
  <2>1. CASE claims[claim[s]] = Wanted(s) /\ NextClaim(s)
    <3>1. claims' = claims
      BY <1>6 DEF GetClaim
    <3> QED BY <1>6, <2>1, <3>1, ClaimDone DEF GetClaim, ClaimSteps, Wanted
  <2>2. CASE pc' = [pc EXCEPT ![s] = "putClaim"] /\ UNCHANGED <<phase, queue, count, claim>>
    <3>1. Active' = Active /\ s \in Active
      BY <1>6, <2>2 DEF GetClaim, Active, TypeOK
    <3>2. \A t \in Active : Current(t) => Current(t)'
      BY <1>6, <2>2 DEF GetClaim, TypeOK, Current, ClaimSteps, ScoreExact, ClaimsBefore, Active
    <3> QED BY <1>6, <2>2, <3>1, <3>2 DEF GetClaim, RepairInv, Pending
  <2> QED BY <1>6, <2>1, <2>2 DEF GetClaim
<1>7. ASSUME NEW s \in Syncs, PutClaim(s) PROVE RepairInv'
  <2>1. /\ claims'[claim[s]] = ClaimValue(claim[s], count[s])
        /\ \A c \in ClaimNames \ {claim[s]} : claims'[c] = claims[c]
    BY <1>7 DEF PutClaim, Wanted, TypeOK
  <2> QED BY <1>7, <2>1, ClaimDone DEF PutClaim, ClaimSteps
<1>8. ASSUME NEW s \in Syncs, ListFails(s) PROVE RepairInv'
  BY <1>8 DEF ListFails, RepairInv
<1>9. ASSUME NEW h \in HCs, CreateHC(h) \/ DeleteHC(h) \/ TouchHC(h) PROVE RepairInv'
  <2>1. Pending' \/ missed'
    BY <1>9 DEF CreateHC, DeleteHC, TouchHC, Notify, NoSync, Pending, TypeOK
  <2> QED BY <2>1 DEF RepairInv
<1>10. CASE ToggleCRD \/ UNCHANGED vars
  BY <1>10 DEF ToggleCRD, NoSync, vars, RepairInv, Pending, Active, Current, ScoreExact,
               ClaimsExact, ClaimsBefore
<1>11. CASE Restart
  BY <1>11 DEF Restart, RepairInv, Active
<1> QED BY <1>1, <1>2, <1>3, <1>4, <1>5, <1>6, <1>7, <1>8, <1>9, <1>10, <1>11 DEF Next, Sync

\* Whatever races, failed calls and restarts came before, a sync that ran alone
\* leaves a score and claims that show the HCs there are, once the agent rests.
THEOREM Repairs == Spec => []SoloSyncRepairs
<1> DEFINE Inv == TypeOK /\ PhaseInv /\ SoloInv /\ RepairInv
<1>1. Init => Inv
  <2>1. Init => PhaseInv /\ SoloInv /\ RepairInv
    BY DEF Init, PhaseInv, SoloInv, RepairInv, Active, ClaimSteps
  <2> QED BY <2>1, TypeInit
<1>2. Inv /\ [Next]_vars => Inv'
  BY TypeStep, PhaseStep, SoloStep, RepairStep
<1>3. Inv => SoloSyncRepairs
  BY DEF RepairInv, SoloSyncRepairs, Settled, Pending
<1> QED BY <1>1, <1>2, <1>3, PTL DEF Spec

-----------------------------------------------------------------------------
(* While HCs are only created, the score is right whatever overlaps.       *)

\* A step that leaves shrunk false began with shrunk false, and neither
\* deletes an HC nor fails a List.
LEMMA OnlyGrows ==
  ASSUME [Next]_vars, ~shrunk'
  PROVE  ~shrunk /\ (\A h \in HCs : ~DeleteHC(h)) /\ (\A s \in Syncs : ~ListFails(s))
<1>1. \A h \in HCs : DeleteHC(h) => shrunk'
  BY DEF DeleteHC
<1>2. \A s \in Syncs : ListFails(s) => shrunk'
  BY DEF ListFails
<1>3. ASSUME NEW s \in Syncs, Sync(s) \/ CallFails(s) PROVE shrunk' = shrunk
  BY <1>3 DEF Sync, GetScore, ListHCs, PutScore, PutFailure, GetClaim, PutClaim, Conflict, CallFails
<1>4. ASSUME NEW h \in HCs, CreateHC(h) \/ TouchHC(h) PROVE shrunk' = shrunk
  BY <1>4 DEF CreateHC, TouchHC
<1>5. ToggleCRD \/ Restart \/ UNCHANGED vars => shrunk' = shrunk
  BY DEF ToggleCRD, Restart, vars
<1> QED BY <1>1, <1>2, <1>3, <1>4, <1>5 DEF Next

\* A sync that rests, and keeps the copies of the others, keeps GrowInv.
LEMMA RestGrows ==
  ASSUME TypeOK, GrowInv, NEW s \in Syncs, Rest(s), fresh' \subseteq fresh,
         queue' \subseteq hcs, UNCHANGED <<hcs, crd, score>>
  PROVE  GrowInv'
<1>1. \A t \in Syncs : pc'[t] # "idle" => pc'[t] = pc[t] /\ count'[t] = count[t]
  BY RestOthers
<1> QED BY <1>1 DEF GrowInv, Syncs

\* Going on to the next claim keeps GrowInv.
LEMMA NextClaimGrows ==
  ASSUME TypeOK, PhaseInv, GrowInv, NEW s \in Syncs, pc[s] \in ClaimSteps, NextClaim(s),
         UNCHANGED <<hcs, crd, score>>,
         \A v \in fresh' : v \in fresh \/ v = s
  PROVE  GrowInv'
<1>1. CASE Return(s)
  <2>1. queue' \subseteq hcs
    BY <1>1 DEF Return, GrowInv
  <2>2. \A t \in Syncs : pc'[t] # "idle" => t # s /\ pc'[t] = pc[t] /\ count'[t] = count[t]
    BY <1>1, RestOthers DEF Return
  <2> QED BY <2>1, <2>2 DEF GrowInv, Syncs
<1>2. CASE pc'[s] = "getClaim" /\ UNCHANGED <<phase, queue>>
  <2>1. \A t \in Syncs \ {s} : pc'[t] = pc[t] /\ count'[t] = count[t]
    BY NextClaimOthers
  <2>2. s \in HCs => s \in hcs
    BY DEF GrowInv, ClaimSteps
  <2> QED BY <1>2, <2>1, <2>2 DEF GrowInv, Syncs
<1> QED BY <1>1, <1>2, NextClaimOthers

\* While HCs are only created no action breaks GrowInv.
LEMMA GrowStep ==
  ASSUME ~shrunk'
  PROVE  TypeOK /\ PhaseInv /\ GrowInv /\ [Next]_vars => GrowInv'
<1> SUFFICES ASSUME TypeOK, PhaseInv, GrowInv, [Next]_vars PROVE GrowInv'
  OBVIOUS
<1>1. ASSUME NEW s \in Syncs, GetScore(s) PROVE GrowInv'
  <2>1. s \in HCs => s \in hcs
    BY <1>1 DEF GetScore, MayStart, GrowInv
  <2>2. /\ pc'[s] = "listHCs"
        /\ \A t \in Syncs \ {s} : pc'[t] = pc[t] /\ (t \in fresh' <=> t \in fresh)
    BY <1>1 DEF GetScore, TypeOK
  <2> QED BY <1>1, <2>1, <2>2 DEF GetScore, GrowInv, Syncs
<1>2. ASSUME NEW s \in Syncs, ListHCs(s) PROVE GrowInv'
  <2>1. /\ pc'[s] = "putScore" /\ count'[s] = Cardinality(hcs)
        /\ \A t \in Syncs \ {s} : pc'[t] = pc[t] /\ count'[t] = count[t]
    BY <1>2 DEF ListHCs, TypeOK
  <2>2. s \in HCs => s \in hcs
    BY <1>2 DEF ListHCs, GrowInv
  <2>3. Cardinality(hcs) \in Nat
    BY Counting DEF TypeOK
  <2> QED BY <1>2, <2>1, <2>2, <2>3 DEF ListHCs, GrowInv, Syncs
<1>3. ASSUME NEW s \in Syncs, PutScore(s) PROVE GrowInv'
  <2>1. /\ pc'[s] = "getClaim"
        /\ \A t \in Syncs \ {s} : pc'[t] = pc[t]
        /\ UNCHANGED <<hcs, crd, queue, count>>
        /\ s \notin fresh'
    BY <1>3 DEF PutScore, StoreScore, TypeOK
  <2>2. s \in HCs => s \in hcs
    BY <1>3 DEF PutScore, GrowInv
  <2>3. score'.value = ScoreValue(count[s]) /\ score'.updated = "true"
    BY <1>3 DEF PutScore, StoreScore
  <2>4. score'.value <= Cardinality(hcs)
    <3>1. count[s] \in Nat /\ Cardinality(hcs) \in Nat /\ count[s] <= Cardinality(hcs)
      BY <1>3, Counting DEF PutScore, GrowInv, TypeOK
    <3>2. ScoreValue(count[s]) \in 0..MaxScore /\ ScoreValue(count[s]) <= count[s]
      BY <3>1, ScoreValueType
    <3> QED BY <2>3, <3>1, <3>2
  <2>5. ASSUME NEW t \in Syncs, pc'[t] = "putScore", t \in fresh'
        PROVE  t \in fresh /\ pc[t] = "putScore" /\ score' = score
    <3>1. t # s /\ pc[t] = "putScore"
      BY <2>1, <2>5
    <3> QED BY <1>3, <2>5, <3>1 DEF PutScore, StoreScore, ScoreSteps
  <2>6. \A t \in Syncs : pc'[t] = "putScore" => pc[t] = "putScore"
    BY <2>1
  <2> QED BY <2>1, <2>2, <2>3, <2>4, <2>5, <2>6 DEF GrowInv, Syncs
<1>4. ASSUME NEW s \in Syncs, PutFailure(s) PROVE FALSE
  BY <1>4 DEF PutFailure, GrowInv
<1>5. ASSUME NEW s \in Syncs, Conflict(s) \/ CallFails(s) PROVE GrowInv'
  <2>1. Fail(s) /\ pc[s] # "idle" /\ fresh' \subseteq fresh /\ UNCHANGED <<hcs, crd, score>>
    BY <1>5 DEF Conflict, CallFails
  <2>2. queue' \subseteq hcs
    BY <2>1 DEF Fail, GrowInv, Syncs
  <2> QED BY <2>1, <2>2, RestGrows DEF Fail
<1>6. ASSUME NEW s \in Syncs, GetClaim(s) PROVE GrowInv'
  <2>1. CASE NextClaim(s) /\ UNCHANGED fresh
    BY <1>6, <2>1, NextClaimGrows DEF GetClaim, ClaimSteps
  <2>2. CASE /\ pc' = [pc EXCEPT ![s] = "putClaim"]
             /\ fresh' = fresh \cup {s}
             /\ UNCHANGED <<phase, queue, count, claim>>
    <3>1. /\ pc'[s] = "putClaim"
          /\ \A t \in Syncs \ {s} : pc'[t] = pc[t] /\ (t \in fresh' <=> t \in fresh)
      BY <2>2 DEF TypeOK
    <3>2. s \in HCs => s \in hcs
      BY <1>6 DEF GetClaim, GrowInv
    <3> QED BY <1>6, <2>2, <3>1, <3>2 DEF GetClaim, GrowInv, Syncs
  <2> QED BY <1>6, <2>1, <2>2 DEF GetClaim
<1>7. ASSUME NEW s \in Syncs, PutClaim(s) PROVE GrowInv'
  BY <1>7, NextClaimGrows DEF PutClaim, ClaimSteps
<1>8. ASSUME NEW s \in Syncs, ListFails(s) PROVE FALSE
  BY <1>8, OnlyGrows
<1>9. ASSUME NEW h \in HCs, CreateHC(h) PROVE GrowInv'
  <2>1. /\ hcs' = hcs \cup {h} /\ crd /\ crd' = crd
        /\ queue' \subseteq hcs'
        /\ UNCHANGED <<score, pc, count, fresh>>
    BY <1>9 DEF CreateHC, Notify, NoSync, GrowInv
  <2>2. /\ Cardinality(hcs') = Cardinality(hcs) + 1
        /\ Cardinality(hcs) \in Nat
    BY <1>9, <2>1, Counting DEF CreateHC, TypeOK
  <2>3. score.value \in Nat /\ \A s \in Syncs : count[s] \in Nat
    BY DEF TypeOK, ScoreState
  <2>4. \A n \in Nat : n <= Cardinality(hcs) => n <= Cardinality(hcs')
    BY <2>2
  <2>5. score'.value <= Cardinality(hcs')
    BY <2>1, <2>3, <2>4 DEF GrowInv
  <2>6. \A s \in Syncs : pc'[s] = "putScore" =>
          /\ count'[s] <= Cardinality(hcs')
          /\ s \in fresh' => score'.value <= count'[s]
    BY <2>1, <2>3, <2>4 DEF GrowInv
  <2>7. crd' /\ \A s \in HCs : pc'[s] # "idle" => s \in hcs'
    BY <2>1 DEF GrowInv
  <2> QED BY <2>1, <2>5, <2>6, <2>7 DEF GrowInv
<1>10. ASSUME NEW h \in HCs, DeleteHC(h) PROVE FALSE
  BY <1>10, OnlyGrows
<1>11. ASSUME NEW h \in HCs, TouchHC(h) PROVE GrowInv'
  BY <1>11 DEF TouchHC, Notify, NoSync, GrowInv
<1>12. CASE ToggleCRD \/ UNCHANGED vars
  BY <1>12 DEF ToggleCRD, NoSync, vars, GrowInv
<1>13. CASE Restart
  BY <1>13 DEF Restart, GrowInv, Syncs
<1> QED BY <1>1, <1>2, <1>3, <1>4, <1>5, <1>6, <1>7, <1>8, <1>9, <1>10, <1>11, <1>12, <1>13
        DEF Next, Sync

\* A sync that fails leaves a request, or the startup sync to be made again.
LEMMA FailFixes ==
  ASSUME TypeOK, PhaseInv, NEW s \in Syncs, pc[s] # "idle", Fail(s)
  PROVE  FixInv'
<1>1. CASE s \in HCs
  <2>1. phase' = "running" /\ s \in queue'
    BY <1>1 DEF PhaseInv, Active, Fail, TypeOK, Syncs
  <2> QED BY <2>1 DEF FixInv, Pending
<1>2. CASE s = Startup
  <2>1. phase' = "starting" /\ pc'[Startup] = "idle"
    BY <1>2, RestOthers DEF PhaseInv, Fail, TypeOK
  <2> QED BY <2>1 DEF FixInv
<1> QED BY <1>1, <1>2 DEF Syncs

\* A sync that works on its claims leaves whoever will fix the score alone.
LEMMA ClaimFixes ==
  ASSUME TypeOK, PhaseInv, FixInv, NEW s \in Syncs, pc[s] \in ClaimSteps,
         \A t \in Syncs \ {s} : pc'[t] = pc[t] /\ count'[t] = count[t],
         fresh' \subseteq fresh \cup {s},
         Return(s) \/ UNCHANGED <<phase, queue>>,
         UNCHANGED <<hcs, score>>
  PROVE  FixInv'
<1>1. CASE phase = "starting" /\ pc[Startup] = "idle"
  BY <1>1 DEF PhaseInv, Active, ClaimSteps
<1>2. CASE Pending
  <2>1. CASE UNCHANGED <<phase, queue>>
    BY <1>2, <2>1 DEF FixInv, Pending
  <2>2. CASE Return(s)
    <3>1. s = Startup <=> phase = "starting"
      BY DEF PhaseInv, Active, ClaimSteps, TypeOK
    <3> QED BY <1>2, <2>2, <3>1 DEF FixInv, Pending, Return, TypeOK
  <2> QED BY <2>1, <2>2
<1>3. CASE ScoreExact
  BY <1>3 DEF FixInv, ScoreExact
<1>4. ASSUME NEW x \in Syncs, WillFix(x) PROVE FixInv'
  <2>1. x # s
    BY <1>4 DEF WillFix, ClaimSteps
  <2>2. WillFix(x)'
    BY <1>4, <2>1 DEF WillFix
  <2> QED BY <2>2 DEF FixInv
<1> QED BY <1>1, <1>2, <1>3, <1>4 DEF FixInv

\* While the score is wrong somebody will fix it, whatever happens.
LEMMA FixStep ==
  ASSUME ~shrunk'
  PROVE  TypeOK /\ PhaseInv /\ GrowInv /\ FixInv /\ [Next]_vars => FixInv'
<1> SUFFICES ASSUME TypeOK, PhaseInv, GrowInv, FixInv, [Next]_vars PROVE FixInv'
  OBVIOUS
<1>1. ASSUME NEW s \in Syncs, GetScore(s) \/ ListHCs(s) PROVE FixInv'
  <2>1. pc'[s] = "listHCs" \/ (pc'[s] = "putScore" /\ count'[s] = Cardinality(hcs'))
    BY <1>1 DEF GetScore, ListHCs, TypeOK
  <2> QED BY <2>1 DEF FixInv, WillFix
<1>2. ASSUME NEW s \in Syncs, PutScore(s) PROVE FixInv'
  <2> DEFINE new == [value |-> ScoreValue(count[s]), updated |-> "true"]
  <2>1. /\ \A t \in Syncs \ {s} : pc'[t] = pc[t] /\ count'[t] = count[t]
        /\ UNCHANGED <<hcs, phase, queue>> /\ score' = new
        /\ pc[s] = "putScore" /\ s \in fresh
    BY <1>2 DEF PutScore, StoreScore, TypeOK
  <2>2. CASE phase = "starting" /\ pc[Startup] = "idle"
    BY <2>1, <2>2 DEF PhaseInv, Active
  <2>3. CASE Pending
    BY <2>1, <2>3 DEF FixInv, Pending
  <2>4. CASE ScoreExact
    <3>1. /\ count[s] <= Cardinality(hcs) /\ score.value <= count[s]
          /\ count[s] \in Nat /\ Cardinality(hcs) \in Nat
      BY <2>1, Counting DEF GrowInv, TypeOK
    <3>2. ScoreValue(count[s]) = ScoreValue(Cardinality(hcs))
      BY <2>4, <3>1 DEF ScoreExact, ScoreValue
    <3> QED BY <2>1, <3>2 DEF FixInv, ScoreExact
  <2>5. ASSUME NEW x \in Syncs, WillFix(x) PROVE FixInv'
    <3>1. CASE x = s
      <4>1. count[s] = Cardinality(hcs)
        BY <2>1, <2>5, <3>1 DEF WillFix
      <4> QED BY <2>1, <4>1 DEF FixInv, ScoreExact
    <3>2. CASE x # s
      <4>1. x \notin fresh => x \notin fresh'
        BY <1>2 DEF PutScore, StoreScore
      <4>2. WillFix(x)'
        BY <2>1, <2>5, <3>2, <4>1 DEF WillFix
      <4> QED BY <4>2 DEF FixInv
    <3> QED BY <3>1, <3>2
  <2> QED BY <2>2, <2>3, <2>4, <2>5 DEF FixInv
<1>3. ASSUME NEW s \in Syncs, PutFailure(s) PROVE FALSE
  BY <1>3 DEF PutFailure, GrowInv
<1>4. ASSUME NEW s \in Syncs, Conflict(s) \/ CallFails(s) PROVE FixInv'
  BY <1>4, FailFixes DEF Conflict, CallFails
<1>5. ASSUME NEW s \in Syncs, GetClaim(s) PROVE FixInv'
  <2>1. CASE NextClaim(s) /\ UNCHANGED fresh
    <3>1. /\ \A t \in Syncs \ {s} : pc'[t] = pc[t] /\ count'[t] = count[t]
          /\ Return(s) \/ UNCHANGED <<phase, queue>>
      BY <2>1, NextClaimOthers
    <3> QED BY <1>5, <2>1, <3>1, ClaimFixes DEF GetClaim, ClaimSteps
  <2>2. CASE /\ pc' = [pc EXCEPT ![s] = "putClaim"]
             /\ fresh' = fresh \cup {s}
             /\ UNCHANGED <<phase, queue, count, claim>>
    BY <1>5, <2>2, ClaimFixes DEF GetClaim, ClaimSteps, TypeOK
  <2> QED BY <1>5, <2>1, <2>2 DEF GetClaim
<1>6. ASSUME NEW s \in Syncs, PutClaim(s) PROVE FixInv'
  <2>1. /\ \A t \in Syncs \ {s} : pc'[t] = pc[t] /\ count'[t] = count[t]
        /\ Return(s) \/ UNCHANGED <<phase, queue>>
    BY <1>6, NextClaimOthers DEF PutClaim
  <2> QED BY <1>6, <2>1, ClaimFixes DEF PutClaim, ClaimSteps
<1>7. ASSUME NEW s \in Syncs, ListFails(s) PROVE FALSE
  BY <1>7, OnlyGrows
<1>8. ASSUME NEW h \in HCs, CreateHC(h) PROVE FixInv'
  <2>1. Pending'
    BY <1>8 DEF CreateHC, Notify, NoSync, Pending, TypeOK
  <2> QED BY <2>1 DEF FixInv
<1>13. ASSUME NEW h \in HCs, DeleteHC(h) PROVE FALSE
  BY <1>13, OnlyGrows
<1>9. ASSUME UNCHANGED <<hcs, score, phase, pc, count, fresh>>, queue \subseteq queue'
      PROVE  FixInv'
  BY <1>9 DEF FixInv, Pending, ScoreExact, WillFix
<1>10. ASSUME NEW h \in HCs, TouchHC(h) PROVE FixInv'
  BY <1>9, <1>10 DEF TouchHC, Notify, NoSync
<1>11. CASE ToggleCRD \/ UNCHANGED vars
  BY <1>9, <1>11 DEF ToggleCRD, NoSync, vars
<1>12. CASE Restart
  BY <1>12 DEF Restart, FixInv, Syncs
<1> QED BY <1>1, <1>2, <1>3, <1>4, <1>5, <1>6, <1>7, <1>8, <1>10, <1>11, <1>12, <1>13 DEF Next, Sync

\* As long as HCs are only created and every List succeeds, the score is the
\* number of HCs once the agent rests, however many reconciles overlap, fail or
\* are cut short.
THEOREM ScoreCounts == Spec => []SettledScore
<1> DEFINE Inv == TypeOK /\ PhaseInv /\ (~shrunk => GrowInv /\ FixInv)
<1>1. Init => Inv
  <2> SUFFICES ASSUME Init PROVE PhaseInv /\ GrowInv /\ FixInv
    BY TypeInit
  <2>1. Cardinality(hcs) \in Nat
    BY TypeInit, Counting DEF TypeOK
  <2>2. PhaseInv /\ FixInv
    BY DEF Init, PhaseInv, FixInv, Active, ClaimSteps, Syncs
  <2>3. GrowInv
    BY <2>1 DEF Init, GrowInv, NoScore, Syncs
  <2> QED BY <2>2, <2>3
<1>2. Inv /\ [Next]_vars => Inv'
  <2> SUFFICES ASSUME Inv, [Next]_vars PROVE Inv'
    OBVIOUS
  <2>1. TypeOK' /\ PhaseInv'
    BY TypeStep, PhaseStep
  <2>2. ASSUME ~shrunk' PROVE GrowInv' /\ FixInv'
    <3>1. GrowInv /\ FixInv
      BY <2>2, OnlyGrows
    <3> QED BY <2>2, <3>1, GrowStep, FixStep
  <2> QED BY <2>1, <2>2
<1>3. Inv => SettledScore
  BY DEF FixInv, SettledScore, Settled, Pending, WillFix, Active
<1> QED BY <1>1, <1>2, <1>3, PTL DEF Spec
=============================================================================
