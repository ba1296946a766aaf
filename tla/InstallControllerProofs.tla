------------------------ MODULE InstallControllerProofs ------------------------
(***************************************************************************)
(* Theorems about InstallController for every configuration in use, every  *)
(* number of versions and Jobs, and any number of changes.                 *)
(***************************************************************************)
EXTENDS InstallController, WellFoundedInduction, TLAPS

USE ConstantsAssumption DEF ConstantsAssumption

-----------------------------------------------------------------------------
(* The script                                                              *)

\* What the controller does at each step, and about which item.
LEMMA Lines ==
  /\ Len(Script) = 28
  /\ Script[1] = <<"check", "bucket">> /\ Script[2] = <<"check", "extDns">>
  /\ Script[3] = <<"check", "privateLink">> /\ Script[4] = <<"check", "azurePrivate">>
  /\ Script[5] = <<"check", "flags">> /\ Script[6] = <<"check", "images">>
  /\ Script[7] = <<"upgradable">>
  /\ Script[8] = <<"read", "bucket">> /\ Script[9] = <<"read", "privateLink">>
  /\ Script[10] = <<"read", "azurePrivate">>
  /\ Script[11] = <<"use", "bucket">> /\ Script[12] = <<"use", "privateLink">>
  /\ Script[13] = <<"read", "extDns">> /\ Script[14] = <<"use", "extDns">>
  /\ Script[15] = <<"read", "flags">> /\ Script[16] = <<"use", "flags">>
  /\ Script[17] = <<"read", "images">> /\ Script[18] = <<"use", "images">>
  /\ Script[19] = <<"decide">> /\ Script[20] = <<"stream">>
  /\ Script[21] = <<"create">> /\ Script[22] = <<"wait">>
  /\ Script[23] = <<"save", "bucket">> /\ Script[24] = <<"save", "privateLink">>
  /\ Script[25] = <<"save", "azurePrivate">> /\ Script[26] = <<"save", "extDns">>
  /\ Script[27] = <<"save", "flags">> /\ Script[28] = <<"done">>
BY DEF Script

LEMMA Ops ==
  /\ \A k \in 1..28 :
       /\ Op(k) = "check" <=> k \in 1..6
       /\ Op(k) = "upgradable" <=> k = 7
       /\ Op(k) = "read" <=> k \in {8, 9, 10, 13, 15, 17}
       /\ Op(k) = "use" <=> k \in {11, 12, 14, 16, 18}
       /\ Op(k) = "decide" <=> k = 19
       /\ Op(k) = "stream" <=> k = 20
       /\ Op(k) = "create" <=> k = 21
       /\ Op(k) = "wait" <=> k = 22
       /\ Op(k) = "save" <=> k \in 23..27
       /\ Op(k) = "done" <=> k = 28
<1> SUFFICES ASSUME NEW k \in 1..28
             PROVE  /\ Op(k) = "check" <=> k \in 1..6
                    /\ Op(k) = "upgradable" <=> k = 7
                    /\ Op(k) = "read" <=> k \in {8, 9, 10, 13, 15, 17}
                    /\ Op(k) = "use" <=> k \in {11, 12, 14, 16, 18}
                    /\ Op(k) = "decide" <=> k = 19
                    /\ Op(k) = "stream" <=> k = 20
                    /\ Op(k) = "create" <=> k = 21
                    /\ Op(k) = "wait" <=> k = 22
                    /\ Op(k) = "save" <=> k \in 23..27
                    /\ Op(k) = "done" <=> k = 28
  OBVIOUS
<1>1. CASE k \in 1..7
  BY <1>1, Lines DEF Op
<1>2. CASE k \in 8..14
  BY <1>2, Lines DEF Op
<1>3. CASE k \in 15..21
  BY <1>3, Lines DEF Op
<1>4. CASE k \in 22..28
  BY <1>4, Lines DEF Op
<1> QED BY <1>1, <1>2, <1>3, <1>4

LEMMA ItemsAt ==
  /\ ItemAt(1) = "bucket" /\ ItemAt(2) = "extDns" /\ ItemAt(3) = "privateLink"
  /\ ItemAt(4) = "azurePrivate" /\ ItemAt(5) = "flags" /\ ItemAt(6) = "images"
  /\ ItemAt(8) = "bucket" /\ ItemAt(9) = "privateLink" /\ ItemAt(10) = "azurePrivate"
  /\ ItemAt(11) = "bucket" /\ ItemAt(12) = "privateLink"
  /\ ItemAt(13) = "extDns" /\ ItemAt(14) = "extDns"
  /\ ItemAt(15) = "flags" /\ ItemAt(16) = "flags"
  /\ ItemAt(17) = "images" /\ ItemAt(18) = "images"
  /\ ItemAt(23) = "bucket" /\ ItemAt(24) = "privateLink" /\ ItemAt(25) = "azurePrivate"
  /\ ItemAt(26) = "extDns" /\ ItemAt(27) = "flags"
BY Lines DEF ItemAt

\* A step without an item is never passed over.
LEMMA NeverIdle == ~Idle(7) /\ ~Idle(19) /\ ~Idle(20) /\ ~Idle(21) /\ ~Idle(22) /\ ~Idle(28)
BY Lines DEF Idle

\* The next step is the first one that is not passed over.
LEMMA AfterIs ==
  ASSUME NEW k \in 0..27
  PROVE  /\ After(k) \in (k + 1)..28
         /\ ~Idle(After(k))
         /\ \A m \in (k + 1)..(After(k) - 1) : Idle(m)
<1> DEFINE S == {n \in (k + 1)..28 : ~Idle(n)}
           R == {ss \in Nat \X Nat : ss[1] < ss[2]}
<1>1. 28 \in S /\ S \subseteq Nat
  BY NeverIdle
<1>2. IsWellFoundedOn(R, Nat)
  BY NatLessThanWellFounded DEF OpToRel
<1>3. PICK n \in S : \A m \in S : <<m, n>> \notin R
  <2> HIDE DEF S, R
  <2> QED BY <1>1, <1>2, WFMin
<1>4. ASSUME NEW m \in (k + 1)..(n - 1), ~Idle(m)
      PROVE  FALSE
  <2>1. m \in S /\ m < n /\ m \in Nat /\ n \in Nat
    BY <1>3, <1>4
  <2>2. <<m, n>> \in R
    BY <2>1
  <2> QED BY <1>3, <2>1, <2>2
<1>5. n \in (k + 1)..28 /\ ~Idle(n)
  BY <1>3
<1> DEFINE P(x) == ~Idle(x) /\ \A m \in (k + 1)..(x - 1) : Idle(m)
<1>6. After(k) = CHOOSE x \in (k + 1)..28 : P(x)
  BY Lines DEF After
<1>7. \E x \in (k + 1)..28 : P(x)
  BY <1>4, <1>5
<1> HIDE DEF S, R, P
<1>8. After(k) \in (k + 1)..28 /\ P(After(k))
  BY <1>6, <1>7
<1> QED BY <1>8 DEF P

\* What is passed over concerns no item in use, so never one of these steps.
LEMMA PassedOver ==
  ASSUME NEW k \in 0..27, NEW m \in Nat, k < m, m < After(k)
  PROVE  ItemAt(m) \notin Used /\ m \notin {7, 19, 20, 21, 22, 28}
<1>1. m \in (k + 1)..(After(k) - 1)
  BY AfterIs
<1>2. Idle(m)
  BY <1>1, AfterIs
<1> QED BY <1>2, NeverIdle DEF Idle

\* So those steps are reached one after the other.
LEMMA Landmarks ==
  ASSUME NEW k \in 0..27
  PROVE  /\ After(k) \in (k + 1)..28
         /\ k < 7 => After(k) <= 7
         /\ k < 19 => After(k) <= 19
         /\ k < 20 => After(k) <= 20
         /\ k < 21 => After(k) <= 21
         /\ k < 22 => After(k) <= 22
<1>1. \A m \in {7, 19, 20, 21, 22} : k < m => ~(m < After(k))
  BY PassedOver
<1>2. After(k) \in (k + 1)..28
  BY AfterIs
<1> QED BY <1>1, <1>2

\* The controller's step, by its number.
LEMMA StepIs ==
  ASSUME TypeOK
  PROVE  /\ pc \in 0..28
         /\ Do("check") <=> pc \in 1..6
         /\ Do("upgradable") <=> pc = 7
         /\ Do("read") <=> pc \in {8, 9, 10, 13, 15, 17}
         /\ Do("use") <=> pc \in {11, 12, 14, 16, 18}
         /\ Do("decide") <=> pc = 19
         /\ Do("stream") <=> pc = 20
         /\ Do("create") <=> pc = 21
         /\ Do("wait") <=> pc = 22
         /\ Do("save") <=> pc \in 23..27
         /\ Do("done") <=> pc = 28
<1>1. pc \in 0..28
  BY Lines DEF TypeOK
<1>2. CASE pc = 0
  BY <1>2 DEF Do
<1>3. CASE pc \in 1..28
  BY <1>3, Ops DEF Do
<1> QED BY <1>1, <1>2, <1>3

LEMMA ItemIs ==
  ASSUME TypeOK
  PROVE  /\ Do("check") \/ Do("read") \/ Do("use") => Item \in Items
         /\ Do("save") => Item \in Options
         /\ Do("read") => (Item \in CachedWhenUsed <=> pc \in {13, 17})
<1>1. CASE pc \in 1..6
  BY <1>1, StepIs, ItemsAt DEF Item, Items, Options
<1>2. CASE pc \in 8..14
  BY <1>2, StepIs, ItemsAt DEF Item, Items, Options, CachedWhenUsed
<1>3. CASE pc \in 15..18
  BY <1>3, StepIs, ItemsAt DEF Item, Items, Options, CachedWhenUsed
<1>4. CASE pc \in 23..27
  BY <1>4, StepIs, ItemsAt DEF Item, Items, Options
<1> QED BY <1>1, <1>2, <1>3, <1>4, StepIs

-----------------------------------------------------------------------------
(* Types                                                                   *)

LEMMA Constants ==
  /\ Options \subseteq Items /\ "images" \in Items
  /\ Absent \in Version /\ Version \subseteq Nat
  /\ Nothing \in Configuration
  /\ \A i \in Items : Nothing[i] = Absent
BY DEF Items, Absent, Version, Nothing, Configuration

LEMMA Records ==
  /\ NoOperator \in Operator /\ ~NoOperator.exists /\ ~NoOperator.notByMCE
  /\ FreeJob \in Job /\ FreeJob.state = "none" /\ FreeJob.with = Nothing
BY Constants DEF NoOperator, Operator, FreeJob, Job, JobStates

\* How each step of the controller goes on.
LEMMA Goes ==
  ASSUME TypeOK
  PROVE  /\ pc # 28 => After(pc) \in (pc + 1)..28
         /\ pc < 7 => After(pc) <= 7
         /\ Sleep => pc' = 0 /\ read' \in Configuration /\ found' \in Operator /\ job' = NoJob
<1>1. pc \in 0..28
  BY StepIs
<1>2. pc # 28 => pc \in 0..27
  BY <1>1
<1>3. pc < 7 => pc \in 0..27
  BY <1>1
<1>4. Sleep => pc' = 0 /\ read' \in Configuration /\ found' \in Operator /\ job' = NoJob
  BY Constants, Records DEF Sleep
<1> QED BY <1>2, <1>3, <1>4, Landmarks

\* The values every variable keeps within; job apart.
Typed ==
  /\ hub \in Configuration
  /\ cache \in Configuration
  /\ saved \in [Options -> Version]
  /\ credentials \in [Options -> Version]
  /\ imageStream \in Version
  /\ operator \in Operator
  /\ jobs \in [Jobs -> Job]
  /\ startup \in BOOLEAN
  /\ installfailed \in BOOLEAN
  /\ pc \in 0..28
  /\ read \in Configuration
  /\ found \in Operator
  /\ disturbed \subseteq {"late", "ignored", "stripped"}
  /\ changes \in Nat

\* The Job the controller waits for.
JobKnown == job \in Jobs \cup {NoJob} /\ (job # NoJob => pc = 22 /\ jobs[job].state # "none")

LEMMA TypeParts == TypeOK <=> Typed /\ JobKnown
<1>1. TypeOK => Typed /\ JobKnown
  BY StepIs, Lines DEF TypeOK, Typed, JobKnown
<1>2. ASSUME Typed, JobKnown PROVE TypeOK
  <2>1. pc = 22 => Do("wait")
    BY Lines DEF Do, Op
  <2> QED BY <1>2, <2>1, Lines DEF TypeOK, Typed, JobKnown
<1> QED BY <1>1, <1>2

LEMMA TypesInitially == Init => TypeOK
<1> SUFFICES ASSUME Init PROVE Typed /\ JobKnown
  BY TypeParts
<1>1. hub \in Configuration /\ cache \in Configuration /\ read \in Configuration
  BY Constants DEF Init
<1>2. saved \in [Options -> Version] /\ credentials \in [Options -> Version] /\ imageStream \in Version
  BY Constants DEF Init
<1>3. operator \in Operator /\ found \in Operator /\ jobs \in [Jobs -> Job]
  BY Records DEF Init
<1>6. /\ startup \in BOOLEAN /\ installfailed \in BOOLEAN
      /\ pc = 0 /\ disturbed = {} /\ changes = 0
  BY Zenon DEF Init
<1>4. Typed
  BY <1>1, <1>2, <1>3, <1>6 DEF Typed
<1>5. JobKnown
  BY DEF Init, JobKnown
<1> QED BY <1>4, <1>5

LEMMA ChangeCounts == ASSUME TypeOK, NEW w, Change(w) PROVE changes' \in Nat
BY DEF TypeOK, Change

\* What only moves the controller.
LEMMA GotoTyped ==
  ASSUME TypeOK, NEW k \in 0..28, Goto(k), job = NoJob
  PROVE  /\ startup' \in BOOLEAN /\ installfailed' \in BOOLEAN /\ pc' \in 0..28
         /\ read' \in Configuration /\ found' \in Operator
         /\ JobKnown'
BY DEF TypeOK, Goto, JobKnown

LEMMA AdvanceTyped ==
  ASSUME TypeOK, pc # 28, job = NoJob, Advance
  PROVE  /\ startup' \in BOOLEAN /\ installfailed' \in BOOLEAN /\ pc' \in 0..28
         /\ read' \in Configuration /\ found' \in Operator
         /\ JobKnown'
<1>1. After(pc) \in 0..28
  BY Goes, StepIs
<1> QED BY <1>1 DEF TypeOK, Advance, JobKnown

LEMMA SleepTyped ==
  ASSUME TypeOK, Fail \/ Finish
  PROVE  /\ startup' \in BOOLEAN /\ installfailed' \in BOOLEAN /\ pc' \in 0..28
         /\ read' \in Configuration /\ found' \in Operator
         /\ JobKnown'
<1>1. Sleep
  BY DEF Fail, Finish
<1>2. startup' \in BOOLEAN /\ installfailed' \in BOOLEAN
  BY DEF Fail, Finish, TypeOK
<1>3. pc' = 0 /\ read' \in Configuration /\ found' \in Operator /\ job' = NoJob
  BY <1>1, Goes
<1> QED BY <1>2, <1>3 DEF JobKnown

LEMMA NoJobYet == ASSUME TypeOK, pc # 22 PROVE job = NoJob
BY StepIs DEF TypeOK

LEMMA TickTyped == ASSUME TypeOK, Tick PROVE TypeOK'
<1>1. pc = 0 /\ After(0) \in 0..28 /\ UpgradableStep \in 0..28
  BY Goes DEF Tick, UpgradableStep
<1>2. job = NoJob
  BY <1>1, NoJobYet
<1>3. PICK k \in 0..28 : Goto(k)
  BY <1>1 DEF Tick
<1>4. UNCHANGED <<hub, cache, saved, credentials, imageStream, operator, jobs, disturbed, changes>>
  BY DEF Tick, cluster
<1>5. Typed'
  BY <1>2, <1>3, <1>4, GotoTyped DEF Typed, TypeOK
<1> QED BY <1>2, <1>3, <1>5, GotoTyped, TypeParts, PTL

LEMMA CheckGoes ==
  ASSUME TypeOK, Check
  PROVE  /\ Item \in Items
         /\ \/ Goto(7) /\ hub[Item] # cache[Item] /\ cache' = [cache EXCEPT ![Item] = hub[Item]]
               /\ UNCHANGED changes
            \/ (\E k \in 0..6 : Goto(k)) /\ UNCHANGED cache /\ (UNCHANGED changes \/ Change("readFails"))
         /\ UNCHANGED <<hub, saved, credentials, imageStream, operator, jobs, disturbed>>
<1>1. pc \in 1..6 /\ Item \in Items
  BY StepIs, ItemIs DEF Check
<1>2. After(pc) \in 1..28
  BY <1>1, Goes
<1>3. ASSUME NextCheck PROVE \E k \in 0..6 : Goto(k)
  <2>1. CASE Op(After(pc)) = "check"
    <3>1. After(pc) \in 1..6
      BY <1>2, <2>1, Ops
    <3> QED BY <1>3, <2>1, <3>1 DEF NextCheck
  <2>2. CASE Op(After(pc)) # "check"
    BY <1>3, <2>2 DEF NextCheck
  <2> QED BY <2>1, <2>2
<1> QED BY <1>1, <1>3 DEF Check, UpgradableStep, cluster

LEMMA CheckTyped == ASSUME TypeOK, Check PROVE TypeOK'
<1>1. job = NoJob
  BY NoJobYet, StepIs DEF Check
<1>2. PICK k \in 0..28 : Goto(k)
  BY CheckGoes
<1>3. cache' \in Configuration /\ changes' \in Nat
  BY CheckGoes, ChangeCounts DEF TypeOK, Configuration
<1>4. Typed'
  BY <1>1, <1>2, <1>3, CheckGoes, GotoTyped DEF Typed, TypeOK
<1> QED BY <1>1, <1>2, <1>4, GotoTyped, TypeParts, PTL

LEMMA UpgradableTyped == ASSUME TypeOK, OperatorUpgradable PROVE TypeOK'
<1>1. pc = 7 /\ job = NoJob /\ After(7) \in 0..28
  BY StepIs, NoJobYet, Goes DEF OperatorUpgradable
<1>2. UNCHANGED <<hub, cache, saved, credentials, imageStream, jobs, operator, changes>>
  BY DEF OperatorUpgradable, cluster
<1>3. CASE Finish /\ disturbed' = disturbed \cup {"ignored"}
  <2>1. disturbed' \subseteq {"late", "ignored", "stripped"}
    BY <1>3 DEF TypeOK
  <2>2. Typed'
    BY <1>2, <1>3, <2>1, SleepTyped DEF Typed, TypeOK
  <2> QED BY <1>3, <2>2, SleepTyped, TypeParts, PTL
<1>4. CASE /\ found' = operator /\ pc' = After(pc) /\ disturbed' = disturbed \ {"stripped"}
           /\ UNCHANGED <<startup, installfailed, read, job>>
  <2>1. Typed'
    BY <1>1, <1>2, <1>4 DEF Typed, TypeOK
  <2>2. JobKnown'
    BY <1>1, <1>4 DEF JobKnown
  <2> QED BY <2>1, <2>2, TypeParts, PTL
<1> QED BY <1>3, <1>4 DEF OperatorUpgradable

\* What an installation reads is what the hub holds, or the read failed.
LEMMA ReadGives ==
  ASSUME TypeOK, Read
  PROVE  /\ Item \in Items /\ pc \in {8, 9, 10, 13, 15, 17}
         /\ \E v \in Version :
              /\ read' = [read EXCEPT ![Item] = v]
              /\ v = hub[Item] \/ (v = Absent /\ "readFails" \in Changes)
              /\ cache' = IF Item \in CachedWhenUsed THEN cache ELSE [cache EXCEPT ![Item] = v]
         /\ pc' = After(pc) /\ After(pc) \in (pc + 1)..28
         /\ changes' \in Nat
         /\ UNCHANGED <<hub, saved, credentials, imageStream, operator, jobs, startup,
                        installfailed, found, job, disturbed>>
<1>1. Item \in Items /\ pc \in {8, 9, 10, 13, 15, 17}
  BY StepIs, ItemIs DEF Read
<1>2. hub[Item] \in Version
  BY <1>1 DEF TypeOK, Configuration
<1>3. PICK v \in {hub[Item], Absent} :
        /\ (v = hub[Item] /\ UNCHANGED changes) \/ (v = Absent /\ Change("readFails"))
        /\ read' = [read EXCEPT ![Item] = v]
        /\ cache' = IF Item \in CachedWhenUsed THEN cache ELSE [cache EXCEPT ![Item] = v]
  BY DEF Read
<1>4. v \in Version /\ (v = hub[Item] \/ (v = Absent /\ "readFails" \in Changes))
  BY <1>2, <1>3, Constants DEF Change
<1>5. changes' \in Nat
  BY <1>3, ChangeCounts DEF TypeOK
<1>6. After(pc) \in (pc + 1)..28
  BY <1>1, Goes
<1>7. /\ pc' = After(pc)
      /\ UNCHANGED <<hub, saved, credentials, imageStream, operator, jobs, startup,
                     installfailed, found, job, disturbed>>
  BY DEF Read, cluster
<1> QED BY <1>1, <1>3, <1>4, <1>5, <1>6, <1>7

LEMMA ReadTyped == ASSUME TypeOK, Read PROVE TypeOK'
<1>1. read' \in Configuration /\ cache' \in Configuration
  BY ReadGives DEF TypeOK, Configuration
<1>2. pc' \in 0..28 /\ job = NoJob
  BY ReadGives, NoJobYet
<1>3. Typed'
  BY <1>1, <1>2, ReadGives DEF Typed, TypeOK
<1>4. JobKnown'
  BY <1>2, ReadGives DEF JobKnown
<1> QED BY <1>3, <1>4, TypeParts, PTL

LEMMA UseTyped == ASSUME TypeOK, Use PROVE TypeOK'
<1>1. pc \in {11, 12, 14, 16, 18} /\ Item \in Items /\ job = NoJob
  BY StepIs, ItemIs, NoJobYet DEF Use
<1>2. UNCHANGED <<hub, saved, imageStream, operator, jobs, disturbed, changes>>
  BY DEF Use
<1>3. cache' \in Configuration /\ credentials' \in [Options -> Version]
  <2>1. CASE UNCHANGED <<cache, credentials>>
    BY <2>1 DEF TypeOK
  <2>2. CASE credentials' = [s \in Options |-> IF s \in Copies(Item) THEN read[s] ELSE credentials[s]]
             /\ cache' = IF Item \in CachedWhenUsed THEN [cache EXCEPT ![Item] = read[Item]] ELSE cache
    BY <1>1, <2>2, Constants DEF TypeOK, Configuration
  <2> QED BY <2>1, <2>2 DEF Use
<1>4. CASE Fail
  <2>1. Typed'
    BY <1>2, <1>3, <1>4, SleepTyped DEF Typed, TypeOK
  <2> QED BY <1>4, <2>1, SleepTyped, TypeParts, PTL
<1>5. CASE Advance
  <2>0. /\ startup' \in BOOLEAN /\ installfailed' \in BOOLEAN /\ pc' \in 0..28
        /\ read' \in Configuration /\ found' \in Operator
        /\ JobKnown'
    BY <1>1, <1>5, AdvanceTyped
  <2>1. Typed'
    BY <1>2, <1>3, <2>0 DEF Typed, TypeOK
  <2> QED BY <2>0, <2>1, TypeParts, PTL
<1> QED BY <1>4, <1>5 DEF Use

LEMMA DecideGoes ==
  ASSUME Decide
  PROVE  /\ Do("decide")
         /\ \/ Finish /\ (Skips(saved) \/ \E i \in Options : Skips([saved EXCEPT ![i] = Absent]))
            \/ Advance
         /\ UNCHANGED changes \/ Change("localFails")
         /\ UNCHANGED <<hub, cache, saved, credentials, imageStream, operator, jobs, disturbed>>
BY DEF Decide, cluster

LEMMA DecideTyped == ASSUME TypeOK, Decide PROVE TypeOK'
<1>1. pc = 19 /\ job = NoJob
  BY StepIs, NoJobYet, DecideGoes
<1>2. changes' \in Nat
  BY DecideGoes, ChangeCounts DEF TypeOK
<1>3. CASE Finish
  <2>1. Typed'
    BY <1>2, <1>3, DecideGoes, SleepTyped DEF Typed, TypeOK
  <2> QED BY <1>3, <2>1, SleepTyped, TypeParts, PTL
<1>4. CASE Advance
  <2>0. /\ startup' \in BOOLEAN /\ installfailed' \in BOOLEAN /\ pc' \in 0..28
        /\ read' \in Configuration /\ found' \in Operator
        /\ JobKnown'
    BY <1>1, <1>4, AdvanceTyped
  <2>1. Typed'
    BY <1>2, <2>0, DecideGoes DEF Typed, TypeOK
  <2> QED BY <2>0, <2>1, TypeParts, PTL
<1> QED BY <1>3, <1>4, DecideGoes

\* A step that keeps all but what is listed, and goes on or ends the cycle.
LEMMA GoesOnTyped ==
  ASSUME TypeOK, pc # 28, job = NoJob, Advance,
         hub' \in Configuration, cache' \in Configuration,
         saved' \in [Options -> Version], credentials' \in [Options -> Version],
         imageStream' \in Version, operator' \in Operator, jobs' \in [Jobs -> Job],
         disturbed' \subseteq {"late", "ignored", "stripped"}, changes' \in Nat
  PROVE  TypeOK'
<1>1. /\ startup' \in BOOLEAN /\ installfailed' \in BOOLEAN /\ pc' \in 0..28
      /\ read' \in Configuration /\ found' \in Operator
      /\ JobKnown'
  BY AdvanceTyped
<1>2. Typed'
  BY <1>1 DEF Typed
<1> QED BY <1>1, <1>2, TypeParts, PTL

LEMMA StopsTyped ==
  ASSUME TypeOK, Fail \/ Finish,
         hub' \in Configuration, cache' \in Configuration,
         saved' \in [Options -> Version], credentials' \in [Options -> Version],
         imageStream' \in Version, operator' \in Operator, jobs' \in [Jobs -> Job],
         disturbed' \subseteq {"late", "ignored", "stripped"}, changes' \in Nat
  PROVE  TypeOK'
<1>1. /\ startup' \in BOOLEAN /\ installfailed' \in BOOLEAN /\ pc' \in 0..28
      /\ read' \in Configuration /\ found' \in Operator
      /\ JobKnown'
  BY SleepTyped
<1>2. Typed'
  BY <1>1 DEF Typed
<1> QED BY <1>1, <1>2, TypeParts, PTL

LEMMA StreamTyped == ASSUME TypeOK, WriteImageStream PROVE TypeOK'
<1>1. pc = 20 /\ job = NoJob /\ Advance
  BY StepIs, NoJobYet DEF WriteImageStream
<1>2. imageStream' \in Version
  BY Constants DEF WriteImageStream, TypeOK, Configuration
<1>3. UNCHANGED <<hub, cache, saved, credentials, operator, jobs, disturbed, changes>>
  BY DEF WriteImageStream
<1> QED BY <1>1, <1>2, <1>3, GoesOnTyped DEF TypeOK

\* A Job is created with what was read; the answer arrives or is lost.
LEMMA CreateGives ==
  ASSUME TypeOK, CreateJob
  PROVE  /\ pc = 21 /\ job = NoJob /\ After(pc) = 22
         /\ \E j \in Jobs :
              /\ jobs[j].state = "none"
              /\ jobs' = [jobs EXCEPT ![j] = [state |-> "pending", with |-> read]]
              /\ \/ /\ pc' = 22 /\ job' = j
                    /\ UNCHANGED <<startup, installfailed, read, found, changes>>
                 \/ Fail /\ Change("callFails")
         /\ UNCHANGED <<hub, cache, saved, credentials, imageStream, operator, disturbed>>
<1>1. pc = 21 /\ job = NoJob
  BY StepIs, NoJobYet DEF CreateJob
<1>2. After(21) = 22
  BY Landmarks
<1> QED BY <1>1, <1>2 DEF CreateJob

LEMMA PendingJob == ASSUME TypeOK PROVE [state |-> "pending", with |-> read] \in Job
BY DEF TypeOK, Job, JobStates

LEMMA CreateTyped == ASSUME TypeOK, CreateJob PROVE TypeOK'
<1>1. PICK j \in Jobs :
        /\ jobs[j].state = "none"
        /\ jobs' = [jobs EXCEPT ![j] = [state |-> "pending", with |-> read]]
        /\ \/ /\ pc' = 22 /\ job' = j
              /\ UNCHANGED <<startup, installfailed, read, found, changes>>
           \/ Fail /\ Change("callFails")
  BY CreateGives
<1>2. UNCHANGED <<hub, cache, saved, credentials, imageStream, operator, disturbed>>
  BY CreateGives
<1>3. jobs' \in [Jobs -> Job] /\ jobs'[j].state = "pending"
  BY <1>1, PendingJob DEF TypeOK
<1>4. CASE /\ pc' = 22 /\ job' = j
           /\ UNCHANGED <<startup, installfailed, read, found, changes>>
  <2>1. Typed'
    BY <1>2, <1>3, <1>4 DEF Typed, TypeOK
  <2>2. JobKnown'
    BY <1>3, <1>4 DEF JobKnown
  <2> QED BY <2>1, <2>2, TypeParts, PTL
<1>5. CASE Fail /\ Change("callFails")
  <2>1. changes' \in Nat
    BY <1>5, ChangeCounts
  <2> QED BY <1>2, <1>3, <1>5, <2>1, StopsTyped DEF TypeOK
<1> QED BY <1>1, <1>4, <1>5

\* While it waits there is a Job to wait for.
LEMMA AwaitGives ==
  ASSUME TypeOK, AwaitJob
  PROVE  /\ pc = 22 /\ jobs[job].state \in {"succeeded", "failed"}
         /\ jobs' = [jobs EXCEPT ![job] = FreeJob]
         /\ After(pc) \in 23..28
         /\ \/ /\ jobs[job].state = "succeeded" /\ pc' = After(pc) /\ job' = NoJob
               /\ UNCHANGED <<startup, installfailed, read, found>>
            \/ Fail
         /\ UNCHANGED <<hub, cache, saved, credentials, imageStream, operator, disturbed, changes>>
<1>1. pc = 22
  BY StepIs DEF AwaitJob
<1>2. After(22) \in 23..28
  BY Landmarks
<1> QED BY <1>1, <1>2 DEF AwaitJob

LEMMA AwaitTyped == ASSUME TypeOK, AwaitJob PROVE TypeOK'
<1>1. jobs' \in [Jobs -> Job]
  BY AwaitGives, Records DEF TypeOK
<1>2. UNCHANGED <<hub, cache, saved, credentials, imageStream, operator, disturbed, changes>>
  BY AwaitGives
<1>3. CASE Fail
  BY <1>1, <1>2, <1>3, StopsTyped DEF TypeOK
<1>4. CASE pc' = After(pc) /\ job' = NoJob /\ UNCHANGED <<startup, installfailed, read, found>>
  <2>1. pc' \in 0..28
    BY <1>4, AwaitGives
  <2>2. Typed'
    BY <1>1, <1>2, <1>4, <2>1 DEF Typed, TypeOK
  <2>3. JobKnown'
    BY <1>4 DEF JobKnown
  <2> QED BY <2>2, <2>3, TypeParts, PTL
<1> QED BY <1>3, <1>4, AwaitGives

LEMMA SaveTyped == ASSUME TypeOK, Save PROVE TypeOK'
<1>1. pc \in 23..27 /\ job = NoJob /\ Item \in Options
  BY StepIs, NoJobYet, ItemIs DEF Save
<1>2. saved' \in [Options -> Version]
  BY <1>1, Constants DEF Save, TypeOK, Configuration
<1>3. UNCHANGED <<hub, cache, credentials, imageStream, operator, jobs, disturbed, changes>>
  BY DEF Save
<1>4. pc # 28 /\ Advance
  BY <1>1 DEF Save
<1> QED BY <1>1, <1>2, <1>3, <1>4, GoesOnTyped DEF TypeOK

LEMMA DoneTyped == ASSUME TypeOK, Done PROVE TypeOK'
<1>1. Finish /\ UNCHANGED <<hub, cache, saved, credentials, imageStream, operator, jobs, disturbed, changes>>
  BY DEF Done, cluster
<1> QED BY <1>1, StopsTyped DEF TypeOK

\* What a change of the jobs leaves of the one the controller waits for.
LEMMA AroundTyped ==
  ASSUME TypeOK,
         hub' \in Configuration, operator' \in Operator, jobs' \in [Jobs -> Job],
         job # NoJob => jobs'[job].state # "none",
         disturbed' \subseteq {"late", "ignored", "stripped"}, changes' \in Nat,
         UNCHANGED <<cache, saved, credentials, imageStream, startup, installfailed, pc, read, found, job>>
  PROVE  TypeOK'
<1>1. Typed'
  BY StepIs DEF Typed, TypeOK
<1>2. JobKnown'
  BY TypeParts DEF JobKnown
<1> QED BY <1>1, <1>2, TypeParts, PTL

\* How the Jobs change by themselves.
LEMMA StartGives ==
  ASSUME TypeOK, NEW j \in Jobs, StartJob(j)
  PROVE  /\ jobs[j].state = "pending"
         /\ jobs' = [jobs EXCEPT ![j] =
              [state |-> "running", with |-> [jobs[j].with EXCEPT !["images"] = imageStream]]]
         /\ UNCHANGED <<hub, cache, saved, credentials, imageStream, operator, startup,
                        installfailed, pc, read, found, job, disturbed, changes>>
<1>1. jobs[j] \in Job
  BY DEF TypeOK
<1> DEFINE w == [jobs[j].with EXCEPT !["images"] = imageStream]
           started == [state |-> "running", with |-> jobs[j].with]
           J1 == [jobs EXCEPT ![j] = started]
<1>2. [jobs EXCEPT ![j].state = "running"] = J1
  <2>1. [jobs[j] EXCEPT !.state = "running"] = started
    BY <1>1 DEF Job
  <2>2. [jobs EXCEPT ![j].state = "running"] = [jobs EXCEPT ![j] = [jobs[j] EXCEPT !.state = "running"]]
    OBVIOUS
  <2> QED BY <2>1, <2>2
<1>3. [J1 EXCEPT ![j].with["images"] = imageStream] = [jobs EXCEPT ![j] = [state |-> "running", with |-> w]]
  <2>1. J1 \in [Jobs -> [state : JobStates, with : Configuration]] /\ J1[j] = started
    BY <1>1 DEF TypeOK, Job, JobStates
  <2>2. [J1 EXCEPT ![j].with["images"] = imageStream] = [J1 EXCEPT ![j] = [J1[j] EXCEPT !.with["images"] = imageStream]]
    OBVIOUS
  <2>3. [started EXCEPT !.with["images"] = imageStream] = [state |-> "running", with |-> w]
    OBVIOUS
  <2>4. [J1 EXCEPT ![j] = [state |-> "running", with |-> w]] = [jobs EXCEPT ![j] = [state |-> "running", with |-> w]]
    BY DEF TypeOK
  <2> QED BY <2>1, <2>2, <2>3, <2>4
<1>5. jobs' = [[jobs EXCEPT ![j].state = "running"] EXCEPT ![j].with["images"] = imageStream]
  BY DEF StartJob
<1>4. /\ jobs[j].state = "pending"
      /\ UNCHANGED <<hub, cache, saved, credentials, imageStream, operator, startup,
                     installfailed, pc, read, found, job, disturbed, changes>>
  BY DEF StartJob, memory
<1> HIDE DEF J1
<1> QED BY <1>2, <1>3, <1>4, <1>5

LEMMA EndGives ==
  ASSUME TypeOK, NEW j \in Jobs, NEW outcome \in {"succeeded", "failed"}, End(j, outcome)
  PROVE  /\ jobs' \in [Jobs -> Job]
         /\ \A m \in Jobs \ {j} : jobs'[m] = jobs[m]
         /\ j = job => jobs'[j].state = outcome /\ jobs'[j].with = jobs[j].with
         /\ j # job => jobs'[j] = FreeJob
<1>1. jobs[j] \in Job /\ FreeJob \in Job
  BY Records DEF TypeOK
<1>2. CASE j = job
  <2>1. [jobs[j] EXCEPT !.state = outcome] \in Job
    BY <1>1 DEF Job, JobStates
  <2>2. jobs' = [jobs EXCEPT ![j] = [jobs[j] EXCEPT !.state = outcome]]
    BY <1>2 DEF End
  <2> QED BY <1>1, <1>2, <2>1, <2>2 DEF TypeOK, Job
<1>3. CASE j # job
  <2>1. jobs' = [jobs EXCEPT ![j] = FreeJob]
    BY <1>3 DEF End
  <2> QED BY <1>1, <1>3, <2>1 DEF TypeOK
<1> QED BY <1>2, <1>3

LEMMA ApplyGives ==
  ASSUME TypeOK, NEW j \in Jobs, Apply(j)
  PROVE  /\ operator' \in Operator
         /\ operator'.exists /\ operator'.with = jobs[j].with
         /\ operator'.notByMCE = operator.notByMCE
         /\ disturbed' = IF j = job THEN {} ELSE disturbed \cup {"late"}
<1>1. jobs[j].with \in Configuration /\ operator \in Operator
  BY DEF TypeOK, Job
<1>2. operator' = [[operator EXCEPT !.exists = TRUE] EXCEPT !.with = jobs[j].with]
  BY DEF Apply
<1>3. disturbed' = IF j = job THEN {} ELSE disturbed \cup {"late"}
  BY DEF Apply
<1> QED BY <1>1, <1>2, <1>3 DEF Operator

\* A Job of the installation under way or an abandoned one comes to its end.
LEMMA JobEnds ==
  ASSUME TypeOK, NEW j \in Jobs, JobSucceeds(j) \/ JobFails(j)
  PROVE  /\ jobs[j].state \in {"pending", "running"}
         /\ \E outcome \in {"succeeded", "failed"} :
              /\ End(j, outcome)
              /\ Apply(j) \/ (outcome = "failed" /\ UNCHANGED <<operator, disturbed>>)
         /\ changes' \in Nat
         /\ UNCHANGED <<hub, cache, saved, credentials, imageStream, startup,
                        installfailed, pc, read, found, job>>
<1>1. CASE JobSucceeds(j)
  BY <1>1 DEF JobSucceeds, memory, TypeOK
<1>2. CASE JobFails(j)
  <2>1. changes' \in Nat
    BY <1>2, ChangeCounts DEF JobFails
  <2> QED BY <1>2, <2>1 DEF JobFails, memory
<1> QED BY <1>1, <1>2

LEMMA StartTyped == ASSUME TypeOK, NEW j \in Jobs, StartJob(j) PROVE TypeOK'
<1>1. [state |-> "running", with |-> [jobs[j].with EXCEPT !["images"] = imageStream]] \in Job
  <2>1. jobs[j].with \in Configuration /\ imageStream \in Version
    BY DEF TypeOK, Job
  <2> QED BY <2>1, Constants DEF Job, JobStates, Configuration
<1>2. jobs' \in [Jobs -> Job] /\ \A m \in Jobs : jobs[m].state # "none" => jobs'[m].state # "none"
  BY <1>1, StartGives DEF TypeOK
<1>3. job # NoJob => jobs'[job].state # "none"
  BY <1>2 DEF TypeOK
<1> QED BY <1>2, <1>3, StartGives, AroundTyped DEF TypeOK

LEMMA JobEndsTyped == ASSUME TypeOK, NEW j \in Jobs, JobSucceeds(j) \/ JobFails(j) PROVE TypeOK'
<1>1. PICK outcome \in {"succeeded", "failed"} :
        /\ End(j, outcome)
        /\ Apply(j) \/ (outcome = "failed" /\ UNCHANGED <<operator, disturbed>>)
  BY JobEnds
<1>2. jobs' \in [Jobs -> Job]
  BY <1>1, EndGives
<1>3. job # NoJob => jobs'[job].state # "none"
  BY <1>1, EndGives DEF TypeOK
<1>4. operator' \in Operator /\ disturbed' \subseteq {"late", "ignored", "stripped"}
  BY <1>1, ApplyGives DEF TypeOK
<1> QED BY <1>2, <1>3, <1>4, JobEnds, AroundTyped DEF TypeOK

\* What happens around the controller and leaves the controller alone.
HubGives ==
  \E i \in Used, v \in Version :
    /\ hub' = [hub EXCEPT ![i] = v]
    /\ \/ v > hub[i]
       \/ v < hub[i] /\ {"revert", "delete"} \cap Changes # {}

LEMMA HubChanges ==
  ASSUME TypeOK, NEW i \in Used, Edit(i) \/ Revert(i) \/ Delete(i)
  PROVE  /\ HubGives
         /\ changes' \in Nat
         /\ UNCHANGED <<cache, saved, credentials, imageStream, operator, jobs, startup,
                        installfailed, pc, read, found, job, disturbed>>
<1>1. i \in Items /\ hub[i] \in Version /\ hub[i] \in Nat
  BY Constants DEF TypeOK, Configuration
<1>2. CASE Edit(i)
  <2>1. changes' \in Nat
    BY <1>2, ChangeCounts DEF Edit
  <2> QED BY <1>2, <2>1 DEF Edit, SetHub, HubGives, cluster, memory
<1>3. CASE Revert(i)
  <2>1. changes' \in Nat
    BY <1>3, ChangeCounts DEF Revert
  <2> QED BY <1>3, <2>1 DEF Revert, SetHub, HubGives, cluster, memory, Change
<1>4. CASE Delete(i)
  <2>1. changes' \in Nat
    BY <1>4, ChangeCounts DEF Delete
  <2>2. 0 \in Version /\ 0 < hub[i] /\ "delete" \in Changes
    BY <1>1, <1>4, Constants DEF Delete, Absent, Change
  <2> QED BY <1>4, <2>1, <2>2 DEF Delete, SetHub, HubGives, cluster, memory, Absent
<1> QED BY <1>2, <1>3, <1>4

LEMMA HubTyped == ASSUME TypeOK, NEW i \in Used, Edit(i) \/ Revert(i) \/ Delete(i) PROVE TypeOK'
<1>1. hub' \in Configuration
  BY HubChanges DEF HubGives, TypeOK, Configuration
<1>2. job # NoJob => jobs'[job].state # "none"
  BY HubChanges DEF TypeOK
<1> QED BY <1>1, <1>2, HubChanges, AroundTyped DEF TypeOK

\* The annotation is nothing an installation sets, the OIDC arguments are.
LEMMA OperatorChanges ==
  ASSUME TypeOK, Annotate \/ StripOIDC
  PROVE  /\ operator' \in Operator /\ changes' \in Nat
         /\ operator'.exists = operator.exists
         /\ \/ Annotate /\ operator.exists /\ operator'.with = operator.with /\ disturbed' = disturbed
            \/ /\ operator'.notByMCE = operator.notByMCE
               /\ operator'.with = [operator.with EXCEPT !["bucket"] = Absent]
               /\ disturbed' = disturbed \cup {"stripped"}
         /\ UNCHANGED <<hub, cache, saved, credentials, imageStream, jobs, startup,
                        installfailed, pc, read, found, job>>
<1>1. operator \in Operator /\ operator.with \in Configuration
  BY DEF TypeOK, Operator
<1>2. CASE Annotate
  <2>1. changes' \in Nat
    BY <1>2, ChangeCounts DEF Annotate
  <2>2. operator' = [operator EXCEPT !.notByMCE = ~operator.notByMCE]
    BY <1>2 DEF Annotate
  <2>3. operator.exists /\ disturbed' = disturbed
        /\ UNCHANGED <<hub, cache, saved, credentials, imageStream, jobs, startup,
                       installfailed, pc, read, found, job>>
    BY <1>2 DEF Annotate, memory
  <2>4. operator' \in Operator /\ operator'.exists = operator.exists /\ operator'.with = operator.with
    BY <1>1, <2>2 DEF Operator
  <2> QED BY <1>2, <2>1, <2>3, <2>4
<1>3. CASE StripOIDC
  <2>1. changes' \in Nat
    BY <1>3, ChangeCounts DEF StripOIDC
  <2>2. operator' = [operator EXCEPT !.with["bucket"] = Absent]
    BY <1>3 DEF StripOIDC
  <2>3. [operator.with EXCEPT !["bucket"] = Absent] \in Configuration
    BY <1>1, Constants DEF Configuration
  <2>4. /\ operator' \in Operator /\ operator'.exists = operator.exists
        /\ operator'.notByMCE = operator.notByMCE
        /\ operator'.with = [operator.with EXCEPT !["bucket"] = Absent]
    BY <1>1, <2>2, <2>3 DEF Operator
  <2>5. disturbed' = disturbed \cup {"stripped"}
        /\ UNCHANGED <<hub, cache, saved, credentials, imageStream, jobs, startup,
                       installfailed, pc, read, found, job>>
    BY <1>3 DEF StripOIDC, memory
  <2> QED BY <2>1, <2>4, <2>5
<1> QED BY <1>2, <1>3

LEMMA OperatorTyped == ASSUME TypeOK, Annotate \/ StripOIDC PROVE TypeOK'
<1>1. disturbed' \subseteq {"late", "ignored", "stripped"}
  BY OperatorChanges DEF TypeOK
<1>2. job # NoJob => jobs'[job].state # "none"
  BY OperatorChanges DEF TypeOK
<1> QED BY <1>1, <1>2, OperatorChanges, AroundTyped DEF TypeOK

LEMMA AbandonGives ==
  ASSUME TypeOK, Abandon
  PROVE  /\ jobs' \in [Jobs -> Job]
         /\ \A j \in Jobs : jobs'[j] = jobs[j] \/ jobs'[j] = FreeJob
BY Records DEF TypeOK, Abandon

\* A Job takes too long, or a call fails.
LEMMA Disrupts ==
  ASSUME TypeOK, Timeout \/ CallFails
  PROVE  /\ Abandon /\ Fail /\ changes' \in Nat
         /\ UNCHANGED <<hub, cache, saved, credentials, imageStream, operator, disturbed>>
<1>1. changes' \in Nat
  BY ChangeCounts DEF Timeout, CallFails
<1> QED BY <1>1 DEF Timeout, CallFails

LEMMA DisruptsTyped == ASSUME TypeOK, Timeout \/ CallFails PROVE TypeOK'
BY Disrupts, AbandonGives, StopsTyped DEF TypeOK

LEMMA RestartGives ==
  ASSUME TypeOK, Restart
  PROVE  /\ Abandon /\ Sleep /\ cache' = Nothing /\ startup' = TRUE /\ installfailed' = FALSE
         /\ changes' \in Nat /\ {"restart", "idleRestart"} \cap Changes # {}
         /\ UNCHANGED <<hub, saved, credentials, imageStream, operator, disturbed>>
<1>1. changes' \in Nat
  BY ChangeCounts DEF Restart
<1>2. {"restart", "idleRestart"} \cap Changes # {}
  BY DEF Restart, Change
<1> QED BY <1>1, <1>2 DEF Restart

LEMMA RestartTyped == ASSUME TypeOK, Restart PROVE TypeOK'
<1>1. pc' = 0 /\ read' \in Configuration /\ found' \in Operator /\ job' = NoJob
  BY RestartGives, Goes
<1>2. startup' \in BOOLEAN /\ installfailed' \in BOOLEAN
  BY RestartGives
<1>3. cache' \in Configuration /\ jobs' \in [Jobs -> Job] /\ changes' \in Nat
  BY RestartGives, AbandonGives, Constants
<1>4. UNCHANGED <<hub, saved, credentials, imageStream, operator, disturbed>>
  BY RestartGives
<1>5. Typed'
  BY <1>1, <1>2, <1>3, <1>4 DEF Typed, TypeOK
<1>6. JobKnown'
  BY <1>1 DEF JobKnown
<1> QED BY <1>5, <1>6, TypeParts, PTL

\* The steps of Next by what they do.
LEMMA Steps ==
  ASSUME TypeOK, Next
  PROVE  \/ Tick \/ Check \/ OperatorUpgradable \/ Read \/ Use \/ Decide
         \/ WriteImageStream \/ CreateJob \/ AwaitJob \/ Save \/ Done
         \/ \E j \in Jobs : StartJob(j)
         \/ \E j \in Jobs : JobSucceeds(j) \/ JobFails(j)
         \/ \E i \in Used : Edit(i) \/ Revert(i) \/ Delete(i)
         \/ Annotate \/ StripOIDC
         \/ Timeout \/ CallFails
         \/ Restart
BY DEF Next, Agent, Environment

LEMMA TypesKept == TypeOK /\ [Next]_vars => TypeOK'
<1> SUFFICES ASSUME TypeOK, [Next]_vars PROVE TypeOK'
  OBVIOUS
<1>1. CASE UNCHANGED vars
  BY <1>1 DEF TypeOK, vars, cluster, memory, Do, Op
<1>2. CASE Next
  BY <1>2, Steps, TickTyped, CheckTyped, UpgradableTyped, ReadTyped, UseTyped, DecideTyped,
     StreamTyped, CreateTyped, AwaitTyped, SaveTyped, DoneTyped, StartTyped, JobEndsTyped,
     HubTyped, OperatorTyped, DisruptsTyped, RestartTyped
<1> QED BY <1>1, <1>2

\* Every variable keeps to its values, and the controller waits for a Job only
\* in the step that waits, and for one that exists.
THEOREM TypeCorrect == Spec => []TypeOK
<1>1. Init => TypeOK
  BY TypesInitially
<1>2. TypeOK /\ [Next]_vars => TypeOK'
  BY TypesKept
<1> QED BY <1>1, <1>2, PTL DEF Spec

-----------------------------------------------------------------------------
(* What the controller's variables mean at each step of the script         *)

\* Where an item is read, remembered, and copied to the operator's namespace.
ReadAt(i) ==
  CASE i = "bucket" -> 8 [] i = "privateLink" -> 9 [] i = "azurePrivate" -> 10
    [] i = "extDns" -> 13 [] i = "flags" -> 15 [] OTHER -> 17
CachedAt(i) == CASE i = "extDns" -> 14 [] i = "images" -> 18 [] OTHER -> ReadAt(i)
CopiedAt(s) == CASE s = "bucket" -> 11 [] s = "privateLink" -> 12 [] OTHER -> 14
Copied == {"bucket", "privateLink", "extDns"}

LEMMA Positions ==
  /\ \A i \in Items : /\ ReadAt(i) \in 8..17 /\ ItemAt(ReadAt(i)) = i
                      /\ CachedAt(i) \in 8..18 /\ ItemAt(CachedAt(i)) = i
                      /\ ReadAt(i) <= CachedAt(i)
                      /\ i \notin CachedWhenUsed => CachedAt(i) = ReadAt(i)
                      /\ i \in CachedWhenUsed => CachedAt(i) = ReadAt(i) + 1
  /\ \A s \in Copied : /\ CopiedAt(s) \in 11..14 /\ ItemAt(CopiedAt(s)) = s
                       /\ ReadAt(s) < CopiedAt(s) /\ s \in Items
<1>1. ASSUME NEW i \in Items
      PROVE  /\ ReadAt(i) \in 8..17 /\ ItemAt(ReadAt(i)) = i
             /\ CachedAt(i) \in 8..18 /\ ItemAt(CachedAt(i)) = i
             /\ ReadAt(i) <= CachedAt(i)
             /\ i \notin CachedWhenUsed => CachedAt(i) = ReadAt(i)
             /\ i \in CachedWhenUsed => CachedAt(i) = ReadAt(i) + 1
  <2>1. CASE i = "bucket"
    BY <2>1, ItemsAt DEF ReadAt, CachedAt, CachedWhenUsed
  <2>2. CASE i = "privateLink"
    BY <2>2, ItemsAt DEF ReadAt, CachedAt, CachedWhenUsed
  <2>3. CASE i = "azurePrivate"
    BY <2>3, ItemsAt DEF ReadAt, CachedAt, CachedWhenUsed
  <2>4. CASE i = "extDns"
    BY <2>4, ItemsAt DEF ReadAt, CachedAt, CachedWhenUsed
  <2>5. CASE i = "flags"
    BY <2>5, ItemsAt DEF ReadAt, CachedAt, CachedWhenUsed
  <2>6. CASE i = "images"
    BY <2>6, ItemsAt DEF ReadAt, CachedAt, CachedWhenUsed
  <2> QED BY <2>1, <2>2, <2>3, <2>4, <2>5, <2>6 DEF Items, Options
<1>2. ASSUME NEW s \in Copied
      PROVE  /\ CopiedAt(s) \in 11..14 /\ ItemAt(CopiedAt(s)) = s
             /\ ReadAt(s) < CopiedAt(s) /\ s \in Items
  BY ItemsAt DEF CopiedAt, ReadAt, Copied, Items, Options
<1> QED BY <1>1, <1>2

\* Where the controller reads an item it is at that item's place.
LEMMA Places ==
  ASSUME TypeOK
  PROVE  /\ Do("read") => pc = ReadAt(Item)
         /\ Do("use") => /\ \A i \in Items : CachedAt(i) = pc => i = Item /\ Item \in CachedWhenUsed
                         /\ \A s \in Copied : CopiedAt(s) = pc => s = Item
<1>1. Do("read") => pc = ReadAt(Item)
  <2>1. CASE pc \in {8, 9, 10}
    BY <2>1, ItemsAt DEF Item, ReadAt
  <2>2. CASE pc \in {13, 15, 17}
    BY <2>2, ItemsAt DEF Item, ReadAt
  <2> QED BY <2>1, <2>2, StepIs
<1>2. ASSUME Do("use"), NEW i \in Items, CachedAt(i) = pc
      PROVE  i = Item /\ Item \in CachedWhenUsed
  <2>1. i = Item
    BY <1>2, Positions DEF Item
  <2>2. pc \in {11, 12, 14, 16, 18}
    BY <1>2, StepIs
  <2>3. i = "extDns" \/ i = "images"
    BY <1>2, <2>2 DEF CachedAt, ReadAt, Items, Options
  <2> QED BY <2>1, <2>3 DEF CachedWhenUsed
<1>3. ASSUME Do("use"), NEW s \in Copied, CopiedAt(s) = pc
      PROVE  s = Item
  BY <1>3, Positions DEF Item
<1> QED BY <1>1, <1>2, <1>3

\* No item in use is left out.
LEMMA Reached ==
  ASSUME NEW k \in 0..27
  PROVE  /\ \A i \in Used : k < ReadAt(i) => After(k) <= ReadAt(i)
         /\ \A i \in Used : k < CachedAt(i) => After(k) <= CachedAt(i)
         /\ \A s \in Used \cap Copied : k < CopiedAt(s) => After(k) <= CopiedAt(s)
         /\ "flags" \in Used /\ k < 16 => After(k) <= 16
<1>1. After(k) \in Nat
  BY AfterIs
<1>2. ASSUME NEW i \in Used, NEW m \in Nat, ItemAt(m) = i, k < m
      PROVE  After(k) <= m
  BY <1>1, <1>2, PassedOver
<1>3. ItemAt(16) = "flags"
  BY ItemsAt
<1>4. \A i \in Used : ReadAt(i) \in Nat /\ ItemAt(ReadAt(i)) = i /\ CachedAt(i) \in Nat /\ ItemAt(CachedAt(i)) = i
  BY Positions
<1>5. \A s \in Copied : CopiedAt(s) \in Nat /\ ItemAt(CopiedAt(s)) = s
  BY Positions
<1> QED BY <1>2, <1>3, <1>4, <1>5

Runs(with) == operator.exists /\ operator.with = with

\* An item that is not in use is nowhere.
UnusedInv == \A i \in Items \ Used : hub[i] = Absent /\ cache[i] = Absent /\ read[i] = Absent

\* What was read is what is remembered,
CacheInv == \A i \in Items : pc > CachedAt(i) => cache[i] = read[i]

\* and what was copied.
CredInv ==
  /\ \A s \in Copied : pc > CopiedAt(s) /\ read[s] # Absent => credentials[s] = read[s]
  /\ pc > 16 /\ read["flags"] \in AzureFlags => credentials["azurePrivate"] = read["azurePrivate"]

\* The Job installs what was read, and what it has installed stays unless the
\* deployment is disturbed.
JobInv ==
  /\ pc > 20 => imageStream = read["images"]
  /\ pc = 22 => job \in Jobs /\ jobs[job].with = read
  /\ pc = 22 /\ jobs[job].state = "succeeded" /\ disturbed = {} => Runs(read)
  /\ pc > 22 /\ disturbed = {} => Runs(read)

\* A controller that looks for changes compares the hub with what is installed.
RestInv ==
  pc < 7 /\ ~startup /\ ~installfailed /\ disturbed = {} =>
    /\ Runs(cache)
    /\ \A s \in Copied : cache[s] # Absent => credentials[s] = cache[s]
    /\ cache["flags"] \in AzureFlags => credentials["azurePrivate"] = cache["azurePrivate"]

\* The installation has nothing to do for what it read.
Skipped == pc = 19 /\ (Skips(saved) \/ \E i \in Options : Skips([saved EXCEPT ![i] = Absent]))
SkipSound == Skipped /\ disturbed = {} => Runs(read)

\* The cycle ends, with or without success.
Stops ==
  /\ \/ Fail
     \/ Finish /\ "ignored" \in disturbed'
     \/ Finish /\ (pc = 28 \/ Skipped)
  /\ disturbed \subseteq disturbed'
  /\ \A j \in Jobs : jobs'[j] = jobs[j] \/ jobs'[j] = FreeJob \/ jobs'[j].with = read
  /\ UNCHANGED <<hub, cache, saved, credentials, imageStream, operator>>

\* An installation begins.
Begins ==
  /\ pc = 7 /\ found' = operator /\ pc' = After(pc)
  /\ disturbed' = disturbed \ {"stripped"}
  /\ UNCHANGED <<hub, cache, saved, credentials, imageStream, operator, jobs, startup,
                 installfailed, read, job, changes>>

\* An item is used.
Uses ==
  /\ pc \in {11, 12, 14, 16, 18} /\ Do("use") /\ pc' = After(pc)
  /\ credentials' = [s \in Options |-> IF s \in Copies(Item) THEN read[s] ELSE credentials[s]]
  /\ cache' = IF Item \in CachedWhenUsed THEN [cache EXCEPT ![Item] = read[Item]] ELSE cache
  /\ UNCHANGED <<hub, saved, imageStream, operator, jobs, startup, installfailed, read,
                 found, job, disturbed, changes>>

\* The steps from the decision to the last save.
Installs ==
  /\ pc \in 19..27 /\ pc' = After(pc)
  /\ \/ pc = 19 /\ UNCHANGED <<saved, imageStream, jobs, job>>
     \/ pc = 20 /\ imageStream' = read["images"] /\ UNCHANGED <<saved, jobs, job>>
     \/ /\ pc = 21 /\ job' \in Jobs /\ jobs' = [jobs EXCEPT ![job'] = [state |-> "pending", with |-> read]]
        /\ UNCHANGED <<saved, imageStream>>
     \/ /\ pc = 22 /\ jobs[job].state = "succeeded" /\ job' = NoJob
        /\ jobs' = [jobs EXCEPT ![job] = FreeJob]
        /\ UNCHANGED <<saved, imageStream>>
     \/ /\ pc \in 23..27 /\ Item \in Options
        /\ saved' = IF read[Item] = Absent THEN saved ELSE [saved EXCEPT ![Item] = read[Item]]
        /\ UNCHANGED <<imageStream, jobs, job>>
  /\ UNCHANGED <<hub, cache, credentials, operator, startup, installfailed, read, found, disturbed>>

LEMMA Kinds ==
  ASSUME TypeOK, Next
  PROVE  \/ Tick \/ Check \/ Begins \/ Read \/ Uses \/ Installs \/ Stops \/ Restart
         \/ \E j \in Jobs : StartJob(j)
         \/ \E j \in Jobs : JobSucceeds(j) \/ JobFails(j)
         \/ \E i \in Used : Edit(i) \/ Revert(i) \/ Delete(i)
         \/ Annotate \/ StripOIDC
<1>1. CASE OperatorUpgradable
  <2>1. pc = 7
    BY <1>1, StepIs DEF OperatorUpgradable
  <2> QED BY <1>1, <2>1 DEF OperatorUpgradable, Begins, Stops, cluster
<1>2. CASE Use
  <2>1. pc \in {11, 12, 14, 16, 18} /\ Do("use")
    BY <1>2, StepIs DEF Use
  <2>2. Stops \/ Uses
    BY <1>2, <2>1 DEF Use, Advance, Uses, Stops
  <2> QED BY <2>2
<1>3. CASE Decide
  <2>1. pc = 19
    BY <1>3, StepIs, DecideGoes
  <2>2. Stops \/ Installs
    BY <1>3, <2>1, DecideGoes DEF Advance, Installs, Stops, Skipped
  <2> QED BY <2>2
<1>4. CASE WriteImageStream
  <2>1. pc = 20
    BY <1>4, StepIs DEF WriteImageStream
  <2> QED BY <1>4, <2>1 DEF WriteImageStream, Advance, Installs
<1>5. CASE CreateJob
  <2>1. PICK j \in Jobs :
          /\ jobs[j].state = "none"
          /\ jobs' = [jobs EXCEPT ![j] = [state |-> "pending", with |-> read]]
          /\ \/ /\ pc' = 22 /\ job' = j
                /\ UNCHANGED <<startup, installfailed, read, found, changes>>
             \/ Fail /\ Change("callFails")
    BY <1>5, CreateGives
  <2>2. \A m \in Jobs : jobs'[m] = jobs[m] \/ jobs'[m].with = read
    BY <2>1 DEF TypeOK
  <2>3. CASE Fail
    BY <1>5, <2>2, <2>3, CreateGives DEF Stops
  <2>4. CASE pc' = 22 /\ job' = j /\ UNCHANGED <<startup, installfailed, read, found, changes>>
    BY <1>5, <2>1, <2>4, CreateGives DEF Installs
  <2> QED BY <2>1, <2>3, <2>4
<1>6. CASE AwaitJob
  <2>1. \A m \in Jobs : jobs'[m] = jobs[m] \/ jobs'[m] = FreeJob
    BY <1>6, AwaitGives DEF TypeOK
  <2> QED BY <1>6, <2>1, AwaitGives DEF Installs, Stops
<1>7. CASE Save
  <2>1. pc \in 23..27 /\ Item \in Options
    BY <1>7, StepIs, ItemIs DEF Save
  <2> QED BY <1>7, <2>1 DEF Save, Advance, Installs
<1>8. CASE Done
  <2>1. pc = 28
    BY <1>8, StepIs DEF Done
  <2> QED BY <1>8, <2>1 DEF Done, Stops, cluster
<1>9. CASE Timeout \/ CallFails
  BY <1>9, Disrupts, AbandonGives DEF Stops
<1> QED BY Steps, <1>1, <1>2, <1>3, <1>4, <1>5, <1>6, <1>7, <1>8, <1>9

-----------------------------------------------------------------------------
(* The invariant of an installation                                        *)

CoreInv == TypeOK /\ UnusedInv /\ CacheInv /\ CredInv /\ JobInv /\ RestInv

\* Where the cycle is over or not begun, nothing is said of it.
LEMMA Ends == ASSUME TypeOK, Stops \/ Restart PROVE pc' = 0 /\ read' = Nothing /\ found' = NoOperator /\ job' = NoJob
<1>1. Sleep
  BY RestartGives DEF Stops, Fail, Finish
<1> QED BY <1>1 DEF Sleep

LEMMA TickGoes ==
  ASSUME TypeOK, Tick
  PROVE  /\ pc = 0 /\ pc' \in 1..7
         /\ UNCHANGED <<hub, cache, saved, credentials, imageStream, operator, jobs, startup,
                        installfailed, read, found, job, disturbed>>
<1>1. pc = 0 /\ After(0) \in 1..7
  BY Goes DEF Tick
<1> QED BY <1>1 DEF Tick, Goto, UpgradableStep, cluster

LEMMA CheckMoves ==
  ASSUME TypeOK, Check
  PROVE  /\ pc \in 1..6 /\ pc' \in 0..7
         /\ pc' < 7 => cache' = cache
         /\ \A i \in Items : cache'[i] \in {cache[i], hub[i]}
         /\ UNCHANGED <<hub, saved, credentials, imageStream, operator, jobs, startup,
                        installfailed, read, found, job, disturbed>>
<1>1. pc \in 1..6 /\ Item \in Items
  BY StepIs, ItemIs DEF Check
<1>2. PICK k \in 0..7 : Goto(k) /\ (k = 7 \/ cache' = cache)
  BY CheckGoes
<1>3. pc' = k /\ UNCHANGED <<startup, installfailed, read, found, job>>
  BY <1>2 DEF Goto
<1>4. \A i \in Items : cache'[i] \in {cache[i], hub[i]}
  BY <1>1, CheckGoes DEF TypeOK, Configuration
<1> QED BY <1>1, <1>2, <1>3, <1>4, CheckGoes

\* What the steps outside the controller keep.
LEMMA Outside ==
  ASSUME TypeOK,
         \/ \E j \in Jobs : StartJob(j)
         \/ \E j \in Jobs : JobSucceeds(j) \/ JobFails(j)
         \/ \E i \in Used : Edit(i) \/ Revert(i) \/ Delete(i)
         \/ Annotate \/ StripOIDC
  PROVE  UNCHANGED <<cache, saved, credentials, imageStream, startup, installfailed, pc, read, found, job>>
<1>1. CASE \E j \in Jobs : StartJob(j)
  BY <1>1, StartGives
<1>2. CASE \E j \in Jobs : JobSucceeds(j) \/ JobFails(j)
  BY <1>2, JobEnds
<1>3. CASE \E i \in Used : Edit(i) \/ Revert(i) \/ Delete(i)
  BY <1>3, HubChanges
<1>4. CASE Annotate \/ StripOIDC
  BY <1>4, OperatorChanges
<1> QED BY <1>1, <1>2, <1>3, <1>4

OutsideStep ==
  \/ \E j \in Jobs : StartJob(j)
  \/ \E j \in Jobs : JobSucceeds(j) \/ JobFails(j)
  \/ \E i \in Used : Edit(i) \/ Revert(i) \/ Delete(i)
  \/ Annotate \/ StripOIDC

LEMMA HubUnused ==
  ASSUME TypeOK, UnusedInv, OutsideStep
  PROVE  \A i \in Items \ Used : hub'[i] = Absent
<1>1. CASE \E i \in Used : Edit(i) \/ Revert(i) \/ Delete(i)
  BY <1>1, HubChanges DEF HubGives, UnusedInv, TypeOK, Configuration
<1>2. CASE ~ \E i \in Used : Edit(i) \/ Revert(i) \/ Delete(i)
  <2>1. hub' = hub
    BY <1>2, StartGives, JobEnds, OperatorChanges DEF OutsideStep
  <2> QED BY <2>1 DEF UnusedInv
<1> QED BY <1>1, <1>2

LEMMA UnusedKept == ASSUME TypeOK, UnusedInv, Next PROVE UnusedInv'
<1> SUFFICES ASSUME NEW i \in Items \ Used
             PROVE  hub'[i] = Absent /\ cache'[i] = Absent /\ read'[i] = Absent
  BY DEF UnusedInv
<1> USE DEF UnusedInv
<1>1. CASE Tick
  BY <1>1, TickGoes
<1>2. CASE Check
  BY <1>2, CheckMoves
<1>3. CASE Begins
  BY <1>3 DEF Begins
<1>4. CASE Read
  <2>1. PICK v \in Version :
          /\ read' = [read EXCEPT ![Item] = v]
          /\ v = hub[Item] \/ (v = Absent /\ "readFails" \in Changes)
          /\ cache' = IF Item \in CachedWhenUsed THEN cache ELSE [cache EXCEPT ![Item] = v]
    BY <1>4, ReadGives
  <2> QED BY <1>4, <2>1, ReadGives DEF TypeOK, Configuration
<1>5. CASE Uses
  BY <1>5 DEF Uses, TypeOK, Configuration
<1>6. CASE Installs
  BY <1>6 DEF Installs
<1>7. CASE Stops
  BY <1>7, Ends, Constants DEF Stops
<1>8. CASE Restart
  BY <1>8, Ends, RestartGives, Constants
<1>9. CASE OutsideStep
  BY <1>9, Outside, HubUnused DEF OutsideStep
<1> QED BY Kinds, <1>1, <1>2, <1>3, <1>4, <1>5, <1>6, <1>7, <1>8, <1>9 DEF OutsideStep

LEMMA NextPC == ASSUME TypeOK, Next PROVE pc' \in 0..28
<1>1. TypeOK'
  BY TypesKept
<1> QED BY <1>1, Lines DEF TypeOK

LEMMA CacheKept == ASSUME TypeOK, UnusedInv, CacheInv, Next PROVE CacheInv'
<1> SUFFICES ASSUME NEW i \in Items, pc' > CachedAt(i) PROVE cache'[i] = read'[i]
  BY DEF CacheInv
<1> CachedAt(i) \in 8..18 /\ pc \in 0..28 /\ pc' \in 0..28
  BY Positions, StepIs, NextPC
<1>1. i \notin Used => cache'[i] = Absent /\ read'[i] = Absent
  BY UnusedKept DEF UnusedInv
<1>2. pc' > 7
  OBVIOUS
<1>3. CASE Begins
  <2>1. pc = 7 /\ pc' = After(7)
    BY <1>3 DEF Begins
  <2>2. i \notin Used
    BY <2>1, Reached
  <2> QED BY <1>1, <2>2
<1>4. CASE Read /\ i \in Used
  <2>0. Do("read")
    BY <1>4 DEF Read
  <2>1. pc \in 0..27 /\ pc' = After(pc) /\ Item \in Items /\ pc = ReadAt(Item)
    BY <1>4, <2>0, ReadGives, Places
  <2>2. CachedAt(i) <= pc
    BY <1>4, <2>1, Reached
  <2>3. PICK v \in Version :
          /\ read' = [read EXCEPT ![Item] = v]
          /\ cache' = IF Item \in CachedWhenUsed THEN cache ELSE [cache EXCEPT ![Item] = v]
    BY <1>4, ReadGives
  <2>4. CASE i = Item
    <3>1. Item \notin CachedWhenUsed
      BY <2>1, <2>2, <2>4, Positions
    <3> QED BY <2>3, <2>4, <3>1 DEF TypeOK, Configuration
  <2>5. CASE i # Item
    <3>1. CachedAt(i) # pc
      BY <2>1, <2>2, <2>5, Positions DEF Item, CachedWhenUsed
    <3>2. cache[i] = read[i]
      BY <2>2, <3>1 DEF CacheInv
    <3> QED BY <2>1, <2>3, <2>5, <3>2 DEF TypeOK, Configuration
  <2> QED BY <2>4, <2>5
<1>5. CASE Uses /\ i \in Used
  <2>1. pc \in 0..27 /\ pc' = After(pc) /\ Do("use") /\ read' = read
        /\ cache' = IF Item \in CachedWhenUsed THEN [cache EXCEPT ![Item] = read[Item]] ELSE cache
    BY <1>5 DEF Uses
  <2>2. CachedAt(i) <= pc /\ Item \in Items
    BY <1>5, <2>1, Reached, ItemIs
  <2>3. CASE CachedAt(i) = pc
    <3>1. i = Item /\ Item \in CachedWhenUsed
      BY <2>1, <2>3, Places
    <3> QED BY <2>1, <3>1 DEF TypeOK, Configuration
  <2>4. CASE CachedAt(i) # pc
    <3>1. cache[i] = read[i]
      BY <2>2, <2>4 DEF CacheInv
    <3> QED BY <2>1, <2>2, <3>1 DEF TypeOK, Configuration
  <2> QED BY <2>3, <2>4
<1>6. CASE Installs
  BY <1>6 DEF Installs, CacheInv
<1>7. CASE OutsideStep
  BY <1>7, Outside DEF OutsideStep, CacheInv
<1>8. ~Tick /\ ~Check /\ ~Stops /\ ~Restart
  BY <1>2, TickGoes, CheckMoves, Ends
<1> QED BY Kinds, <1>1, <1>3, <1>4, <1>5, <1>6, <1>7, <1>8 DEF OutsideStep

LEMMA ReadMoves ==
  ASSUME TypeOK, Read
  PROVE  /\ pc \in {8, 9, 10, 13, 15, 17} /\ pc' = After(pc) /\ Item \in Items /\ pc = ReadAt(Item)
         /\ \A i \in Items \ {Item} : read'[i] = read[i]
<1>1. Do("read")
  BY DEF Read
<1> QED BY <1>1, ReadGives, Places DEF TypeOK, Configuration

\* The item is copied when it was read; the flags copy the Azure secret.
LEMMA CopiesWhat ==
  ASSUME TypeOK, Uses
  PROVE  /\ \A s \in Options : credentials'[s] = credentials[s] \/ credentials'[s] = read[s]
         /\ Item \in Copied /\ read[Item] # Absent => credentials'[Item] = read[Item]
         /\ pc = 16 /\ read["flags"] \in AzureFlags => credentials'["azurePrivate"] = read["azurePrivate"]
<1>1. \A s \in Options : credentials'[s] = IF s \in Copies(Item) THEN read[s] ELSE credentials[s]
  BY DEF Uses
<1>2. ASSUME Item \in Copied, read[Item] # Absent PROVE credentials'[Item] = read[Item]
  BY <1>1, <1>2 DEF Copies, Copied, Options
<1>3. ASSUME pc = 16, read["flags"] \in AzureFlags PROVE credentials'["azurePrivate"] = read["azurePrivate"]
  <2>1. Item = "flags"
    BY <1>3, ItemsAt DEF Item
  <2> QED BY <1>1, <1>3, <2>1 DEF Copies, Options
<1> QED BY <1>1, <1>2, <1>3

LEMMA CredKept == ASSUME TypeOK, UnusedInv, CredInv, Next PROVE CredInv'
<1> pc \in 0..28 /\ pc' \in 0..28
  BY StepIs, NextPC
<1> Copied \subseteq Options /\ Options \subseteq Items
  BY DEF Copied, Options, Items
<1>1. ASSUME NEW s \in Copied, pc' > CopiedAt(s), read'[s] # Absent
      PROVE  credentials'[s] = read'[s]
  <2> CopiedAt(s) \in 11..14 /\ ReadAt(s) < CopiedAt(s) /\ ReadAt(s) \in 8..17
    BY Positions
  <2>1. s \in Used
    BY <1>1, UnusedKept DEF UnusedInv
  <2>2. CASE Begins
    BY <1>1, <2>1, <2>2, Reached DEF Begins
  <2>3. CASE Read
    <3>1. CopiedAt(s) <= pc
      BY <1>1, <2>1, <2>3, ReadMoves, Reached
    <3>2. s # Item /\ CopiedAt(s) # pc
      BY <2>3, <3>1, ReadMoves, Positions DEF Item
    <3> QED BY <1>1, <2>3, <3>1, <3>2, ReadMoves, ReadGives DEF CredInv
  <2>4. CASE Uses
    <3>1. CopiedAt(s) <= pc /\ read' = read /\ Do("use")
      BY <1>1, <2>1, <2>4, Reached DEF Uses
    <3>2. CASE CopiedAt(s) = pc
      <4>1. s = Item
        BY <3>1, <3>2, Places
      <4> QED BY <1>1, <2>4, <3>1, <4>1, CopiesWhat
    <3>3. CASE CopiedAt(s) # pc
      <4>1. credentials[s] = read[s]
        BY <1>1, <3>1, <3>3 DEF CredInv
      <4> QED BY <2>4, <3>1, <4>1, CopiesWhat
    <3> QED BY <3>2, <3>3
  <2>5. CASE Installs
    BY <1>1, <2>5 DEF Installs, CredInv
  <2>6. CASE OutsideStep
    BY <1>1, <2>6, Outside DEF OutsideStep, CredInv
  <2>7. ~Tick /\ ~Check /\ ~Stops /\ ~Restart
    BY <1>1, TickGoes, CheckMoves, Ends
  <2> QED BY Kinds, <2>2, <2>3, <2>4, <2>5, <2>6, <2>7 DEF OutsideStep
<1>2. ASSUME pc' > 16, read'["flags"] \in AzureFlags
      PROVE  credentials'["azurePrivate"] = read'["azurePrivate"]
  <2>1. "flags" \in Used
    <3>1. read'["flags"] # Absent /\ "flags" \in Items
      BY <1>2 DEF Absent, Items, Options
    <3> QED BY <3>1, UnusedKept DEF UnusedInv
  <2>2. CASE Begins
    BY <1>2, <2>1, <2>2, Reached DEF Begins
  <2>3. CASE Read
    <3>1. pc = 17
      BY <1>2, <2>1, <2>3, ReadMoves, Reached
    <3>2. Item = "images"
      BY <3>1, ItemsAt DEF Item
    <3>3. read'["flags"] = read["flags"] /\ read'["azurePrivate"] = read["azurePrivate"]
      BY <2>3, <3>2, ReadMoves DEF Items, Options
    <3> QED BY <1>2, <2>3, <3>1, <3>3, ReadGives DEF CredInv
  <2>4. CASE Uses
    <3>1. pc \in {16, 18} /\ read' = read
      BY <1>2, <2>1, <2>4, Reached DEF Uses
    <3>2. CASE pc = 16
      BY <1>2, <2>4, <3>1, <3>2, CopiesWhat
    <3>3. CASE pc = 18
      <4>1. credentials["azurePrivate"] = read["azurePrivate"]
        BY <1>2, <3>1, <3>3 DEF CredInv
      <4> QED BY <2>4, <3>1, <4>1, CopiesWhat DEF Options
    <3> QED BY <3>1, <3>2, <3>3
  <2>5. CASE Installs
    BY <1>2, <2>5 DEF Installs, CredInv
  <2>6. CASE OutsideStep
    BY <1>2, <2>6, Outside DEF OutsideStep, CredInv
  <2>7. ~Tick /\ ~Check /\ ~Stops /\ ~Restart
    BY <1>2, TickGoes, CheckMoves, Ends
  <2> QED BY Kinds, <2>2, <2>3, <2>4, <2>5, <2>6, <2>7 DEF OutsideStep
<1> QED BY <1>1, <1>2 DEF CredInv

\* The next steps of an installation.
LEMMA InstallMoves ==
  ASSUME TypeOK, Installs
  PROVE  /\ pc \in 19..27 /\ pc' \in (pc + 1)..28
         /\ pc < 20 => pc' <= 20
         /\ pc < 21 => pc' <= 21
         /\ pc < 22 => pc' <= 22
<1>1. pc \in 19..27 /\ pc' = After(pc)
  BY DEF Installs
<1> QED BY <1>1, Landmarks

LEMMA FarFromInstall ==
  ASSUME TypeOK, Tick \/ Check \/ Begins \/ Read \/ Uses \/ Stops \/ Restart
  PROVE  pc' <= 19
<1>1. CASE Begins \/ Read \/ Uses
  BY <1>1, ReadMoves, Landmarks DEF Begins, Uses
<1> QED BY <1>1, TickGoes, CheckMoves, Ends

\* The Job under way keeps what it installs.
LEMMA JobRuns ==
  ASSUME TypeOK, JobInv, NEW j \in Jobs, JobSucceeds(j) \/ JobFails(j)
  PROVE  /\ j = job => /\ pc = 22 /\ jobs'[j].with = read
                       /\ Apply(j) => operator'.exists /\ operator'.with = read /\ disturbed' = {}
                       /\ ~Apply(j) => jobs'[j].state = "failed" /\ UNCHANGED <<operator, disturbed>>
         /\ j # job => \/ "late" \in disturbed'
                       \/ UNCHANGED <<operator, disturbed>>
         /\ \A m \in Jobs \ {j} : jobs'[m] = jobs[m]
         /\ j # job => jobs'[j] = FreeJob
<1>1. PICK outcome \in {"succeeded", "failed"} :
        /\ End(j, outcome)
        /\ Apply(j) \/ (outcome = "failed" /\ UNCHANGED <<operator, disturbed>>)
  BY JobEnds
<1>2. j = job => pc = 22 /\ jobs[j].with = read
  BY TypeParts DEF JobKnown, JobInv
<1>3. /\ \A m \in Jobs \ {j} : jobs'[m] = jobs[m]
      /\ j = job => jobs'[j].state = outcome /\ jobs'[j].with = jobs[j].with
      /\ j # job => jobs'[j] = FreeJob
  BY <1>1, EndGives
<1> QED BY <1>1, <1>2, <1>3, ApplyGives

\* While no Job is awaited, they leave the deployment alone or disturb it.
LEMMA OutsideQuiet ==
  ASSUME TypeOK, JobInv, OutsideStep, pc # 22, disturbed' = {}
  PROVE  disturbed = {} /\ operator'.exists = operator.exists /\ operator'.with = operator.with
<1>1. ASSUME NEW j \in Jobs, JobSucceeds(j) \/ JobFails(j)
      PROVE  UNCHANGED <<operator, disturbed>>
  <2>1. j # job
    BY TypeParts DEF JobKnown
  <2> QED BY <1>1, <2>1, JobRuns
<1>2. CASE \E j \in Jobs : StartJob(j)
  BY <1>2, StartGives
<1>3. CASE \E i \in Used : Edit(i) \/ Revert(i) \/ Delete(i)
  BY <1>3, HubChanges
<1>4. CASE Annotate \/ StripOIDC
  BY <1>4, OperatorChanges
<1> QED BY <1>1, <1>2, <1>3, <1>4 DEF OutsideStep

LEMMA JobInvKept == ASSUME TypeOK, JobInv, Next PROVE JobInv'
<1> pc \in 0..28 /\ pc' \in 0..28
  BY StepIs, NextPC
<1>1. CASE Tick \/ Check \/ Begins \/ Read \/ Uses \/ Stops \/ Restart
  BY <1>1, FarFromInstall DEF JobInv
<1>2. CASE Installs
  <2>1. pc \in 19..27 /\ pc' \in (pc + 1)..28
    BY <1>2, InstallMoves
  <2>2. UNCHANGED <<operator, read, disturbed>>
    BY <1>2 DEF Installs
  <2>3. pc' > 20 => imageStream' = read'["images"]
    BY <1>2, <2>2, InstallMoves DEF Installs, JobInv
  <2>4. pc' = 22 => job' \in Jobs /\ jobs'[job'].with = read' /\ jobs'[job'].state = "pending"
    <3>1. pc' = 22 => pc = 21
      BY <1>2, InstallMoves
    <3> QED BY <1>2, <2>2, <3>1 DEF Installs, TypeOK
  <2>5. pc' > 22 /\ disturbed' = {} => Runs(read)'
    <3>1. pc' > 22 => pc >= 22
      BY <1>2, InstallMoves
    <3>2. pc = 22 => jobs[job].state = "succeeded"
      BY <1>2 DEF Installs
    <3> QED BY <2>1, <2>2, <3>1, <3>2 DEF JobInv, Runs
  <2> QED BY <2>3, <2>4, <2>5 DEF JobInv
<1>3. ASSUME NEW j \in Jobs, StartJob(j) PROVE JobInv'
  <2>1. UNCHANGED <<imageStream, operator, pc, read, job, disturbed>>
    BY <1>3, StartGives
  <2>2. pc = 22 /\ job = j => jobs'[job].with = read /\ jobs'[job].state = "running"
    <3>1. ASSUME pc = 22, job = j PROVE jobs'[job].with = read /\ jobs'[job].state = "running"
      <4>1. jobs[j].with = read /\ imageStream = read["images"] /\ read \in Configuration
        BY <3>1 DEF JobInv, TypeOK
      <4>2. [jobs[j].with EXCEPT !["images"] = imageStream] = read
        BY <4>1, Constants DEF Configuration
      <4>3. jobs'[j] = [state |-> "running", with |-> [jobs[j].with EXCEPT !["images"] = imageStream]]
        BY <1>3, StartGives DEF TypeOK
      <4> QED BY <3>1, <4>2, <4>3
    <3> QED BY <3>1
  <2>3. job # j /\ job \in Jobs => jobs'[job] = jobs[job]
    BY <1>3, StartGives DEF TypeOK
  <2> QED BY <2>1, <2>2, <2>3 DEF JobInv, Runs
<1>4. ASSUME NEW j \in Jobs, JobSucceeds(j) \/ JobFails(j) PROVE JobInv'
  <2>1. UNCHANGED <<imageStream, pc, read, job>>
    BY <1>4, JobEnds
  <2>2. CASE j = job
    BY <1>4, <2>1, <2>2, JobRuns DEF JobInv, Runs
  <2>3. CASE j # job
    <3>1. disturbed' # {} \/ UNCHANGED <<operator, disturbed>>
      BY <1>4, <2>3, JobRuns
    <3>2. job \in Jobs => jobs'[job] = jobs[job]
      BY <1>4, <2>3, JobRuns
    <3> QED BY <2>1, <3>1, <3>2 DEF JobInv, Runs
  <2> QED BY <2>2, <2>3
<1>5. CASE \E i \in Used : Edit(i) \/ Revert(i) \/ Delete(i)
  BY <1>5, HubChanges DEF JobInv, Runs
<1>6. CASE Annotate \/ StripOIDC
  <2>1. UNCHANGED <<imageStream, jobs, pc, read, job>>
    BY <1>6, OperatorChanges
  <2>2. \/ disturbed' # {}
        \/ operator'.exists = operator.exists /\ operator'.with = operator.with /\ disturbed' = disturbed
    BY <1>6, OperatorChanges
  <2> QED BY <2>1, <2>2 DEF JobInv, Runs
<1> QED BY Kinds, <1>1, <1>2, <1>3, <1>4, <1>5, <1>6

\* At the end of an installation everything is remembered and copied.
LEMMA AllRemembered ==
  ASSUME TypeOK, CacheInv, CredInv, pc >= 19
  PROVE  /\ cache = read
         /\ \A s \in Copied : cache[s] # Absent => credentials[s] = cache[s]
         /\ cache["flags"] \in AzureFlags => credentials["azurePrivate"] = cache["azurePrivate"]
<1> pc \in 0..28
  BY StepIs
<1>1. \A i \in Items : cache[i] = read[i]
  BY Positions DEF CacheInv
<1>2. cache = read
  BY <1>1 DEF TypeOK, Configuration
<1> QED BY <1>2, Positions DEF CredInv

LEMMA RestKept ==
  ASSUME TypeOK, CacheInv, CredInv, JobInv, RestInv, SkipSound, Next
  PROVE  RestInv'
<1> SUFFICES ASSUME pc' < 7, ~startup', ~installfailed', disturbed' = {}
             PROVE  /\ Runs(cache)'
                    /\ \A s \in Copied : cache'[s] # Absent => credentials'[s] = cache'[s]
                    /\ cache'["flags"] \in AzureFlags => credentials'["azurePrivate"] = cache'["azurePrivate"]
  BY DEF RestInv
<1> pc \in 0..28 /\ pc' \in 0..28
  BY StepIs, NextPC
<1>1. ASSUME pc < 7, ~startup, ~installfailed, disturbed = {},
             UNCHANGED <<cache, credentials>>,
             operator'.exists = operator.exists, operator'.with = operator.with
      PROVE  /\ Runs(cache)'
             /\ \A s \in Copied : cache'[s] # Absent => credentials'[s] = cache'[s]
             /\ cache'["flags"] \in AzureFlags => credentials'["azurePrivate"] = cache'["azurePrivate"]
  BY <1>1 DEF RestInv, Runs
<1>2. CASE Tick
  <2>1. /\ pc = 0
        /\ UNCHANGED <<cache, credentials, operator, startup, installfailed, disturbed>>
    BY <1>2, TickGoes
  <2> QED BY <1>1, <2>1
<1>3. CASE Check
  <2>1. /\ pc < 7
        /\ UNCHANGED <<cache, credentials, operator, startup, installfailed, disturbed>>
    BY <1>3, CheckMoves
  <2> QED BY <1>1, <2>1
<1>4. CASE Begins \/ Read \/ Uses \/ Installs
  <2>1. pc \in 7..27 /\ pc' = After(pc)
    BY <1>4, ReadMoves DEF Begins, Uses, Installs
  <2> QED BY <2>1, AfterIs
<1>5. CASE Stops
  <2>1. disturbed = {} /\ Finish /\ (pc = 28 \/ Skipped)
    BY <1>5 DEF Stops, Fail
  <2>2. UNCHANGED <<cache, credentials, operator>>
    BY <1>5 DEF Stops
  <2>3. pc >= 19 /\ Runs(read)
    BY <2>1 DEF JobInv, SkipSound, Skipped
  <2>4. /\ cache = read
        /\ \A s \in Copied : cache[s] # Absent => credentials[s] = cache[s]
        /\ cache["flags"] \in AzureFlags => credentials["azurePrivate"] = cache["azurePrivate"]
    BY <2>3, AllRemembered
  <2> QED BY <2>2, <2>3, <2>4 DEF Runs
<1>6. CASE Restart
  BY <1>6, RestartGives
<1>7. CASE OutsideStep
  <2>1. UNCHANGED <<cache, credentials, startup, installfailed, pc, read, job>>
    BY <1>7, Outside DEF OutsideStep
  <2>2. disturbed = {} /\ operator'.exists = operator.exists /\ operator'.with = operator.with
    BY <1>7, <2>1, OutsideQuiet
  <2> QED BY <1>1, <2>1, <2>2
<1> QED BY Kinds, <1>2, <1>3, <1>4, <1>5, <1>6, <1>7 DEF OutsideStep

\* The invariant of an installation holds at first and is kept as long as no
\* installation is skipped without reason.
LEMMA CoreInitially == Init => CoreInv
<1> SUFFICES ASSUME Init PROVE CoreInv
  OBVIOUS
<1>1. TypeOK
  BY TypesInitially
<1>2. /\ pc = 0 /\ cache = Nothing /\ read = Nothing
      /\ \A i \in Items \ Used : hub[i] = Absent
  BY DEF Init
<1>3. startup
  BY Zenon DEF Init
<1>4. UnusedInv
  BY <1>2, Constants DEF UnusedInv
<1>5. CacheInv /\ CredInv /\ JobInv
  BY <1>2, Positions DEF CacheInv, CredInv, JobInv
<1>6. RestInv
  BY <1>3 DEF RestInv
<1> QED BY <1>1, <1>4, <1>5, <1>6 DEF CoreInv

LEMMA CoreKept == ASSUME CoreInv, SkipSound, [Next]_vars PROVE CoreInv'
<1>1. CASE Next
  BY <1>1, TypesKept, UnusedKept, CacheKept, CredKept, JobInvKept, RestKept DEF CoreInv
<1>2. CASE UNCHANGED vars
  BY <1>2, TypesKept DEF CoreInv, UnusedInv, CacheInv, CredInv, JobInv, RestInv, Runs, vars, cluster, memory
<1> QED BY <1>1, <1>2

\* A controller that rests has installed what the hub holds.
LEMMA CoreSuffices == CoreInv => RestingInstalled
<1> SUFFICES ASSUME CoreInv, Resting, disturbed = {} PROVE Installed
  BY DEF RestingInstalled
<1>1. /\ Runs(cache)
      /\ \A s \in Copied : cache[s] # Absent => credentials[s] = cache[s]
      /\ cache["flags"] \in AzureFlags => credentials["azurePrivate"] = cache["azurePrivate"]
  BY DEF CoreInv, RestInv, Resting
<1>2. hub = cache
  BY DEF Resting
<1> QED BY <1>1, <1>2 DEF Installed, NeedsAzure, Runs, Copied

-----------------------------------------------------------------------------
(* An agent that is not restarted                                          *)

\* Before the first installation there is no operator, so none is skipped; a
\* failed one is tried again without the check.
FirstInv ==
  startup /\ ~installfailed =>
    /\ ~found.exists
    /\ pc <= 21 => ~operator.exists /\ \A j \in Jobs : jobs[j].state = "none"

LEMMA FirstSound == FirstInv => SkipSound
BY DEF FirstInv, SkipSound, Skipped, Skips, ReinstallCheckRequired

LEMMA FirstKept ==
  ASSUME {"restart", "idleRestart"} \cap Changes = {}, TypeOK, FirstInv, Next
  PROVE  FirstInv'
<1> pc \in 0..28 /\ pc' \in 0..28
  BY StepIs, NextPC
<1>1. ASSUME pc <= 21, UNCHANGED <<found, operator, jobs, startup, installfailed>>
      PROVE  FirstInv'
  BY <1>1 DEF FirstInv
<1>2. CASE Tick
  <2>1. pc <= 21 /\ UNCHANGED <<found, operator, jobs, startup, installfailed>>
    BY <1>2, TickGoes
  <2> QED BY <1>1, <2>1
<1>3. CASE Check
  <2>1. pc <= 21 /\ UNCHANGED <<found, operator, jobs, startup, installfailed>>
    BY <1>3, CheckMoves
  <2> QED BY <1>1, <2>1
<1>4. CASE Begins
  <2>1. pc <= 21 /\ found' = operator /\ UNCHANGED <<operator, jobs, startup, installfailed>>
    BY <1>4 DEF Begins
  <2> QED BY <2>1 DEF FirstInv
<1>5. CASE Read
  <2>1. pc <= 21 /\ UNCHANGED <<found, operator, jobs, startup, installfailed>>
    BY <1>5, ReadGives
  <2> QED BY <1>1, <2>1
<1>6. CASE Uses
  <2>1. pc <= 21 /\ UNCHANGED <<found, operator, jobs, startup, installfailed>>
    BY <1>6 DEF Uses
  <2> QED BY <1>1, <2>1
<1>7. CASE Installs
  <2>1. pc' \in (pc + 1)..28 /\ UNCHANGED <<found, operator, startup, installfailed>>
    BY <1>7, InstallMoves DEF Installs
  <2>2. pc' <= 21 => pc <= 21 /\ jobs' = jobs
    BY <1>7, <2>1 DEF Installs
  <2> QED BY <2>1, <2>2 DEF FirstInv
<1>8. CASE Stops
  BY <1>8 DEF Stops, Fail, Finish, FirstInv
<1>9. ~Restart
  BY RestartGives
<1>10. CASE OutsideStep
  <2>1. UNCHANGED <<startup, installfailed, pc, found>>
    BY <1>10, Outside DEF OutsideStep
  <2>2. CASE pc > 21
    <3>1. ~(pc <= 21)
      BY <2>2
    <3> QED BY <2>1, <3>1 DEF FirstInv
  <2>3. CASE pc <= 21 /\ startup /\ ~installfailed
    <3>1. ~operator.exists /\ ~found.exists /\ \A j \in Jobs : jobs[j].state = "none"
      BY <2>3 DEF FirstInv
    <3>2. ~ \E j \in Jobs : StartJob(j) \/ JobSucceeds(j) \/ JobFails(j)
      BY <3>1, StartGives, JobEnds
    <3>3. operator'.exists = operator.exists /\ jobs' = jobs
      BY <1>10, <3>2, HubChanges, OperatorChanges DEF OutsideStep
    <3> QED BY <2>1, <3>1, <3>3 DEF FirstInv
  <2>4. CASE ~startup \/ installfailed
    BY <2>1, <2>4 DEF FirstInv
  <2>5. pc > 21 \/ pc <= 21
    OBVIOUS
  <2> QED BY <2>2, <2>3, <2>4, <2>5
<1> QED BY Kinds, <1>2, <1>3, <1>4, <1>5, <1>6, <1>7, <1>8, <1>9, <1>10 DEF OutsideStep

\* Whatever changes on the hub in the middle of an installation and whatever
\* fails, a controller that rests has installed what the hub holds, unless the
\* deployment changed behind its back: for an agent that is not restarted.
THEOREM InstalledByOneAgent ==
  ASSUME {"restart", "idleRestart"} \cap Changes = {}
  PROVE  Spec => []RestingInstalled
<1>1. Init => CoreInv /\ FirstInv
  <2> SUFFICES ASSUME Init PROVE FirstInv
    BY CoreInitially
  <2>1. operator = NoOperator /\ found = NoOperator /\ jobs = [j \in Jobs |-> FreeJob]
    BY DEF Init
  <2> QED BY <2>1, Records DEF FirstInv
<1>2. CoreInv /\ FirstInv /\ [Next]_vars => (CoreInv /\ FirstInv)'
  <2> SUFFICES ASSUME CoreInv, FirstInv, [Next]_vars PROVE CoreInv' /\ FirstInv'
    OBVIOUS
  <2>1. CoreInv'
    BY FirstSound, CoreKept
  <2>2. CASE UNCHANGED vars
    <3>1. UNCHANGED <<startup, installfailed, pc, found, operator, jobs>>
      BY <2>2 DEF vars, cluster, memory
    <3> QED BY <2>1, <3>1 DEF FirstInv
  <2>3. CASE Next
    <3>1. TypeOK
      BY DEF CoreInv
    <3> QED BY <2>1, <2>3, <3>1, FirstKept
  <2> QED BY <2>1, <2>2, <2>3
<1>3. CoreInv => RestingInstalled
  BY CoreSuffices
<1> QED BY <1>1, <1>2, <1>3, PTL DEF Spec

-----------------------------------------------------------------------------
(* An agent that is restarted while the hub only moves forward             *)

\* The operator runs with a configuration, but for OIDC arguments that MCE
\* removed.
RunsOf(with) ==
  /\ operator.exists
  /\ \A i \in Items : operator.with[i] = with[i] \/ (i = "bucket" /\ operator.with[i] = Absent)

\* Nothing is ahead of the hub.
BehindHub ==
  /\ \A i \in Items : read[i] <= hub[i] /\ operator.with[i] <= hub[i]
  /\ \A j \in Jobs, i \in Items : jobs[j].with[i] <= hub[i]
  /\ imageStream <= hub["images"]
  /\ \A i \in Options : saved[i] <= hub[i]

\* What was saved was not read after what an installation reads now,
SavedBehind == \A i \in Options : pc > ReadAt(i) => saved[i] <= read[i]

\* nor is it ahead of what runs, which no newer reading has passed; unless a
\* forgotten Job came late.
SavedRuns == \A i \in Options : saved[i] <= operator.with[i] \/ (i = "bucket" /\ operator.with[i] = Absent)
RunsBehind == \A i \in Items : pc > ReadAt(i) => operator.with[i] <= read[i]
JobDone == pc > 22 \/ (pc = 22 /\ jobs[job].state = "succeeded")
FoundRuns ==
  pc \in 8..21 /\ "stripped" \notin disturbed =>
    found.exists = operator.exists /\ found.with = operator.with
InOrder ==
  "late" \notin disturbed => SavedRuns /\ RunsBehind /\ (JobDone => RunsOf(read)) /\ FoundRuns

ForwardInv == BehindHub /\ SavedBehind /\ InOrder

LEMMA Numbers ==
  ASSUME TypeOK
  PROVE  /\ \A i \in Items : hub[i] \in Nat /\ read[i] \in Nat /\ operator.with[i] \in Nat /\ found.with[i] \in Nat
         /\ \A j \in Jobs : jobs[j].with \in Configuration /\ \A i \in Items : jobs[j].with[i] \in Nat
         /\ imageStream \in Nat
         /\ \A i \in Options : saved[i] \in Nat
         /\ operator.with \in Configuration /\ found.with \in Configuration
<1>1. operator.with \in Configuration /\ found.with \in Configuration
      /\ \A j \in Jobs : jobs[j].with \in Configuration
  BY DEF TypeOK, Operator, Job
<1> QED BY <1>1, Constants DEF TypeOK, Configuration

\* What is skipped is installed: nothing was saved that is not running.
LEMMA ForwardSound == ASSUME TypeOK, ForwardInv PROVE SkipSound
<1> SUFFICES ASSUME Skipped, disturbed = {} PROVE Runs(read)
  BY DEF SkipSound
<1>1. pc = 19
  BY DEF Skipped
<1>2. PICK local \in [Options -> Nat] : Skips(local) /\ \A i \in Options : local[i] <= saved[i]
  <2>1. CASE Skips(saved)
    <3>1. saved \in [Options -> Nat] /\ \A i \in Options : saved[i] <= saved[i]
      BY Numbers DEF TypeOK
    <3> QED BY <2>1, <3>1
  <2>2. ASSUME NEW i \in Options, Skips([saved EXCEPT ![i] = Absent])
        PROVE  \E local \in [Options -> Nat] : Skips(local) /\ \A k \in Options : local[k] <= saved[k]
    <3> DEFINE local == [saved EXCEPT ![i] = Absent]
    <3>1. local \in [Options -> Nat] /\ \A k \in Options : local[k] <= saved[k]
      BY Numbers DEF TypeOK, Absent
    <3> HIDE DEF local
    <3>2. Skips(local)
      BY <2>2 DEF local
    <3> QED BY <3>1, <3>2
  <2> QED BY <2>1, <2>2 DEF Skipped
<1>3. /\ found.exists /\ read["images"] = found.with["images"]
      /\ \A i \in Options : read[i] = local[i]
      /\ read["bucket"] = Absent \/ found.with["bucket"] # Absent
  BY <1>2 DEF Skips, ReinstallCheckRequired, HasOIDCArgs
<1>4. /\ found.exists = operator.exists /\ found.with = operator.with
      /\ \A i \in Options : saved[i] <= operator.with[i] \/ (i = "bucket" /\ operator.with[i] = Absent)
      /\ \A i \in Items : operator.with[i] <= read[i]
  BY <1>1, Positions DEF ForwardInv, InOrder, SavedRuns, RunsBehind, FoundRuns
<1>5. \A i \in Options : operator.with[i] = read[i]
  BY <1>2, <1>3, <1>4, Numbers, Constants
<1>6. \A i \in Items : operator.with[i] = read[i]
  BY <1>3, <1>4, <1>5 DEF Items
<1>7. operator.with = read
  BY <1>6, Numbers DEF TypeOK, Configuration
<1> QED BY <1>3, <1>4, <1>7 DEF Runs

\* The hub never goes back.
LEMMA HubForward ==
  ASSUME {"revert", "delete", "readFails"} \cap Changes = {}, TypeOK, Next
  PROVE  \A i \in Items : hub[i] <= hub'[i] /\ hub'[i] \in Nat /\ hub[i] \in Nat
<1> \A i \in Items : hub[i] \in Nat
  BY Numbers
<1>1. CASE \E i \in Used : Edit(i) \/ Revert(i) \/ Delete(i)
  <2>1. HubGives
    BY <1>1, HubChanges
  <2>2. PICK i \in Used, v \in Version : hub' = [hub EXCEPT ![i] = v] /\ v > hub[i]
    BY <2>1 DEF HubGives
  <2>3. v \in Nat
    BY Constants
  <2> QED BY <2>2, <2>3 DEF TypeOK, Configuration
<1>2. CASE ~ \E i \in Used : Edit(i) \/ Revert(i) \/ Delete(i)
  <2>1. hub' = hub
    BY <1>2, Kinds, TickGoes, CheckMoves, ReadGives, RestartGives, StartGives, JobEnds, OperatorChanges
       DEF Begins, Uses, Installs, Stops
  <2> QED BY <2>1
<1> QED BY <1>1, <1>2

\* What is read is what the hub holds.
LEMMA ReadIsHub ==
  ASSUME {"revert", "delete", "readFails"} \cap Changes = {}, TypeOK, Read
  PROVE  /\ Item \in Items /\ read'[Item] = hub[Item]
         /\ \A i \in Items \ {Item} : read'[i] = read[i]
BY ReadGives DEF TypeOK, Configuration

\* What is behind the hub stays behind it.
LEMMA ReadBehind ==
  ASSUME {"revert", "delete", "readFails"} \cap Changes = {}, TypeOK, BehindHub, Next
  PROVE  \A i \in Items : read'[i] <= hub'[i]
<1> SUFFICES ASSUME NEW i \in Items PROVE read'[i] <= hub'[i]
  OBVIOUS
<1> hub[i] <= hub'[i] /\ hub'[i] \in Nat /\ hub[i] \in Nat /\ read[i] <= hub[i] /\ read[i] \in Nat
  BY HubForward, Numbers DEF BehindHub
<1>1. CASE Read
  BY <1>1, ReadIsHub
<1>2. CASE Stops \/ Restart
  BY <1>2, Ends, Constants DEF Absent
<1>3. CASE ~Read /\ ~Stops /\ ~Restart
  <2>1. read' = read
    BY <1>3, Kinds, TickGoes, CheckMoves, Outside DEF Begins, Uses, Installs
  <2> QED BY <2>1
<1> QED BY <1>1, <1>2, <1>3

LEMMA OperatorBehind ==
  ASSUME {"revert", "delete", "readFails"} \cap Changes = {}, TypeOK, BehindHub, Next
  PROVE  \A i \in Items : operator'.with[i] <= hub'[i]
<1> SUFFICES ASSUME NEW i \in Items PROVE operator'.with[i] <= hub'[i]
  OBVIOUS
<1> /\ hub[i] <= hub'[i] /\ hub'[i] \in Nat /\ hub[i] \in Nat
    /\ operator.with[i] <= hub[i] /\ operator.with[i] \in Nat
  BY HubForward, Numbers DEF BehindHub
<1>1. ASSUME NEW j \in Jobs, JobSucceeds(j) \/ JobFails(j) PROVE operator'.with[i] <= hub'[i]
  <2>1. operator'.with = jobs[j].with \/ operator' = operator
    BY <1>1, JobEnds, ApplyGives
  <2>2. jobs[j].with[i] <= hub[i] /\ jobs[j].with[i] \in Nat
    BY Numbers DEF BehindHub
  <2> QED BY <2>1, <2>2
<1>2. CASE Annotate \/ StripOIDC
  <2>1. operator'.with = operator.with \/ operator'.with = [operator.with EXCEPT !["bucket"] = Absent]
    BY <1>2, OperatorChanges
  <2> QED BY <2>1, Numbers DEF Absent, Configuration
<1>3. CASE ~(\E j \in Jobs : JobSucceeds(j) \/ JobFails(j)) /\ ~Annotate /\ ~StripOIDC
  <2>1. operator' = operator
    BY <1>3, Kinds, TickGoes, CheckMoves, ReadGives, RestartGives, StartGives, HubChanges
       DEF Begins, Uses, Installs, Stops
  <2> QED BY <2>1
<1> QED BY <1>1, <1>2, <1>3

LEMMA JobsBehind ==
  ASSUME {"revert", "delete", "readFails"} \cap Changes = {}, TypeOK, BehindHub, Next
  PROVE  \A j \in Jobs, i \in Items : jobs'[j].with[i] <= hub'[i]
<1> SUFFICES ASSUME NEW j \in Jobs, NEW i \in Items PROVE jobs'[j].with[i] <= hub'[i]
  OBVIOUS
<1> /\ hub[i] <= hub'[i] /\ hub'[i] \in Nat /\ hub[i] \in Nat
    /\ jobs[j].with[i] <= hub[i] /\ jobs[j].with[i] \in Nat /\ jobs[j].with \in Configuration
    /\ read[i] <= hub[i] /\ read[i] \in Nat
  BY HubForward, Numbers DEF BehindHub
<1>1. jobs'[j].with = jobs[j].with \/ jobs'[j] = FreeJob \/ jobs'[j].with = read => jobs'[j].with[i] <= hub'[i]
  BY Records, Constants DEF Absent
<1>2. ASSUME NEW m \in Jobs, StartJob(m) PROVE jobs'[j].with[i] <= hub'[i]
  <2>1. CASE m = j
    <3>1. jobs'[j].with = [jobs[j].with EXCEPT !["images"] = imageStream]
      BY <1>2, <2>1, StartGives DEF TypeOK
    <3>2. imageStream <= hub["images"] /\ imageStream \in Nat
      BY Numbers DEF BehindHub
    <3> QED BY <3>1, <3>2 DEF Configuration
  <2>2. CASE m # j
    BY <1>1, <1>2, <2>2, StartGives DEF TypeOK
  <2> QED BY <2>1, <2>2
<1>3. ASSUME NEW m \in Jobs, JobSucceeds(m) \/ JobFails(m) PROVE jobs'[j].with[i] <= hub'[i]
  <2>1. jobs'[j].with = jobs[j].with \/ jobs'[j] = FreeJob
    BY <1>3, JobEnds, EndGives
  <2> QED BY <1>1, <2>1
<1>4. CASE Installs
  <2>1. jobs'[j].with = jobs[j].with \/ jobs'[j] = FreeJob \/ jobs'[j].with = read
    BY <1>4 DEF Installs, TypeOK
  <2> QED BY <1>1, <2>1
<1>5. CASE Stops
  BY <1>1, <1>5 DEF Stops
<1>6. CASE Restart
  BY <1>1, <1>6, RestartGives, AbandonGives
<1>7. CASE Tick \/ Check \/ Begins \/ Read \/ Uses \/ Annotate \/ StripOIDC
           \/ \E k \in Used : Edit(k) \/ Revert(k) \/ Delete(k)
  <2>1. jobs' = jobs
    BY <1>7, TickGoes, CheckMoves, ReadGives, HubChanges, OperatorChanges DEF Begins, Uses
  <2> QED BY <1>1, <2>1
<1> QED BY Kinds, <1>2, <1>3, <1>4, <1>5, <1>6, <1>7

LEMMA BehindKept ==
  ASSUME {"revert", "delete", "readFails"} \cap Changes = {}, TypeOK, BehindHub, Next
  PROVE  BehindHub'
<1>1. imageStream' <= hub'["images"] /\ \A i \in Options : saved'[i] <= hub'[i]
  <2>1. /\ hub["images"] <= hub'["images"] /\ hub'["images"] \in Nat /\ hub["images"] \in Nat
        /\ imageStream <= hub["images"] /\ imageStream \in Nat
        /\ read["images"] <= hub["images"] /\ read["images"] \in Nat
    BY HubForward, Numbers, Constants DEF BehindHub
  <2>2. \A i \in Options : /\ hub[i] <= hub'[i] /\ hub'[i] \in Nat /\ hub[i] \in Nat
                           /\ saved[i] <= hub[i] /\ saved[i] \in Nat
                           /\ read[i] <= hub[i] /\ read[i] \in Nat
    BY HubForward, Numbers, Constants DEF BehindHub
  <2>3. CASE Installs
    <3>1. imageStream' = imageStream \/ imageStream' = read["images"]
      BY <2>3 DEF Installs
    <3>2. \A i \in Options : saved'[i] = saved[i] \/ saved'[i] = read[i]
      BY <2>3 DEF Installs, TypeOK
    <3> QED BY <2>1, <2>2, <3>1, <3>2
  <2>4. CASE ~Installs
    <3>1. saved' = saved /\ imageStream' = imageStream
      BY <2>4, Kinds, TickGoes, CheckMoves, ReadGives, RestartGives, Outside DEF Begins, Uses, Stops
    <3> QED BY <2>1, <2>2, <3>1
  <2> QED BY <2>3, <2>4
<1> QED BY <1>1, ReadBehind, OperatorBehind, JobsBehind DEF BehindHub

\* What an installation has read so far is of the hub at its time: the steps
\* that read pass over nothing the hub holds.
LEMMA ReadCovers ==
  ASSUME {"revert", "delete", "readFails"} \cap Changes = {}, TypeOK, UnusedInv, Next,
         Begins \/ Read \/ Uses,
         NEW i \in Items, pc' > ReadAt(i)
  PROVE  read'[i] = hub[i] \/ (pc > ReadAt(i) /\ read'[i] = read[i])
<1> ReadAt(i) \in {8, 9, 10, 13, 15, 17} /\ pc \in 0..28 /\ pc' \in 0..28
  BY StepIs, NextPC DEF ReadAt
<1>1. CASE i \notin Used
  <2>1. read'[i] = Absent /\ hub[i] = Absent
    BY <1>1, UnusedKept DEF UnusedInv
  <2> QED BY <2>1
<1>2. CASE i \in Used
  <2>1. pc \in 0..27 /\ pc' = After(pc)
    BY ReadMoves DEF Begins, Uses
  <2>2. ReadAt(i) <= pc
    BY <1>2, <2>1, Reached
  <2>3. CASE Begins
    BY <2>2, <2>3 DEF Begins
  <2>4. CASE Uses
    BY <2>2, <2>4 DEF Uses
  <2>5. CASE Read
    <3>1. CASE i = Item
      BY <2>5, <3>1, ReadIsHub
    <3>2. CASE i # Item
      <4>1. ReadAt(i) # pc
        BY <3>2, Positions DEF Item
      <4> QED BY <2>2, <2>5, <3>2, <4>1, ReadIsHub
    <3> QED BY <3>1, <3>2
  <2> QED BY <2>3, <2>4, <2>5
<1> QED BY <1>1, <1>2

LEMMA SavedKept ==
  ASSUME {"revert", "delete", "readFails"} \cap Changes = {}, TypeOK, UnusedInv, BehindHub, SavedBehind, Next
  PROVE  SavedBehind'
<1> SUFFICES ASSUME NEW i \in Options, pc' > ReadAt(i) PROVE saved'[i] <= read'[i]
  BY DEF SavedBehind
<1> /\ i \in Items /\ ReadAt(i) \in 8..17 /\ pc \in 0..28 /\ pc' \in 0..28
    /\ saved[i] \in Nat /\ read[i] \in Nat /\ hub[i] \in Nat /\ saved[i] <= hub[i]
  BY Positions, Constants, StepIs, NextPC, Numbers DEF BehindHub
<1>1. CASE Begins \/ Read \/ Uses
  <2>1. saved' = saved
    BY <1>1, ReadGives DEF Begins, Uses
  <2>2. read'[i] = hub[i] \/ (pc > ReadAt(i) /\ read'[i] = read[i])
    BY <1>1, ReadCovers
  <2> QED BY <2>1, <2>2 DEF SavedBehind
<1>2. CASE Installs
  <2>1. saved[i] <= read[i] /\ read' = read
    BY <1>2 DEF Installs, SavedBehind
  <2>2. saved'[i] = saved[i] \/ saved'[i] = read[i]
    BY <1>2 DEF Installs, TypeOK
  <2> QED BY <2>1, <2>2
<1>3. CASE OutsideStep
  BY <1>3, Outside DEF OutsideStep, SavedBehind
<1>4. ~Tick /\ ~Check /\ ~Stops /\ ~Restart
  BY TickGoes, CheckMoves, Ends
<1> QED BY Kinds, <1>1, <1>2, <1>3, <1>4 DEF OutsideStep

LEMMA QuietStops ==
  ASSUME TypeOK, InOrder, Tick \/ Check \/ Stops \/ Restart
  PROVE  InOrder'
<1>1. pc' \in 0..7
  BY TickGoes, CheckMoves, Ends
<1>2. saved' = saved /\ operator' = operator /\ ("late" \in disturbed => "late" \in disturbed')
  BY TickGoes, CheckMoves, RestartGives DEF Stops
<1>3. ~JobDone' /\ FoundRuns' /\ RunsBehind'
  BY <1>1, Positions DEF JobDone, FoundRuns, RunsBehind
<1>4. SavedRuns => SavedRuns'
  BY <1>2 DEF SavedRuns
<1> QED BY <1>2, <1>3, <1>4 DEF InOrder

LEMMA ReadsInOrder ==
  ASSUME {"revert", "delete", "readFails"} \cap Changes = {}, TypeOK, UnusedInv, BehindHub, InOrder, Next,
         Begins \/ Read \/ Uses
  PROVE  InOrder'
<1>1. /\ UNCHANGED <<saved, operator>>
      /\ disturbed' \in {disturbed, disturbed \ {"stripped"}}
      /\ ~Begins => pc \in 8..18 /\ UNCHANGED <<disturbed, found>>
      /\ Begins => found' = operator
  BY ReadGives DEF Begins, Uses
<1>2. pc' \in 8..19
  BY ReadMoves, Landmarks DEF Begins, Uses
<1>3. ~JobDone'
  BY <1>2 DEF JobDone
<1>4. ASSUME "late" \notin disturbed, NEW i \in Items, pc' > ReadAt(i)
      PROVE  operator'.with[i] <= read'[i]
  <2>1. read'[i] = hub[i] \/ (pc > ReadAt(i) /\ read'[i] = read[i])
    BY <1>4, ReadCovers
  <2> QED BY <1>1, <1>4, <2>1 DEF BehindHub, InOrder, RunsBehind
<1>5. "late" \notin disturbed => SavedRuns'
  BY <1>1 DEF InOrder, SavedRuns
<1>6. "late" \notin disturbed => FoundRuns'
  BY <1>1 DEF InOrder, FoundRuns
<1> QED BY <1>1, <1>3, <1>4, <1>5, <1>6 DEF InOrder, RunsBehind

LEMMA InstallsInOrder ==
  ASSUME TypeOK, InOrder, Installs
  PROVE  InOrder'
<1> SUFFICES ASSUME "late" \notin disturbed
             PROVE  SavedRuns' /\ RunsBehind' /\ (JobDone' => RunsOf(read)') /\ FoundRuns'
  BY DEF InOrder, Installs
<1>1. UNCHANGED <<operator, read, found, disturbed>>
  BY DEF Installs
<1>2. /\ pc \in 19..27 /\ pc' \in (pc + 1)..28
      /\ pc < 20 => pc' <= 20
      /\ pc < 21 => pc' <= 21
      /\ pc < 22 => pc' <= 22
  BY InstallMoves
<1>3. pc' = 22 => jobs'[job'].state = "pending"
  <2>1. pc' = 22 => pc = 21
    BY <1>2
  <2> QED BY <2>1 DEF Installs, TypeOK
<1>4. ASSUME JobDone' PROVE RunsOf(read)'
  <2>1. JobDone
    <3>1. pc' > 22
      BY <1>3, <1>4 DEF JobDone
    <3>2. pc >= 22
      BY <1>2, <3>1
    <3>3. pc = 22 => jobs[job].state = "succeeded"
      BY DEF Installs
    <3> QED BY <1>2, <3>2, <3>3 DEF JobDone
  <2>2. RunsOf(read)
    BY <2>1 DEF InOrder
  <2> QED BY <1>1, <2>2 DEF RunsOf
<1>5. SavedRuns'
  <2>1. CASE saved' = saved
    BY <1>1, <2>1 DEF InOrder, SavedRuns
  <2>2. CASE /\ pc \in 23..27
             /\ saved' = IF read[Item] = Absent THEN saved ELSE [saved EXCEPT ![Item] = read[Item]]
    <3>1. RunsOf(read)
      BY <2>2 DEF JobDone, InOrder
    <3>2. \A i \in Options : saved'[i] = saved[i] \/ saved'[i] = read[i]
      BY <2>2 DEF TypeOK
    <3> QED BY <1>1, <3>1, <3>2, Numbers, Constants DEF InOrder, SavedRuns, RunsOf
  <2> QED BY <2>1, <2>2 DEF Installs
<1>6. RunsBehind'
  BY <1>1, <1>2, Positions DEF InOrder, RunsBehind
<1>7. FoundRuns'
  BY <1>1, <1>2 DEF InOrder, FoundRuns
<1> QED BY <1>4, <1>5, <1>6, <1>7

\* The steps that leave the operator and the controller alone.
LEMMA QuietOutside ==
  ASSUME TypeOK, JobInv, InOrder,
         UNCHANGED <<saved, pc, read, found, job, disturbed>>,
         operator'.exists = operator.exists, operator'.with = operator.with,
         pc = 22 /\ jobs'[job].state = "succeeded" => jobs[job].state = "succeeded"
  PROVE  InOrder'
<1>1. JobDone' => JobDone
  BY DEF JobDone
<1>2. SavedRuns => SavedRuns'
  BY DEF SavedRuns
<1>3. RunsBehind => RunsBehind'
  BY DEF RunsBehind
<1>4. FoundRuns => FoundRuns'
  BY DEF FoundRuns
<1>5. RunsOf(read) => RunsOf(read)'
  BY DEF RunsOf
<1> QED BY <1>1, <1>2, <1>3, <1>4, <1>5 DEF InOrder

LEMMA JobsInOrder ==
  ASSUME TypeOK, JobInv, SavedBehind, InOrder, NEW j \in Jobs, JobSucceeds(j) \/ JobFails(j)
  PROVE  InOrder'
<1>1. UNCHANGED <<saved, pc, read, found, job>>
  BY JobEnds
<1>2. pc = 22 => job \in Jobs
  BY DEF JobInv
<1>3. CASE j = job /\ Apply(j)
  <2>1. pc = 22 /\ operator'.exists /\ operator'.with = read /\ disturbed' = {}
    BY <1>3, JobRuns
  <2>2. SavedRuns'
    BY <1>1, <2>1, Positions, Constants DEF SavedBehind, SavedRuns
  <2>3. RunsBehind'
    BY <1>1, <2>1, Numbers DEF RunsBehind
  <2>4. RunsOf(read)'
    BY <1>1, <2>1 DEF RunsOf
  <2>5. FoundRuns'
    BY <1>1, <2>1 DEF FoundRuns
  <2> QED BY <2>2, <2>3, <2>4, <2>5 DEF InOrder
<1>4. CASE j = job /\ ~Apply(j)
  <2>1. jobs'[job].state = "failed" /\ UNCHANGED <<operator, disturbed>>
    BY <1>4, JobRuns
  <2> QED BY <1>1, <2>1, QuietOutside
<1>5. CASE j # job
  <2>1. CASE "late" \in disturbed'
    BY <2>1 DEF InOrder
  <2>2. CASE "late" \notin disturbed'
    <3>1. UNCHANGED <<operator, disturbed>> /\ (pc = 22 => jobs'[job] = jobs[job])
      BY <1>2, <1>5, <2>2, JobRuns
    <3> QED BY <1>1, <3>1, QuietOutside
  <2> QED BY <2>1, <2>2
<1> QED BY <1>3, <1>4, <1>5

LEMMA StripInOrder ==
  ASSUME TypeOK, InOrder,
         UNCHANGED <<saved, pc, read, found, job, jobs>>,
         operator'.exists = operator.exists,
         operator'.with = [operator.with EXCEPT !["bucket"] = Absent],
         disturbed' = disturbed \cup {"stripped"}
  PROVE  InOrder'
<1>1. \A i \in Items : operator'.with[i] = IF i = "bucket" THEN Absent ELSE operator.with[i]
  BY Numbers DEF Configuration
<1>2. SavedRuns => SavedRuns'
  BY <1>1, Constants DEF SavedRuns
<1>3. RunsBehind => RunsBehind'
  BY <1>1, Numbers DEF RunsBehind, Absent
<1>4. FoundRuns'
  BY DEF FoundRuns
<1>5. RunsOf(read) => RunsOf(read)'
  BY <1>1 DEF RunsOf
<1>6. JobDone' => JobDone
  BY DEF JobDone
<1> QED BY <1>2, <1>3, <1>4, <1>5, <1>6 DEF InOrder

LEMMA InOrderKept ==
  ASSUME {"revert", "delete", "readFails"} \cap Changes = {},
         TypeOK, UnusedInv, JobInv, BehindHub, SavedBehind, InOrder, Next
  PROVE  InOrder'
<1>1. CASE \E j \in Jobs : StartJob(j)
  <2>1. PICK j \in Jobs : StartJob(j)
    BY <1>1
  <2>2. UNCHANGED <<saved, operator, pc, read, found, job, disturbed>>
    BY <2>1, StartGives
  <2>3. pc = 22 => job \in Jobs
    BY DEF JobInv
  <2>4. pc = 22 /\ jobs'[job].state = "succeeded" => jobs[job].state = "succeeded"
    BY <2>1, <2>3, StartGives DEF TypeOK
  <2> QED BY <2>2, <2>4, QuietOutside
<1>2. CASE \E i \in Used : Edit(i) \/ Revert(i) \/ Delete(i)
  <2>1. UNCHANGED <<saved, operator, jobs, pc, read, found, job, disturbed>>
    BY <1>2, HubChanges
  <2> QED BY <2>1, QuietOutside
<1>3. CASE Annotate \/ StripOIDC
  <2>1. /\ UNCHANGED <<saved, jobs, pc, read, found, job>>
        /\ operator'.exists = operator.exists
        /\ \/ operator'.with = operator.with /\ disturbed' = disturbed
           \/ /\ operator'.with = [operator.with EXCEPT !["bucket"] = Absent]
              /\ disturbed' = disturbed \cup {"stripped"}
    BY <1>3, OperatorChanges
  <2> QED BY <2>1, QuietOutside, StripInOrder
<1> QED BY Kinds, QuietStops, ReadsInOrder, InstallsInOrder, JobsInOrder, <1>1, <1>2, <1>3

\* While the hub only moves forward and is always read, a restarted agent, at
\* whatever step it stopped and whatever was saved by then, skips the
\* installation only when what the hub holds is installed.
THEOREM InstalledAcrossRestarts ==
  ASSUME {"revert", "delete", "readFails"} \cap Changes = {}
  PROVE  Spec => []RestingInstalled
<1>1. Init => CoreInv /\ ForwardInv
  <2> SUFFICES ASSUME Init PROVE ForwardInv
    BY CoreInitially
  <2>1. TypeOK
    BY TypesInitially
  <2>2. /\ pc = 0 /\ operator.with = Nothing /\ read = Nothing /\ imageStream = Absent
        /\ saved = [i \in Options |-> Absent] /\ \A j \in Jobs : jobs[j].with = Nothing
    BY Records DEF Init, NoOperator
  <2>3. BehindHub
    BY <2>1, <2>2, Numbers, Constants DEF BehindHub, Absent
  <2>4. SavedBehind /\ RunsBehind /\ ~JobDone /\ FoundRuns
    BY <2>2, Positions, Constants DEF SavedBehind, RunsBehind, JobDone, FoundRuns
  <2>5. SavedRuns
    BY <2>2, Constants DEF SavedRuns, Absent
  <2> QED BY <2>3, <2>4, <2>5 DEF ForwardInv, InOrder
<1>2. CoreInv /\ ForwardInv /\ [Next]_vars => (CoreInv /\ ForwardInv)'
  <2> SUFFICES ASSUME CoreInv, ForwardInv, [Next]_vars PROVE CoreInv' /\ ForwardInv'
    OBVIOUS
  <2>1. TypeOK /\ UnusedInv /\ JobInv /\ BehindHub /\ SavedBehind /\ InOrder
    BY DEF CoreInv, ForwardInv
  <2>2. CoreInv'
    BY <2>1, ForwardSound, CoreKept
  <2>3. ASSUME UNCHANGED vars PROVE ForwardInv'
    BY <2>3 DEF ForwardInv, BehindHub, SavedBehind, InOrder, SavedRuns, RunsBehind, JobDone,
                FoundRuns, RunsOf, vars, cluster, memory
  <2>4. ASSUME Next PROVE ForwardInv'
    BY <2>1, <2>4, BehindKept, SavedKept, InOrderKept DEF ForwardInv
  <2> QED BY <2>2, <2>3, <2>4
<1>3. CoreInv => RestingInstalled
  BY CoreSuffices
<1> QED BY <1>1, <1>2, <1>3, PTL DEF Spec

-----------------------------------------------------------------------------
(* An agent that is restarted, whatever becomes of the hub                 *)

\* History: why the last installation that ended well did.  Its Job succeeded, or
\* the decision of a restarted agent found nothing to do, by the copies on the
\* cluster (secretDataUpdated and configmapDataUpdated, hypershift.go:1159-1199).
VARIABLE basis

Basis ==
  basis' = CASE Do("decide") /\ pc' = 0 /\ ~startup' -> "copies"
             [] Do("wait") /\ pc' > pc -> "job"
             [] OTHER -> basis

BasisSpec == Init /\ basis = "none" /\ [][Next /\ Basis]_<<vars, basis>>

\* The credentials a configuration asks for are in the operator's namespace.
Supplied(with) ==
  /\ \A s \in Copied : with[s] # Absent => credentials[s] = with[s]
  /\ with["flags"] \in AzureFlags => credentials["azurePrivate"] = with["azurePrivate"]

\* What the copies can vouch for: the operator runs with the images of a
\* configuration and with OIDC arguments if there is a bucket, and each of the other
\* items is what an installation saved, or is gone.
Vouched(with) ==
  /\ operator.exists
  /\ operator.with["images"] = with["images"]
  /\ with["bucket"] # Absent => operator.with["bucket"] # Absent
  /\ \A i \in Options : with[i] \in {Absent, saved[i]}

RestingVouched ==
  Resting /\ disturbed = {} =>
    /\ Supplied(hub)
    /\ Installed \/ (basis = "copies" /\ Vouched(hub))

\* Until the decision the deployment is the one that was found.
FoundInv == pc \in 8..19 /\ disturbed = {} => found.exists = operator.exists /\ found.with = operator.with

VouchedFor(with) == Supplied(with) /\ (Runs(with) \/ (basis = "copies" /\ Vouched(with)))
VouchInv == pc < 7 /\ ~startup /\ ~installfailed /\ disturbed = {} => VouchedFor(cache)

LEMMA FoundKept ==
  ASSUME TypeOK, JobInv, FoundInv, Next
  PROVE  FoundInv'
<1> SUFFICES ASSUME pc' \in 8..19, disturbed' = {}
             PROVE  found'.exists = operator'.exists /\ found'.with = operator'.with
  BY DEF FoundInv
<1> pc \in 0..28
  BY StepIs
<1>1. CASE Begins
  BY <1>1 DEF Begins
<1>2. CASE Read \/ Uses
  <2>1. pc \in 8..18 /\ UNCHANGED <<found, operator, disturbed>>
    BY <1>2, ReadGives DEF Uses
  <2> QED BY <2>1 DEF FoundInv
<1>3. ~Tick /\ ~Check /\ ~Stops /\ ~Restart
  BY TickGoes, CheckMoves, Ends
<1>4. ~Installs
  BY InstallMoves
<1>5. CASE OutsideStep
  <2>1. UNCHANGED <<pc, found, job>>
    BY <1>5, Outside DEF OutsideStep
  <2>2. disturbed = {} /\ operator'.exists = operator.exists /\ operator'.with = operator.with
    BY <1>5, <2>1, OutsideQuiet
  <2> QED BY <2>1, <2>2 DEF FoundInv
<1> QED BY Kinds, <1>1, <1>2, <1>3, <1>4, <1>5 DEF OutsideStep

\* A decision not to install finds nothing that the copies do not vouch for.
LEMMA SkipVouched ==
  ASSUME TypeOK, FoundInv, Skipped, disturbed = {}
  PROVE  Vouched(read)
<1>1. found.exists = operator.exists /\ found.with = operator.with
  BY DEF FoundInv, Skipped
<1>2. PICK local : Skips(local) /\ \A i \in Options : local[i] \in {Absent, saved[i]}
  <2>1. ASSUME NEW i \in Options
        PROVE  \A k \in Options : [saved EXCEPT ![i] = Absent][k] \in {Absent, saved[k]}
    BY DEF TypeOK
  <2> QED BY <2>1 DEF Skipped
<1>3. /\ found.exists /\ read["images"] = found.with["images"]
      /\ \A i \in Options : read[i] = local[i]
      /\ read["bucket"] = Absent \/ found.with["bucket"] # Absent
  BY <1>2 DEF Skips, ReinstallCheckRequired, HasOIDCArgs
<1> QED BY <1>1, <1>2, <1>3 DEF Vouched

LEMMA VouchKept ==
  ASSUME TypeOK, CacheInv, CredInv, JobInv, FoundInv, VouchInv, Next, Basis
  PROVE  VouchInv'
<1> SUFFICES ASSUME pc' < 7, ~startup', ~installfailed', disturbed' = {}
             PROVE  VouchedFor(cache)'
  BY DEF VouchInv
<1> pc \in 0..28 /\ pc' \in 0..28
  BY StepIs, NextPC
<1>1. ASSUME pc < 7, ~startup, ~installfailed, disturbed = {}, UNCHANGED <<cache, saved, credentials>>,
             operator'.exists = operator.exists, operator'.with = operator.with
      PROVE  VouchedFor(cache)'
  <2>1. basis' = basis
    <3>1. ~Do("decide") /\ ~Do("wait")
      BY <1>1, StepIs
    <3> QED BY <3>1 DEF Basis
  <2>2. VouchedFor(cache)
    BY <1>1 DEF VouchInv
  <2>3. Supplied(cache)' <=> Supplied(cache)
    BY <1>1 DEF Supplied
  <2>4. Runs(cache)' <=> Runs(cache)
    BY <1>1 DEF Runs
  <2>5. Vouched(cache)' <=> Vouched(cache)
    BY <1>1 DEF Vouched
  <2> QED BY <2>1, <2>2, <2>3, <2>4, <2>5 DEF VouchedFor
<1>2. CASE Tick
  <2>1. /\ pc = 0
        /\ UNCHANGED <<cache, saved, credentials, operator, startup, installfailed, disturbed>>
    BY <1>2, TickGoes
  <2> QED BY <1>1, <2>1
<1>3. CASE Check
  <2>1. /\ pc < 7
        /\ UNCHANGED <<cache, saved, credentials, operator, startup, installfailed, disturbed>>
    BY <1>3, CheckMoves
  <2> QED BY <1>1, <2>1
<1>4. CASE Begins \/ Read \/ Uses \/ Installs
  <2>1. pc \in 7..27 /\ pc' = After(pc)
    BY <1>4, ReadMoves DEF Begins, Uses, Installs
  <2> QED BY <2>1, AfterIs
<1>5. CASE Stops
  <2>1. disturbed = {} /\ Finish /\ (pc = 28 \/ Skipped)
    BY <1>5 DEF Stops, Fail
  <2>2. UNCHANGED <<cache, saved, credentials, operator>>
    BY <1>5 DEF Stops
  <2>3. pc >= 19
    BY <2>1 DEF Skipped
  <2>4. cache = read /\ Supplied(cache)
    BY <2>3, AllRemembered DEF Supplied
  <2>5. CASE pc = 28
    <3>1. Runs(cache)
      BY <2>1, <2>4, <2>5 DEF JobInv
    <3> QED BY <2>2, <2>4, <3>1 DEF VouchedFor, Supplied, Runs
  <2>6. CASE Skipped
    <3>1. Vouched(cache)
      BY <2>1, <2>4, <2>6, SkipVouched
    <3>2. basis' = "copies"
      <4>1. Do("decide")
        BY <2>6, Lines, Ops DEF Skipped, Do
      <4>2. pc' = 0 /\ ~startup'
        BY <2>1 DEF Finish, Sleep
      <4> QED BY <4>1, <4>2 DEF Basis
    <3>3. Supplied(cache)' /\ Vouched(cache)'
      BY <2>2, <2>4, <3>1 DEF Supplied, Vouched
    <3> QED BY <3>2, <3>3 DEF VouchedFor
  <2> QED BY <2>1, <2>5, <2>6
<1>6. CASE Restart
  BY <1>6, RestartGives
<1>7. CASE OutsideStep
  <2>1. UNCHANGED <<cache, saved, credentials, startup, installfailed, pc, read, job>>
    BY <1>7, Outside DEF OutsideStep
  <2>2. disturbed = {} /\ operator'.exists = operator.exists /\ operator'.with = operator.with
    BY <1>7, <2>1, OutsideQuiet
  <2> QED BY <1>1, <2>1, <2>2
<1> QED BY Kinds, <1>2, <1>3, <1>4, <1>5, <1>6, <1>7 DEF OutsideStep

AnyInv == TypeOK /\ UnusedInv /\ CacheInv /\ CredInv /\ JobInv /\ FoundInv /\ VouchInv

LEMMA AnyInitially == Init => AnyInv
<1> SUFFICES ASSUME Init PROVE AnyInv
  OBVIOUS
<1>1. TypeOK /\ UnusedInv /\ CacheInv /\ CredInv /\ JobInv
  BY CoreInitially DEF CoreInv
<1>2. pc = 0
  BY DEF Init
<1>3. startup
  BY Zenon DEF Init
<1> QED BY <1>1, <1>2, <1>3 DEF AnyInv, FoundInv, VouchInv

LEMMA AnyKept == ASSUME AnyInv, [Next /\ Basis]_<<vars, basis>> PROVE AnyInv'
<1>1. CASE Next /\ Basis
  BY <1>1, TypesKept, UnusedKept, CacheKept, CredKept, JobInvKept, FoundKept, VouchKept DEF AnyInv
<1>2. CASE UNCHANGED <<vars, basis>>
  <2>1. TypeOK'
    BY <1>2, TypesKept DEF AnyInv
  <2>2. /\ UNCHANGED <<hub, cache, saved, credentials, imageStream, operator, jobs, startup,
                       installfailed, pc, read, found, job, disturbed, basis>>
    BY <1>2 DEF vars, cluster, memory
  <2>3. UnusedInv' /\ CacheInv' /\ CredInv' /\ JobInv'
    BY <2>2 DEF AnyInv, UnusedInv, CacheInv, CredInv, JobInv, Runs
  <2>4. FoundInv' /\ VouchInv'
    BY <2>2 DEF AnyInv, FoundInv, VouchInv, VouchedFor, Supplied, Vouched, Runs
  <2> QED BY <2>1, <2>3, <2>4 DEF AnyInv
<1> QED BY <1>1, <1>2

\* Whatever is edited, reverted, deleted or unreadable on the hub and wherever the
\* agent is restarted, one that rests has supplied the credentials the hub holds, and
\* installed what the hub holds, unless its last installation was skipped on the
\* strength of the saved copies; then the images are the hub's, OIDC is configured,
\* and the rest is what some installation saved (runHypershiftInstall and
\* runHyperShiftInstallJob, hypershift.go).
THEOREM InstalledOrVouched == BasisSpec => []RestingVouched
<1>1. AnyInv => RestingVouched
  <2> SUFFICES ASSUME AnyInv, Resting, disturbed = {}
               PROVE  Supplied(hub) /\ (Installed \/ (basis = "copies" /\ Vouched(hub)))
    BY DEF RestingVouched
  <2>1. VouchedFor(hub)
    BY DEF AnyInv, VouchInv, Resting
  <2>2. Supplied(hub) /\ Runs(hub) => Installed
    BY DEF Supplied, Runs, Installed, NeedsAzure, Copied
  <2> QED BY <2>1, <2>2 DEF VouchedFor
<1> QED BY <1>1, AnyInitially, AnyKept, PTL DEF BasisSpec
=============================================================================
