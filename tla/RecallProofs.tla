---------------------------- MODULE RecallProofs ----------------------------
(***************************************************************************)
(* What memory makes of the loop's ledger, for every ledger the loop can   *)
(* have written: the index and the projection label a fact alike, recall   *)
(* for control hands out no fact from outside, the failure table agrees    *)
(* with what the caller was told, and a remedy is never unlearned.         *)
(***************************************************************************)
EXTENDS Recall, GroundingProofs, WellFoundedInduction

----------------------------------------------------------------------------
(* Induction over the events of a ledger, by the least counterexample.     *)

Less == {ss \in Nat \X Nat : ss[1] < ss[2]}

LEMMA LeastNat ==
  ASSUME NEW T \in SUBSET Nat, T # {}
  PROVE  \E x \in T : \A y \in T : x <= y
<1>1. IsWellFoundedOn(Less, Nat)
  BY NatLessThanWellFounded DEF OpToRel, Less
<1>2. \E x \in T : \A y \in T : ~ (<<y, x>> \in Less)
  BY <1>1, WFMin
<1>3. \A x, y \in Nat : <<y, x>> \in Less <=> y < x
  BY DEF Less
<1>4. PICK x \in T : \A y \in T : ~ (<<y, x>> \in Less)
  BY <1>2
<1>5. ASSUME NEW y \in T PROVE x <= y
  <2>1. x \in Nat /\ y \in Nat
    OBVIOUS
  <2>2. ~ (y < x)
    BY <1>3, <1>4, <2>1
  <2> QED  BY <2>1, <2>2
<1> QED  BY <1>5

\* A set of numbers up to n that holds 0 and, with every number but n, the
\* next one, holds them all.
LEMMA AllUpTo ==
  ASSUME NEW n \in Nat, NEW S, 0 \in S,
         \A k \in 0 .. n : k \in S /\ k < n => k + 1 \in S
  PROVE  \A k \in 0 .. n : k \in S
<1> SUFFICES ASSUME NEW k \in 0 .. n, k \notin S PROVE FALSE
  OBVIOUS
<1> DEFINE T == {m \in 0 .. n : m \notin S}
<1>1. PICK x \in T : \A y \in T : x <= y
  <2>1. T \in SUBSET Nat /\ T # {}
    OBVIOUS
  <2> HIDE DEF T
  <2> QED  BY <2>1, LeastNat
<1>2. x \in 0 .. n /\ x \notin S /\ x # 0
  OBVIOUS
<1>3. x - 1 \in 0 .. n /\ x - 1 < n /\ (x - 1) + 1 = x /\ ~ (x <= x - 1)
  BY <1>2
<1>4. x - 1 \in S
  BY <1>1, <1>3
<1> QED  BY <1>2, <1>3, <1>4

----------------------------------------------------------------------------
(* consume() over a ledger.                                                *)

\* f is the trust of every step after each of the first n events of l.
Consumes(l, n, f) ==
  f = [k \in 0 .. n |-> IF k = 0 THEN NoTrust ELSE StepTrust(f[k - 1], l[k])]

IsStart(l, j, s) == l[j].type = "step_started" /\ l[j].step = s

\* After n events a step has the label of its last start, or none.
Right(l, n, f) ==
  /\ f[n] \in [StepIds -> TrustLevels \cup {None}]
  /\ \A s \in StepIds :
       \/ (\A j \in 1 .. n : ~ IsStart(l, j, s)) /\ f[n][s] = None
       \/ \E j \in 1 .. n : /\ IsStart(l, j, s) /\ f[n][s] = l[j].label
                            /\ \A k \in 1 .. n : IsStart(l, k, s) => k <= j

\* The recursion of consume() has a solution for the first n events.
LEMMA ConsumesOne ==
  ASSUME NEW l, NEW n \in Nat, NEW f, Consumes(l, n, f)
  PROVE  \E g : Consumes(l, n + 1, g)
<1> DEFINE g == [k \in 0 .. n + 1 |-> IF k = n + 1 THEN StepTrust(f[n], l[n + 1]) ELSE f[k]]
<1>1. ASSUME NEW k \in 0 .. n + 1
      PROVE  g[k] = IF k = 0 THEN NoTrust ELSE StepTrust(g[k - 1], l[k])
  <2>1. CASE k = n + 1
    <3>1. k - 1 = n /\ n \in 0 .. n + 1 /\ n # n + 1 /\ k # 0 /\ k \in 0 .. n + 1
      BY <2>1
    <3>2. g[n] = f[n]
      BY <3>1
    <3>3. g[k] = StepTrust(f[n], l[n + 1])
      BY <2>1, <3>1
    <3> QED  BY <2>1, <3>1, <3>2, <3>3
  <2>2. CASE k # n + 1 /\ k # 0
    <3>1. k \in 0 .. n /\ k - 1 \in 0 .. n + 1 /\ k - 1 # n + 1
      BY <2>2
    <3>2. g[k] = f[k] /\ g[k - 1] = f[k - 1]
      BY <2>2, <3>1
    <3>3. f[k] = StepTrust(f[k - 1], l[k])
      BY <2>2, <3>1 DEF Consumes
    <3> QED  BY <2>2, <3>2, <3>3
  <2>3. CASE k = 0
    <3>1. g[0] = f[0] /\ 0 \in 0 .. n
      BY <2>3
    <3>2. f[0] = NoTrust
      BY <3>1 DEF Consumes
    <3> QED  BY <2>3, <3>1, <3>2
  <2> QED  BY <2>1, <2>2, <2>3
<1>2. g = [k \in 0 .. n + 1 |-> g[k]]
  OBVIOUS
<1> HIDE DEF g
<1>3. Consumes(l, n + 1, g)
  BY <1>1, <1>2 DEF Consumes
<1> QED  BY <1>3

LEMMA ConsumesAll ==
  ASSUME NEW l, NEW n \in Nat
  PROVE  \E f : Consumes(l, n, f)
<1> DEFINE S == {k \in 0 .. n : \E f : Consumes(l, k, f)}
<1>1. 0 \in S
  <2> DEFINE f == [k \in 0 .. 0 |-> NoTrust]
  <2>1. \A k \in 0 .. 0 : k = 0
    OBVIOUS
  <2>2. Consumes(l, 0, f)
    BY <2>1 DEF Consumes
  <2> HIDE DEF f
  <2> QED  BY <2>2
<1>2. \A k \in 0 .. n : k \in S /\ k < n => k + 1 \in S
  <2> SUFFICES ASSUME NEW k \in 0 .. n, k \in S, k < n PROVE k + 1 \in S
    OBVIOUS
  <2>1. PICK f : Consumes(l, k, f)
    OBVIOUS
  <2>2. \E g : Consumes(l, k + 1, g)
    BY <2>1, ConsumesOne
  <2> QED  BY <2>2
<1> HIDE DEF S
<1>3. \A k \in 0 .. n : k \in S
  BY <1>1, <1>2, AllUpTo
<1> QED  BY <1>3 DEF S

\* One event: the step it starts takes its label.
LEMMA RightOne ==
  ASSUME NEW l \in Seq(Event), NEW n \in 1 .. Len(l), NEW f,
         f[n] = StepTrust(f[n - 1], l[n]), Right(l, n - 1, f)
  PROVE  Right(l, n, f)
<1>1. /\ Len(l) \in Nat /\ n \in Nat /\ n >= 1 /\ l[n] \in Event
      /\ \A j \in 1 .. n : j = n \/ j \in 1 .. n - 1
      /\ \A j \in 1 .. n - 1 : j \in 1 .. n /\ j <= n
  BY ElementOfSeq
<1>2. l[n].label \in TrustLevels \cup {None}
  BY <1>1 DEF Event
<1>3. f[n - 1] \in [StepIds -> TrustLevels \cup {None}]
  BY DEF Right
<1>4. CASE l[n].type = "step_started"
  <2>1. f[n] = [f[n - 1] EXCEPT ![l[n].step] = l[n].label]
    BY <1>4 DEF StepTrust
  <2>2. f[n] \in [StepIds -> TrustLevels \cup {None}]
    BY <1>2, <1>3, <2>1
  <2>3. ASSUME NEW s \in StepIds, s = l[n].step
        PROVE  /\ n \in 1 .. n /\ IsStart(l, n, s) /\ f[n][s] = l[n].label
               /\ \A k \in 1 .. n : IsStart(l, k, s) => k <= n
    BY <1>1, <1>3, <1>4, <2>1, <2>3 DEF IsStart
  <2>4. ASSUME NEW s \in StepIds, s # l[n].step
        PROVE  f[n][s] = f[n - 1][s] /\ ~ IsStart(l, n, s)
    BY <1>3, <2>1, <2>4 DEF IsStart
  <2> QED  BY <1>1, <2>2, <2>3, <2>4 DEF Right
<1>5. CASE l[n].type # "step_started"
  <2>1. f[n] = f[n - 1] /\ \A s : ~ IsStart(l, n, s)
    BY <1>5 DEF StepTrust, IsStart
  <2> QED  BY <1>1, <2>1 DEF Right
<1> QED  BY <1>4, <1>5

LEMMA RightAll ==
  ASSUME NEW l \in Seq(Event), NEW f, Consumes(l, Len(l), f)
  PROVE  \A n \in 0 .. Len(l) : Right(l, n, f)
<1> DEFINE S == {n \in 0 .. Len(l) : Right(l, n, f)}
<1>0. Len(l) \in Nat
  OBVIOUS
<1>1. 0 \in S
  <2>1. f[0] = NoTrust /\ \A j \in 1 .. 0 : FALSE
    BY <1>0 DEF Consumes
  <2> QED  BY <1>0, <2>1 DEF Right, NoTrust
<1>2. \A n \in 0 .. Len(l) : n \in S /\ n < Len(l) => n + 1 \in S
  <2> SUFFICES ASSUME NEW n \in 0 .. Len(l), Right(l, n, f), n < Len(l) PROVE Right(l, n + 1, f)
    BY <1>0
  <2>1. n + 1 \in 1 .. Len(l) /\ n + 1 \in 0 .. Len(l) /\ n + 1 # 0 /\ (n + 1) - 1 = n
    BY <1>0
  <2>2. f[n + 1] = StepTrust(f[(n + 1) - 1], l[n + 1])
    BY <2>1 DEF Consumes
  <2> QED  BY <2>1, <2>2, RightOne
<1> HIDE DEF S
<1>3. \A n \in 0 .. Len(l) : n \in S
  BY <1>0, <1>1, <1>2, AllUpTo
<1> QED  BY <1>3 DEF S

\* What the index holds after the first n events of the ledger.
LEMMA TrustsRight ==
  ASSUME TypeOK, NEW n \in 0 .. Len(log)
  PROVE  Right(log, n, StepTrusts)
<1> PICK l \in Seq(Event) : l = log
  BY DEF TypeOK
<1>1. Len(l) \in Nat
  OBVIOUS
<1>2. \E f : Consumes(l, Len(l), f)
  BY <1>1, ConsumesAll
<1>3. StepTrusts = CHOOSE f : Consumes(l, Len(l), f)
  BY DEF StepTrusts, Consumes
<1>4. Consumes(l, Len(l), StepTrusts)
  BY <1>2, <1>3
<1> QED  BY <1>4, RightAll

----------------------------------------------------------------------------
(* The label of a fact, in the index and in the projection.                *)

LEMMA IndexLabel ==
  ASSUME GroundInv, NEW i \in Places("fact_added")
  PROVE  IndexTrust(i) = log[i].label /\ FactTrust(i) = log[i].label
<1> PICK j \in DOMAIN log : Ground(i, j)
  BY DEF GroundInv, Grounded
<1> PICK s \in StepIds : s = log[i].step
  BY DEF Ground
<1>1. /\ TypeOK /\ DOMAIN log = 1 .. Len(log) /\ Len(log) \in Nat /\ i \in 1 .. Len(log)
      /\ i \in 0 .. Len(log) /\ j \in 1 .. i - 1 /\ j \in 1 .. i
  <2>1. TypeOK /\ DOMAIN log = 1 .. Len(log) /\ Len(log) \in Nat /\ i \in 1 .. Len(log)
    BY LogIndices DEF GroundInv, TypeInv, Places
  <2>2. j \in 1 .. i - 1 /\ i \in Nat
    BY <2>1 DEF Ground
  <2>3. i \in 0 .. Len(log) /\ j \in 1 .. i
    BY <2>1, <2>2
  <2> QED  BY <2>1, <2>2, <2>3
<1>2. IsStart(log, j, s) /\ log[j].label = log[i].label
  <2>1. j \in j .. i
    BY <1>1
  <2> QED  BY <2>1 DEF IsStart, Ground
<1>3. \A k \in 1 .. i : IsStart(log, k, s) => k <= j
  <2>1. \A k \in 1 .. i : k <= j \/ k \in j + 1 .. i
    BY <1>1
  <2> QED  BY <2>1 DEF IsStart, Ground
<1>4. Right(log, i, StepTrusts)
  BY <1>1, TrustsRight
<1>5. PICK k \in 1 .. i : /\ IsStart(log, k, s) /\ StepTrusts[i][s] = log[k].label
                          /\ \A m \in 1 .. i : IsStart(log, m, s) => m <= k
  BY <1>1, <1>2, <1>4 DEF Right
<1>6. k = j
  BY <1>1, <1>2, <1>3, <1>5
<1>7. log[i].label # None
  <2>1. PICK t \in DOMAIN Tools : Tools[t].trust = log[j].label
    BY DEF Ground
  <2> QED  BY <1>2, <2>1, RuntimeAssumption
<1>8. IndexTrust(i) = log[i].label
  BY <1>2, <1>5, <1>6, <1>7 DEF IndexTrust
<1> QED  BY <1>1, <1>8, GroundIsLast

\* The store and the projection say the same of every fact of the ledger.
THEOREM StoreAgrees == Spec => []StoreAgreesWithProjection
<1>1. GroundInv => StoreAgreesWithProjection
  BY IndexLabel DEF StoreAgreesWithProjection
<1> QED  BY <1>1, GroundInvariant, PTL

\* Recall for control hands out the latest facts among exactly those that
\* were made from input a control provider may read.
THEOREM RecallIsClean == Spec => []ControlRecallClean
<1>1. GroundInv => ControlRecallClean
  <2> SUFFICES ASSUME GroundInv, NEW match \in SUBSET Places("fact_added"),
                      NEW allow \in SUBSET TrustLevels, NEW limit \in 1 .. 2,
                      NEW policy, policy = [allow |-> allow, control |-> FALSE, limit |-> limit,
                                            class |-> "interactive"]
               PROVE  RecallForControl(policy, match) =
                        Latest(limit, {f \in match : log[f].label \in ControlSafe \cap allow})
    BY DEF ControlRecallClean
  <2> DEFINE strict == [policy EXCEPT !.control = TRUE]
  <2>1. /\ strict.allow = allow /\ strict.control = TRUE /\ strict.limit = limit
        /\ strict.class = "interactive"
    OBVIOUS
  <2>2. EffectiveLimit(strict) = limit
    <3> HIDE DEF strict
    <3>1. ~ (limit > 5)
      OBVIOUS
    <3> QED  BY <2>1, <3>1 DEF EffectiveLimit, InteractiveLimit
  <2>3. Allowed(strict) = ControlSafe \cap allow
    <3> HIDE DEF strict
    <3> QED  BY <2>1 DEF Allowed
  <2>4. {f \in match : IndexTrust(f) \in ControlSafe \cap allow}
          = {f \in match : log[f].label \in ControlSafe \cap allow}
    BY IndexLabel
  <2> QED  BY <2>2, <2>3, <2>4 DEF RecallForControl, RecallFacts
<1> QED  BY <1>1, GroundInvariant, PTL

----------------------------------------------------------------------------
(* What became of a failure.                                               *)

LEMMA KindsOfFailure == DOMAIN EventToKind = Failures
BY DEF EventToKind, Failures

\* A remedy is a later fact of the step, or a plan made after a fact.
LEMMA RemedyIs ==
  ASSUME NEW i
  PROVE  Resolution(i) \in Remedies <=> Later(i) # {} \/ \E n \in ReplannedAfter : n > i
<1>1. CASE Later(i) # {}
  BY <1>1 DEF Resolution, Remedies
<1>2. CASE Later(i) = {} /\ \E n \in ReplannedAfter : n > i
  BY <1>2 DEF Resolution, Remedies
<1>3. CASE Later(i) = {} /\ ~ \E n \in ReplannedAfter : n > i
  BY <1>3 DEF Resolution, Remedies
<1> QED  BY <1>1, <1>2, <1>3

\* Every step of the loop leaves what is on disk.
LEMMA LogOnlyGrows == TypeInv /\ [Next]_vars => TypeOK /\ TypeOK' /\ Extends
<1> SUFFICES ASSUME TypeInv, [Next]_vars PROVE Extends
  BY TypesKept DEF TypeInv
<1>0. TypeOK
  BY DEF TypeInv
<1>1. CASE log' = log
  BY <1>0, <1>1, SameExtends
<1>2. ASSUME NEW e \in Event, log' = Append(log, e) PROVE Extends
  BY <1>0, <1>2, AppendExtends
<1>3. CASE Boot
  BY <1>2, <1>3, PlainEvent DEF Boot, EventTypes
<1>4. CASE StartStep
  <2>1. /\ Id \in StepIds /\ Tool.trust \in TrustLevels
        /\ log' = Append(log, Labelled("step_started", Id, Tool.trust))
    BY <1>0, <1>4, AtAPlace, RuntimeAssumption DEF StartStep, AtStep, Tool
  <2>2. "step_started" \in EventTypes
    BY DEF EventTypes
  <2>3. Labelled("step_started", Id, Tool.trust) \in Event
    BY <2>1, <2>2, LabelledIsEvent
  <2> QED  BY <1>2, <2>1, <2>3
<1>5. ASSUME NEW d \in Nat, NEW level \in TrustLevels, ToolOutput(level, d) PROVE Extends
  <2>1. About("tool_output", Id) \in Event
    BY <1>0, <1>5, AboutEvent DEF ToolOutput, EventTypes, TypeInv, Held, InStep
  <2> QED  BY <1>2, <1>5, <2>1 DEF ToolOutput
<1>6. ASSUME NEW d \in Nat, Commit(d) PROVE Extends
  <2>1. Called("fact_added", d, d) \in Event
    BY <1>6, CalledEvent DEF Commit, Calling, EventTypes
  <2> QED  BY <1>2, <1>6, <2>1 DEF Commit
<1>7. ASSUME NEW p \in Plans, NEW d \in Nat, Submit(p, d) PROVE Extends
  BY <1>0, <1>7, SubmitLog DEF Extends
<1>8. CASE GivesUp \/ TriesNext \/ Ends
  BY <1>8 DEF GivesUp, TriesNext, Ends
<1> QED
  BY <1>1, <1>3, <1>4, <1>5, <1>6, <1>7, <1>8, StepKinds
     DEF Kinds, Crash, EndOfPlan, SelectProvider, vars

\* What was overcome on a shorter ledger is overcome on a longer one.
LEMMA RemediesStay ==
  ASSUME TypeOK, TypeOK', Extends, NEW s
  PROVE  Recovered(s) \subseteq Recovered(s)'
<1> SUFFICES ASSUME NEW i \in Recovered(s) PROVE i \in Recovered(s)'
  OBVIOUS
<1>1. /\ DOMAIN log \subseteq DOMAIN log' /\ i \in DOMAIN log
      /\ \A k \in DOMAIN log : log'[k] = log[k]
      /\ \A type : Places(type) \subseteq Places(type)'
      /\ \A type : \A k \in Places(type) : k \in DOMAIN log
  BY PlacesGrow DEF Recovered, FailureRows, Places
<1>2. i \in FailureRows' /\ Signature(i)' = s
  BY <1>1 DEF Recovered, FailureRows, Signature
<1>3. Later(i) \subseteq Later(i)'
  BY <1>1 DEF Later
<1>4. ReplannedAfter \subseteq ReplannedAfter'
  BY <1>1 DEF ReplannedAfter
<1>5. Later(i) # {} \/ \E n \in ReplannedAfter : n > i
  BY RemedyIs DEF Recovered
<1>6. Later(i)' # {} \/ \E n \in ReplannedAfter' : n > i
  BY <1>3, <1>4, <1>5
<1>7. Resolution(i)' \in Remedies
  <2>1. CASE Later(i)' # {}
    BY <2>1 DEF Resolution, Remedies
  <2>2. CASE Later(i)' = {} /\ \E n \in ReplannedAfter' : n > i
    BY <2>2 DEF Resolution, Remedies
  <2> QED  BY <1>6, <2>1, <2>2
<1> QED  BY <1>2, <1>7 DEF Recovered

\* The failures of a signature that were overcome once are so for good, on
\* whatever ledger the next ingest finds.
THEOREM RemediesAreKept == Spec => RemedyKept
<1>1. TypeInv /\ [Next]_vars => [\A s \in Signatures : Recovered(s) \subseteq Recovered(s)']_log
  BY LogOnlyGrows, RemediesStay
<1>2. Spec => []TypeInv
  BY InitTypes, TypesKept, PTL DEF Spec
<1> QED  BY <1>1, <1>2, PTL DEF Spec, RemedyKept

----------------------------------------------------------------------------
(* What the failure table says of a run, and what its caller was told.     *)

\* What the loop is answerable for: the steps it has passed, and the one at hand.
Handled(s) == s \in Ids(1, pos - 1) \/ (pc \in InStep /\ s = Id)

RunRows ==
  /\ pc \in Running \cup {"returned"} =>
       \A i \in ThisRun : log[i].step # None => Handled(log[i].step)
  /\ \A i \in DOMAIN log : log[i].type \in Failures => log[i].step \in StepIds
  /\ \A i, n \in ThisRun : log[i].type \in Failures /\ log[n].type = "plan_created" => n < i
  /\ outcome # None =>
       /\ runStart < Len(log)
       /\ log[Len(log)].type = IF outcome.status = "declined" THEN "declined" ELSE "answer_sent"

RowsInv == TellInv /\ ClimbInv /\ GroundInv /\ RunRows

LEMMA RunGrows ==
  ASSUME TypeOK, TypeOK', Extends, runStart' = runStart
  PROVE  /\ ThisRun' = ThisRun \cup New
         /\ \A i \in ThisRun : i \in DOMAIN log /\ i \notin New /\ log'[i] = log[i]
         /\ \A i \in ThisRun, k \in New : i < k
<1>1. /\ Len(log) \in Nat /\ Len(log') \in Nat /\ runStart \in Nat
      /\ runStart <= Len(log) /\ Len(log) <= Len(log') /\ DOMAIN log = 1 .. Len(log)
  BY LogIndices DEF Extends
<1>2. ThisRun' = ThisRun \cup New
  BY <1>1 DEF ThisRun, New
<1>3. \A i \in ThisRun : i \in DOMAIN log /\ i \in 1 .. Len(log) /\ i \notin New
  BY <1>1 DEF ThisRun, New
<1>4. \A i \in ThisRun, k \in New : i < k
  BY <1>1 DEF ThisRun, New
<1> QED  BY <1>2, <1>3, <1>4 DEF Extends

\* A step of a run that goes on or ends.
LEMMA RowsStay ==
  ASSUME RowsInv, TypeOK', Extends, runStart' = runStart,
         \A i \in New : /\ log'[i].type # "plan_created"
                        /\ log'[i].type \in Failures => log'[i].step \in StepIds
                        /\ \A s : s = log'[i].step /\ s # None => Handled(s)',
         pc' \in Running \cup {"returned"} =>
           /\ pc \in Running \cup {"returned"}
           /\ \A s : Handled(s) => Handled(s)',
         outcome' # None =>
           /\ Len(log) < Len(log')
           /\ log'[Len(log')].type = IF outcome'.status = "declined" THEN "declined"
                                     ELSE "answer_sent"
  PROVE  RunRows'
<1>0. TypeOK
  BY DEF RowsInv, TellInv, SettleInv, TypeInv
<1>1. /\ ThisRun' = ThisRun \cup New /\ DOMAIN log' = DOMAIN log \cup New
      /\ \A i \in ThisRun : log'[i] = log[i] /\ i \in DOMAIN log
      /\ \A i \in ThisRun, k \in New : i < k
      /\ \A i \in DOMAIN log : log'[i] = log[i]
  BY <1>0, RunGrows, PlacesGrow
<1>2. ASSUME pc' \in Running \cup {"returned"}, NEW i \in ThisRun',
             NEW s, s = log'[i].step, s # None
      PROVE  Handled(s)'
  <2>1. CASE i \in New
    BY <1>2, <2>1
  <2>2. CASE i \in ThisRun
    <3>1. s = log[i].step
      BY <1>1, <1>2, <2>2
    <3> QED  BY <1>2, <2>2, <3>1 DEF RowsInv, RunRows
  <2> QED  BY <1>1, <2>1, <2>2
<1>3. \A i \in DOMAIN log' : log'[i].type \in Failures => log'[i].step \in StepIds
  BY <1>1 DEF RowsInv, RunRows
<1>4. \A i, n \in ThisRun' : log'[i].type \in Failures /\ log'[n].type = "plan_created" => n < i
  BY <1>1 DEF RowsInv, RunRows
<1>5. outcome' # None => runStart' < Len(log')
  BY <1>0, LogIndices DEF Extends
<1>6. pc' \in Running \cup {"returned"} =>
        \A i \in ThisRun' : log'[i].step # None => Handled(log[i].step)'
  BY <1>2
<1> QED  BY <1>3, <1>4, <1>5, <1>6 DEF RunRows

\* A step in progress that stays in progress, or the end of the plan.
LEMMA WorkingRows ==
  ASSUME RowsInv, TypeOK', Extends, UNCHANGED <<plan, pos, runStart>>,
         pc \in Running \ {"answer"}, pc' \in Running, pc \in InStep => pc' \in InStep,
         outcome' = None,
         \A i \in New : /\ log'[i].type \in EventTypes \ {"plan_created"}
                        /\ log'[i].step = Id /\ Id \in StepIds /\ pc' \in InStep
  PROVE  RunRows'
<1>1. \A s : Handled(s) => Handled(s)'
  BY DEF Handled, Ids, Id, Step
<1>2. \A i \in New : \A s : s = log'[i].step /\ s # None => Handled(s)'
  BY DEF Handled, Id, Step
<1>3. \A i \in New : /\ log'[i].type # "plan_created"
                     /\ log'[i].type \in Failures => log'[i].step \in StepIds
  OBVIOUS
<1> QED  BY <1>1, <1>2, <1>3, RowsStay

\* The loop goes on behind a step.
LEMMA PassedRows ==
  ASSUME RowsInv, TypeOK', Extends, UNCHANGED <<plan, runStart>>, pos' = pos + 1,
         pc \in Running, pc' \in Running, pos <= Len(plan), outcome' = None,
         \A i \in New : log'[i].type # "plan_created" /\ log'[i].step = Id
  PROVE  RunRows'
<1>1. Id \in StepIds /\ Ids(1, pos - 1)' = Ids(1, pos - 1) \cup {Id}
  BY IdIsFresh DEF RowsInv, TellInv, SettleInv, TypeInv
<1>2. \A s : Handled(s) => Handled(s)'
  BY <1>1 DEF Handled
<1>3. \A i \in New : \A s : s = log'[i].step /\ s # None => Handled(s)'
  BY <1>1 DEF Handled
<1> QED  BY <1>1, <1>2, <1>3, RowsStay

LEMMA EndsRows ==
  ASSUME RowsInv, TypeOK', Ends
  PROVE  RunRows'
<1>1. Extends /\ runStart' = runStart
  BY DEF Ends
<1>2. \A i \in New : /\ log'[i].step = None
                     /\ log'[i].type \notin Failures \cup {"plan_created"}
  BY DEF Ends, Failures
<1>3. pc' \in Running \cup {"returned"} =>
        pc = "answer" /\ pc' = "returned" /\ UNCHANGED <<plan, pos>>
  BY DEF Ends, Running, InStep
<1>4. pc' \in Running \cup {"returned"} => \A s : Handled(s) => Handled(s)'
  BY <1>3 DEF Handled, Ids, InStep
<1>5. outcome' # None =>
        /\ Len(log) < Len(log')
        /\ log'[Len(log')].type = IF outcome'.status = "declined" THEN "declined"
                                  ELSE "answer_sent"
  <2>1. Len(log) \in Nat
    BY LogIndices DEF RowsInv, TellInv, SettleInv, TypeInv
  <2> QED  BY <2>1 DEF Ends, NoRun
<1> QED  BY <1>1, <1>2, <1>3, <1>4, <1>5, RowsStay DEF Running

LEMMA InitRows == Init => RowsInv
<1> SUFFICES ASSUME Init PROVE RunRows
  BY InitTells, InitClimbs, InitGrounds DEF RowsInv
<1>1. DOMAIN log = {} /\ ThisRun = {} /\ pc \notin Running \cup {"returned"} /\ outcome = None
  BY DEF Init, ThisRun, Running, InStep
<1> QED  BY <1>1 DEF RunRows

LEMMA RowsKept == RowsInv /\ [Next]_vars => RowsInv'
<1> SUFFICES ASSUME RowsInv, [Next]_vars PROVE RunRows'
  BY TellsKept, ClimbsKept, GroundsKept DEF RowsInv
<1>0. /\ SettleInv /\ TypeInv /\ TypeOK /\ TypeOK'
      /\ (pc # "returned" => outcome = None) /\ (pc' # "returned" => outcome' = None)
  BY SettlesKept DEF RowsInv, TellInv, SettleInv, TypeInv, AnswerReached
<1>1. CASE Boot
  <2>1. /\ Plain("composition") \in Event /\ Plain("composition").type = "composition"
        /\ Plain("composition").step = None /\ log' = Append(log, Plain("composition"))
    BY <1>1, PlainEvent DEF Boot, EventTypes
  <2>2. /\ Extends
        /\ \A i \in New : log'[i].type = "composition" /\ log'[i].step = None
    BY <1>0, <2>1, AppendExtends
  <2>3. runStart' = runStart /\ pc' \notin Running \cup {"returned"} /\ outcome' = None
    BY <1>0, <1>1 DEF Boot, Running, InStep
  <2> QED  BY <1>0, <2>2, <2>3, RowsStay DEF Failures
<1>2. CASE Crash
  <2>1. /\ ThisRun' = {} /\ log' = log /\ outcome' = None
        /\ pc' \notin Running \cup {"returned"}
    BY <1>0, <1>2, LogIndices DEF Crash, NoRun, ThisRun, Running, InStep
  <2> QED  BY <2>1 DEF RowsInv, RunRows
<1>3. ASSUME NEW p \in Plans, NEW d \in Nat, Submit(p, d)
      PROVE  RunRows'
  <2>1. /\ \A i \in ThisRun' : log'[i] \in Opening
        /\ Extends /\ \A i \in New : log'[i] \in Opening
    BY <1>0, <1>3, SubmitLog DEF ThisRun, Extends, New
  <2>2. \A e \in Opening : e.step = None /\ e.type \notin Failures
    BY OpeningEvents DEF Failures
  <2>3. DOMAIN log' = DOMAIN log \cup New /\ \A i \in DOMAIN log : log'[i] = log[i]
    BY <1>0, <2>1, PlacesGrow
  <2>4. outcome' = None
    BY <1>3 DEF Submit
  <2> QED  BY <2>1, <2>2, <2>3, <2>4 DEF RowsInv, RunRows
<1>4. CASE StartStep
  <2>1. /\ Id \in StepIds /\ Tool.trust \in TrustLevels
        /\ log' = Append(log, Labelled("step_started", Id, Tool.trust))
    BY <1>0, <1>4, AtAPlace, RuntimeAssumption DEF StartStep, AtStep, Tool
  <2>2. "step_started" \in EventTypes \ {"plan_created"}
    BY DEF EventTypes
  <2>3. /\ Labelled("step_started", Id, Tool.trust) \in Event
        /\ Labelled("step_started", Id, Tool.trust).type = "step_started"
    BY <2>1, <2>2, LabelledIsEvent
  <2>4. Labelled("step_started", Id, Tool.trust).step = Id
    BY DEF Labelled, About, Plain
  <2>5. Extends /\ \A i \in New : log'[i] = Labelled("step_started", Id, Tool.trust)
    BY <1>0, <2>1, <2>3, AppendExtends
  <2>6. /\ pc \in Running \ {"answer"} /\ pc' \in Running /\ pc' \in InStep /\ pc' # "returned"
        /\ UNCHANGED <<plan, pos, runStart>>
    BY <1>4 DEF StartStep, AtStep, Running, InStep
  <2> QED  BY <1>0, <2>1, <2>2, <2>3, <2>4, <2>5, <2>6, WorkingRows
<1>5. CASE EndOfPlan \/ SelectProvider
  <2>1. /\ UNCHANGED <<log, plan, pos, runStart>> /\ pc' # "returned"
        /\ pc \in Running \ {"answer"} /\ pc' \in Running
        /\ pc \in InStep => pc' \in InStep
    BY <1>5 DEF EndOfPlan, SelectProvider, Running, InStep
  <2>2. Extends /\ New = {}
    BY <1>0, <2>1, SameExtends
  <2> QED  BY <1>0, <2>1, <2>2, WorkingRows
<1>6. ASSUME NEW d \in Nat, NEW level \in TrustLevels, ToolOutput(level, d)
      PROVE  RunRows'
  <2>1. /\ pos <= Len(plan) /\ pc \in Running \ {"answer"} /\ pc' \in Running
        /\ pc' \in InStep /\ pc' # "returned" /\ UNCHANGED <<plan, pos, runStart>>
    BY <1>0, <1>6 DEF ToolOutput, TypeInv, Held, Running, InStep
  <2>2. "tool_output" \in EventTypes \ {"plan_created"}
    BY DEF EventTypes
  <2>3. /\ About("tool_output", Id) \in Event /\ About("tool_output", Id).step = Id
        /\ About("tool_output", Id).type = "tool_output"
        /\ log' = Append(log, About("tool_output", Id)) /\ Id \in StepIds
    BY <1>0, <1>6, <2>1, <2>2, AboutEvent, AtAPlace DEF ToolOutput
  <2>4. Extends /\ \A i \in New : log'[i] = About("tool_output", Id)
    BY <1>0, <2>3, AppendExtends
  <2> QED  BY <1>0, <2>1, <2>2, <2>3, <2>4, WorkingRows
<1>7. CASE TriesNext
  <2>1. /\ pc \in Running \ {"answer"} /\ pc' \in Running /\ pc' \in InStep
        /\ pc' # "returned" /\ UNCHANGED <<plan, pos, runStart>> /\ Extends
    BY <1>7 DEF TriesNext, Retry, Running, InStep
  <2>2. \A i \in New : /\ log'[i].type \in EventTypes \ {"plan_created"} /\ log'[i].step = Id
    BY <1>7 DEF TriesNext, Failures, EventTypes
  <2>3. Id \in StepIds
    BY <1>0, <1>7, AtACall DEF TriesNext
  <2> QED  BY <1>0, <2>1, <2>2, <2>3, WorkingRows
<1>8. ASSUME NEW d \in Nat, Commit(d)
      PROVE  RunRows'
  <2>1. /\ Called("fact_added", d, d) \in Event /\ Called("fact_added", d, d).step = Id
        /\ Called("fact_added", d, d).type = "fact_added"
        /\ log' = Append(log, Called("fact_added", d, d)) /\ pc = "call" /\ pos <= Len(plan)
    BY <1>0, <1>8, CalledEvent DEF Commit, Calling, EventTypes, TypeInv, Held, InStep
  <2>2. Extends /\ \A i \in New : log'[i] = Called("fact_added", d, d)
    BY <1>0, <2>1, AppendExtends
  <2>3. /\ pc \in Running /\ pc' \in Running /\ pc' # "returned" /\ UNCHANGED <<plan, runStart>>
        /\ pos' = pos + 1
    BY <1>8, <2>1 DEF Commit, Running, InStep
  <2> QED  BY <1>0, <2>1, <2>2, <2>3, PassedRows
<1>9. CASE GivesUp
  <2>1. /\ pos' = pos + 1 /\ pc' \in Running /\ pc' # "returned" /\ pc \in Running
        /\ pos <= Len(plan) /\ Extends /\ UNCHANGED <<plan, runStart>>
    BY <1>9 DEF GivesUp, Miss, Running
  <2>2. \A i \in New : log'[i].type # "plan_created" /\ log'[i].step = Id
    BY <1>9 DEF GivesUp, Failures
  <2> QED  BY <1>0, <2>1, <2>2, PassedRows
<1>10. CASE UNCHANGED vars
  BY <1>10 DEF vars, RowsInv, RunRows, ThisRun, Handled, Ids, Id, Step
<1> QED
  BY <1>0, <1>1, <1>2, <1>3, <1>4, <1>5, <1>6, <1>7, <1>8, <1>9, <1>10, StepKinds, EndsRows
     DEF Kinds

----------------------------------------------------------------------------

\* A failure of a missing step has no remedy in the run.
LEMMA MissingRow ==
  ASSUME RowsInv, outcome # None, NEW i \in FailureRows \cap ThisRun, log[i].step \in missing
  PROVE  Resolution(i) = IF outcome.status = "declined" THEN "declined" ELSE "abandoned"
<1>1. /\ TypeOK /\ pc = "returned" /\ Committed \cap missing = {}
      /\ DOMAIN log = 1 .. Len(log) /\ Len(log) \in Nat /\ runStart \in Nat /\ i \in Nat
      /\ runStart < i
  <2>1. TypeOK /\ pc = "returned" /\ Committed \cap missing = {}
    BY DEF RowsInv, TellInv, SettleInv, TypeInv, AnswerReached, SettledOnce
  <2> QED  BY <2>1, LogIndices DEF ThisRun
<1>2. \A n \in DOMAIN log : n > i => n \in ThisRun
  BY <1>1 DEF ThisRun
<1>3. Later(i) = {}
  <2> SUFFICES ASSUME NEW f \in Later(i) PROVE FALSE
    OBVIOUS
  <2>1. f \in Facts /\ log[f].step = log[i].step
    BY <1>2 DEF Later, Places, Facts
  <2>2. log[i].step \in Committed
    BY <2>1 DEF Committed
  <2> QED  BY <1>1, <2>2
<1>4. ~ \E n \in ReplannedAfter : n > i
  <2> SUFFICES ASSUME NEW n \in ReplannedAfter, n > i PROVE FALSE
    OBVIOUS
  <2>1. n \in ThisRun /\ log[n].type = "plan_created" /\ n \in Nat
    BY <1>1, <1>2 DEF ReplannedAfter, Places
  <2>2. log[i].type \in Failures
    BY KindsOfFailure DEF FailureRows
  <2>3. n < i
    BY <2>1, <2>2 DEF RowsInv, RunRows
  <2> QED  BY <1>1, <2>1, <2>3
<1>5. SessionDeclined <=> outcome.status = "declined"
  <2>1. /\ Len(log) \in DOMAIN log /\ \A j \in DOMAIN log : j <= Len(log)
        /\ log[Len(log)].type = IF outcome.status = "declined" THEN "declined" ELSE "answer_sent"
    BY <1>1 DEF RowsInv, RunRows
  <2>2. CASE outcome.status = "declined"
    <3>1. Len(log) \in Places("declined") /\ \A j \in Endings : j <= Len(log)
      BY <2>1, <2>2 DEF Places, Endings
    <3> QED  BY <2>2, <3>1 DEF SessionDeclined
  <2>3. CASE outcome.status # "declined"
    <3>1. Len(log) \in Endings /\ Len(log) \notin Places("declined")
      BY <2>1, <2>3 DEF Places, Endings
    <3>2. \A j \in Places("declined") : j \in Nat /\ j <= Len(log) /\ j # Len(log)
      BY <1>1, <2>1, <3>1 DEF Places
    <3>3. \A j \in Places("declined") : ~ (Len(log) <= j)
      BY <1>1, <3>2
    <3> QED  BY <2>3, <3>1, <3>3 DEF SessionDeclined
  <2> QED  BY <2>2, <2>3
<1>6. CASE outcome.status = "declined"
  BY <1>3, <1>4, <1>5, <1>6 DEF Resolution
<1>7. CASE outcome.status # "declined"
  BY <1>3, <1>4, <1>5, <1>7 DEF Resolution
<1> QED  BY <1>6, <1>7

\* A failure of a committed step was overcome by another provider's fact.
LEMMA CommittedRow ==
  ASSUME RowsInv, outcome # None, NEW i \in FailureRows \cap ThisRun, log[i].step \notin missing
  PROVE  Resolution(i) = "escalated" /\ Fix(i) \in Facts
<1> PICK s \in StepIds : s = log[i].step
  BY KindsOfFailure DEF RowsInv, RunRows, FailureRows
<1>1. /\ TypeOK /\ pc = "returned" /\ Committed \cup missing = Ids(1, pos - 1)
      /\ \A f, g \in Facts : log[f].step = log[g].step => f = g
      /\ DOMAIN log = 1 .. Len(log) /\ Len(log) \in Nat /\ runStart \in Nat /\ i \in Nat
      /\ runStart < i
  <2>1. /\ TypeOK /\ pc = "returned" /\ Committed \cup missing = Ids(1, pos - 1)
        /\ \A f, g \in Facts : log[f].step = log[g].step => f = g
    BY DEF RowsInv, TellInv, SettleInv, TypeInv, AnswerReached, SettledOnce
  <2> QED  BY <2>1, LogIndices DEF ThisRun
<1>2. s \in Committed
  <2>1. s # None /\ Handled(s)
    BY <1>1, RuntimeAssumption DEF RowsInv, RunRows
  <2> QED  BY <1>1, <2>1 DEF Handled, InStep
<1>3. PICK f \in Mentions(s) : (\A j \in Mentions(s) : j <= f) /\ log[f].type = "fact_added"
  BY <1>2 DEF RowsInv, TellInv, Tells, EndsWith
<1>4. /\ f \in Facts /\ log[f].step = s /\ f \in DOMAIN log /\ f \in Nat
      /\ f \in Places("fact_added")
  BY <1>1, <1>3, LogIndices DEF Facts, Mentions, Places
<1>5. f > i
  <2>1. i \in Mentions(s) /\ i # f
    BY <1>3, KindsOfFailure DEF Mentions, FailureRows, Failures
  <2> QED  BY <1>1, <1>3, <1>4, <2>1
<1>6. Later(i) = {f}
  <2>1. f \in Later(i)
    BY <1>4, <1>5 DEF Later
  <2>2. ASSUME NEW g \in Later(i) PROVE g = f
    <3>1. g \in Facts /\ log[g].step = s
      BY <1>1 DEF Later, Places, Facts, ThisRun
    <3> QED  BY <1>1, <1>4, <3>1
  <2> QED  BY <2>1, <2>2
<1>7. Fix(i) = f
  BY <1>4, <1>6 DEF Fix
<1>8. log[f].provider # log[i].provider
  <2> SUFFICES ASSUME log[f].provider = log[i].provider PROVE FALSE
    OBVIOUS
  <2>1. log[f].provider \in Providers
    BY <1>4 DEF RowsInv, GroundInv, Grounded, Ground
  <2>2. f \in Attempts(s) /\ i \in Attempts(s)
    BY <1>4, <2>1, ManifestAssumption DEF Attempts, Facts
  <2>3. f = i
    BY <2>2 DEF RowsInv, ClimbInv, LadderClimbs
  <2> QED  BY <1>1, <1>4, <1>5, <2>3
<1>9. Resolution(i) = "escalated"
  BY <1>6, <1>7, <1>8 DEF Resolution
<1> QED  BY <1>4, <1>7, <1>9

\* The failure table of a run that has just returned says what its caller was
\* told: rows without a remedy for the missing steps, and for the committed
\* ones the provider that overcame the failure.
THEOREM RowsAgree == Spec => []RowsTellOutcome
<1>1. RowsInv => RowsTellOutcome
  <2> SUFFICES ASSUME RowsInv, outcome # None
               PROVE  /\ \A s \in missing : \E i \in FailureRows \cap ThisRun : log[i].step = s
                      /\ \A i \in FailureRows \cap ThisRun :
                           IF log[i].step \in missing
                           THEN Resolution(i) = IF outcome.status = "declined" THEN "declined"
                                                ELSE "abandoned"
                           ELSE Resolution(i) = "escalated" /\ Fix(i) \in Facts
    BY DEF RowsTellOutcome
  <2>1. ASSUME NEW s \in missing PROVE \E i \in FailureRows \cap ThisRun : log[i].step = s
    <3>1. PICK i \in Mentions(s) : log[i].type \in Failures
      BY DEF RowsInv, TellInv, Tells, EndsWith
    <3>2. i \in ThisRun /\ i \in DOMAIN log /\ log[i].step = s
      BY <3>1, LogIndices DEF RowsInv, TellInv, SettleInv, TypeInv, Mentions, ThisRun
    <3> QED  BY <3>1, <3>2, KindsOfFailure DEF FailureRows
  <2> QED  BY <2>1, MissingRow, CommittedRow
<1> QED  BY <1>1, InitRows, RowsKept, PTL DEF Spec
=============================================================================
