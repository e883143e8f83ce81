---------------------------- MODULE RuntimeProofs ----------------------------
(***************************************************************************)
(* The main loop for every set of plans, tools, providers, limits and      *)
(* faults: its types, and that every step is settled exactly once.         *)
(***************************************************************************)
EXTENDS RuntimeProperties, SelectionProofs, SequenceTheorems

----------------------------------------------------------------------------
(* The type invariant, strengthened until it is inductive: a provider is   *)
(* only asked with a payload in hand, and only called when it was found.   *)

Held ==
  /\ pc \in InStep => pos <= Len(plan) /\ Step.tool \in DOMAIN Tools
  /\ pc \in {"select", "call"} => raw \in TrustLevels
  /\ pc = "call" => prov \in Providers

TypeInv == TypeOK /\ Held

----------------------------------------------------------------------------
(* Lemmas about events and plans.                                          *)

LEMMA PlainIsEvent ==
  ASSUME NEW type \in EventTypes
  PROVE  Plain(type) \in Event /\ Plain(type).type = type
BY DEF Plain, Event

LEMMA AboutIsEvent ==
  ASSUME NEW type \in EventTypes, NEW s \in StepIds
  PROVE  /\ About(type, s) \in Event
         /\ About(type, s).type = type /\ About(type, s).step = s
BY DEF About, Plain, Event

LEMMA LabelledIsEvent ==
  ASSUME NEW type \in EventTypes, NEW s \in StepIds, NEW level \in TrustLevels
  PROVE  /\ Labelled(type, s, level) \in Event
         /\ Labelled(type, s, level).type = type /\ Labelled(type, s, level).step = s
BY DEF Labelled, About, Plain, Event

LEMMA AttemptIsEvent ==
  ASSUME NEW type \in EventTypes, NEW s \in StepIds, NEW p \in Providers,
         NEW level \in TrustLevels, NEW ms \in Nat, NEW took \in Nat
  PROVE  /\ Attempt(type, s, p, level, ms, took) \in Event
         /\ Attempt(type, s, p, level, ms, took).type = type
         /\ Attempt(type, s, p, level, ms, took).step = s
BY DEF Attempt, Labelled, About, Plain, Event

\* The loop is at a step of a plan that was submitted.
LEMMA AtAPlace ==
  ASSUME TypeOK, pos <= Len(plan)
  PROVE  /\ plan \in Plans /\ pos \in DOMAIN plan
         /\ Id \in StepIds /\ Len(plan) \in Nat
<1>1. pos \in Nat /\ pos >= 1 /\ Len(plan) >= 1
  <2>1. plan \in Seq([id : StepIds, tool : STRING]) \/ plan = <<>>
    BY PlanAssumption DEF TypeOK
  <2>2. Len(plan) \in Nat
    BY <2>1
  <2> QED  BY <2>2 DEF TypeOK
<1>2. plan # <<>>
  BY <1>1
<1>3. plan \in Plans /\ plan \in Seq([id : StepIds, tool : STRING])
  BY <1>2, PlanAssumption DEF TypeOK
<1>4. DOMAIN plan = 1 .. Len(plan) /\ Len(plan) \in Nat
  BY <1>3
<1>5. pos \in DOMAIN plan
  BY <1>1, <1>4
<1>6. plan[pos] \in [id : StepIds, tool : STRING]
  BY <1>3, <1>4, <1>5, ElementOfSeq
<1> QED  BY <1>3, <1>4, <1>5, <1>6 DEF Id, Step

LEMMA PlanLength ==
  ASSUME TypeOK
  PROVE  Len(plan) \in Nat /\ pos \in Nat
<1>1. plan \in Seq([id : StepIds, tool : STRING]) \/ plan = <<>>
  BY PlanAssumption DEF TypeOK
<1>2. Len(plan) \in Nat
  BY <1>1
<1> QED  BY <1>2 DEF TypeOK

LEMMA ElapseType ==
  ASSUME TypeOK, NEW d \in Nat, Elapse(d)
  PROVE  elapsed' \in 0 .. WallLimit
BY RuntimeAssumption DEF TypeOK, Elapse

\* An append within a run.
LEMMA Grown ==
  ASSUME TypeOK, NEW e \in Event, log' = Append(log, e), runStart' = runStart
  PROVE  /\ log' \in Seq(Event) /\ Len(log') = Len(log) + 1
         /\ \A i \in 1 .. Len(log) : log'[i] = log[i]
         /\ log'[Len(log) + 1] = e
         /\ runStart' \in 0 .. Len(log')
<1>1. log \in Seq(Event) /\ runStart \in 0 .. Len(log)
  BY DEF TypeOK
<1>2. /\ log' \in Seq(Event) /\ Len(log') = Len(log) + 1
      /\ \A i \in 1 .. Len(log) : log'[i] = log[i]
      /\ log'[Len(log) + 1] = e
  BY <1>1, AppendProperties
<1> QED  BY <1>1, <1>2

\* The loop goes on behind a step.
LEMMA PastAStep ==
  ASSUME TypeOK, pos <= Len(plan), plan' = plan, pos' = pos + 1
  PROVE  pos' \in 1 .. Len(plan') + 1
BY AtAPlace DEF TypeOK

\* Two appends at once.
LEMMA GrownTwice ==
  ASSUME TypeOK, NEW e \in Event, NEW f \in Event,
         log' = log \o <<e, f>>, runStart' = runStart
  PROVE  /\ log' \in Seq(Event) /\ Len(log') = Len(log) + 2
         /\ \A i \in 1 .. Len(log) : log'[i] = log[i]
         /\ log'[Len(log) + 1] = e /\ log'[Len(log) + 2] = f
         /\ runStart' \in 0 .. Len(log')
<1> DEFINE t == <<e, f>>
<1>1. log \in Seq(Event) /\ runStart \in 0 .. Len(log) /\ Len(log) \in Nat
  BY DEF TypeOK
<1>2. t \in Seq(Event) /\ Len(t) = 2 /\ t[1] = e /\ t[2] = f
  OBVIOUS
<1>3. log' = log \o t
  OBVIOUS
<1> HIDE DEF t
<1>4. /\ log' \in Seq(Event) /\ Len(log') = Len(log) + 2
      /\ \A i \in 1 .. Len(log) + 2 :
           log'[i] = IF i <= Len(log) THEN log[i] ELSE t[i - Len(log)]
  BY <1>1, <1>2, <1>3, ConcatProperties
<1> QED  BY <1>1, <1>2, <1>4

\* The step at hand is missing and the loop or the answer comes next.
LEMMA MissType ==
  ASSUME TypeOK, pos <= Len(plan), plan' = plan,
         NEW next \in {"loop", "answer"}, Miss(next)
  PROVE  /\ missing' \subseteq StepIds /\ pos' \in 1 .. Len(plan') + 1
         /\ pc' = next /\ pc' \in Phases
         /\ tried' = {} /\ raw' = None /\ prov' = None
         /\ plan' \in Plans \cup {<<>>}
BY AtAPlace, PastAStep DEF Miss, NoReduce, TypeOK, Phases, Running, InStep

LEMMA NoRunType ==
  ASSUME NoRun
  PROVE  /\ plan' \in Plans \cup {<<>>} /\ pos' \in 1 .. Len(plan') + 1
         /\ missing' \subseteq StepIds /\ tried' \subseteq Providers
         /\ raw' = None /\ prov' = None /\ outcome' = None
BY DEF NoRun, NoReduce

LEMMA FreshType ==
  ASSUME FreshMemory
  PROVE  steps' \in Nat /\ retries' \in [StepIds -> Nat] /\ elapsed' \in 0 .. WallLimit
BY RuntimeAssumption DEF FreshMemory

LEMMA NoteRetryType ==
  ASSUME TypeOK, NEW s \in StepIds, NoteRetry(s)
  PROVE  retries' \in [StepIds -> Nat]
BY DEF TypeOK, NoteRetry

LEMMA PlacesInLog ==
  ASSUME TypeOK, NEW type
  PROVE  Places(type) \subseteq Nat
BY DEF TypeOK, Places

----------------------------------------------------------------------------
(* Every step keeps the types.                                             *)

LEMMA InitTypes == Init => TypeInv
<1> SUFFICES ASSUME Init PROVE TypeInv
  OBVIOUS
<1>1. <<>> \in Seq(Event) /\ Len(<<>>) = 0
  OBVIOUS
<1>2. TypeOK
  BY <1>1, RuntimeAssumption DEF Init, TypeOK, Phases
<1>3. Held
  BY DEF Init, Held, InStep
<1> QED  BY <1>2, <1>3 DEF TypeInv

LEMMA BootTypes == TypeInv /\ Boot => TypeInv'
<1> SUFFICES ASSUME TypeInv, Boot PROVE TypeInv'
  OBVIOUS
<1> USE DEF TypeInv
<1>1. /\ log' \in Seq(Event) /\ runStart' \in 0 .. Len(log')
  BY PlainIsEvent, Grown DEF Boot, EventTypes
<1>2. TypeOK'
  BY <1>1, FreshType DEF Boot, TypeOK, Phases, reduce
<1>3. Held'
  BY DEF Boot, Held, InStep
<1> QED  BY <1>2, <1>3

LEMMA CrashTypes == TypeInv /\ Crash => TypeInv'
<1> SUFFICES ASSUME TypeInv, Crash PROVE TypeInv'
  OBVIOUS
<1> USE DEF TypeInv
<1>1. runStart' \in 0 .. Len(log')
  BY DEF Crash, TypeOK
<1>2. TypeOK'
  BY <1>1, FreshType, NoRunType DEF Crash, TypeOK, Phases
<1>3. Held'
  BY DEF Crash, Held, InStep
<1> QED  BY <1>2, <1>3

LEMMA RaisedTypes ==
  ASSUME TypeInv, NEW d \in Nat, Raised(d),
         log' \in Seq(Event), runStart' \in 0 .. Len(log')
  PROVE  TypeInv'
<1> USE DEF TypeInv
<1>1. elapsed' \in 0 .. WallLimit
  BY ElapseType DEF Raised
<1>2. TypeOK'
  BY <1>1, NoRunType DEF Raised, TypeOK, Phases
<1>3. Held'
  BY DEF Raised, Held, InStep
<1> QED  BY <1>2, <1>3

LEMMA EscapeTypes ==
  ASSUME TypeInv, NEW d \in Nat, Escape(d)
  PROVE  TypeInv'
<1>1. log' \in Seq(Event) /\ runStart' \in 0 .. Len(log')
  BY DEF Escape, Raised, TypeInv, TypeOK
<1> QED  BY <1>1, RaisedTypes DEF Escape

LEMMA DeclineEscapesTypes ==
  ASSUME TypeInv, NEW d \in Nat, DeclineEscapes(d)
  PROVE  TypeInv'
<1>1. "declined" \in EventTypes
  BY DEF EventTypes
<1>2. Raised(d) /\ log' = Append(log, Plain("declined")) /\ runStart' = runStart
  BY DEF DeclineEscapes, Raised
<1>3. log' \in Seq(Event) /\ runStart' \in 0 .. Len(log')
  BY <1>1, <1>2, PlainIsEvent, Grown DEF TypeInv
<1> QED  BY <1>2, <1>3, RaisedTypes

\* Events of some kind behind events that are of that kind from a place on.
LEMMA Behind ==
  ASSUME NEW kind, NEW s \in Seq(Event), NEW t \in Seq(Event), NEW n \in 0 .. Len(s),
         \A i \in n + 1 .. Len(s) : s[i] \in kind,
         \A i \in 1 .. Len(t) : t[i] \in kind
  PROVE  /\ s \o t \in Seq(Event) /\ Len(s \o t) = Len(s) + Len(t)
         /\ \A i \in 1 .. Len(s) : (s \o t)[i] = s[i]
         /\ \A i \in n + 1 .. Len(s \o t) : (s \o t)[i] \in kind
<1>1. Len(s) \in Nat /\ Len(t) \in Nat
  OBVIOUS
<1>2. /\ s \o t \in Seq(Event) /\ Len(s \o t) = Len(s) + Len(t)
      /\ \A i \in 1 .. Len(s) + Len(t) :
           (s \o t)[i] = IF i <= Len(s) THEN s[i] ELSE t[i - Len(s)]
  BY ConcatProperties, Zenon
<1> DEFINE u == s \o t
<1> HIDE DEF u
<1>3. ASSUME NEW i \in n + 1 .. Len(s) + Len(t)
      PROVE  u[i] \in kind
  <2>1. i \in 1 .. Len(s) + Len(t)
    BY <1>1
  <2>2. CASE i <= Len(s)
    <3>1. i \in n + 1 .. Len(s) /\ u[i] = s[i]
      BY <1>1, <1>2, <2>1, <2>2 DEF u
    <3> QED  BY <3>1
  <2>3. CASE ~(i <= Len(s))
    <3>1. i - Len(s) \in 1 .. Len(t) /\ u[i] = t[i - Len(s)]
      BY <1>1, <1>2, <2>1, <2>3 DEF u
    <3> QED  BY <3>1
  <2> QED  BY <2>2, <2>3
<1>4. \A i \in 1 .. Len(s) : i \in 1 .. Len(s) + Len(t) /\ i <= Len(s)
  BY <1>1
<1>5. \A i \in 1 .. Len(s) : u[i] = s[i]
  BY <1>2, <1>4 DEF u
<1> QED  BY <1>2, <1>3, <1>5 DEF u

\* The events run() writes before its loop.
Opening == {Plain(type) : type \in {"user_input", "policy_snapshot", "plan_created"}}

LEMMA OpeningEvents ==
  \A e \in Opening : /\ e \in Event /\ e.step = None /\ e.provider = None
                     /\ e.type \in {"user_input", "policy_snapshot", "plan_created"}
BY DEF Opening, Plain, Event, EventTypes

LEMMA SubmitLog ==
  ASSUME TypeOK, NEW p \in Plans, NEW d \in Nat, Submit(p, d)
  PROVE  /\ log' \in Seq(Event)
         /\ runStart' = Len(log)
         /\ Len(log) < Len(log')
         /\ \A i \in 1 .. Len(log) : log'[i] = log[i]
         /\ \A i \in Len(log) + 1 .. Len(log') : log'[i] \in Opening
<1> DEFINE a == <<Plain("user_input")>>
           b == IF DOMAIN Rows # {} \/ QualityFloor # None
                THEN <<Plain("policy_snapshot")>> ELSE <<>>
           c == <<Plain("plan_created")>>
<1>1. /\ Plain("user_input") \in Opening /\ Plain("policy_snapshot") \in Opening
      /\ Plain("plan_created") \in Opening /\ Opening \subseteq Event
  BY OpeningEvents DEF Opening
<1>2. /\ a \in Seq(Event) /\ Len(a) = 1 /\ a[1] \in Opening
      /\ c \in Seq(Event) /\ Len(c) = 1 /\ c[1] \in Opening
  BY <1>1
<1>3. b \in Seq(Event) /\ Len(b) \in Nat /\ \A i \in 1 .. Len(b) : b[i] \in Opening
  BY <1>1
<1>4. log \in Seq(Event) /\ Len(log) \in Nat
  BY DEF TypeOK
<1>5. log' = log \o a \o b \o c /\ runStart' = Len(log)
  BY DEF Submit
<1> HIDE DEF a, b, c
<1> DEFINE la == log \o a
           lab == la \o b
<1>6. /\ la \in Seq(Event) /\ Len(la) = Len(log) + 1
      /\ \A i \in 1 .. Len(log) : la[i] = log[i]
      /\ \A i \in Len(log) + 1 .. Len(la) : la[i] \in Opening
  <2>1. \A i \in 1 .. Len(a) : a[i] \in Opening
    BY <1>2
  <2>2. Len(log) \in 0 .. Len(log) /\ \A i \in Len(log) + 1 .. Len(log) : FALSE
    BY <1>4
  <2>3. a \in Seq(Event) /\ log \in Seq(Event)
    BY <1>2, <1>4
  <2>4. /\ log \o a \in Seq(Event) /\ Len(log \o a) = Len(log) + Len(a)
        /\ \A i \in 1 .. Len(log) : (log \o a)[i] = log[i]
        /\ \A i \in Len(log) + 1 .. Len(log \o a) : (log \o a)[i] \in Opening
    BY <2>1, <2>2, <2>3, Behind
  <2> QED  BY <1>2, <2>4
<1> HIDE DEF la
<1>7. /\ lab \in Seq(Event) /\ Len(lab) = Len(la) + Len(b)
      /\ \A i \in 1 .. Len(la) : lab[i] = la[i]
      /\ \A i \in Len(log) + 1 .. Len(lab) : lab[i] \in Opening
  <2>1. Len(log) \in 0 .. Len(la)
    BY <1>4, <1>6
  <2> QED  BY <1>3, <1>6, <2>1, Behind
<1> HIDE DEF lab
<1>8. Len(log) \in 0 .. Len(lab) /\ Len(lab) \in Nat /\ Len(la) \in Nat /\ Len(la) <= Len(lab)
  BY <1>3, <1>4, <1>6, <1>7
<1>9. /\ lab \o c \in Seq(Event) /\ Len(lab \o c) = Len(lab) + 1
      /\ \A i \in 1 .. Len(lab) : (lab \o c)[i] = lab[i]
      /\ \A i \in Len(log) + 1 .. Len(lab \o c) : (lab \o c)[i] \in Opening
  <2>1. \A i \in 1 .. Len(c) : c[i] \in Opening
    BY <1>2
  <2>2. c \in Seq(Event)
    BY <1>2
  <2>3. /\ lab \o c \in Seq(Event) /\ Len(lab \o c) = Len(lab) + Len(c)
        /\ \A i \in 1 .. Len(lab) : (lab \o c)[i] = lab[i]
        /\ \A i \in Len(log) + 1 .. Len(lab \o c) : (lab \o c)[i] \in Opening
    BY <1>7, <1>8, <2>1, <2>2, Behind
  <2> QED  BY <1>2, <2>3
<1>10. log' = lab \o c
  BY <1>5 DEF la, lab
<1>11. \A i \in 1 .. Len(log) : i \in 1 .. Len(la) /\ i \in 1 .. Len(lab)
  BY <1>4, <1>6, <1>8
<1>12. \A i \in 1 .. Len(log) : log'[i] = log[i]
  BY <1>6, <1>7, <1>9, <1>10, <1>11
<1> QED  BY <1>4, <1>5, <1>8, <1>9, <1>10, <1>12

LEMMA SubmitTypes ==
  ASSUME TypeInv, NEW p \in Plans, NEW d \in Nat, Submit(p, d)
  PROVE  TypeInv'
<1> USE DEF TypeInv
<1>1. log' \in Seq(Event) /\ runStart' \in 0 .. Len(log')
  <2>1. log' \in Seq(Event) /\ runStart' = Len(log) /\ Len(log) < Len(log')
    BY SubmitLog
  <2>2. Len(log) \in Nat /\ Len(log') \in Nat
    BY <2>1 DEF TypeOK
  <2> QED  BY <2>1, <2>2
<1>2. elapsed' \in 0 .. WallLimit
  BY ElapseType DEF Submit
<1>3. /\ plan' = p /\ missing' = {} /\ pos' = 1 /\ outcome' = None /\ pc' = "loop"
      /\ UNCHANGED <<steps, retries, tried, raw, prov>>
  BY DEF Submit, Begin, reduce
<1>4. pos' \in 1 .. Len(plan') + 1
  BY <1>3, PlanAssumption
<1>5. TypeOK'
  BY <1>1, <1>2, <1>3, <1>4 DEF TypeOK, Phases
<1>6. Held'
  BY <1>3 DEF Held, InStep
<1> QED  BY <1>5, <1>6

\* A step that is given up, whatever it wrote.
LEMMA GivenUpTypes ==
  ASSUME TypeInv, pos <= Len(plan),
         log' \in Seq(Event), runStart' \in 0 .. Len(log'),
         NEW next \in {"loop", "answer"}, Miss(next),
         steps' \in Nat, retries' \in [StepIds -> Nat], elapsed' \in 0 .. WallLimit,
         UNCHANGED <<plan, outcome>>
  PROVE  TypeInv'
<1> USE DEF TypeInv
<1>1. /\ missing' \subseteq StepIds /\ pos' \in 1 .. Len(plan') + 1
      /\ pc' = next /\ pc' \in Phases
      /\ tried' = {} /\ raw' = None /\ prov' = None
      /\ plan' \in Plans \cup {<<>>}
  BY MissType
<1>2. TypeOK'
  BY <1>1 DEF TypeOK
<1>3. Held'
  BY <1>1 DEF Held, InStep
<1> QED  BY <1>2, <1>3

\* A step that ends with one event about it.
LEMMA MissedTypes ==
  ASSUME TypeInv, pos <= Len(plan),
         NEW type \in EventTypes, log' = Append(log, About(type, Id)),
         NEW next \in {"loop", "answer"}, Miss(next),
         steps' \in Nat, retries' \in [StepIds -> Nat], elapsed' \in 0 .. WallLimit,
         UNCHANGED <<plan, outcome, runStart>>
  PROVE  TypeInv'
<1>1. log' \in Seq(Event) /\ runStart' \in 0 .. Len(log')
  BY AtAPlace, AboutIsEvent, Grown DEF TypeInv
<1> QED  BY <1>1, GivenUpTypes

LEMMA LoopTypes ==
  TypeInv /\ (ExhaustBudget \/ TripBreaker \/ NoSuchTool) => TypeInv'
<1> SUFFICES ASSUME TypeInv, ExhaustBudget \/ TripBreaker \/ NoSuchTool PROVE TypeInv'
  OBVIOUS
<1>1. pos <= Len(plan)
  BY DEF ExhaustBudget, TripBreaker, NoSuchTool, AtStep
<1>2. steps \in Nat /\ retries \in [StepIds -> Nat] /\ elapsed \in 0 .. WallLimit
  BY DEF TypeInv, TypeOK
<1>3. CASE ExhaustBudget
  <2>1. "budget_exhausted" \in EventTypes
    BY DEF EventTypes
  <2> QED  BY <1>1, <1>2, <1>3, <2>1, MissedTypes DEF ExhaustBudget, memory
<1>4. CASE TripBreaker
  <2>1. "breaker_tripped" \in EventTypes
    BY DEF EventTypes
  <2> QED  BY <1>1, <1>2, <1>4, <2>1, MissedTypes DEF TripBreaker, NoteStep
<1>5. CASE NoSuchTool
  <2>1. "tool_failed" \in EventTypes
    BY DEF EventTypes
  <2> QED  BY <1>1, <1>2, <1>5, <2>1, MissedTypes DEF NoSuchTool, NoteStep
<1> QED  BY <1>3, <1>4, <1>5

LEMMA StartStepTypes == TypeInv /\ StartStep => TypeInv'
<1> SUFFICES ASSUME TypeInv, StartStep PROVE TypeInv'
  OBVIOUS
<1> USE DEF TypeInv
<1>1. pos <= Len(plan) /\ Step.tool \in DOMAIN Tools
  BY DEF StartStep, AtStep
<1>2. Labelled("step_started", Id, Tool.trust) \in Event
  BY <1>1, AtAPlace, LabelledIsEvent, RuntimeAssumption DEF EventTypes, Tool
<1>3. log' \in Seq(Event) /\ runStart' \in 0 .. Len(log')
  BY <1>2, Grown DEF StartStep
<1>4. /\ pc' = "execute" /\ steps' = steps + 1
      /\ UNCHANGED <<plan, pos, missing, retries, elapsed, tried, raw, prov, outcome>>
  BY DEF StartStep, NoteStep, reduce
<1>5. TypeOK'
  BY <1>3, <1>4 DEF TypeOK, Phases, InStep
<1>6. Held'
  BY <1>1, <1>4 DEF Held, InStep, Step
<1> QED  BY <1>5, <1>6

LEMMA EndOfPlanTypes == TypeInv /\ EndOfPlan => TypeInv'
BY DEF TypeInv, TypeOK, Held, EndOfPlan, memory, reduce, Phases, InStep, Running

LEMMA StepFailsTypes ==
  ASSUME TypeInv, NEW type \in EventTypes, NEW d \in Nat, StepFails(type, d)
  PROVE  TypeInv'
<1>1. pos <= Len(plan)
  BY DEF StepFails, TypeInv, Held, InStep
<1>2. steps \in Nat /\ retries \in [StepIds -> Nat] /\ elapsed' \in 0 .. WallLimit
  BY ElapseType DEF TypeInv, TypeOK, StepFails
<1> QED  BY <1>1, <1>2, MissedTypes DEF StepFails

LEMMA ToolOutputTypes ==
  ASSUME TypeInv, NEW level \in TrustLevels, NEW d \in Nat, ToolOutput(level, d)
  PROVE  TypeInv'
<1> USE DEF TypeInv
<1>1. pos <= Len(plan) /\ Step.tool \in DOMAIN Tools
  BY DEF ToolOutput, Held, InStep
<1>2. About("tool_output", Id) \in Event
  BY <1>1, AtAPlace, AboutIsEvent DEF EventTypes
<1>3. log' \in Seq(Event) /\ runStart' \in 0 .. Len(log')
  BY <1>2, Grown DEF ToolOutput
<1>4. /\ pc' = "select" /\ raw' = level /\ tried' = {}
      /\ UNCHANGED <<plan, pos, missing, steps, retries, prov, outcome>>
  BY DEF ToolOutput
<1>5. elapsed' \in 0 .. WallLimit
  BY ElapseType DEF ToolOutput
<1>6. TypeOK'
  BY <1>3, <1>4, <1>5 DEF TypeOK, Phases, InStep
<1>7. Held'
  BY <1>1, <1>4 DEF Held, InStep, Step
<1> QED  BY <1>6, <1>7

LEMMA GapTypes == TypeInv /\ Gap => TypeInv'
<1> SUFFICES ASSUME TypeInv, Gap PROVE TypeInv'
  OBVIOUS
<1>1. pos <= Len(plan) /\ "capability_gap" \in EventTypes
  BY DEF Gap, TypeInv, Held, InStep, EventTypes
<1>2. steps \in Nat /\ retries \in [StepIds -> Nat] /\ elapsed \in 0 .. WallLimit
  BY DEF TypeInv, TypeOK
<1> QED  BY <1>1, <1>2, MissedTypes DEF Gap, memory

\* Here the selection has to be well defined.
LEMMA SelectProviderTypes == TypeInv /\ SelectProvider => TypeInv'
<1> SUFFICES ASSUME TypeInv, SelectProvider PROVE TypeInv'
  OBVIOUS
<1> USE DEF TypeInv
<1>1. prov' \in Providers
  BY SelectionMayRead DEF SelectProvider
<1>2. /\ pc = "select" /\ pc' = "call" /\ tried' = tried \cup {prov'}
      /\ UNCHANGED <<log, plan, pos, missing, steps, retries, elapsed, raw, outcome, runStart>>
  BY DEF SelectProvider, memory
<1>3. TypeOK'
  BY <1>1, <1>2 DEF TypeOK, Phases, InStep
<1>4. Held'
  BY <1>1, <1>2 DEF Held, InStep, Step
<1> QED  BY <1>3, <1>4

\* What holds where a provider is called.
LEMMA AtACall ==
  ASSUME TypeInv, pc = "call"
  PROVE  /\ pos <= Len(plan) /\ Id \in StepIds
         /\ Step.tool \in DOMAIN Tools
         /\ \A type \in EventTypes : \A ms, took \in Nat :
              /\ Called(type, ms, took) \in Event
              /\ Called(type, ms, took).type = type /\ Called(type, ms, took).step = Id
<1>1. pos <= Len(plan) /\ raw \in TrustLevels /\ prov \in Providers /\ Step.tool \in DOMAIN Tools
  BY DEF TypeInv, Held, InStep
<1>2. Id \in StepIds
  BY <1>1, AtAPlace DEF TypeInv
<1> QED  BY <1>1, <1>2, AttemptIsEvent DEF Called

\* The next provider is tried.
LEMMA RetryTypes ==
  ASSUME TypeInv, pc = "call",
         log' \in Seq(Event), runStart' \in 0 .. Len(log'), Retry,
         steps' \in Nat, retries' \in [StepIds -> Nat], elapsed' \in 0 .. WallLimit,
         UNCHANGED <<plan, outcome>>
  PROVE  TypeInv'
<1> USE DEF TypeInv
<1>1. /\ pc' = "select" /\ prov' = None
      /\ UNCHANGED <<pos, missing, tried, raw>>
  BY DEF Retry
<1>2. TypeOK'
  BY <1>1 DEF TypeOK, Phases, InStep
<1>3. Held'
  BY <1>1 DEF Held, InStep, Step
<1> QED  BY <1>2, <1>3

LEMMA AttemptFailsTypes ==
  ASSUME TypeInv, NEW type \in {"tool_failed", "validation_failed"}, NEW d \in Nat,
         AttemptFails(type, d)
  PROVE  TypeInv'
<1> DEFINE event == Called(type, IF type = "tool_failed" THEN 0 ELSE d, d)
<1>1. pc = "call" /\ pos <= Len(plan) /\ Id \in StepIds
  BY AtACall DEF AttemptFails, Calling
<1>2. event \in Event
  <2>1. type \in EventTypes /\ (IF type = "tool_failed" THEN 0 ELSE d) \in Nat
    BY DEF EventTypes
  <2> QED  BY <1>1, <2>1, AtACall
<1>3. About("step_failed", Id) \in Event
  BY <1>1, AboutIsEvent DEF EventTypes
<1>4. /\ steps' \in Nat /\ retries' \in [StepIds -> Nat] /\ elapsed' \in 0 .. WallLimit
      /\ UNCHANGED <<plan, outcome, runStart>>
  BY <1>1, ElapseType, NoteRetryType DEF AttemptFails, TypeInv, TypeOK
<1> HIDE DEF event
<1>5. CASE RetriesSpent(Id)
  <2>1. log' = log \o <<event, About("step_failed", Id)>> /\ Miss("loop")
    BY <1>5 DEF AttemptFails, event
  <2>2. log' \in Seq(Event) /\ runStart' \in 0 .. Len(log')
    BY <1>2, <1>3, <1>4, <2>1, GrownTwice DEF TypeInv
  <2> QED  BY <1>1, <1>4, <2>1, <2>2, GivenUpTypes
<1>6. CASE ~RetriesSpent(Id)
  <2>1. log' = Append(log, event) /\ Retry
    BY <1>6 DEF AttemptFails, event
  <2>2. log' \in Seq(Event) /\ runStart' \in 0 .. Len(log')
    BY <1>2, <1>4, <2>1, Grown DEF TypeInv
  <2> QED  BY <1>1, <1>4, <2>1, <2>2, RetryTypes
<1> QED  BY <1>5, <1>6

LEMMA CommitRejectedTypes ==
  ASSUME TypeInv, NEW type \in RejectTypes, NEW d \in Nat, CommitRejected(type, d)
  PROVE  TypeInv'
<1>1. pc = "call" /\ pos <= Len(plan) /\ Id \in StepIds
  BY AtACall DEF CommitRejected, Calling
<1>2. Called(type, d, d) \in Event
  <2>1. type \in EventTypes
    BY RuntimeAssumption DEF EventTypes
  <2> QED  BY <1>1, <2>1, AtACall
<1>3. /\ steps' \in Nat /\ retries' \in [StepIds -> Nat] /\ elapsed' \in 0 .. WallLimit
      /\ UNCHANGED <<plan, outcome, runStart>>
  BY <1>1, ElapseType, NoteRetryType DEF CommitRejected, TypeInv, TypeOK
<1>4. log' = Append(log, Called(type, d, d))
  BY DEF CommitRejected
<1>5. log' \in Seq(Event) /\ runStart' \in 0 .. Len(log')
  BY <1>2, <1>3, <1>4, Grown DEF TypeInv
<1>6. Miss("loop") \/ Retry
  BY DEF CommitRejected
<1> QED  BY <1>1, <1>3, <1>5, <1>6, GivenUpTypes, RetryTypes

LEMMA CommitTypes ==
  ASSUME TypeInv, NEW d \in Nat, Commit(d)
  PROVE  TypeInv'
<1> USE DEF TypeInv
<1>1. pc = "call" /\ pos <= Len(plan) /\ Called("fact_added", d, d) \in Event
  <2>1. "fact_added" \in EventTypes
    BY DEF EventTypes
  <2> QED  BY <2>1, AtACall DEF Commit, Calling
<1>2. log' \in Seq(Event) /\ runStart' \in 0 .. Len(log')
  BY <1>1, Grown DEF Commit
<1>3. elapsed' \in 0 .. WallLimit
  BY ElapseType DEF Commit
<1>4. /\ pc' = "loop" /\ pos' = pos + 1
      /\ tried' = {} /\ raw' = None /\ prov' = None
      /\ UNCHANGED <<plan, missing, steps, retries, outcome>>
  BY DEF Commit, NoReduce
<1>5. pos' \in 1 .. Len(plan') + 1
  BY <1>1, <1>4, PastAStep
<1>6. TypeOK'
  BY <1>2, <1>3, <1>4, <1>5 DEF TypeOK, Phases
<1>7. Held'
  BY <1>4 DEF Held, InStep
<1> QED  BY <1>6, <1>7

LEMMA FinishTypes ==
  ASSUME TypeInv, NEW type \in EventTypes,
         NEW status \in {"answered", "partial", "declined"},
         NEW d \in Nat, Finish(type, status, d)
  PROVE  TypeInv'
<1> USE DEF TypeInv
<1>1. log' \in Seq(Event) /\ runStart' \in 0 .. Len(log')
  BY PlainIsEvent, Grown DEF Finish
<1>2. outcome' \in Outcomes
  <2>1. missing \subseteq StepIds /\ Places("fact_added") \subseteq Nat
    BY PlacesInLog DEF TypeOK
  <2> QED  BY <2>1 DEF Finish, Outcomes
<1>3. elapsed' \in 0 .. WallLimit
  BY ElapseType DEF Finish
<1>4. /\ pc' = "returned"
      /\ UNCHANGED <<plan, pos, missing, steps, retries, tried, raw, prov>>
  BY DEF Finish, reduce
<1>5. TypeOK'
  BY <1>1, <1>2, <1>3, <1>4 DEF TypeOK, Phases
<1>6. Held'
  BY <1>4 DEF Held, InStep
<1> QED  BY <1>5, <1>6

LEMMA TypesKept == TypeInv /\ [Next]_vars => TypeInv'
<1> SUFFICES ASSUME TypeInv, [Next]_vars PROVE TypeInv'
  OBVIOUS
<1>0. Ticks \subseteq Nat /\ RejectTypes \cup StepEndings \subseteq EventTypes
      /\ "declined" \in EventTypes /\ "answer_sent" \in EventTypes
  BY RuntimeAssumption DEF EventTypes, StepEndings
<1>1. CASE Boot
  BY <1>1, BootTypes
<1>2. CASE Crash
  BY <1>2, CrashTypes
<1>3. CASE \E p \in Plans, d \in Ticks : Submit(p, d)
  BY <1>0, <1>3, SubmitTypes
<1>4. CASE ExhaustBudget \/ TripBreaker \/ NoSuchTool
  BY <1>4, LoopTypes
<1>5. CASE StartStep
  BY <1>5, StartStepTypes
<1>6. CASE EndOfPlan
  BY <1>6, EndOfPlanTypes
<1>7. CASE Gap
  BY <1>7, GapTypes
<1>8. CASE SelectProvider
  BY <1>8, SelectProviderTypes
<1>9. ASSUME NEW d \in Ticks, StepEscapes(d) \/ CallEscapes(d) \/ AnswerEscapes(d)
      PROVE  TypeInv'
  BY <1>0, <1>9, EscapeTypes DEF StepEscapes, CallEscapes, AnswerEscapes
<1>10. ASSUME NEW d \in Ticks, NEW type \in StepEndings, StepFails(type, d)
       PROVE  TypeInv'
  BY <1>0, <1>10, StepFailsTypes
<1>11. ASSUME NEW d \in Ticks, NEW level \in TrustLevels, ToolOutput(level, d)
       PROVE  TypeInv'
  BY <1>0, <1>11, ToolOutputTypes
<1>12. ASSUME NEW d \in Ticks, NEW type \in {"tool_failed", "validation_failed"},
              AttemptFails(type, d)
       PROVE  TypeInv'
  BY <1>0, <1>12, AttemptFailsTypes
<1>13. ASSUME NEW d \in Ticks, NEW type \in RejectTypes, CommitRejected(type, d)
       PROVE  TypeInv'
  BY <1>0, <1>13, CommitRejectedTypes
<1>14. ASSUME NEW d \in Ticks, Commit(d)
       PROVE  TypeInv'
  BY <1>0, <1>14, CommitTypes
<1>15. ASSUME NEW d \in Ticks, Decline(d) \/ SendAnswer(d)
       PROVE  TypeInv'
  BY <1>0, <1>15, FinishTypes DEF Decline, SendAnswer
<1>16. ASSUME NEW d \in Ticks, DeclineEscapes(d)
       PROVE  TypeInv'
  BY <1>0, <1>16, DeclineEscapesTypes
<1>17. CASE UNCHANGED vars
  BY <1>17 DEF vars, memory, reduce, TypeInv, TypeOK, Held, Step
<1>18. CASE Work
  BY <1>4, <1>5, <1>6, <1>7, <1>8, <1>9, <1>10, <1>11, <1>12, <1>13, <1>14, <1>15, <1>16,
     <1>18
     DEF Work
<1> QED  BY <1>1, <1>2, <1>3, <1>17, <1>18 DEF Next

\* The loop's state keeps its types, whatever is planned, registered,
\* measured or goes wrong; a selected provider is always a registered one.
THEOREM TypeCorrect == Spec => []TypeOK
<1>1. TypeInv => TypeOK
  BY DEF TypeInv
<1> QED  BY <1>1, InitTypes, TypesKept, PTL DEF Spec

----------------------------------------------------------------------------
(* Settling: the inductive invariant.  The answer is reached at the end of *)
(* the plan or by a cut, which leaves something missing; an outcome is     *)
(* what _answer() saw of that.                                             *)

AnswerReached ==
  /\ pc = "answer" => pos > Len(plan) \/ missing # {}
  /\ outcome # None =>
       /\ pc = "returned"
       /\ outcome.facts = Places("fact_added")
       /\ outcome.status = "answered" => missing = {} /\ pos > Len(plan)

SettleInv == TypeInv /\ SettledOnce /\ AnswerReached

----------------------------------------------------------------------------
(* The facts of a run while its ledger grows.                              *)

\* The ledger grows behind what it holds, within the run.
LogExtends ==
  /\ Len(log') \in Nat /\ Len(log) <= Len(log')
  /\ \A i \in 1 .. Len(log) : log'[i] = log[i]
  /\ runStart' = runStart

LEMMA LogIndices ==
  ASSUME TypeOK
  PROVE  /\ Len(log) \in Nat /\ runStart \in Nat /\ runStart <= Len(log)
         /\ DOMAIN log = 1 .. Len(log)
         /\ \A i \in Facts : i \in 1 .. Len(log) /\ i \in ThisRun
<1>1. /\ Len(log) \in Nat /\ runStart \in Nat /\ runStart <= Len(log)
      /\ DOMAIN log = 1 .. Len(log)
  BY DEF TypeOK
<1> QED  BY <1>1 DEF Facts, ThisRun

\* Events that are no facts leave the facts of the run as they are.
LEMMA FactsKept ==
  ASSUME TypeOK, LogExtends,
         \A i \in Len(log) + 1 .. Len(log') : log'[i].type # "fact_added"
  PROVE  /\ Facts' = Facts /\ Committed' = Committed
         /\ \A i \in Facts : log'[i] = log[i]
<1>1. Len(log) \in Nat /\ runStart \in Nat /\ runStart <= Len(log)
  BY LogIndices
<1>2. \A i \in runStart + 1 .. Len(log') :
        \/ i \in runStart + 1 .. Len(log) /\ i \in 1 .. Len(log)
        \/ i \in Len(log) + 1 .. Len(log')
  BY <1>1 DEF LogExtends
<1>3. \A i \in runStart + 1 .. Len(log) : i \in runStart + 1 .. Len(log') /\ i \in 1 .. Len(log)
  BY <1>1 DEF LogExtends
<1>4. Facts' = Facts
  BY <1>2, <1>3 DEF LogExtends, Facts, ThisRun
<1>5. \A i \in Facts : log'[i] = log[i]
  BY LogIndices DEF LogExtends
<1>6. Committed' = Committed
  BY <1>4, <1>5 DEF Committed
<1> QED  BY <1>4, <1>5, <1>6

\* A fact adds its place and its step.
LEMMA FactAdded ==
  ASSUME TypeOK, LogExtends, Len(log') = Len(log) + 1,
         log'[Len(log) + 1].type = "fact_added"
  PROVE  /\ Facts' = Facts \cup {Len(log) + 1}
         /\ Committed' = Committed \cup {log'[Len(log) + 1].step}
         /\ \A i \in Facts : log'[i] = log[i]
<1>1. Len(log) \in Nat /\ runStart \in Nat /\ runStart <= Len(log)
  BY LogIndices
<1>2. \A i \in runStart + 1 .. Len(log') :
        (i \in runStart + 1 .. Len(log) /\ i \in 1 .. Len(log)) \/ i = Len(log) + 1
  BY <1>1
<1>3. /\ \A i \in runStart + 1 .. Len(log) : i \in runStart + 1 .. Len(log') /\ i \in 1 .. Len(log)
      /\ Len(log) + 1 \in runStart + 1 .. Len(log')
  BY <1>1
<1>4. Facts' = Facts \cup {Len(log) + 1}
  BY <1>2, <1>3 DEF LogExtends, Facts, ThisRun
<1>5. \A i \in Facts : log'[i] = log[i]
  BY LogIndices DEF LogExtends
<1>6. Committed' = Committed \cup {log'[Len(log) + 1].step}
  BY <1>4, <1>5 DEF Committed
<1> QED  BY <1>4, <1>5, <1>6

\* The ids of the plan up to and with the step at hand, which is none of
\* those before it.
LEMMA OneMoreId ==
  ASSUME TypeOK, pos <= Len(plan), plan' = plan, pos' = pos + 1
  PROVE  /\ Ids(1, pos - 1)' = Ids(1, pos - 1) \cup {Id}
         /\ Id \notin Ids(1, pos - 1)
<1>1. plan \in Plans /\ pos \in Nat /\ pos >= 1 /\ Len(plan) \in Nat
  BY AtAPlace DEF TypeOK
<1>2. 1 .. pos = (1 .. pos - 1) \cup {pos}
  BY <1>1
<1>3. Ids(1, pos - 1)' = Ids(1, pos - 1) \cup {Id}
  BY <1>1, <1>2 DEF Ids, Id, Step
<1>4. plan \in Seq([id : StepIds, tool : STRING])
      /\ \A i, j \in DOMAIN plan : plan[i].id = plan[j].id => i = j
  BY <1>1, PlanAssumption
<1>5. DOMAIN plan = 1 .. Len(plan)
  BY <1>4
<1>6. \A k \in 1 .. pos - 1 : k \in DOMAIN plan /\ pos \in DOMAIN plan /\ k # pos
  BY <1>1, <1>5
<1>7. Id \notin Ids(1, pos - 1)
  BY <1>4, <1>6 DEF Ids, Id, Step
<1> QED  BY <1>3, <1>7

----------------------------------------------------------------------------
(* The two ways to leave a step, and the ways to stay.                     *)

LEMMA MissSettles ==
  ASSUME TypeOK, SettledOnce, pc \in Running, pos <= Len(plan), plan' = plan,
         NEW next, Miss(next), Facts' = Facts, Committed' = Committed,
         \A i \in Facts : log'[i] = log[i]
  PROVE  SettledOnce'
<1>1. /\ Committed \cap missing = {} /\ Committed \cup missing = Ids(1, pos - 1)
      /\ \A i, j \in Facts : log[i].step = log[j].step => i = j
  BY DEF SettledOnce
<1>2. missing' = missing \cup {Id} /\ pos' = pos + 1
  BY DEF Miss
<1>3. Ids(1, pos - 1)' = Ids(1, pos - 1) \cup {Id} /\ Id \notin Ids(1, pos - 1)
  BY <1>2, OneMoreId
<1>4. Committed' \cap missing' = {} /\ Committed' \cup missing' = Ids(1, pos - 1)'
  BY <1>1, <1>2, <1>3
<1>5. \A i, j \in Facts' : log'[i].step = log'[j].step => i = j
  BY <1>1
<1> QED  BY <1>4, <1>5 DEF SettledOnce

LEMMA CommitSettles ==
  ASSUME TypeInv, SettledOnce, NEW d \in Nat, Commit(d)
  PROVE  SettledOnce'
<1>1. /\ Committed \cap missing = {} /\ Committed \cup missing = Ids(1, pos - 1)
      /\ \A i, j \in Facts : log[i].step = log[j].step => i = j
  BY DEF SettledOnce, Commit, Calling, Running, InStep
<1>2. TypeOK /\ pos <= Len(plan)
  BY AtACall DEF TypeInv, Commit, Calling
<1>3. plan' = plan /\ pos' = pos + 1 /\ missing' = missing /\ runStart' = runStart
  BY DEF Commit
<1>4. Ids(1, pos - 1)' = Ids(1, pos - 1) \cup {Id} /\ Id \notin Ids(1, pos - 1)
  BY <1>2, <1>3, OneMoreId
<1> DEFINE event == Called("fact_added", d, d)
<1>5. event \in Event /\ event.type = "fact_added" /\ event.step = Id
  <2>1. "fact_added" \in EventTypes
    BY DEF EventTypes
  <2> QED  BY <2>1, AtACall DEF Commit, Calling
<1>6. log' = Append(log, event)
  BY DEF Commit
<1> HIDE DEF event
<1>7. /\ Len(log') = Len(log) + 1 /\ log'[Len(log) + 1] = event
      /\ \A i \in 1 .. Len(log) : log'[i] = log[i]
  BY <1>2, <1>3, <1>5, <1>6, Grown
<1>8. Len(log) \in Nat
  BY <1>2, LogIndices
<1>9. LogExtends
  BY <1>3, <1>7, <1>8 DEF LogExtends
<1>10. /\ Facts' = Facts \cup {Len(log) + 1} /\ Committed' = Committed \cup {Id}
       /\ \A i \in Facts : log'[i] = log[i]
  BY <1>2, <1>5, <1>7, <1>9, FactAdded
<1>11. \A i \in Facts : log[i].step # Id
  BY <1>1, <1>4 DEF Committed
<1>12. Committed' \cap missing' = {} /\ Committed' \cup missing' = Ids(1, pos - 1)'
  BY <1>1, <1>3, <1>4, <1>10
<1>13. \A i, j \in Facts' : log'[i].step = log'[j].step => i = j
  BY <1>1, <1>5, <1>7, <1>10, <1>11
<1> QED  BY <1>12, <1>13 DEF SettledOnce

\* No step is left: nothing to settle.
LEMMA SettledStays ==
  ASSUME SettledOnce, pc \in Running,
         UNCHANGED <<plan, pos, missing>>, Facts' = Facts, Committed' = Committed,
         \A i \in Facts : log'[i] = log[i]
  PROVE  SettledOnce'
BY DEF SettledOnce, Ids

LEMMA OneEvent ==
  ASSUME TypeOK, NEW e \in Event, e.type # "fact_added",
         log' = Append(log, e), runStart' = runStart
  PROVE  /\ Facts' = Facts /\ Committed' = Committed
         /\ \A i \in Facts : log'[i] = log[i]
<1>1. /\ Len(log') = Len(log) + 1 /\ log'[Len(log) + 1] = e
      /\ \A i \in 1 .. Len(log) : log'[i] = log[i]
  BY Grown
<1>2. Len(log) \in Nat
  BY LogIndices
<1>3. \A i \in Len(log) + 1 .. Len(log') : i = Len(log) + 1
  BY <1>1, <1>2
<1>4. LogExtends
  BY <1>1, <1>2 DEF LogExtends
<1>5. \A i \in Len(log) + 1 .. Len(log') : log'[i].type # "fact_added"
  BY <1>1, <1>3
<1> QED  BY <1>4, <1>5, FactsKept

LEMMA TwoEvents ==
  ASSUME TypeOK, NEW e \in Event, NEW f \in Event,
         e.type # "fact_added", f.type # "fact_added",
         log' = log \o <<e, f>>, runStart' = runStart
  PROVE  /\ Facts' = Facts /\ Committed' = Committed
         /\ \A i \in Facts : log'[i] = log[i]
<1>1. /\ Len(log') = Len(log) + 2
      /\ log'[Len(log) + 1] = e /\ log'[Len(log) + 2] = f
      /\ \A i \in 1 .. Len(log) : log'[i] = log[i]
  BY GrownTwice
<1>2. Len(log) \in Nat
  BY LogIndices
<1>3. \A i \in Len(log) + 1 .. Len(log') : i = Len(log) + 1 \/ i = Len(log) + 2
  BY <1>1, <1>2
<1>4. LogExtends
  BY <1>1, <1>2 DEF LogExtends
<1>5. \A i \in Len(log) + 1 .. Len(log') : log'[i].type # "fact_added"
  BY <1>1, <1>3
<1> QED  BY <1>4, <1>5, FactsKept

\* A fact that is in the ledger is in the outcome's list of facts.
LEMMA FactsInPlaces ==
  ASSUME TypeOK
  PROVE  Facts \subseteq Places("fact_added")
BY LogIndices DEF Facts, Places

----------------------------------------------------------------------------
(* Every step keeps the invariant.                                         *)

SettleRest == SettledOnce /\ AnswerReached

LEMMA InitSettles == Init => SettleInv
<1> SUFFICES ASSUME Init PROVE SettleInv
  OBVIOUS
<1>1. SettledOnce
  BY DEF Init, SettledOnce, Running, InStep
<1>2. AnswerReached
  BY DEF Init, AnswerReached
<1> QED  BY <1>1, <1>2, InitTypes DEF SettleInv

\* Outside a run nothing is settled and nothing is known of an outcome.
LEMMA OutsideSettles ==
  ASSUME pc' \in {"down", "ready", "raised"}, outcome' = None
  PROVE  SettleRest'
BY DEF SettleRest, SettledOnce, AnswerReached, Running, InStep

LEMMA BootSettles == SettleInv /\ Boot => SettleRest'
BY OutsideSettles DEF SettleInv, AnswerReached, Boot

LEMMA SubmitSettles ==
  ASSUME SettleInv, NEW p \in Plans, NEW d \in Nat, Submit(p, d)
  PROVE  SettleRest'
<1>1. /\ log' \in Seq(Event) /\ runStart' = Len(log)
      /\ \A i \in Len(log) + 1 .. Len(log') : log'[i].type # "fact_added"
  BY SubmitLog, OpeningEvents DEF SettleInv, TypeInv
<1>2. Facts' = {}
  BY <1>1 DEF Facts, ThisRun
<1>3. Committed' = {}
  BY <1>2 DEF Committed
<1>4. pos' = 1 /\ missing' = {} /\ outcome' = None /\ pc' = "loop"
  BY DEF Submit, Begin
<1>5. Ids(1, pos - 1)' = {}
  BY <1>4 DEF Ids
<1>6. SettledOnce'
  BY <1>2, <1>3, <1>4, <1>5 DEF SettledOnce
<1>7. AnswerReached'
  BY <1>4 DEF AnswerReached
<1> QED  BY <1>6, <1>7 DEF SettleRest

\* A step that is given up: settled as missing, also where the loop is cut.
LEMMA GivenUpSettles ==
  ASSUME SettleInv, pc \in Running, pos <= Len(plan),
         NEW next \in {"loop", "answer"}, Miss(next),
         UNCHANGED <<plan, outcome>>,
         Facts' = Facts, Committed' = Committed, \A i \in Facts : log'[i] = log[i]
  PROVE  SettleRest'
<1>1. SettledOnce'
  BY MissSettles DEF SettleInv, TypeInv
<1>2. missing' # {} /\ pc' = next
  BY DEF Miss
<1>3. outcome' = None
  BY DEF SettleInv, AnswerReached, Running, InStep
<1>4. AnswerReached'
  BY <1>2, <1>3 DEF AnswerReached
<1> QED  BY <1>1, <1>4 DEF SettleRest

\* The same for a step that ends with one event about it.
LEMMA MissedSettles ==
  ASSUME SettleInv, pc \in Running, pos <= Len(plan),
         NEW type \in EventTypes \ {"fact_added"}, log' = Append(log, About(type, Id)),
         NEW next \in {"loop", "answer"}, Miss(next),
         UNCHANGED <<plan, outcome, runStart>>
  PROVE  SettleRest'
<1>1. About(type, Id) \in Event /\ About(type, Id).type = type /\ TypeOK
  BY AtAPlace, AboutIsEvent DEF SettleInv, TypeInv
<1>2. /\ Facts' = Facts /\ Committed' = Committed
      /\ \A i \in Facts : log'[i] = log[i]
  BY <1>1, OneEvent
<1> QED  BY <1>2, GivenUpSettles

LEMMA LoopSettles ==
  SettleInv /\ (ExhaustBudget \/ TripBreaker \/ NoSuchTool) => SettleRest'
<1> SUFFICES ASSUME SettleInv, ExhaustBudget \/ TripBreaker \/ NoSuchTool PROVE SettleRest'
  OBVIOUS
<1>1. pc \in Running /\ pos <= Len(plan)
  BY DEF ExhaustBudget, TripBreaker, NoSuchTool, AtStep, Running
<1>2. {"budget_exhausted", "breaker_tripped", "tool_failed"} \subseteq EventTypes \ {"fact_added"}
  BY DEF EventTypes
<1>3. CASE ExhaustBudget
  BY <1>1, <1>2, <1>3, MissedSettles DEF ExhaustBudget
<1>4. CASE TripBreaker
  BY <1>1, <1>2, <1>4, MissedSettles DEF TripBreaker
<1>5. CASE NoSuchTool
  BY <1>1, <1>2, <1>5, MissedSettles DEF NoSuchTool
<1> QED  BY <1>3, <1>4, <1>5

\* A step in progress that stays in progress, or the end of the plan.
LEMMA UnderWaySettles ==
  ASSUME SettleInv, pc \in Running, pc' \in InStep \/ (pc' = "answer" /\ pos > Len(plan)),
         UNCHANGED <<plan, pos, missing, outcome>>,
         Facts' = Facts, Committed' = Committed, \A i \in Facts : log'[i] = log[i]
  PROVE  SettleRest'
<1>1. SettledOnce'
  BY SettledStays DEF SettleInv
<1>2. outcome' = None
  BY DEF SettleInv, AnswerReached, Running, InStep
<1>3. AnswerReached'
  BY <1>2 DEF AnswerReached, InStep
<1> QED  BY <1>1, <1>3 DEF SettleRest

LEMMA SameLog ==
  ASSUME UNCHANGED <<log, runStart>>
  PROVE  /\ Facts' = Facts /\ Committed' = Committed
         /\ \A i \in Facts : log'[i] = log[i]
BY DEF Facts, Committed, ThisRun

LEMMA StartStepSettles == SettleInv /\ StartStep => SettleRest'
<1> SUFFICES ASSUME SettleInv, StartStep PROVE SettleRest'
  OBVIOUS
<1> DEFINE event == Labelled("step_started", Id, Tool.trust)
<1>1. event \in Event /\ event.type = "step_started" /\ TypeOK
  BY AtAPlace, LabelledIsEvent, RuntimeAssumption
     DEF StartStep, AtStep, EventTypes, Tool, SettleInv, TypeInv
<1>2. log' = Append(log, event) /\ runStart' = runStart
  BY DEF StartStep
<1> HIDE DEF event
<1>3. /\ Facts' = Facts /\ Committed' = Committed
      /\ \A i \in Facts : log'[i] = log[i]
  BY <1>1, <1>2, OneEvent
<1>4. pc \in Running /\ pc' \in InStep /\ UNCHANGED <<plan, pos, missing, outcome>>
  BY DEF StartStep, AtStep, Running, InStep
<1> QED  BY <1>3, <1>4, UnderWaySettles

LEMMA ToolOutputSettles ==
  ASSUME SettleInv, NEW level \in TrustLevels, NEW d \in Nat, ToolOutput(level, d)
  PROVE  SettleRest'
<1>1. pc \in Running /\ pc' \in InStep /\ UNCHANGED <<plan, pos, missing, outcome>>
  BY DEF ToolOutput, Running, InStep
<1>2. pos <= Len(plan) /\ TypeOK
  BY DEF SettleInv, TypeInv, Held, ToolOutput, InStep
<1>3. About("tool_output", Id) \in Event /\ About("tool_output", Id).type = "tool_output"
  BY <1>2, AtAPlace, AboutIsEvent DEF EventTypes
<1>4. /\ Facts' = Facts /\ Committed' = Committed
      /\ \A i \in Facts : log'[i] = log[i]
  BY <1>2, <1>3, OneEvent DEF ToolOutput
<1> QED  BY <1>1, <1>4, UnderWaySettles

LEMMA QuietSettles == SettleInv /\ (EndOfPlan \/ SelectProvider) => SettleRest'
<1> SUFFICES ASSUME SettleInv, EndOfPlan \/ SelectProvider PROVE SettleRest'
  OBVIOUS
<1>1. /\ pc \in Running /\ (pc' \in InStep \/ (pc' = "answer" /\ pos > Len(plan)))
      /\ UNCHANGED <<log, runStart, plan, pos, missing, outcome>>
  BY DEF EndOfPlan, SelectProvider, Running, InStep
<1> QED  BY <1>1, SameLog, UnderWaySettles

LEMMA StepFailsSettles ==
  ASSUME SettleInv, NEW type \in EventTypes \ {"fact_added"}, NEW d \in Nat, StepFails(type, d)
  PROVE  SettleRest'
<1>1. pc \in Running /\ pos <= Len(plan)
  BY DEF StepFails, SettleInv, TypeInv, Held, Running, InStep
<1> QED  BY <1>1, MissedSettles DEF StepFails

LEMMA GapSettles == SettleInv /\ Gap => SettleRest'
<1> SUFFICES ASSUME SettleInv, Gap PROVE SettleRest'
  OBVIOUS
<1>1. pc \in Running /\ pos <= Len(plan)
  BY DEF Gap, SettleInv, TypeInv, Held, Running, InStep
<1>2. "capability_gap" \in EventTypes \ {"fact_added"}
  BY DEF EventTypes
<1> QED  BY <1>1, <1>2, MissedSettles DEF Gap

\* After a call that did not commit: given up, or on to the next provider.
LEMMA FailedCallSettles ==
  ASSUME SettleInv, pc = "call", Miss("loop") \/ Retry,
         UNCHANGED <<plan, outcome>>,
         Facts' = Facts, Committed' = Committed, \A i \in Facts : log'[i] = log[i]
  PROVE  SettleRest'
<1>1. pc \in Running /\ pos <= Len(plan)
  BY DEF SettleInv, TypeInv, Held, Running, InStep
<1>2. CASE Miss("loop")
  BY <1>1, <1>2, GivenUpSettles
<1>3. CASE Retry
  <2>1. pc' \in InStep /\ UNCHANGED <<pos, missing>>
    BY <1>3 DEF Retry, InStep
  <2> QED  BY <1>1, <2>1, UnderWaySettles
<1> QED  BY <1>2, <1>3

LEMMA AttemptFailsSettles ==
  ASSUME SettleInv, NEW type \in {"tool_failed", "validation_failed"}, NEW d \in Nat,
         AttemptFails(type, d)
  PROVE  SettleRest'
<1> DEFINE event == Called(type, IF type = "tool_failed" THEN 0 ELSE d, d)
           spent == About("step_failed", Id)
<1>1. pc = "call" /\ UNCHANGED <<plan, outcome, runStart>> /\ TypeInv /\ TypeOK
  BY DEF AttemptFails, Calling, SettleInv, TypeInv
<1>2. event \in Event /\ event.type # "fact_added"
  <2>1. type \in EventTypes /\ (IF type = "tool_failed" THEN 0 ELSE d) \in Nat
    BY DEF EventTypes
  <2>2. event \in Event /\ event.type = type
    BY <1>1, <2>1, AtACall
  <2> QED  BY <2>2
<1>3. spent \in Event /\ spent.type # "fact_added"
  <2>1. "step_failed" \in EventTypes /\ Id \in StepIds
    BY <1>1, AtACall DEF EventTypes
  <2> QED  BY <2>1, AboutIsEvent
<1>4. \/ log' = log \o <<event, spent>> /\ Miss("loop")
      \/ log' = Append(log, event) /\ Retry
  BY DEF AttemptFails
<1> HIDE DEF event, spent
<1>5. /\ Facts' = Facts /\ Committed' = Committed
      /\ \A i \in Facts : log'[i] = log[i]
  BY <1>1, <1>2, <1>3, <1>4, OneEvent, TwoEvents
<1> QED  BY <1>1, <1>4, <1>5, FailedCallSettles

LEMMA CommitRejectedSettles ==
  ASSUME SettleInv, NEW type \in RejectTypes, NEW d \in Nat, CommitRejected(type, d)
  PROVE  SettleRest'
<1>1. pc = "call" /\ UNCHANGED <<plan, outcome, runStart>> /\ TypeInv /\ TypeOK
  BY DEF CommitRejected, Calling, SettleInv, TypeInv
<1>2. Called(type, d, d) \in Event /\ Called(type, d, d).type # "fact_added"
  <2>1. type \in EventTypes /\ type # "fact_added"
    BY RuntimeAssumption DEF EventTypes
  <2> QED  BY <1>1, <2>1, AtACall
<1>3. /\ log' = Append(log, Called(type, d, d))
      /\ Miss("loop") \/ Retry
  BY DEF CommitRejected
<1>4. /\ Facts' = Facts /\ Committed' = Committed
      /\ \A i \in Facts : log'[i] = log[i]
  BY <1>1, <1>2, <1>3, OneEvent
<1> QED  BY <1>1, <1>3, <1>4, FailedCallSettles

LEMMA CommitSettlesToo ==
  ASSUME SettleInv, NEW d \in Nat, Commit(d)
  PROVE  SettleRest'
<1>1. SettledOnce'
  BY CommitSettles DEF SettleInv
<1>2. outcome' = None /\ pc' = "loop"
  BY DEF SettleInv, AnswerReached, Commit, Calling
<1> QED  BY <1>1, <1>2 DEF SettleRest, AnswerReached

\* The outcome: what _answer() has in hand when it returns.
LEMMA FinishSettles ==
  ASSUME SettleInv, pc = "answer", NEW type \in EventTypes \ {"fact_added"},
         NEW status, NEW d \in Nat, Finish(type, status, d),
         status = "answered" => missing = {}
  PROVE  SettleRest'
<1>1. /\ TypeOK /\ SettledOnce /\ Plain(type) \in Event /\ Plain(type).type = type
      /\ log' = Append(log, Plain(type)) /\ runStart' = runStart
  BY PlainIsEvent DEF Finish, SettleInv, TypeInv
<1>2. /\ Facts' = Facts /\ Committed' = Committed
      /\ \A i \in Facts : log'[i] = log[i]
  BY <1>1, OneEvent
<1>3. /\ pc' = "returned" /\ UNCHANGED <<plan, pos, missing>>
      /\ outcome' = [status |-> status, missing |-> missing, facts |-> Places("fact_added")]
  BY DEF Finish
<1>4. SettledOnce'
  <2>1. /\ Committed \cap missing = {} /\ Committed \cup missing = Ids(1, pos - 1)
        /\ \A i, j \in Facts : log[i].step = log[j].step => i = j
    BY <1>1 DEF SettledOnce, Running
  <2>2. Ids(1, pos - 1)' = Ids(1, pos - 1)
    BY <1>3 DEF Ids
  <2>3. \A i, j \in Facts' : log'[i].step = log'[j].step => i = j
    BY <1>2, <2>1
  <2> QED  BY <1>2, <1>3, <2>1, <2>2, <2>3 DEF SettledOnce
<1>5. Places("fact_added")' = Places("fact_added")
  <2>1. /\ Len(log') = Len(log) + 1 /\ log'[Len(log) + 1].type # "fact_added"
        /\ \A i \in 1 .. Len(log) : log'[i] = log[i]
        /\ log' \in Seq(Event) /\ log \in Seq(Event)
    BY <1>1, Grown DEF TypeOK
  <2>2. DOMAIN log = 1 .. Len(log) /\ DOMAIN log' = 1 .. Len(log) + 1 /\ Len(log) \in Nat
    BY <2>1
  <2>3. \A i \in DOMAIN log' : i \in DOMAIN log \/ i = Len(log) + 1
    BY <2>2
  <2>4. \A i \in DOMAIN log : i \in DOMAIN log'
    BY <2>2
  <2> QED  BY <2>1, <2>2, <2>3, <2>4 DEF Places
<1>6. missing = {} => pos > Len(plan)
  BY DEF SettleInv, AnswerReached
<1>7. AnswerReached'
  BY <1>3, <1>5, <1>6 DEF AnswerReached
<1> QED  BY <1>4, <1>7 DEF SettleRest

LEMMA SettlesKept == SettleInv /\ [Next]_vars => SettleInv'
<1> SUFFICES ASSUME SettleInv, [Next]_vars PROVE SettleRest'
  BY TypesKept DEF SettleInv, SettleRest
<1>0. /\ Ticks \subseteq Nat
      /\ RejectTypes \cup StepEndings \cup {"declined", "answer_sent"} \subseteq EventTypes \ {"fact_added"}
  BY RuntimeAssumption DEF EventTypes, StepEndings
<1>1. CASE Boot
  BY <1>1, BootSettles
<1>2. CASE Crash
  BY <1>2, OutsideSettles DEF Crash, NoRun
<1>3. CASE \E p \in Plans, d \in Ticks : Submit(p, d)
  BY <1>0, <1>3, SubmitSettles
<1>4. CASE ExhaustBudget \/ TripBreaker \/ NoSuchTool
  BY <1>4, LoopSettles
<1>5. CASE StartStep
  BY <1>5, StartStepSettles
<1>6. CASE EndOfPlan \/ SelectProvider
  BY <1>6, QuietSettles
<1>7. CASE Gap
  BY <1>7, GapSettles
<1>8. ASSUME NEW d \in Ticks, StepEscapes(d) \/ CallEscapes(d) \/ AnswerEscapes(d)
                               \/ DeclineEscapes(d)
      PROVE  SettleRest'
  <2>1. Raised(d)
    BY <1>8 DEF StepEscapes, CallEscapes, AnswerEscapes, DeclineEscapes, Escape
  <2> QED  BY <2>1, OutsideSettles DEF Raised, NoRun
<1>9. ASSUME NEW d \in Ticks, NEW type \in StepEndings, StepFails(type, d)
      PROVE  SettleRest'
  BY <1>0, <1>9, StepFailsSettles
<1>10. ASSUME NEW d \in Ticks, NEW level \in TrustLevels, ToolOutput(level, d)
       PROVE  SettleRest'
  BY <1>0, <1>10, ToolOutputSettles
<1>11. ASSUME NEW d \in Ticks, NEW type \in {"tool_failed", "validation_failed"},
              AttemptFails(type, d)
       PROVE  SettleRest'
  BY <1>0, <1>11, AttemptFailsSettles
<1>12. ASSUME NEW d \in Ticks, NEW type \in RejectTypes, CommitRejected(type, d)
       PROVE  SettleRest'
  BY <1>0, <1>12, CommitRejectedSettles
<1>13. ASSUME NEW d \in Ticks, Commit(d)
       PROVE  SettleRest'
  BY <1>0, <1>13, CommitSettlesToo
<1>14. ASSUME NEW d \in Ticks, Decline(d)
       PROVE  SettleRest'
  BY <1>0, <1>14, FinishSettles DEF Decline
<1>15. ASSUME NEW d \in Ticks, SendAnswer(d)
       PROVE  SettleRest'
  <2> DEFINE status == IF missing = {} THEN "answered" ELSE "partial"
  <2>1. pc = "answer" /\ Finish("answer_sent", status, d)
    BY <1>15 DEF SendAnswer
  <2>2. status = "answered" => missing = {}
    OBVIOUS
  <2> HIDE DEF status
  <2> QED  BY <1>0, <2>1, <2>2, FinishSettles
<1>16. CASE UNCHANGED vars
  BY <1>16 DEF vars, SettleInv, SettleRest, SettledOnce, AnswerReached, Ids, Facts,
               Committed, ThisRun, Places
<1>17. CASE Work
  BY <1>4, <1>5, <1>6, <1>7, <1>8, <1>9, <1>10, <1>11, <1>12, <1>13, <1>14, <1>15, <1>17
     DEF Work
<1> QED  BY <1>1, <1>2, <1>3, <1>16, <1>17 DEF Next

----------------------------------------------------------------------------
(* The theorems.                                                           *)

THEOREM SettleInvariant == Spec => []SettleInv
BY InitSettles, SettlesKept, PTL DEF Spec

\* In every run, on any ledger, every step the loop has passed is settled
\* once: by one fact or by its name in `missing`, and never by both.
THEOREM SettlesOnce == Spec => []SettledOnce
<1>1. SettleInv => SettledOnce
  BY DEF SettleInv
<1> QED  BY <1>1, SettleInvariant, PTL

\* "answered" is said of complete runs only: every step of the plan has a
\* fact of this run, and the outcome carries it.
THEOREM AnsweredIsComplete == Spec => []AnsweredMeansComplete
<1>1. SettleInv => AnsweredMeansComplete
  <2> SUFFICES ASSUME SettleInv, outcome # None, outcome.status = "answered"
               PROVE  /\ Committed = Ids(1, Len(plan))
                      /\ \A s \in Ids(1, Len(plan)) : \E i \in outcome.facts : log[i].step = s
    BY DEF AnsweredMeansComplete
  <2>1. /\ pc = "returned" /\ missing = {} /\ pos > Len(plan)
        /\ outcome.facts = Places("fact_added") /\ TypeOK /\ SettledOnce
    BY DEF SettleInv, AnswerReached, TypeInv
  <2>2. pos - 1 = Len(plan)
    BY <2>1, PlanLength DEF TypeOK
  <2>3. Committed = Ids(1, Len(plan))
    BY <2>1, <2>2 DEF SettledOnce
  <2>4. \A s \in Committed : \E i \in Places("fact_added") : log[i].step = s
    BY <2>1, FactsInPlaces DEF Committed
  <2> QED  BY <2>1, <2>3, <2>4
<1> QED  BY <1>1, SettleInvariant, PTL
=============================================================================
