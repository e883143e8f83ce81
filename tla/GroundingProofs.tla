-------------------------- MODULE GroundingProofs --------------------------
(***************************************************************************)
(* What the ledger of the main loop can be trusted with: a fact has a      *)
(* start, an output and an admitted provider behind it and carries the     *)
(* label it was made from, the retry ladder climbs, the breaker bounds     *)
(* what a process starts, and the last event about a step tells its end.   *)
(***************************************************************************)
EXTENDS RuntimeProofs, FiniteSetTheorems

----------------------------------------------------------------------------
(* A ledger that grows.                                                    *)

\* Every step leaves what is on disk and appends behind it.
Extends ==
  /\ Len(log') \in Nat /\ Len(log) <= Len(log')
  /\ \A i \in 1 .. Len(log) : log'[i] = log[i]

New == Len(log) + 1 .. Len(log')

\* What is in the ledger after a step is what was in it and what is new.
LEMMA PlacesGrow ==
  ASSUME TypeOK, TypeOK', Extends
  PROVE  /\ DOMAIN log' = DOMAIN log \cup New
         /\ \A i \in DOMAIN log : i \in 1 .. Len(log) /\ i \notin New /\ log'[i] = log[i]
         /\ \A type : Places(type)' = Places(type) \cup {i \in New : log'[i].type = type}
<1>1. /\ DOMAIN log = 1 .. Len(log) /\ DOMAIN log' = 1 .. Len(log')
      /\ Len(log) \in Nat /\ Len(log') \in Nat /\ Len(log) <= Len(log')
  BY LogIndices DEF TypeOK, Extends
<1>2. DOMAIN log' = DOMAIN log \cup New
  BY <1>1 DEF New
<1>3. \A i \in DOMAIN log : i \in 1 .. Len(log) /\ i \notin New /\ log'[i] = log[i]
  BY <1>1 DEF New, Extends
<1> QED  BY <1>2, <1>3 DEF Places

\* The same for one new event.
LEMMA PlacesOne ==
  ASSUME TypeOK, TypeOK', Extends, NEW n, New = {n}, NEW type
  PROVE  /\ log'[n].type = type => Places(type)' = Places(type) \cup {n}
         /\ log'[n].type # type => Places(type)' = Places(type)
<1>1. Places(type)' = Places(type) \cup {i \in New : log'[i].type = type}
  BY PlacesGrow
<1>2. log'[n].type = type => {i \in New : log'[i].type = type} = {n}
  OBVIOUS
<1>3. log'[n].type # type => {i \in New : log'[i].type = type} = {}
  OBVIOUS
<1> QED  BY <1>1, <1>2, <1>3

\* The same within a run, for the events about a step.
LEMMA MentionsGrow ==
  ASSUME TypeOK, TypeOK', Extends, runStart' = runStart
  PROVE  /\ \A s : Mentions(s)' = Mentions(s) \cup {i \in New : log'[i].step = s}
         /\ \A s : Attempts(s)' =
              Attempts(s) \cup {i \in New : log'[i].step = s /\ log'[i].provider # None}
         /\ \A i \in ThisRun : i \in 1 .. Len(log) /\ i \notin New /\ log'[i] = log[i]
<1>1. /\ Len(log) \in Nat /\ Len(log') \in Nat /\ runStart \in Nat
      /\ runStart <= Len(log) /\ Len(log) <= Len(log')
  BY LogIndices DEF Extends
<1>2. ThisRun' = ThisRun \cup New
  BY <1>1 DEF ThisRun, New
<1>3. \A i \in ThisRun : i \in 1 .. Len(log) /\ i \notin New /\ log'[i] = log[i]
  BY <1>1 DEF ThisRun, New, Extends
<1> QED  BY <1>2, <1>3 DEF Mentions, Attempts

LEMMA LastOf ==
  ASSUME NEW S \in SUBSET Nat, NEW j \in S, \A k \in S : k <= j
  PROVE  (CHOOSE i \in S : \A k \in S : k <= i) = j
<1>1. ASSUME NEW i \in S, \A k \in S : k <= i PROVE i = j
  <2>1. i \in Nat /\ j \in Nat /\ i <= j /\ j <= i
    BY <1>1
  <2> QED  BY <2>1
<1>2. \A k \in S : k <= j
  OBVIOUS
<1> QED  BY <1>1, <1>2

LEMMA AppendExtends ==
  ASSUME TypeOK, NEW e \in Event, log' = Append(log, e)
  PROVE  Extends /\ New = {Len(log) + 1} /\ log'[Len(log) + 1] = e
<1>1. log \in Seq(Event) /\ Len(log) \in Nat
  BY DEF TypeOK
<1>2. /\ Len(log') = Len(log) + 1 /\ log'[Len(log) + 1] = e
      /\ \A i \in 1 .. Len(log) : log'[i] = log[i]
  BY <1>1, AppendProperties
<1> QED  BY <1>1, <1>2 DEF Extends, New

LEMMA AppendTwoExtends ==
  ASSUME TypeOK, NEW e \in Event, NEW f \in Event, log' = log \o <<e, f>>, runStart' = runStart
  PROVE  /\ Extends /\ New = {Len(log) + 1, Len(log) + 2}
         /\ log'[Len(log) + 1] = e /\ log'[Len(log) + 2] = f
<1>1. /\ Len(log') = Len(log) + 2 /\ log'[Len(log) + 1] = e /\ log'[Len(log) + 2] = f
      /\ \A i \in 1 .. Len(log) : log'[i] = log[i]
  BY GrownTwice
<1>2. Len(log) \in Nat
  BY LogIndices
<1> QED  BY <1>1, <1>2 DEF Extends, New

LEMMA SameExtends ==
  ASSUME TypeOK, log' = log
  PROVE  Extends /\ New = {}
BY LogIndices DEF Extends, New

----------------------------------------------------------------------------
(* What a step of the loop does to the ledger, by kind.                    *)

\* The event of one call, whichever way it went.
LEMMA CalledEvent ==
  ASSUME TypeInv, pc = "call", NEW type \in EventTypes, NEW ms \in Nat, NEW took \in Nat
  PROVE  /\ Called(type, ms, took) \in Event
         /\ Called(type, ms, took).type = type /\ Called(type, ms, took).step = Id
         /\ Called(type, ms, took).provider = prov /\ Called(type, ms, took).label = raw
<1>1. Id \in StepIds /\ raw \in TrustLevels /\ prov \in Providers
  BY AtACall DEF TypeInv, Held
<1> QED  BY <1>1, AtACall DEF Called, Attempt, Labelled, About, Plain

LEMMA FactEvent ==
  ASSUME TypeInv, pc = "call", NEW d \in Nat
  PROVE  /\ Called("fact_added", d, d) \in Event
         /\ Called("fact_added", d, d).type = "fact_added" /\ Called("fact_added", d, d).step = Id
         /\ Called("fact_added", d, d).provider = prov /\ Called("fact_added", d, d).label = raw
<1>1. "fact_added" \in EventTypes
  BY DEF EventTypes
<1> QED  BY <1>1, CalledEvent

LEMMA AboutEvent ==
  ASSUME TypeOK, pos <= Len(plan), NEW type \in EventTypes
  PROVE  /\ About(type, Id) \in Event /\ About(type, Id).type = type
         /\ About(type, Id).step = Id /\ About(type, Id).provider = None
<1>1. Id \in StepIds
  BY AtAPlace
<1> QED  BY <1>1, AboutIsEvent DEF About, Plain

LEMMA PlainEvent ==
  ASSUME NEW type \in EventTypes
  PROVE  /\ Plain(type) \in Event /\ Plain(type).type = type
         /\ Plain(type).step = None /\ Plain(type).provider = None
BY PlainIsEvent DEF Plain

\* A cut is written because of what the process has spent, which it keeps.
CutTold(type) ==
  /\ type = "budget_exhausted" => Exceeded'
  /\ type = "breaker_tripped" => steps' > MaxSteps

\* The step is given up: one event about it, or that of the last call and
\* step_failed behind it; the last of them is a failure.
GivesUp ==
  /\ pc \in Running \ {"answer"}
  /\ pos <= Len(plan) /\ runStart' = runStart /\ plan' = plan
  /\ \E next \in {"loop", "answer"} : Miss(next)
  /\ pc' = "answer" => \A i \in New : log'[i].type \in Cuts
  /\ pc' = "loop" => \A i \in New : log'[i].type \notin Cuts
  /\ Extends /\ Len(log) + 1 \in New
  /\ \A i \in New : /\ log'[i].step = Id
                    /\ log'[i].type \in Failures
                    /\ log'[i].provider # None =>
                         pc = "call" /\ i = Len(log) + 1 /\ log'[i].provider = prov
  /\ pc = "call" => NoteRetry(Id)
  /\ steps <= steps'
  /\ \A i \in New : CutTold(log'[i].type)

\* A call that is tried again.
TriesNext ==
  /\ pc = "call" /\ runStart' = runStart /\ UNCHANGED <<plan, steps>>
  /\ Retry /\ NoteRetry(Id) /\ ~ RetriesSpent(Id)
  /\ Extends /\ New = {Len(log) + 1}
  /\ LET e == log'[Len(log) + 1]
     IN  e.step = Id /\ e.type \in Failures \ Cuts /\ e.provider = prov

\* The run ends, with an outcome or an exception: nothing more about a step.
Ends ==
  /\ pc # "down" /\ pc' \in {"returned", "raised"} /\ runStart' = runStart /\ steps' = steps
  /\ \/ /\ pc' = "returned" /\ pc = "answer" /\ UNCHANGED <<plan, pos, missing>>
        /\ \E status \in {"answered", "partial", "declined"} :
             /\ outcome'.status = status /\ outcome'.missing = missing /\ outcome' # None
             /\ status = "answered" => missing = {}
             /\ status = "partial" => missing # {}
             /\ Len(log') = Len(log) + 1
             /\ log'[Len(log')].type = IF status = "declined" THEN "declined" ELSE "answer_sent"
     \/ pc' = "raised" /\ NoRun
  /\ Extends
  /\ \A i \in New : /\ pc = "answer"
                    /\ log'[i].step = None /\ log'[i].provider = None
                    /\ log'[i].type \in {"declined", "answer_sent"}

Kinds ==
  \/ Boot \/ Crash \/ \E p \in Plans, d \in Nat : Submit(p, d)
  \/ StartStep \/ EndOfPlan \/ SelectProvider
  \/ \E level \in TrustLevels, d \in Nat : ToolOutput(level, d)
  \/ \E d \in Nat : Commit(d)
  \/ GivesUp \/ TriesNext \/ Ends

LEMMA UncutTold == \A type : type \notin Cuts => CutTold(type)
BY DEF Cuts, CutTold

LEMMA LoopGivesUp ==
  ASSUME TypeInv, pc \in Running \ {"call", "answer"}, pos <= Len(plan),
         NEW type \in EventTypes \cap Failures, log' = Append(log, About(type, Id)),
         NEW next \in {"loop", "answer"}, Miss(next), next = "answer" <=> type \in Cuts,
         UNCHANGED <<plan, runStart>>, steps <= steps', CutTold(type)
  PROVE  GivesUp
<1>1. /\ About(type, Id) \in Event /\ About(type, Id).type = type
      /\ About(type, Id).step = Id /\ About(type, Id).provider = None
  BY AboutEvent DEF TypeInv
<1>2. Extends /\ New = {Len(log) + 1} /\ log'[Len(log) + 1] = About(type, Id)
  BY <1>1, AppendExtends DEF TypeInv
<1>3. pc' = next
  BY DEF Miss
<1> QED  BY <1>1, <1>2, <1>3 DEF GivesUp

LEMMA CallKinds ==
  ASSUME TypeInv, NEW d \in Nat, NEW type,
         \/ type \in {"tool_failed", "validation_failed"} /\ AttemptFails(type, d)
         \/ type \in RejectTypes /\ CommitRejected(type, d)
  PROVE  GivesUp \/ TriesNext
<1>1. /\ pc = "call" /\ pc \in Running \ {"answer"} /\ pos <= Len(plan) /\ TypeOK
      /\ UNCHANGED <<plan, steps, runStart>> /\ NoteRetry(Id)
      /\ steps \in Nat /\ type \in EventTypes \cap (Failures \ Cuts)
  <2>1. pc = "call" /\ NoteRetry(Id) /\ UNCHANGED <<plan, steps, runStart>>
    BY DEF AttemptFails, CommitRejected, Calling
  <2>2. type \in EventTypes \cap (Failures \ Cuts)
    BY RuntimeAssumption DEF EventTypes, Failures, Cuts
  <2> QED  BY <2>1, <2>2 DEF TypeInv, TypeOK, Held, Running, InStep
<1>2. PICK e \in Event :
        /\ e.type = type /\ e.step = Id /\ e.provider = prov
        /\ \/ log' = log \o <<e, About("step_failed", Id)>> /\ Miss("loop")
           \/ log' = Append(log, e) /\ Miss("loop")
           \/ log' = Append(log, e) /\ Retry /\ ~ RetriesSpent(Id)
  <2>1. CASE AttemptFails(type, d)
    <3> DEFINE ms == IF type = "tool_failed" THEN 0 ELSE d
    <3>1. /\ Called(type, ms, d) \in Event /\ Called(type, ms, d).type = type
          /\ Called(type, ms, d).step = Id /\ Called(type, ms, d).provider = prov
      BY <1>1, CalledEvent
    <3>2. \/ log' = log \o <<Called(type, ms, d), About("step_failed", Id)>> /\ Miss("loop")
          \/ log' = Append(log, Called(type, ms, d)) /\ Retry /\ ~ RetriesSpent(Id)
      BY <2>1 DEF AttemptFails
    <3> HIDE DEF ms
    <3> QED  BY <3>1, <3>2
  <2>2. CASE CommitRejected(type, d)
    <3>1. /\ Called(type, d, d) \in Event /\ Called(type, d, d).type = type
          /\ Called(type, d, d).step = Id /\ Called(type, d, d).provider = prov
      BY <1>1, CalledEvent
    <3>2. \/ log' = Append(log, Called(type, d, d)) /\ Miss("loop")
          \/ log' = Append(log, Called(type, d, d)) /\ Retry /\ ~ RetriesSpent(Id)
      BY <2>2 DEF CommitRejected
    <3> QED  BY <3>1, <3>2
  <2> QED  BY <2>1, <2>2
<1>3. CASE log' = log \o <<e, About("step_failed", Id)>> /\ Miss("loop")
  <2>1. /\ About("step_failed", Id) \in Event /\ About("step_failed", Id).type = "step_failed"
        /\ About("step_failed", Id).step = Id /\ About("step_failed", Id).provider = None
    BY <1>1, AboutEvent DEF EventTypes
  <2>2. /\ Extends /\ New = {Len(log) + 1, Len(log) + 2}
        /\ log'[Len(log) + 1] = e /\ log'[Len(log) + 2] = About("step_failed", Id)
    BY <1>1, <1>3, <2>1, AppendTwoExtends
  <2>3. "step_failed" \in Failures \ Cuts
    BY DEF Failures, Cuts
  <2>4. \A i \in New : /\ log'[i].step = Id /\ log'[i].type \in Failures \ Cuts
                       /\ CutTold(log'[i].type)
                       /\ log'[i].provider # None => i = Len(log) + 1 /\ log'[i].provider = prov
    BY <1>1, <1>2, <2>1, <2>2, <2>3, UncutTold
  <2>5. pc' = "loop"
    BY <1>3 DEF Miss
  <2> QED  BY <1>1, <1>3, <2>2, <2>4, <2>5 DEF GivesUp
<1>4. CASE log' = Append(log, e) /\ Miss("loop")
  <2>1. Extends /\ New = {Len(log) + 1} /\ log'[Len(log) + 1] = e
    BY <1>1, <1>4, AppendExtends
  <2>2. \A i \in New : /\ log'[i].step = Id /\ log'[i].type \in Failures \ Cuts
                       /\ CutTold(log'[i].type)
                       /\ i = Len(log) + 1 /\ log'[i].provider = prov
    BY <1>1, <1>2, <2>1, UncutTold
  <2>3. pc' = "loop"
    BY <1>4 DEF Miss
  <2> QED  BY <1>1, <1>4, <2>1, <2>2, <2>3 DEF GivesUp
<1>5. CASE log' = Append(log, e) /\ Retry /\ ~ RetriesSpent(Id)
  <2>1. Extends /\ New = {Len(log) + 1} /\ log'[Len(log) + 1] = e
    BY <1>1, <1>5, AppendExtends
  <2> QED  BY <1>1, <1>2, <1>5, <2>1 DEF TriesNext
<1> QED  BY <1>2, <1>3, <1>4, <1>5

LEMMA EndKinds ==
  ASSUME TypeInv, NEW d \in Nat,
         StepEscapes(d) \/ CallEscapes(d) \/ AnswerEscapes(d) \/ DeclineEscapes(d)
         \/ Decline(d) \/ SendAnswer(d)
  PROVE  Ends
<1>0. TypeOK /\ {"declined", "answer_sent"} \subseteq EventTypes
  BY DEF TypeInv, EventTypes
<1>1. CASE Escape(d)
  <2>1. Extends /\ New = {}
    BY <1>0, <1>1, SameExtends DEF Escape
  <2>2. pc # "down"
    BY DEF StepEscapes, CallEscapes, AnswerEscapes, DeclineEscapes, Decline, SendAnswer
  <2> QED  BY <1>1, <2>1, <2>2 DEF Escape, Raised, Ends
<1>2. CASE DeclineEscapes(d)
  <2>1. /\ Plain("declined") \in Event /\ Plain("declined").type = "declined"
        /\ Plain("declined").step = None /\ Plain("declined").provider = None
    BY <1>0, PlainEvent
  <2>2. Extends /\ New = {Len(log) + 1} /\ log'[Len(log) + 1] = Plain("declined")
    BY <1>0, <1>2, <2>1, AppendExtends DEF DeclineEscapes
  <2> QED  BY <1>2, <2>1, <2>2 DEF DeclineEscapes, Raised, Ends
<1>3. ASSUME pc = "answer", NEW type \in {"declined", "answer_sent"},
             NEW status \in {"answered", "partial", "declined"}, Finish(type, status, d),
             status = "answered" => missing = {}, status = "partial" => missing # {},
             type = IF status = "declined" THEN "declined" ELSE "answer_sent"
      PROVE  Ends
  <2>1. /\ Plain(type) \in Event /\ Plain(type).type = type
        /\ Plain(type).step = None /\ Plain(type).provider = None
    BY <1>0, PlainEvent
  <2>2. Extends /\ New = {Len(log) + 1} /\ log'[Len(log) + 1] = Plain(type)
    BY <1>0, <1>3, <2>1, AppendExtends DEF Finish
  <2>3. /\ pc' = "returned" /\ pc = "answer" /\ runStart' = runStart /\ steps' = steps
        /\ UNCHANGED <<plan, pos, missing>>
        /\ outcome' = [status |-> status, missing |-> missing, facts |-> Places("fact_added")]
    BY <1>3 DEF Finish
  <2>4. \A i \in New : /\ log'[i].step = None /\ log'[i].provider = None
                       /\ log'[i].type \in {"declined", "answer_sent"}
    BY <2>1, <2>2
  <2>5. outcome' # None
    <3>1. missing \subseteq StepIds /\ Places("fact_added") \subseteq Nat
      BY <1>0, LogIndices DEF TypeOK, Places
    <3>2. outcome' \in Outcomes
      BY <1>3, <2>3, <3>1 DEF Outcomes
    <3> QED  BY <3>2, OutcomeAssumption
  <2>6. /\ Len(log') = Len(log) + 1
        /\ log'[Len(log')].type = IF status = "declined" THEN "declined" ELSE "answer_sent"
    BY <1>0, <1>3, <2>1, Grown DEF Finish
  <2> QED  BY <1>3, <2>2, <2>3, <2>4, <2>5, <2>6 DEF Ends
<1>4. CASE SendAnswer(d)
  <2> DEFINE status == IF missing = {} THEN "answered" ELSE "partial"
  <2>1. /\ pc = "answer" /\ Finish("answer_sent", status, d)
        /\ status \in {"answered", "partial", "declined"} /\ status # "declined"
        /\ status = "answered" => missing = {}
        /\ status = "partial" => missing # {}
    BY <1>4 DEF SendAnswer
  <2> HIDE DEF status
  <2> QED  BY <1>3, <2>1
<1> QED
  BY <1>1, <1>2, <1>3, <1>4 DEF StepEscapes, CallEscapes, AnswerEscapes, Decline

\* Every step of the loop is of one of these kinds.
LEMMA StepKinds == TypeInv /\ Next => Kinds
<1> SUFFICES ASSUME TypeInv, Next PROVE Kinds
  OBVIOUS
<1>0. /\ Ticks \subseteq Nat /\ TypeOK /\ steps \in Nat
      /\ RejectTypes \cup StepEndings \cup {"capability_gap"} \subseteq EventTypes \cap (Failures \ Cuts)
      /\ {"budget_exhausted", "breaker_tripped"} \subseteq EventTypes \cap Failures \cap Cuts
  BY RuntimeAssumption DEF EventTypes, StepEndings, Failures, Cuts, TypeInv, TypeOK
<1>1. CASE ExhaustBudget \/ TripBreaker \/ NoSuchTool
  <2>1. pc \in Running \ {"call", "answer"} /\ pos <= Len(plan) /\ UNCHANGED <<plan, runStart>> /\ steps <= steps'
    BY <1>0, <1>1 DEF ExhaustBudget, TripBreaker, NoSuchTool, AtStep, Running, memory, NoteStep
  <2>2. \E type \in EventTypes \cap Failures, next \in {"loop", "answer"} :
          /\ log' = Append(log, About(type, Id)) /\ Miss(next) /\ (next = "answer" <=> type \in Cuts)
          /\ CutTold(type)
    BY <1>0, <1>1 DEF ExhaustBudget, TripBreaker, NoSuchTool, StepEndings, CutTold, Exceeded,
                      Tripped, NoteStep, memory
  <2> QED  BY <2>1, <2>2, LoopGivesUp DEF Kinds
<1>2. ASSUME NEW d \in Ticks, NEW type \in StepEndings, StepFails(type, d)
      PROVE  Kinds
  <2>1. pc \in Running \ {"call", "answer"} /\ pos <= Len(plan) /\ UNCHANGED <<plan, runStart>> /\ steps <= steps'
    BY <1>0, <1>2 DEF StepFails, TypeInv, Held, Running, InStep
  <2> QED  BY <1>0, <1>2, <2>1, LoopGivesUp, UncutTold DEF StepFails, Kinds
<1>3. CASE Gap
  <2>1. pc \in Running \ {"call", "answer"} /\ pos <= Len(plan) /\ UNCHANGED <<plan, runStart>> /\ steps <= steps'
    BY <1>0, <1>3 DEF Gap, TypeInv, Held, Running, InStep, memory
  <2> QED  BY <1>0, <1>3, <2>1, LoopGivesUp, UncutTold DEF Gap, Kinds
<1>4. ASSUME NEW d \in Ticks, NEW type,
             \/ type \in {"tool_failed", "validation_failed"} /\ AttemptFails(type, d)
             \/ type \in RejectTypes /\ CommitRejected(type, d)
      PROVE  Kinds
  BY <1>0, <1>4, CallKinds DEF Kinds
<1>5. ASSUME NEW d \in Ticks,
             StepEscapes(d) \/ CallEscapes(d) \/ AnswerEscapes(d) \/ DeclineEscapes(d)
             \/ Decline(d) \/ SendAnswer(d)
      PROVE  Kinds
  BY <1>0, <1>5, EndKinds DEF Kinds
<1>6. CASE Work
  <2>1. ASSUME NEW d \in Ticks, NEW level \in TrustLevels, ToolOutput(level, d) PROVE Kinds
    BY <1>0, <2>1 DEF Kinds
  <2>2. ASSUME NEW d \in Ticks, Commit(d) PROVE Kinds
    BY <1>0, <2>2 DEF Kinds
  <2> QED  BY <1>1, <1>2, <1>3, <1>4, <1>5, <1>6, <2>1, <2>2 DEF Work, Kinds
<1>7. ASSUME NEW p \in Plans, NEW d \in Ticks, Submit(p, d) PROVE Kinds
  BY <1>0, <1>7 DEF Kinds
<1> QED  BY <1>6, <1>7 DEF Next, Kinds

----------------------------------------------------------------------------
(* Facts and what they were made from.                                     *)

\* The fact at place i was made in the step that starts at place j.
Ground(i, j) ==
  /\ j \in 1 .. i - 1
  /\ log[i].step \in StepIds /\ log[i].provider \in Providers
  /\ log[j].type = "step_started" /\ log[j].label = log[i].label
  /\ \A k \in j .. i : log[k].step = log[i].step
  /\ \A k \in j + 1 .. i : log[k].type # "step_started"
  /\ \E k \in j .. i : log[k].type = "tool_output"
  /\ \E t \in DOMAIN Tools :
       /\ Tools[t].trust = log[j].label
       /\ Within(Tools[t].trust, MaxTrustIn(log[i].provider, Tools[t].reducer))

Grounded == \A i \in Places("fact_added") : \E j \in DOMAIN log : Ground(i, j)

\* The step at hand started at place j, and only it has been written about since.
Open(j) ==
  /\ log[j].type = "step_started" /\ log[j].label = Tool.trust
  /\ \A k \in j .. Len(log) : log[k].step = Id
  /\ \A k \in j + 1 .. Len(log) : log[k].type # "step_started"
  /\ pc \in {"select", "call"} => \E k \in j .. Len(log) : log[k].type = "tool_output"

UnderWay ==
  /\ pc \in InStep => \E j \in DOMAIN log : Open(j)
  /\ pc = "call" => Within(raw, MaxTrustIn(prov, Tool.reducer))

GroundInv == TypeInv /\ Grounded /\ UnderWay

\* A fact keeps its ground: nothing up to its place is touched any more.
LEMMA GroundStays ==
  ASSUME TypeOK, TypeOK', Extends, NEW i \in DOMAIN log, NEW j, Ground(i, j)
  PROVE  Ground(i, j)'
<1>1. \A k \in j .. i : k \in 1 .. Len(log) /\ log'[k] = log[k]
  <2>1. i \in 1 .. Len(log) /\ Len(log) \in Nat /\ j \in 1 .. i - 1
    BY LogIndices DEF Ground
  <2>2. \A k \in j .. i : k \in 1 .. Len(log)
    BY <2>1
  <2> QED  BY <2>2 DEF Extends
<1>2. j \in j .. i /\ i \in j .. i /\ \A k \in j + 1 .. i : k \in j .. i
  BY LogIndices DEF Ground
<1> QED  BY <1>1, <1>2 DEF Ground

LEMMA GroundedStays ==
  ASSUME GroundInv, TypeOK', Extends, \A i \in New : log'[i].type # "fact_added"
  PROVE  Grounded'
<1> SUFFICES ASSUME NEW i \in Places("fact_added")'
             PROVE  \E j \in DOMAIN log' : Ground(i, j)'
  BY DEF Grounded
<1>1. TypeOK
  BY DEF GroundInv, TypeInv
<1>2. i \in Places("fact_added") /\ i \in DOMAIN log
  BY <1>1, PlacesGrow DEF Places
<1>3. PICK j \in DOMAIN log : Ground(i, j)
  BY <1>2 DEF GroundInv, Grounded
<1>4. Ground(i, j)' /\ j \in DOMAIN log'
  BY <1>1, <1>2, <1>3, GroundStays, PlacesGrow
<1> QED  BY <1>4

\* The step stays open while what is written is about it.
LEMMA OpenStays ==
  ASSUME TypeOK, TypeOK', Extends, NEW j \in DOMAIN log, Open(j), UNCHANGED <<plan, pos>>,
         \A i \in New : log'[i].step = Id /\ log'[i].type # "step_started",
         \/ pc' \in {"select", "call"} => pc \in {"select", "call"}
         \/ \E i \in New : log'[i].type = "tool_output"
  PROVE  j \in DOMAIN log' /\ Open(j)'
<1>1. /\ Len(log) \in Nat /\ Len(log') \in Nat /\ Len(log) <= Len(log')
      /\ DOMAIN log = 1 .. Len(log)
  BY LogIndices DEF Extends
<1>2. Id' = Id /\ Tool' = Tool
  BY DEF Id, Tool, Step
<1>3. \A k \in j .. Len(log') : (k \in j .. Len(log) /\ k \in 1 .. Len(log)) \/ k \in New
  BY <1>1 DEF New
<1>4. \A k \in j + 1 .. Len(log') : (k \in j + 1 .. Len(log) /\ k \in 1 .. Len(log)) \/ k \in New
  BY <1>1 DEF New
<1>5. /\ j \in 1 .. Len(log) /\ j \in DOMAIN log'
      /\ \A k \in j .. Len(log) : k \in j .. Len(log') /\ k \in 1 .. Len(log)
      /\ \A k \in New : k \in j .. Len(log')
  BY <1>1, PlacesGrow DEF New
<1>6. log'[j] = log[j] /\ \A k \in 1 .. Len(log) : log'[k] = log[k]
  BY <1>5 DEF Extends
<1> QED  BY <1>2, <1>3, <1>4, <1>5, <1>6 DEF Open

\* A step ends: nothing is under way behind it.
LEMMA NothingOpen ==
  ASSUME pc' \notin InStep
  PROVE  UnderWay'
BY DEF UnderWay, InStep

LEMMA InitGrounds == Init => GroundInv
<1> SUFFICES ASSUME Init PROVE GroundInv
  OBVIOUS
<1>1. Grounded /\ UnderWay
  BY DEF Init, Grounded, Places, UnderWay, InStep
<1> QED  BY <1>1, InitTypes DEF GroundInv

LEMMA StartGrounds ==
  ASSUME GroundInv, TypeInv', StartStep
  PROVE  GroundInv'
<1> PICK n \in Nat : n = Len(log) + 1
  BY LogIndices DEF GroundInv, TypeInv
<1> DEFINE event == Labelled("step_started", Id, Tool.trust)
<1>1. TypeOK /\ TypeOK' /\ n \in Nat /\ Id \in StepIds /\ Tool.trust \in TrustLevels
  BY AtAPlace, LogIndices, RuntimeAssumption
     DEF GroundInv, TypeInv, StartStep, AtStep, Tool
<1>2. event \in Event /\ event.type = "step_started" /\ event.step = Id /\ event.label = Tool.trust
  <2>1. "step_started" \in EventTypes /\ event.label = Tool.trust
    BY DEF EventTypes, Labelled, About, Plain
  <2> QED  BY <1>1, <2>1, LabelledIsEvent
<1>3. /\ log' = Append(log, event) /\ pc' = "execute"
      /\ Id' = Id /\ Tool' = Tool
  BY DEF StartStep, Id, Tool, Step
<1> HIDE DEF event
<1>4. Extends /\ New = {n} /\ log'[n] = event /\ n \in DOMAIN log'
  BY <1>1, <1>2, <1>3, AppendExtends, PlacesGrow
<1>5. Grounded'
  BY <1>1, <1>2, <1>4, GroundedStays
<1>6. Len(log') = n /\ (\A k \in n .. Len(log') : k = n) /\ \A k \in n + 1 .. Len(log') : FALSE
  <2>1. Len(log') = n
    BY <1>1, <1>2, <1>3, AppendProperties DEF TypeOK
  <2> QED  BY <1>1, <2>1
<1>7. Open(n)'
  <2>1. pc' \notin {"select", "call"}
    BY <1>3
  <2>2. log'[n].type = "step_started" /\ log'[n].label = (Tool').trust /\ log'[n].step = Id'
    BY <1>2, <1>3, <1>4
  <2>3. \A k \in n .. Len(log') : log'[k].step = Id'
    BY <1>6, <2>2
  <2> QED  BY <1>6, <2>1, <2>2, <2>3 DEF Open
<1>8. UnderWay'
  BY <1>3, <1>4, <1>7 DEF UnderWay
<1> QED  BY <1>5, <1>8 DEF GroundInv

\* An output, a choice or a call that is tried again.
LEMMA OpenGrounds ==
  ASSUME GroundInv, TypeInv', pc \in InStep, Extends, UNCHANGED <<plan, pos>>,
         \A i \in New : log'[i].step = Id /\ log'[i].type \notin {"step_started", "fact_added"},
         \/ pc' \in {"select", "call"} => pc \in {"select", "call"}
         \/ \E i \in New : log'[i].type = "tool_output",
         pc' = "call" => Within(raw', MaxTrustIn(prov', Tool.reducer))
  PROVE  GroundInv'
<1>1. TypeOK /\ TypeOK'
  BY DEF GroundInv, TypeInv
<1>2. PICK j \in DOMAIN log : Open(j)
  BY DEF GroundInv, UnderWay
<1>3. j \in DOMAIN log' /\ Open(j)'
  BY <1>1, <1>2, OpenStays
<1>4. Tool' = Tool
  BY DEF Tool, Step
<1>5. Grounded'
  BY <1>1, GroundedStays
<1> QED  BY <1>3, <1>4, <1>5 DEF GroundInv, UnderWay

LEMMA ToolOutputGrounds ==
  ASSUME GroundInv, TypeInv', NEW level \in TrustLevels, NEW d \in Nat, ToolOutput(level, d)
  PROVE  GroundInv'
<1>1. pc \in InStep /\ pos <= Len(plan) /\ TypeOK
  BY DEF ToolOutput, GroundInv, TypeInv, Held, InStep
<1>2. /\ About("tool_output", Id) \in Event /\ About("tool_output", Id).type = "tool_output"
      /\ About("tool_output", Id).step = Id
  BY <1>1, AboutEvent DEF EventTypes
<1>3. /\ log' = Append(log, About("tool_output", Id)) /\ pc' = "select"
      /\ UNCHANGED <<plan, pos>>
  BY DEF ToolOutput
<1>4. Extends /\ New = {Len(log) + 1} /\ log'[Len(log) + 1] = About("tool_output", Id)
  BY <1>1, <1>2, <1>3, AppendExtends
<1> QED  BY <1>1, <1>2, <1>3, <1>4, OpenGrounds

\* select() admits a provider for the payload in hand.
LEMMA SelectGrounds ==
  ASSUME GroundInv, TypeInv', SelectProvider
  PROVE  GroundInv'
<1>1. /\ pc \in InStep /\ pc = "select" /\ TypeOK /\ prov' \in Pool(Request)
      /\ UNCHANGED <<log, plan, pos, raw>>
  <2>1. prov' = Select(Request) /\ Pool(Request) # {}
    BY DEF SelectProvider
  <2>2. Select(Request) \in Pool(Request)
    BY <2>1, SelectionIsBest
  <2> QED  BY <2>1, <2>2 DEF SelectProvider, InStep, GroundInv, TypeInv
<1>2. Within(raw, MaxTrustIn(prov', Tool.reducer))
  BY <1>1 DEF Pool, Admitted, Request
<1>3. Extends /\ New = {}
  BY <1>1, SameExtends
<1> QED  BY <1>1, <1>2, <1>3, OpenGrounds

\* What project() declares of the payload in hand is what its tool declares.
LEMMA DeclaredIsOwn ==
  ASSUME TypeOK, NEW j \in DOMAIN log, Open(j)
  PROVE  DeclaredTrust(Id) = Tool.trust
<1>1. DOMAIN log = 1 .. Len(log) /\ Len(log) \in Nat /\ j \in j .. Len(log)
  BY LogIndices
<1>2. j \in Starts(Id) /\ \A k \in Starts(Id) : k \in Nat /\ k <= j
  <2>1. j \in Starts(Id)
    BY <1>1 DEF Open, Starts, Places
  <2>2. \A k \in DOMAIN log : k \in Nat /\ (k <= j \/ k \in j + 1 .. Len(log))
    BY <1>1
  <2> QED  BY <2>1, <2>2 DEF Open, Starts, Places
<1>3. (CHOOSE i \in Starts(Id) : \A k \in Starts(Id) : k <= i) = j
  BY <1>2, LastOf
<1> QED  BY <1>3 DEF DeclaredTrust, Open

LEMMA CommitGrounds ==
  ASSUME GroundInv, TypeInv', NEW d \in Nat, Commit(d)
  PROVE  GroundInv'
<1> PICK n \in Nat : n = Len(log) + 1
  BY LogIndices DEF GroundInv, TypeInv
<1> DEFINE event == Called("fact_added", d, d)
<1>1. /\ TypeInv /\ TypeOK /\ TypeOK' /\ n \in Nat /\ pc = "call" /\ pc \in InStep
      /\ Step.tool \in DOMAIN Tools /\ Visible(Id) /\ log' = Append(log, event) /\ pc' = "loop"
  BY AtACall, LogIndices DEF GroundInv, TypeInv, Commit, Calling, InStep
<1>2. /\ event \in Event /\ event.type = "fact_added" /\ event.step = Id
      /\ event.provider = prov /\ event.label = raw
  BY <1>1, FactEvent
<1> HIDE DEF event
<1>3. Extends /\ New = {n} /\ log'[n] = event
  BY <1>1, <1>2, AppendExtends
<1>4. PICK j \in DOMAIN log : Open(j)
  BY <1>1 DEF GroundInv, UnderWay
<1>5. /\ DOMAIN log = 1 .. Len(log) /\ Len(log) \in Nat
      /\ j \in Nat /\ j \in 1 .. n - 1 /\ j \in 1 .. Len(log)
      /\ \A k \in j .. n : k = n \/ (k \in j .. Len(log) /\ k \in 1 .. Len(log))
      /\ \A k \in j + 1 .. n : k = n \/ (k \in j + 1 .. Len(log) /\ k \in 1 .. Len(log))
      /\ \A k \in j .. Len(log) : k \in j .. n /\ k \in 1 .. Len(log)
      /\ j \in j .. Len(log)
  <2>1. DOMAIN log = 1 .. Len(log) /\ Len(log) \in Nat /\ n = Len(log) + 1
    BY <1>1, LogIndices
  <2>2. j \in Nat /\ 1 <= j /\ j <= Len(log)
    BY <2>1
  <2>3. \A k \in j .. n : k = n \/ (k \in j .. Len(log) /\ k \in 1 .. Len(log))
    BY <2>1, <2>2
  <2>4. \A k \in j + 1 .. n : k = n \/ (k \in j + 1 .. Len(log) /\ k \in 1 .. Len(log))
    BY <2>1, <2>2
  <2>5. \A k \in j .. Len(log) : k \in j .. n /\ k \in 1 .. Len(log)
    BY <2>1, <2>2
  <2> QED  BY <2>1, <2>2, <2>3, <2>4, <2>5
<1>6. raw = Tool.trust
  BY <1>1, <1>4, DeclaredIsOwn DEF Visible
<1>7. Ground(n, j)'
  <2>1. \A k \in 1 .. Len(log) : log'[k] = log[k]
    BY <1>3 DEF Extends
  <2>2. \A k \in j .. n : log'[k].step = log'[n].step
    BY <1>2, <1>3, <1>4, <1>5, <2>1 DEF Open
  <2>3. \A k \in j + 1 .. n : log'[k].type # "step_started"
    BY <1>2, <1>3, <1>4, <1>5, <2>1 DEF Open
  <2>4. \E k \in j .. n : log'[k].type = "tool_output"
    BY <1>1, <1>4, <1>5, <2>1 DEF Open
  <2>5. log'[j].type = "step_started" /\ log'[j].label = Tool.trust /\ log'[n].label = raw
    BY <1>2, <1>3, <1>4, <1>5, <2>1 DEF Open
  <2>6. Within(Tools[Step.tool].trust, MaxTrustIn(log'[n].provider, Tools[Step.tool].reducer))
    BY <1>1, <1>2, <1>3, <1>6 DEF GroundInv, UnderWay, Tool
  <2>7. log'[n].step \in StepIds /\ log'[n].provider \in Providers
    BY <1>1, <1>2, <1>3, AtACall DEF TypeInv, Held
  <2> QED  BY <1>1, <1>5, <1>6, <2>2, <2>3, <2>4, <2>5, <2>6, <2>7 DEF Ground, Tool
<1>8. Grounded'
  <2> SUFFICES ASSUME NEW i \in Places("fact_added")'
               PROVE  \E k \in DOMAIN log' : Ground(i, k)'
    BY DEF Grounded
  <2>1. i \in Places("fact_added") \/ i = n
    BY <1>1, <1>3, PlacesGrow
  <2>2. CASE i = n
    BY <1>1, <1>3, <1>4, <1>7, <2>2, PlacesGrow
  <2>3. CASE i \in Places("fact_added")
    <3>1. PICK k \in DOMAIN log : Ground(i, k)
      BY <2>3 DEF GroundInv, Grounded
    <3> QED  BY <1>1, <1>3, <2>3, <3>1, GroundStays, PlacesGrow DEF Places
  <2> QED  BY <2>1, <2>2, <2>3
<1> QED  BY <1>1, <1>8, NothingOpen DEF GroundInv, InStep

LEMMA GroundsKept == GroundInv /\ [Next]_vars => GroundInv'
<1> SUFFICES ASSUME GroundInv, [Next]_vars PROVE GroundInv'
  OBVIOUS
<1>0. TypeInv /\ TypeInv' /\ TypeOK /\ TypeOK'
  BY TypesKept DEF GroundInv, TypeInv
<1>1. CASE Boot
  <2>1. /\ Plain("composition") \in Event /\ Plain("composition").type = "composition"
        /\ log' = Append(log, Plain("composition")) /\ pc' = "ready"
    BY <1>1, PlainEvent DEF Boot, EventTypes
  <2>2. Extends /\ New = {Len(log) + 1} /\ log'[Len(log) + 1] = Plain("composition")
    BY <1>0, <2>1, AppendExtends
  <2>3. pc' \notin InStep
    BY <2>1 DEF InStep
  <2> QED  BY <1>0, <2>1, <2>2, <2>3, GroundedStays, NothingOpen DEF GroundInv
<1>2. CASE Crash
  <2>1. Extends /\ New = {} /\ pc' \notin InStep
    BY <1>0, <1>2, SameExtends DEF Crash, InStep
  <2> QED  BY <1>0, <2>1, GroundedStays, NothingOpen DEF GroundInv
<1>3. ASSUME NEW p \in Plans, NEW d \in Nat, Submit(p, d)
      PROVE  GroundInv'
  <2>1. Extends /\ pc' \notin InStep
    <3>1. /\ log' \in Seq(Event) /\ Len(log) < Len(log')
          /\ \A i \in 1 .. Len(log) : log'[i] = log[i]
      BY <1>0, <1>3, SubmitLog
    <3>2. Len(log') \in Nat /\ Len(log) \in Nat
      BY <1>0, <3>1, LogIndices
    <3> QED  BY <1>3, <3>1, <3>2 DEF Extends, Submit, InStep
  <2>2. \A i \in New : log'[i].type # "fact_added"
    BY <1>0, <1>3, SubmitLog, OpeningEvents DEF New
  <2> QED  BY <1>0, <2>1, <2>2, GroundedStays, NothingOpen DEF GroundInv
<1>4. CASE EndOfPlan
  <2>1. Extends /\ New = {} /\ pc' \notin InStep
    BY <1>0, <1>4, SameExtends DEF EndOfPlan, InStep
  <2> QED  BY <1>0, <2>1, GroundedStays, NothingOpen DEF GroundInv
<1>5. CASE GivesUp
  <2>1. Extends /\ pc' \notin InStep /\ \A i \in New : log'[i].type # "fact_added"
    BY <1>5 DEF GivesUp, Miss, InStep, Failures
  <2> QED  BY <1>0, <2>1, GroundedStays, NothingOpen DEF GroundInv
<1>6. CASE TriesNext
  <2>1. /\ pc \in InStep /\ Extends /\ UNCHANGED <<plan, pos>> /\ pc = "call" /\ pc' = "select"
        /\ \A i \in New : log'[i].step = Id /\ log'[i].type \notin {"step_started", "fact_added"}
    BY <1>6 DEF TriesNext, Retry, InStep, Failures
  <2> QED  BY <1>0, <2>1, OpenGrounds
<1>7. CASE Ends
  <2>1. Extends /\ pc' \notin InStep /\ \A i \in New : log'[i].type # "fact_added"
    BY <1>7 DEF Ends, InStep
  <2> QED  BY <1>0, <2>1, GroundedStays, NothingOpen DEF GroundInv
<1>8. CASE UNCHANGED vars
  BY <1>0, <1>8 DEF vars, memory, reduce, GroundInv, Grounded, Ground, Places, UnderWay, Open,
                    Id, Tool, Step
<1> QED
  BY <1>0, <1>1, <1>2, <1>3, <1>4, <1>5, <1>6, <1>7, <1>8, StepKinds, StartGrounds,
     SelectGrounds, ToolOutputGrounds, CommitGrounds DEF Kinds

THEOREM GroundInvariant == Spec => []GroundInv
BY InitGrounds, GroundsKept, PTL DEF Spec

\* The start that a fact's ground names is the last one of its step before it.
LEMMA GroundIsLast ==
  ASSUME TypeOK, NEW i \in Places("fact_added"), NEW j, Ground(i, j)
  PROVE  /\ j \in Starts(log[i].step) /\ j < i
         /\ StartOf(i) = j /\ FactTrust(i) = log[i].label
<1>1. /\ DOMAIN log = 1 .. Len(log) /\ Len(log) \in Nat /\ i \in 1 .. Len(log)
      /\ j \in 1 .. i - 1 /\ j \in j .. i
      /\ \A k \in DOMAIN log : k < i => k <= j \/ k \in j + 1 .. i
  BY LogIndices DEF Ground, Places
<1>2. j \in Starts(log[i].step) /\ j < i
  BY <1>1 DEF Ground, Starts, Places
<1>3. \A k \in Starts(log[i].step) : k \in Nat /\ (k < i => k <= j)
  BY <1>1 DEF Ground, Starts, Places
<1>4. StartOf(i) = j
  <2>1. \A m \in Starts(log[i].step) :
          m < i /\ (\A k \in Starts(log[i].step) : k < i => k <= m) => m = j
    BY <1>1, <1>2, <1>3
  <2> QED  BY <1>2, <1>3, <2>1 DEF StartOf
<1>5. FactTrust(i) = log[i].label
  <2> DEFINE before == {k \in Starts(log[i].step) : k < i}
  <2>1. j \in before /\ \A k \in before : k \in Nat /\ k <= j
    BY <1>2, <1>3
  <2>2. (CHOOSE k \in before : \A m \in before : m <= k) = j
    <3> HIDE DEF before
    <3> QED  BY <2>1, LastOf
  <2>3. before # {}
    BY <2>1
  <2>4. FactTrust(i) = log[CHOOSE k \in before : \A m \in before : m <= k].label
    BY <2>3 DEF FactTrust
  <2> QED  BY <2>2, <2>4 DEF Ground
<1> QED  BY <1>2, <1>4, <1>5

\* Behind every fact stand a start and an output of its own step, with no event
\* of another step in between, and a provider admitted for the declared trust.
THEOREM FactsAreGrounded == Spec => []FactGrounded
<1>1. GroundInv => FactGrounded
  <2> SUFFICES ASSUME GroundInv, NEW i \in Places("fact_added")
               PROVE  /\ \E j \in Starts(log[i].step) : j < i
                      /\ \A k \in StartOf(i) .. i : log[k].step = log[i].step
                      /\ \E k \in StartOf(i) .. i : log[k].type = "tool_output"
                      /\ \E t \in DOMAIN Tools :
                           /\ Tools[t].trust = log[StartOf(i)].label
                           /\ Within(Tools[t].trust,
                                     MaxTrustIn(log[i].provider, Tools[t].reducer))
    BY DEF FactGrounded
  <2>1. PICK j \in DOMAIN log : Ground(i, j)
    BY DEF GroundInv, Grounded
  <2>2. j \in Starts(log[i].step) /\ j < i /\ StartOf(i) = j
    BY <2>1, GroundIsLast DEF GroundInv, TypeInv
  <2> QED  BY <2>1, <2>2 DEF Ground
<1> QED  BY <1>1, GroundInvariant, PTL

\* project() says of every fact what the fact was made from.
THEOREM FactsKeepTheirOrigin == Spec => []FactTrustIsOrigin
<1>1. GroundInv => FactTrustIsOrigin
  BY GroundIsLast DEF GroundInv, TypeInv, Grounded, FactTrustIsOrigin
<1> QED  BY <1>1, GroundInvariant, PTL

\* The facts project() adds to a call are within the ceiling that select()
\* enforced on the payload, unless that ceiling is T0, a level project() does
\* not look at: the documented rule holds for every reader but those.
LEMMA OnlyT0Exceeds ==
  ASSUME GroundInv, pc = "call", NEW i \in ProjectedFacts(Id, MaxTrustIn(prov, Tool.reducer)),
         MaxTrustIn(prov, Tool.reducer) # "T0"
  PROVE  Within(log[i].label, MaxTrustIn(prov, Tool.reducer))
<1>1. MaxTrustIn(prov, Tool.reducer) \in TrustLevels
  BY AtACall, ManifestAssumption DEF GroundInv, TypeInv, Held, ManifestOK, MaxTrustIn
<1>2. i \in Places("fact_added") /\ FactTrust(i) \in AllowedBy(MaxTrustIn(prov, Tool.reducer))
  BY DEF ProjectedFacts
<1>3. PICK j \in DOMAIN log : Ground(i, j)
  BY <1>2 DEF GroundInv, Grounded
<1>4. FactTrust(i) = log[i].label /\ log[i].label \in TrustLevels
  <2>1. FactTrust(i) = log[i].label
    BY <1>2, <1>3, GroundIsLast DEF GroundInv, TypeInv
  <2>2. log[i].label \in TrustLevels
    BY <1>3, RuntimeAssumption DEF Ground
  <2> QED  BY <2>1, <2>2
<1> QED  BY <1>1, <1>2, <1>4 DEF AllowedBy, Within, TrustOrder, TrustLevels

\* No reader of a tool's output is declared with a ceiling of T0.
NoT0Reader ==
  \A p \in Providers, t \in DOMAIN Tools : MaxTrustIn(p, Tools[t].reducer) # "T0"

\* Where no reader's ceiling is T0, no call mixes in a fact above the ceiling
\* that the selection enforced (select() and project()).
THEOREM ProjectionWithinCeiling == NoT0Reader => (Spec => []ProjectedWithinCeiling)
<1> SUFFICES ASSUME NoT0Reader PROVE Spec => []ProjectedWithinCeiling
  OBVIOUS
<1>1. GroundInv => ProjectedWithinCeiling
  <2> SUFFICES ASSUME GroundInv, pc = "call",
                      NEW i \in ProjectedFacts(Id, MaxTrustIn(prov, Tool.reducer))
               PROVE  Within(log[i].label, MaxTrustIn(prov, Tool.reducer))
    BY DEF ProjectedWithinCeiling
  <2>1. MaxTrustIn(prov, Tool.reducer) # "T0"
    BY AtACall DEF NoT0Reader, GroundInv, TypeInv, Held, Tool
  <2> QED  BY <2>1, OnlyT0Exceeds
<1> QED  BY <1>1, GroundInvariant, PTL

----------------------------------------------------------------------------
(* What can stop run() from returning.                                     *)

\* The payload in hand is labelled as its tool declares.
Own == pc \in {"select", "call"} => raw = Tool.trust

OwnInv == GroundInv /\ Own

\* Tools and listeners hand over payloads with the tool's declared trust.
NoRelabel == "relabel" \notin Faults

LEMMA OwnKept == NoRelabel /\ OwnInv /\ [Next]_vars => OwnInv'
<1> SUFFICES ASSUME NoRelabel, OwnInv, [Next]_vars PROVE Own'
  BY GroundsKept DEF OwnInv
<1>0. TypeInv /\ Own
  BY DEF OwnInv, GroundInv
<1>1. ASSUME pc' \notin {"select", "call"} PROVE Own'
  BY <1>1 DEF Own
<1>2. ASSUME UNCHANGED <<plan, pos, raw>>, pc' \in {"select", "call"} => pc \in {"select", "call"}
      PROVE  Own'
  BY <1>0, <1>2 DEF Own, Tool, Step
<1>3. ASSUME NEW level \in TrustLevels, NEW d \in Nat, ToolOutput(level, d) PROVE Own'
  BY <1>3 DEF ToolOutput, NoRelabel, Own, Tool, Step
<1>4. CASE Boot \/ Crash \/ StartStep \/ EndOfPlan \/ GivesUp \/ Ends
  BY <1>1, <1>4 DEF Boot, Crash, StartStep, EndOfPlan, GivesUp, Miss, Ends
<1>5. ASSUME NEW p \in Plans, NEW d \in Nat, Submit(p, d) PROVE Own'
  BY <1>1, <1>5 DEF Submit
<1>6. ASSUME NEW d \in Nat, Commit(d) PROVE Own'
  BY <1>1, <1>6 DEF Commit
<1>7. CASE SelectProvider
  BY <1>2, <1>7 DEF SelectProvider
<1>8. CASE TriesNext
  BY <1>2, <1>8 DEF TriesNext, Retry
<1>9. CASE UNCHANGED vars
  BY <1>2, <1>9 DEF vars, reduce
<1> QED  BY <1>0, <1>3, <1>4, <1>5, <1>6, <1>7, <1>8, <1>9, StepKinds DEF Kinds

LEMMA OwnIsVisible ==
  ASSUME OwnInv, pc = "call"
  PROVE  Visible(Id)
<1>1. PICK j \in DOMAIN log : Open(j)
  BY DEF OwnInv, GroundInv, UnderWay, InStep
<1> QED  BY <1>1, DeclaredIsOwn DEF OwnInv, Own, GroundInv, TypeInv, Visible

\* assert_visible refuses nothing but a payload somebody has relabelled: a
\* payload that keeps its tool's label is what the ledger accounts for, also
\* when an earlier run used the step's id with another tool (_call()).
THEOREM VisibleUnlessRelabelled == NoRelabel => (Spec => [](pc = "call" => Visible(Id)))
<1> SUFFICES ASSUME NoRelabel PROVE Spec => [](pc = "call" => Visible(Id))
  OBVIOUS
<1>1. Init => OwnInv
  BY InitGrounds DEF Init, OwnInv, Own
<1>2. OwnInv /\ [Next]_vars => OwnInv'
  BY OwnKept
<1>3. OwnInv => (pc = "call" => Visible(Id))
  BY OwnIsVisible
<1> QED  BY <1>1, <1>2, <1>3, PTL DEF Spec

\* Nothing around run() raises what it does not expect; the process may die.
OnlyCrashes == Faults \subseteq {"crash"}

LEMMA NothingRaises ==
  ASSUME OnlyCrashes, OwnInv, Next
  PROVE  pc' # "raised" \/ pc' = pc
<1>0. /\ TypeInv /\ (pc = "call" => Visible(Id))
      /\ Faults \cap {"output_reject", "listener_error"} = {}
      /\ Faults \cap {"adapter_error", "unload_error", "listener_error"} = {}
      /\ Faults \cap {"adapter_error", "unload_error"} = {} /\ "unload_error" \notin Faults
  BY OwnIsVisible DEF OnlyCrashes, OwnInv, GroundInv
<1>1. ASSUME NEW d \in Ticks, StepEscapes(d) \/ CallEscapes(d) \/ AnswerEscapes(d) \/ DeclineEscapes(d)
      PROVE  FALSE
  BY <1>0, <1>1 DEF StepEscapes, CallEscapes, AnswerEscapes, DeclineEscapes
<1>2. ASSUME NEW d \in Ticks,
             \/ \E type : StepFails(type, d) \/ AttemptFails(type, d) \/ CommitRejected(type, d)
             \/ \E level : ToolOutput(level, d)
             \/ Commit(d) \/ Decline(d) \/ SendAnswer(d) \/ \E p : Submit(p, d)
      PROVE  pc' # "raised"
  BY <1>2 DEF StepFails, AttemptFails, CommitRejected, ToolOutput, Commit, Decline, SendAnswer,
              Submit, Finish, Miss, Retry
<1>3. ASSUME \/ ExhaustBudget \/ TripBreaker \/ NoSuchTool \/ StartStep \/ EndOfPlan
             \/ Gap \/ SelectProvider \/ Boot \/ Crash
      PROVE  pc' # "raised"
  BY <1>3 DEF ExhaustBudget, TripBreaker, NoSuchTool, StartStep, EndOfPlan, Gap, SelectProvider,
              Boot, Crash, Miss
<1> QED  BY <1>1, <1>2, <1>3 DEF Next, Work

\* run() raises only because something it calls does: with tools, listeners
\* and adapters that raise what their contracts name, every call of run()
\* that ends ends with an outcome or with the process (run()).
THEOREM RaisesOnlyOnFaults == OnlyCrashes => (Spec => [](pc # "raised"))
<1> SUFFICES ASSUME OnlyCrashes PROVE Spec => [](pc # "raised")
  OBVIOUS
<1>1. Init => OwnInv /\ pc # "raised"
  BY InitGrounds DEF Init, OwnInv, Own
<1>2. (OwnInv /\ pc # "raised") /\ [Next]_vars => (OwnInv /\ pc # "raised")'
  <2> SUFFICES ASSUME OwnInv, pc # "raised", [Next]_vars PROVE OwnInv' /\ pc' # "raised"
    OBVIOUS
  <2>1. OwnInv'
    BY OwnKept DEF OnlyCrashes, NoRelabel
  <2>2. pc' # "raised"
    BY NothingRaises DEF vars
  <2> QED  BY <2>1, <2>2
<1> QED  BY <1>1, <1>2, PTL DEF Spec

----------------------------------------------------------------------------
(* How far a run() is from its end.                                        *)

\* The most steps run() takes over one step of its plan: the start, the
\* output, a choice and a call for every attempt.
StepBound == 2 * MaxRetries + 4

\* Over n steps of the plan, and the answer.
PlanBound(n) == n * StepBound + 2

RetriesLeft == IF retries[Id] <= MaxRetries THEN MaxRetries - retries[Id] ELSE 0

Left ==
  CASE pc = "loop"    -> PlanBound(Len(plan) - pos + 1)
    [] pc = "execute" -> PlanBound(Len(plan) - pos) + StepBound - 1
    [] pc = "select"  -> PlanBound(Len(plan) - pos) + 2 * RetriesLeft + 2
    [] pc = "call"    -> PlanBound(Len(plan) - pos) + 2 * RetriesLeft + 1
    [] pc = "answer"  -> 1
    [] OTHER          -> 0

LEMMA PlanBounds ==
  /\ StepBound \in Nat /\ StepBound >= 4
  /\ \A n \in Nat : /\ PlanBound(n) \in Nat /\ PlanBound(n) >= 2
                   /\ PlanBound(n + 1) = PlanBound(n) + StepBound
<1>1. StepBound \in Nat /\ StepBound >= 4
  BY RuntimeAssumption DEF StepBound
<1>2. \A b, n \in Nat : n * b \in Nat /\ (n + 1) * b = n * b + b
  OBVIOUS
<1>3. \A n \in Nat : n * StepBound \in Nat /\ (n + 1) * StepBound = n * StepBound + StepBound
  BY <1>1, <1>2
<1> HIDE DEF StepBound
<1> QED  BY <1>1, <1>3 DEF PlanBound

\* At a step of the plan: what lies behind it and what it may still take.
LEMMA AtAStep ==
  ASSUME TypeInv, pos <= Len(plan)
  PROVE  /\ Len(plan) - pos \in Nat /\ Id \in StepIds
         /\ PlanBound(Len(plan) - pos) \in Nat /\ PlanBound(Len(plan) - pos) >= 2
         /\ PlanBound(Len(plan) - pos + 1) = PlanBound(Len(plan) - pos) + StepBound
         /\ StepBound \in Nat /\ RetriesLeft \in Nat /\ 2 * RetriesLeft + 4 <= StepBound
<1>1. /\ Len(plan) \in Nat /\ pos \in Nat /\ Id \in StepIds
      /\ retries[Id] \in Nat /\ MaxRetries \in Nat
  BY AtAPlace, RuntimeAssumption DEF TypeInv, TypeOK
<1>2. Len(plan) - pos \in Nat
  BY <1>1
<1>3. RetriesLeft \in Nat /\ RetriesLeft <= MaxRetries
  BY <1>1 DEF RetriesLeft
<1>4. 2 * RetriesLeft + 4 <= StepBound
  BY <1>1, <1>3 DEF StepBound
<1> QED  BY <1>1, <1>2, <1>3, <1>4, PlanBounds

LEMMA LeftType == TypeInv => Left \in Nat
<1> SUFFICES ASSUME TypeInv PROVE Left \in Nat
  OBVIOUS
<1>1. CASE pc \in InStep
  <2>1. pos <= Len(plan)
    BY <1>1 DEF TypeInv, Held
  <2>2. /\ PlanBound(Len(plan) - pos) \in Nat /\ RetriesLeft \in Nat
        /\ StepBound \in Nat /\ StepBound >= 4
    BY <2>1, AtAStep, PlanBounds
  <2> QED  BY <1>1, <2>2 DEF Left, InStep
<1>2. CASE pc = "loop"
  <2>1. Len(plan) - pos + 1 \in Nat
    BY PlanLength DEF TypeInv, TypeOK
  <2> QED  BY <1>2, <2>1, PlanBounds DEF Left
<1>3. CASE pc \notin InStep \cup {"loop"}
  BY <1>3 DEF Left, InStep
<1> QED  BY <1>1, <1>2, <1>3

\* The loop is behind a step that it was at, or at the answer.
LEMMA PassedDescends ==
  ASSUME TypeInv, pc \in Running \ {"answer"}, pos <= Len(plan),
         UNCHANGED plan, pos' = pos + 1, pc' \in {"loop", "answer"}
  PROVE  Left' < Left
<1>1. /\ PlanBound(Len(plan) - pos) \in Nat /\ PlanBound(Len(plan) - pos) >= 2
      /\ PlanBound(Len(plan) - pos + 1) = PlanBound(Len(plan) - pos) + StepBound
      /\ StepBound \in Nat /\ StepBound >= 4 /\ RetriesLeft \in Nat
  BY AtAStep, PlanBounds
<1>2. Len(plan') - pos' + 1 = Len(plan) - pos
  BY PlanLength DEF TypeInv
<1>3. Left' <= PlanBound(Len(plan) - pos)
  <2>1. CASE pc' = "loop"
    <3>1. Left' = PlanBound(Len(plan') - pos' + 1)
      BY <2>1 DEF Left, PlanBound, StepBound
    <3> QED  BY <1>1, <1>2, <3>1
  <2>2. CASE pc' = "answer"
    BY <1>1, <2>2 DEF Left
  <2> QED  BY <2>1, <2>2
<1>4. PlanBound(Len(plan) - pos) < Left
  BY <1>1 DEF Left, Running, InStep
<1>5. Left' \in Nat /\ Left \in Nat
  <2>1. Left \in Nat
    BY LeftType
  <2>2. Left' \in Nat
    <3>1. CASE pc' = "loop"
      <4>1. Left' = PlanBound(Len(plan') - pos' + 1)
        BY <3>1 DEF Left, PlanBound, StepBound
      <4> QED  BY <1>1, <1>2, <4>1
    <3>2. CASE pc' = "answer"
      BY <3>2 DEF Left
    <3> QED  BY <3>1, <3>2
  <2> QED  BY <2>1, <2>2
<1> QED  BY <1>1, <1>3, <1>4, <1>5

LEMMA WorkDescends ==
  ASSUME TypeInv, Work
  PROVE  Left' < Left
<1>0. /\ pc \in InStep => pos <= Len(plan)
      /\ pos <= Len(plan) =>
           /\ PlanBound(Len(plan) - pos) \in Nat /\ PlanBound(Len(plan) - pos) >= 2
           /\ PlanBound(Len(plan) - pos + 1) = PlanBound(Len(plan) - pos) + StepBound
           /\ RetriesLeft \in Nat /\ 2 * RetriesLeft + 4 <= StepBound
      /\ StepBound \in Nat /\ StepBound >= 4
  BY AtAStep, PlanBounds DEF TypeInv, Held
<1>1. ASSUME pc \in Running, pc' \in {"returned", "raised"}, pc = "loop" => pos <= Len(plan)
      PROVE  Left' < Left
  <2>1. Left' = 0
    BY <1>1 DEF Left
  <2>2. Left > 0
    BY <1>0, <1>1 DEF Left, Running, InStep
  <2> QED  BY <2>1, <2>2
<1>2. ASSUME ExhaustBudget \/ TripBreaker \/ NoSuchTool \/ Gap
             \/ \E d \in Ticks : \/ Commit(d)
                                \/ \E type : StepFails(type, d)
      PROVE  Left' < Left
  <2>1. /\ pc \in Running \ {"answer"} /\ pos <= Len(plan) /\ UNCHANGED plan /\ pos' = pos + 1
        /\ pc' \in {"loop", "answer"}
    BY <1>0, <1>2 DEF ExhaustBudget, TripBreaker, NoSuchTool, Gap, Commit, Calling, StepFails,
                      AtStep, Miss, Running, InStep
  <2> QED  BY <2>1, PassedDescends
<1>3. CASE StartStep
  <2>1. pc = "loop" /\ pos <= Len(plan) /\ pc' = "execute" /\ UNCHANGED <<plan, pos>>
    BY <1>3 DEF StartStep, AtStep
  <2>2. Left = PlanBound(Len(plan) - pos + 1)
    BY <2>1 DEF Left
  <2>3. Left' = PlanBound(Len(plan) - pos) + StepBound - 1
    BY <2>1 DEF Left, PlanBound, StepBound
  <2> QED  BY <1>0, <2>1, <2>2, <2>3
<1>4. CASE EndOfPlan
  <2>1. pc = "loop" /\ pos > Len(plan) /\ pc' = "answer"
    BY <1>4 DEF EndOfPlan
  <2>2. Len(plan) - pos + 1 \in Nat
    BY PlanLength DEF TypeInv, TypeOK
  <2>3. Left >= 2 /\ Left' = 1
    BY <2>1, <2>2, PlanBounds DEF Left
  <2> QED  BY <2>3, LeftType
<1>5. ASSUME NEW d \in Ticks, NEW level \in TrustLevels, ToolOutput(level, d) PROVE Left' < Left
  <2>1. pc = "execute" /\ pc' = "select" /\ UNCHANGED <<plan, pos, retries>> /\ pos <= Len(plan)
    BY <1>0, <1>5 DEF ToolOutput, InStep
  <2>2. RetriesLeft' = RetriesLeft
    BY <2>1 DEF RetriesLeft, Id, Step
  <2>3. Left' = PlanBound(Len(plan) - pos) + 2 * RetriesLeft + 2
    BY <2>1, <2>2 DEF Left, PlanBound, StepBound
  <2>4. Left = PlanBound(Len(plan) - pos) + StepBound - 1
    BY <2>1 DEF Left
  <2> QED  BY <1>0, <2>1, <2>3, <2>4
<1>6. CASE SelectProvider
  <2>1. pc = "select" /\ pc' = "call" /\ UNCHANGED <<plan, pos, retries>> /\ pos <= Len(plan)
    BY <1>0, <1>6 DEF SelectProvider, InStep, memory
  <2>2. RetriesLeft' = RetriesLeft
    BY <2>1 DEF RetriesLeft, Id, Step
  <2>3. Left' = PlanBound(Len(plan) - pos) + 2 * RetriesLeft + 1
    BY <2>1, <2>2 DEF Left, PlanBound, StepBound
  <2>4. Left = PlanBound(Len(plan) - pos) + 2 * RetriesLeft + 2
    BY <2>1 DEF Left
  <2> QED  BY <1>0, <2>1, <2>3, <2>4
<1>7. ASSUME NEW d \in Ticks, NEW type, AttemptFails(type, d) \/ CommitRejected(type, d)
      PROVE  Left' < Left
  <2>1. pc = "call" /\ pos <= Len(plan) /\ NoteRetry(Id) /\ UNCHANGED plan
    BY <1>0, <1>7 DEF AttemptFails, CommitRejected, Calling, InStep
  <2>2. Miss("loop") \/ (Retry /\ ~ RetriesSpent(Id))
    BY <1>7 DEF AttemptFails, CommitRejected
  <2>3. CASE Miss("loop")
    BY <2>1, <2>3, PassedDescends DEF Miss, Running, InStep
  <2>4. CASE Retry /\ ~ RetriesSpent(Id)
    <3>1. pc' = "select" /\ UNCHANGED <<plan, pos>>
      BY <2>1, <2>4 DEF Retry
    <3>2. /\ Id \in StepIds /\ retries \in [StepIds -> Nat] /\ MaxRetries \in Nat
          /\ retries[Id] \in Nat
      BY <2>1, AtAPlace, RuntimeAssumption DEF TypeInv, TypeOK
    <3>3. retries'[Id] = retries[Id] + 1 /\ retries[Id] + 1 <= MaxRetries
      BY <2>1, <2>4, <3>2 DEF NoteRetry, RetriesSpent
    <3>4. RetriesLeft = MaxRetries - retries[Id] /\ RetriesLeft' = MaxRetries - (retries[Id] + 1)
      <4>1. Id' = Id
        BY <3>1 DEF Id, Step
      <4> QED  BY <3>2, <3>3, <4>1 DEF RetriesLeft
    <3>5. Left' = PlanBound(Len(plan) - pos) + 2 * RetriesLeft' + 2
      BY <3>1 DEF Left, PlanBound, StepBound
    <3>6. Left = PlanBound(Len(plan) - pos) + 2 * RetriesLeft + 1
      BY <2>1 DEF Left
    <3>7. \A b, m, r \in Nat : b + 2 * (m - (r + 1)) + 2 < b + 2 * (m - r) + 1
      OBVIOUS
    <3>8. PlanBound(Len(plan) - pos) \in Nat
      BY <1>0, <2>1
    <3> QED  BY <3>2, <3>4, <3>5, <3>6, <3>7, <3>8
  <2> QED  BY <2>2, <2>3, <2>4
<1>8. ASSUME NEW d \in Ticks,
             StepEscapes(d) \/ CallEscapes(d) \/ Decline(d) \/ SendAnswer(d)
             \/ AnswerEscapes(d) \/ DeclineEscapes(d)
      PROVE  Left' < Left
  <2>1. pc \in Running /\ pc # "loop" /\ pc' \in {"returned", "raised"}
    BY <1>8 DEF StepEscapes, CallEscapes, Decline, SendAnswer, AnswerEscapes, DeclineEscapes,
                Finish, Escape, Raised, Running, InStep
  <2> QED  BY <1>1, <2>1
<1> QED  BY <1>2, <1>3, <1>4, <1>5, <1>6, <1>7, <1>8 DEF Work

\* Every step run() takes brings it nearer to its end, whatever tools,
\* providers and listeners do: the loop, the retry ladder and the answer are
\* finite together, in at most PlanBound(Len(plan)) steps (run(), _reduce()).
THEOREM RunsDescend ==
  Spec => /\ [](Left \in Nat)
          /\ [][/\ Work => Left' < Left
               /\ \A p \in Plans, d \in Ticks : Submit(p, d) => Left' = PlanBound(Len(p))]_vars
<1>1. TypeInv /\ [Next]_vars =>
        [/\ Work => Left' < Left
         /\ \A p \in Plans, d \in Ticks : Submit(p, d) => Left' = PlanBound(Len(p))]_vars
  <2> SUFFICES ASSUME TypeInv, NEW p \in Plans, NEW d \in Ticks, Submit(p, d)
               PROVE  Left' = PlanBound(Len(p))
    BY WorkDescends
  <2>1. pc' = "loop" /\ plan' = p /\ pos' = 1 /\ Len(p) \in Nat
    BY PlanAssumption DEF Submit, Begin
  <2>2. Len(p) - 1 + 1 = Len(p)
    BY <2>1
  <2>3. Left' = PlanBound(Len(p) - 1 + 1)
    BY <2>1 DEF Left, PlanBound, StepBound
  <2> QED  BY <2>2, <2>3
<1>2. Init => TypeInv
  BY InitTypes
<1>3. TypeInv /\ [Next]_vars => TypeInv'
  BY TypesKept
<1>4. TypeInv => Left \in Nat
  BY LeftType
<1> QED  BY <1>1, <1>2, <1>3, <1>4, PTL DEF Spec

----------------------------------------------------------------------------
(* The breaker.                                                            *)

\* What a process has spent it has spent.
LEMMA SpentGrows ==
  ASSUME TypeInv, Next
  PROVE  Boot \/ Crash \/ (elapsed <= elapsed' /\ steps <= steps')
<1>1. /\ elapsed \in Nat /\ elapsed <= WallLimit /\ WallLimit \in Nat
      /\ steps \in Nat /\ Ticks \subseteq Nat
  BY RuntimeAssumption DEF TypeInv, TypeOK
<1>2. \A d \in Ticks : Elapse(d) => elapsed <= elapsed'
  BY <1>1 DEF Elapse
<1>3. steps <= steps + 1 /\ steps <= steps /\ elapsed <= elapsed
  BY <1>1
<1>4. ASSUME ExhaustBudget \/ TripBreaker \/ NoSuchTool \/ StartStep \/ EndOfPlan
             \/ Gap \/ SelectProvider
      PROVE  elapsed' = elapsed /\ (steps' = steps \/ steps' = steps + 1)
  BY <1>4 DEF ExhaustBudget, TripBreaker, NoSuchTool, StartStep, EndOfPlan, Gap, SelectProvider,
              NoteStep, memory
<1>5. ASSUME NEW d \in Ticks,
             \/ \E type : StepFails(type, d) \/ AttemptFails(type, d) \/ CommitRejected(type, d)
             \/ \E level : ToolOutput(level, d)
             \/ StepEscapes(d) \/ CallEscapes(d) \/ Commit(d) \/ Decline(d) \/ SendAnswer(d)
             \/ AnswerEscapes(d) \/ DeclineEscapes(d)
             \/ \E p : Submit(p, d)
      PROVE  Elapse(d) /\ steps' = steps
  BY <1>5 DEF StepFails, AttemptFails, CommitRejected, ToolOutput, StepEscapes, CallEscapes,
              Commit, Decline, SendAnswer, AnswerEscapes, DeclineEscapes, Submit, Finish, Escape, Raised
<1> QED  BY <1>2, <1>3, <1>4, <1>5 DEF Next, Work

\* The breaker counts more steps than it lets start, and never fewer.
Counted ==
  /\ Cardinality(Begun) <= MaxSteps
  /\ pc # "down" => Cardinality(Begun) <= steps

\* The process that wrote a cut still has what it was cut for.
CutFinal ==
  /\ \A i \in SinceBoot, j \in Begun : log[i].type \in Cuts => j < i
  /\ pc # "down" => \A i \in SinceBoot :
       /\ log[i].type = "budget_exhausted" => Exceeded
       /\ log[i].type = "breaker_tripped" => steps > MaxSteps

CountInv == TypeInv /\ Counted /\ CutFinal

LEMMA PlacesFinite ==
  ASSUME TypeOK, NEW S \in SUBSET (DOMAIN log)
  PROVE  IsFiniteSet(S) /\ Cardinality(S) \in Nat
<1>1. DOMAIN log = 1 .. Len(log) /\ Len(log) \in Nat
  BY LogIndices
<1>2. IsFiniteSet(DOMAIN log)
  BY <1>1, FS_Interval
<1> QED  BY <1>2, FS_Subset, FS_CardinalityType

LEMMA BegunFinite ==
  ASSUME TypeOK
  PROVE  Begun \subseteq DOMAIN log /\ IsFiniteSet(Begun) /\ Cardinality(Begun) \in Nat
<1>1. Begun \subseteq DOMAIN log
  BY DEF Begun, SinceBoot
<1> QED  BY <1>1, PlacesFinite

LEMMA CountStays ==
  ASSUME CountInv, TypeInv', Extends, pc # "down" \/ pc' = "down",
         \A i \in New : /\ log'[i].type \notin {"composition", "step_started"}
                        /\ CutTold(log'[i].type),
         (steps <= steps' /\ elapsed <= elapsed') \/ pc' = "down"
  PROVE  CountInv'
<1>1. TypeOK /\ TypeOK'
  BY DEF CountInv, TypeInv
<1>2. Places("composition")' = Places("composition")
      /\ Places("step_started")' = Places("step_started")
  BY <1>1, PlacesGrow
<1>3. \A i \in Places("step_started") : i \in DOMAIN log /\ i \in DOMAIN log'
  BY <1>1, PlacesGrow DEF Places
<1>4. Begun' = Begun
  BY <1>2, <1>3 DEF Begun, SinceBoot
<1>5. steps \in Nat /\ steps' \in Nat /\ Cardinality(Begun) \in Nat /\ MaxSteps \in Nat
  BY <1>1, BegunFinite, RuntimeAssumption DEF TypeOK
<1>6. pc' # "down" => Cardinality(Begun) <= steps /\ steps <= steps'
  BY DEF CountInv, Counted
<1>7. /\ SinceBoot' = SinceBoot \cup New
      /\ \A i \in SinceBoot : log'[i] = log[i]
      /\ \A i \in New, j \in Begun : j < i
  <2>1. \A i \in New, j \in DOMAIN log : j < i
    BY <1>1, LogIndices DEF New
  <2>2. \A i \in New : \A b \in Places("composition") : b <= i
    <3>1. \A i \in New, b \in DOMAIN log : b <= i
      BY <1>1, LogIndices DEF New, Extends
    <3> QED  BY <3>1 DEF Places
  <2>3. Begun \subseteq DOMAIN log /\ SinceBoot \subseteq DOMAIN log
    BY DEF Begun, SinceBoot
  <2>4. SinceBoot' = SinceBoot \cup New
    BY <1>1, <1>2, <2>2, PlacesGrow DEF SinceBoot
  <2> QED  BY <1>1, <2>1, <2>3, <2>4, PlacesGrow
<1>8. pc' # "down" => /\ Exceeded => Exceeded'
                      /\ steps > MaxSteps => steps' > MaxSteps
  <2>1. elapsed \in Nat /\ elapsed' \in Nat /\ WallLimit \in Nat
    BY <1>1, RuntimeAssumption DEF TypeOK
  <2> QED  BY <1>5, <2>1 DEF Exceeded
<1>9. CutFinal'
  <2>1. \A i \in SinceBoot', j \in Begun' : log'[i].type \in Cuts => j < i
    BY <1>4, <1>7 DEF CountInv, CutFinal
  <2>2. pc' # "down" => \A i \in SinceBoot' :
          /\ log'[i].type = "budget_exhausted" => Exceeded'
          /\ log'[i].type = "breaker_tripped" => steps' > MaxSteps
    BY <1>7, <1>8 DEF CountInv, CutFinal, CutTold
  <2> QED  BY <2>1, <2>2 DEF CutFinal
<1> QED  BY <1>4, <1>5, <1>6, <1>9 DEF CountInv, Counted

LEMMA StartCounts ==
  ASSUME CountInv, TypeInv', StartStep
  PROVE  CountInv'
<1> PICK n \in Nat : n = Len(log) + 1
  BY LogIndices DEF CountInv, TypeInv
<1> DEFINE event == Labelled("step_started", Id, Tool.trust)
<1>1. /\ TypeOK /\ TypeOK' /\ Id \in StepIds /\ Tool.trust \in TrustLevels
      /\ steps' = steps + 1 /\ steps + 1 <= MaxSteps /\ pc = "loop"
      /\ steps \in Nat /\ MaxSteps \in Nat
  BY AtAPlace, RuntimeAssumption
     DEF CountInv, TypeInv, TypeOK, StartStep, AtStep, Tool, NoteStep, Tripped
<1>2. event \in Event /\ event.type = "step_started"
  BY <1>1, LabelledIsEvent DEF EventTypes
<1>3. log' = Append(log, event)
  BY DEF StartStep
<1> HIDE DEF event
<1>4. Extends /\ New = {n} /\ log'[n] = event
  BY <1>1, <1>2, <1>3, AppendExtends
<1>5. /\ Places("composition")' = Places("composition")
      /\ Places("step_started")' = Places("step_started") \cup {n}
      /\ DOMAIN log' = DOMAIN log \cup {n} /\ n \notin DOMAIN log
  <2>1. /\ Places("composition")' = Places("composition")
        /\ Places("step_started")' = Places("step_started") \cup {n}
    BY <1>1, <1>2, <1>4, PlacesOne
  <2>2. DOMAIN log' = DOMAIN log \cup {n} /\ n \notin DOMAIN log
    BY <1>1, <1>4, PlacesGrow
  <2> QED  BY <2>1, <2>2
<1>6. \A b \in Places("composition") : b <= n
  BY <1>1, LogIndices DEF Places
<1>7. Begun' = Begun \cup {n} /\ n \notin Begun
  BY <1>5, <1>6 DEF Begun, SinceBoot, Places
<1>8. Cardinality(Begun') = Cardinality(Begun) + 1 /\ Cardinality(Begun) \in Nat
  BY <1>1, <1>7, BegunFinite, FS_AddElement
<1>9. SinceBoot' = SinceBoot \cup {n} /\ \A i \in SinceBoot : i # n /\ log'[i] = log[i]
  BY <1>1, <1>4, <1>5, <1>6, PlacesGrow DEF SinceBoot
<1>10. \A i \in SinceBoot' : log'[i].type \notin Cuts
  <2>1. ~ Exceeded /\ ~ (steps > MaxSteps) /\ pc # "down"
    BY <1>1 DEF StartStep, AtStep
  <2>2. \A i \in SinceBoot : log[i].type \notin Cuts
    BY <2>1 DEF CountInv, CutFinal, Cuts
  <2> QED  BY <1>2, <1>4, <1>9, <2>2 DEF Cuts
<1>11. CutFinal'
  BY <1>10 DEF CutFinal, Cuts
<1> QED  BY <1>1, <1>8, <1>11 DEF CountInv, Counted

\* A new process begins with nothing started.
LEMMA BootCounts ==
  ASSUME CountInv, TypeInv', Boot
  PROVE  CountInv'
<1> PICK n \in Nat : n = Len(log) + 1
  BY LogIndices DEF CountInv, TypeInv
<1> DEFINE event == Plain("composition")
<1>1. /\ TypeOK /\ TypeOK' /\ event \in Event /\ event.type = "composition"
      /\ log' = Append(log, event)
  BY PlainEvent DEF CountInv, TypeInv, Boot, EventTypes
<1> HIDE DEF event
<1>2. Extends /\ New = {n} /\ log'[n] = event
  BY <1>1, AppendExtends
<1>3. /\ Places("composition")' = Places("composition") \cup {n}
      /\ Places("step_started")' = Places("step_started")
  BY <1>1, <1>2, PlacesOne
<1>4. \A i \in Places("step_started") : ~ (n <= i)
  BY <1>1, LogIndices DEF Places
<1>5. Begun' = {}
  BY <1>3, <1>4 DEF Begun, SinceBoot
<1>6. Cardinality({}) = 0 /\ MaxSteps \in Nat /\ steps' = 0
  BY FS_EmptySet, RuntimeAssumption DEF Boot, FreshMemory
<1>7. SinceBoot' = {n}
  <2>1. DOMAIN log' = DOMAIN log \cup {n} /\ \A i \in DOMAIN log : ~ (n <= i)
    BY <1>1, <1>2, LogIndices, PlacesGrow
  <2>2. \A b \in Places("composition")' : b <= n
    BY <1>1, <1>3, LogIndices DEF Places
  <2> QED  BY <1>3, <2>1, <2>2 DEF SinceBoot
<1>8. CutFinal'
  BY <1>1, <1>2, <1>5, <1>7 DEF CutFinal
<1> QED  BY <1>5, <1>6, <1>8 DEF CountInv, Counted

LEMMA InitCounts == Init => CountInv
<1> SUFFICES ASSUME Init PROVE CountInv
  OBVIOUS
<1>1. Begun = {}
  BY DEF Init, Begun, SinceBoot, Places
<1>2. Cardinality({}) = 0 /\ MaxSteps \in Nat
  BY FS_EmptySet, RuntimeAssumption
<1>3. CutFinal
  BY DEF Init, CutFinal, SinceBoot
<1> QED  BY <1>1, <1>2, <1>3, InitTypes DEF CountInv, Counted, Init

\* The kinds that neither start a step nor a process: all of them write
\* events of other types and leave the count or raise it.
LEMMA CountsKept == CountInv /\ [Next]_vars => CountInv'
<1> SUFFICES ASSUME CountInv, [Next]_vars PROVE CountInv'
  OBVIOUS
<1>0. TypeInv /\ TypeInv' /\ TypeOK /\ TypeOK'
  BY TypesKept DEF CountInv, TypeInv
<1>1. CASE Crash
  <2>1. Extends /\ New = {} /\ pc' = "down"
    BY <1>0, <1>1, SameExtends DEF Crash
  <2> QED  BY <1>0, <2>1, CountStays
<1>2. CASE UNCHANGED vars
  BY <1>0, <1>2 DEF vars, memory, CountInv, Counted, CutFinal, Begun, SinceBoot, Places, Exceeded
<1>3. SUFFICES ASSUME elapsed <= elapsed', steps <= steps', Next
               PROVE  CountInv'
  BY <1>0, <1>1, <1>2, SpentGrows, BootCounts
<1>4. ASSUME NEW p \in Plans, NEW d \in Nat, Submit(p, d)
      PROVE  CountInv'
  <2>1. /\ Len(log) \in Nat /\ Len(log') \in Nat /\ Len(log) < Len(log')
        /\ \A i \in 1 .. Len(log) : log'[i] = log[i]
        /\ \A i \in New : log'[i] \in Opening
    BY <1>0, <1>4, SubmitLog, LogIndices DEF New
  <2>2. Extends
    BY <2>1 DEF Extends
  <2>3. \A i \in New : log'[i].type \notin {"composition", "step_started"} \cup Cuts
    BY <2>1, OpeningEvents DEF Cuts
  <2>4. pc # "down"
    BY <1>4 DEF Submit
  <2> QED  BY <1>0, <1>3, <2>2, <2>3, <2>4, CountStays, UncutTold
<1>5. CASE EndOfPlan \/ SelectProvider
  BY <1>0, <1>3, <1>5, SameExtends, CountStays DEF EndOfPlan, SelectProvider
<1>6. ASSUME NEW e \in Event, log' = Append(log, e), pc # "down",
             e.type \in {"tool_output", "fact_added"}
      PROVE  CountInv'
  <2>1. e.type \notin {"composition", "step_started"} \cup Cuts
    BY <1>6 DEF Cuts
  <2> QED  BY <1>0, <1>3, <1>6, <2>1, AppendExtends, CountStays, UncutTold
<1>7. ASSUME NEW level \in TrustLevels, NEW d \in Nat, ToolOutput(level, d)
      PROVE  CountInv'
  <2>1. /\ About("tool_output", Id) \in Event /\ About("tool_output", Id).type = "tool_output"
        /\ log' = Append(log, About("tool_output", Id)) /\ pc # "down"
    BY <1>0, <1>7, AboutEvent DEF ToolOutput, EventTypes, TypeInv, Held, InStep
  <2> QED  BY <1>6, <2>1
<1>8. ASSUME NEW d \in Nat, Commit(d)
      PROVE  CountInv'
  <2>1. /\ Called("fact_added", d, d) \in Event /\ Called("fact_added", d, d).type = "fact_added"
        /\ log' = Append(log, Called("fact_added", d, d)) /\ pc # "down"
    BY <1>0, <1>8, CalledEvent DEF Commit, Calling, EventTypes
  <2> QED  BY <1>6, <2>1
<1>9. CASE GivesUp
  BY <1>0, <1>3, <1>9, CountStays DEF GivesUp, Running, InStep, Failures
<1>10. CASE TriesNext
  BY <1>0, <1>3, <1>10, CountStays, UncutTold DEF TriesNext, Failures
<1>11. CASE Ends
  <2>1. \A i \in New : log'[i].type \notin {"composition", "step_started"} \cup Cuts
    BY <1>11 DEF Ends, Cuts
  <2> QED  BY <1>0, <1>3, <1>11, <2>1, CountStays, UncutTold DEF Ends
<1> QED
  BY <1>0, <1>1, <1>3, <1>4, <1>5, <1>7, <1>8, <1>9, <1>10, <1>11, StepKinds, StartCounts,
     BootCounts DEF Kinds

\* max_steps bounds what one process starts, over all its run() calls, and no
\* step starts behind a cut.
THEOREM BreakerBoundsSteps == Spec => []StepsBounded
<1>1. CountInv => StepsBounded
  BY DEF CountInv, Counted, CutFinal, StepsBounded
<1> QED  BY <1>1, InitCounts, CountsKept, PTL DEF Spec

----------------------------------------------------------------------------
(* The retry ladder.                                                       *)

\* Steps that the loop has not come to have no calls.
Untried ==
  pc \in Running => \A s \in StepIds : Attempts(s) # {} =>
    s \in Ids(1, pos - 1) \/ (pc \in {"select", "call"} /\ s = Id)

\* What was called for the step at hand is what `tried` holds and `retries`
\* counts; retries[s] may be higher, from an earlier run with the same id, and
\* then the first failure is the last.
Ladder ==
  pc \in {"select", "call"} =>
    /\ \A i \in Attempts(Id) :
         log[i].provider \in tried /\ (pc = "call" => log[i].provider # prov)
    /\ pc = "call" => prov \in tried
    /\ Cardinality(Attempts(Id)) <= retries[Id]
    /\ Attempts(Id) # {} => retries[Id] <= MaxRetries

\* Whoever may still be called for the step at hand comes behind those that
\* were: the pool only shrinks, and each choice is the first one of its pool.
Rungs ==
  pc \in {"select", "call"} =>
    /\ \A q \in Pool(Request), i \in Attempts(Id) : Before(log[i].provider, q, Tool.schema)
    /\ pc = "call" =>
         /\ \A i \in Attempts(Id) : Before(log[i].provider, prov, Tool.schema)
         /\ \A q \in Pool(Request) : Before(prov, q, Tool.schema)

ClimbInv == TypeInv /\ LadderClimbs /\ Untried /\ Ladder /\ Rungs

\* More is excluded and less is left of the budget: nobody is let in again.
LEMMA PoolShrinks ==
  ASSUME TypeOK, TypeOK', UNCHANGED <<plan, pos, raw>>, tried \subseteq tried',
         elapsed <= elapsed'
  PROVE  \A q \in Pool(Request)' : q \in Pool(Request) /\ q \notin tried'
<1>1. /\ RemainingMs \in Nat /\ RemainingMs' \in Nat /\ RemainingMs' <= RemainingMs
  <2>1. /\ WallLimit \in Nat /\ elapsed \in Nat /\ elapsed' \in Nat
        /\ elapsed <= WallLimit /\ elapsed' <= WallLimit
    BY RuntimeAssumption DEF TypeOK
  <2>2. RemainingMs = WallLimit - elapsed /\ RemainingMs' = WallLimit - elapsed'
    BY DEF RemainingMs
  <2>3. \A l, a, b \in Nat : a <= b /\ b <= l =>
          l - a \in Nat /\ l - b \in Nat /\ l - b <= l - a
    OBVIOUS
  <2>4. WallLimit - elapsed \in Nat /\ WallLimit - elapsed' \in Nat
    BY <2>1, <2>3
  <2>5. WallLimit - elapsed' <= WallLimit - elapsed
    BY <2>1, <2>3
  <2> QED  BY <2>2, <2>4, <2>5
<1>2. Tool' = Tool
  BY DEF Tool, Step
<1> PICK r : r = Request
  OBVIOUS
<1> PICK u : u = Request'
  OBVIOUS
<1>3. /\ u.cap = r.cap /\ u.schema = r.schema /\ u.trust = r.trust /\ u.mime = r.mime
      /\ u.floor = r.floor /\ r.exclude = tried /\ u.exclude = tried'
      /\ r.ms = RemainingMs /\ u.ms = RemainingMs'
  BY <1>2 DEF Request
<1>4. \A q : Admitted(q, u) => Admitted(q, r) /\ q \notin tried'
  BY <1>3 DEF Admitted
<1>5. \A q : GoodEnough(q, u) => GoodEnough(q, r)
  BY <1>3 DEF GoodEnough
<1>6. ASSUME NEW q, CheapEnough(q, u)
      PROVE  CheapEnough(q, r)
  <2>1. MeasureOf(q, r.schema).p90 \in Nat \cup {None}
    BY MeasuredCost
  <2>2. u.ms # None /\ r.ms # None
    BY <1>1, <1>3, ManifestAssumption
  <2>3. MeasureOf(q, r.schema).p90 = None \/ MeasureOf(q, r.schema).p90 <= u.ms
    BY <1>3, <1>6, <2>2 DEF CheapEnough
  <2>4. MeasureOf(q, r.schema).p90 = None \/ MeasureOf(q, r.schema).p90 <= r.ms
    BY <1>1, <1>3, <2>1, <2>3
  <2> QED  BY <2>4 DEF CheapEnough
<1>7. \A q \in Pool(u) : q \in Pool(r) /\ q \notin tried'
  BY <1>4, <1>5, <1>6 DEF Pool
<1> QED  BY <1>7

\* The step at hand is none of those the loop has passed.
LEMMA IdIsFresh ==
  ASSUME TypeOK, pos <= Len(plan)
  PROVE  /\ Id \in StepIds /\ Id \notin Ids(1, pos - 1)
         /\ UNCHANGED plan /\ pos' = pos + 1 => Ids(1, pos - 1)' = Ids(1, pos - 1) \cup {Id}
<1>1. /\ plan \in Plans /\ pos \in DOMAIN plan /\ pos \in Nat /\ pos >= 1 /\ Id \in StepIds
      /\ Len(plan) \in Nat /\ DOMAIN plan = 1 .. Len(plan)
      /\ \A i, j \in DOMAIN plan : plan[i].id = plan[j].id => i = j
  <2>1. plan \in Plans /\ pos \in DOMAIN plan /\ Len(plan) \in Nat /\ Id \in StepIds
    BY AtAPlace
  <2>2. /\ plan \in Seq([id : StepIds, tool : STRING])
        /\ \A i, j \in DOMAIN plan : plan[i].id = plan[j].id => i = j
    BY <2>1, PlanAssumption
  <2> QED  BY <2>1, <2>2 DEF TypeOK
<1>2. \A k \in 1 .. pos - 1 : k \in DOMAIN plan /\ k # pos
  BY <1>1
<1>3. Id \notin Ids(1, pos - 1)
  BY <1>1, <1>2 DEF Ids, Id, Step
<1> QED  BY <1>1, <1>3, OneMoreId

LEMMA AttemptsFinite ==
  ASSUME TypeOK, NEW s
  PROVE  /\ Attempts(s) \subseteq ThisRun /\ IsFiniteSet(Attempts(s))
         /\ Cardinality(Attempts(s)) \in Nat
<1>1. Attempts(s) \subseteq ThisRun /\ Attempts(s) \subseteq DOMAIN log
  BY LogIndices DEF Attempts, ThisRun
<1> QED  BY <1>1, PlacesFinite

\* Events that are no calls.
LEMMA AttemptsStay ==
  ASSUME ClimbInv, TypeInv', Extends, runStart' = runStart, plan' \in {plan, <<>>},
         \A i \in New : log'[i].provider = None
  PROVE  /\ \A s : Attempts(s)' = Attempts(s)
         /\ \A s : \A i \in Attempts(s) : log'[i] = log[i]
         /\ LadderClimbs'
<1>1. TypeOK /\ TypeOK'
  BY DEF ClimbInv, TypeInv
<1>2. \A s : Attempts(s)' = Attempts(s)
  BY <1>1, MentionsGrow
<1>3. \A s : \A i \in Attempts(s) : log'[i] = log[i]
  BY <1>1, MentionsGrow, AttemptsFinite
<1>4. CalledInRank'
  <2> SUFFICES ASSUME NEW k \in DOMAIN plan', plan' = plan,
                      NEW i \in Attempts(plan[k].id)', NEW j \in Attempts(plan[k].id)', i < j
               PROVE  Before(log[i].provider, log[j].provider, Tools[plan[k].tool].schema)'
    BY DEF CalledInRank
  <2> PICK s : s = plan[k].id
    OBVIOUS
  <2>1. i \in Attempts(s) /\ j \in Attempts(s)
    BY <1>2
  <2>2. Before(log[i].provider, log[j].provider, Tools[plan[k].tool].schema)
    BY <2>1 DEF ClimbInv, LadderClimbs, CalledInRank
  <2>3. log'[i] = log[i] /\ log'[j] = log[j]
    BY <1>3, <2>1
  <2> QED  BY <2>2, <2>3
<1> QED  BY <1>2, <1>3, <1>4 DEF ClimbInv, LadderClimbs

\* A run begins, or there is none.
LEMMA NoAttempts ==
  ASSUME TypeOK', \A i \in ThisRun' : log'[i].provider = None
  PROVE  (\A s : Attempts(s)' = {}) /\ LadderClimbs'
<1>1. \A s : Attempts(s)' = {}
  BY DEF Attempts
<1>2. Cardinality({}) = 0 /\ MaxRetries \in Nat
  BY FS_EmptySet, RuntimeAssumption
<1>3. CalledInRank'
  BY <1>1 DEF CalledInRank, Attempts
<1> QED  BY <1>1, <1>2, <1>3 DEF LadderClimbs

\* A call, however it went: its provider is a new one for the step, and the
\* step has not used up its calls.
LEMMA AttemptClimbs ==
  ASSUME ClimbInv, TypeInv', pc = "call", Extends, UNCHANGED <<plan, runStart>>,
         NEW s \in StepIds, s = Id, NEW n \in Nat, n = Len(log) + 1, n \notin ThisRun,
         \A i \in New : /\ log'[i].step = Id
                        /\ log'[i].provider # None => i = n /\ log'[i].provider = prov
  PROVE  /\ LadderClimbs'
         /\ \A u \in StepIds \ {s} : Attempts(u)' = Attempts(u)
         /\ Attempts(s)' \subseteq Attempts(s) \cup {n}
         /\ Cardinality(Attempts(s)') <= Cardinality(Attempts(s)) + 1
         /\ \A u : \A i \in Attempts(u) : log'[i] = log[i]
         /\ n \in Attempts(s)' => log'[n].provider = prov
<1>1. TypeOK /\ TypeOK' /\ retries[Id] \in Nat /\ MaxRetries \in Nat
  BY AtACall, RuntimeAssumption DEF ClimbInv, TypeInv, TypeOK
<1>2. \A u \in StepIds \ {s} : Attempts(u)' = Attempts(u)
  <2> SUFFICES ASSUME NEW u \in StepIds \ {s} PROVE Attempts(u)' = Attempts(u)
    OBVIOUS
  <2>1. Attempts(u)' =
          Attempts(u) \cup {i \in New : log'[i].step = u /\ log'[i].provider # None}
    BY <1>1, MentionsGrow
  <2> QED  BY <2>1
<1>3. Attempts(s)' \subseteq Attempts(s) \cup {n} /\ n \notin Attempts(s)
      /\ (n \in Attempts(s)' => log'[n].provider = prov)
  <2>1. Attempts(s)' =
          Attempts(s) \cup {i \in New : log'[i].step = s /\ log'[i].provider # None}
    BY <1>1, MentionsGrow
  <2>2. n \notin Attempts(s)
    BY DEF Attempts
  <2> QED  BY <2>1, <2>2
<1>4. \A u : \A i \in Attempts(u) : log'[i] = log[i]
  BY <1>1, MentionsGrow, AttemptsFinite
<1>5. /\ IsFiniteSet(Attempts(s)) /\ Cardinality(Attempts(s)) \in Nat
      /\ Cardinality(Attempts(s)') \in Nat
      /\ Cardinality(Attempts(s)') <= Cardinality(Attempts(s)) + 1
  <2>1. IsFiniteSet(Attempts(s)) /\ Cardinality(Attempts(s)) \in Nat
    BY <1>1, AttemptsFinite
  <2>2. /\ IsFiniteSet(Attempts(s) \cup {n})
        /\ Cardinality(Attempts(s) \cup {n}) = Cardinality(Attempts(s)) + 1
    BY <1>3, <2>1, FS_AddElement
  <2>3. /\ IsFiniteSet(Attempts(s)')
        /\ Cardinality(Attempts(s)') <= Cardinality(Attempts(s) \cup {n})
    BY <1>3, <2>2, FS_Subset
  <2> QED  BY <2>1, <2>2, <2>3, FS_CardinalityType
<1>6. Cardinality(Attempts(s)) <= MaxRetries
  <2>1. CASE Attempts(s) = {}
    BY <1>1, <2>1, FS_EmptySet
  <2>2. CASE Attempts(s) # {}
    BY <1>1, <1>5, <2>2 DEF ClimbInv, Ladder
  <2> QED  BY <2>1, <2>2
<1>7. ASSUME NEW i \in Attempts(s)', NEW j \in Attempts(s)',
             log'[i].provider = log'[j].provider
      PROVE  i = j
  <2>1. \A k \in Attempts(s) : log'[k].provider = log[k].provider /\ log[k].provider # prov
    BY <1>4 DEF ClimbInv, Ladder
  <2>2. CASE i \in Attempts(s) /\ j \in Attempts(s)
    BY <1>7, <2>1, <2>2 DEF ClimbInv, LadderClimbs
  <2>3. CASE i = n /\ j \in Attempts(s)
    BY <1>3, <1>7, <2>1, <2>3
  <2>4. CASE i \in Attempts(s) /\ j = n
    BY <1>3, <1>7, <2>1, <2>4
  <2> QED  BY <1>3, <2>2, <2>3, <2>4
<1>8. CalledInRank'
  <2> SUFFICES ASSUME NEW k \in DOMAIN plan,
                      NEW i \in Attempts(plan[k].id)', NEW j \in Attempts(plan[k].id)', i < j
               PROVE  Before(log[i].provider, log[j].provider, Tools[plan[k].tool].schema)'
    BY DEF CalledInRank
  <2> PICK u : u = plan[k].id
    OBVIOUS
  <2>1. /\ plan \in Plans /\ pos \in DOMAIN plan /\ u \in StepIds
        /\ u = s => k = pos
    <3>1. plan \in Plans /\ pos \in DOMAIN plan /\ s = plan[pos].id
      BY <1>1, AtACall, AtAPlace DEF ClimbInv, Id, Step
    <3>2. /\ plan \in Seq([id : StepIds, tool : STRING])
          /\ \A a, b \in DOMAIN plan : plan[a].id = plan[b].id => a = b
      BY <3>1, PlanAssumption
    <3>3. plan[k] \in [id : StepIds, tool : STRING]
      <4>1. DOMAIN plan = 1 .. Len(plan)
        BY <3>2
      <4> QED  BY <3>2, <4>1, ElementOfSeq
    <3> QED  BY <3>1, <3>2, <3>3
  <2>2. i \in Attempts(u)' /\ j \in Attempts(u)'
    OBVIOUS
  <2>3. CASE i \in Attempts(u) /\ j \in Attempts(u)
    <3>1. Before(log[i].provider, log[j].provider, Tools[plan[k].tool].schema)
      BY <2>3 DEF ClimbInv, LadderClimbs, CalledInRank
    <3>2. log'[i] = log[i] /\ log'[j] = log[j]
      BY <1>4, <2>3
    <3> QED  BY <3>1, <3>2
  <2>4. CASE ~ (i \in Attempts(u) /\ j \in Attempts(u))
    <3>1. u = s /\ k = pos
      BY <1>2, <2>1, <2>2, <2>4
    <3>2. \A m \in Attempts(s) : m \in Nat /\ m < n
      <4>1. Attempts(s) \subseteq ThisRun /\ \A m \in ThisRun : m \in 1 .. Len(log)
        BY <1>1, AttemptsFinite, MentionsGrow
      <4> QED  BY <1>1, <4>1, LogIndices
    <3>3. i \in Attempts(s) /\ j = n
      BY <1>3, <2>2, <2>4, <3>1, <3>2
    <3>4. Before(log[i].provider, prov, Tool.schema)
      BY <3>3 DEF ClimbInv, Rungs
    <3>5. log'[i].provider = log[i].provider /\ log'[j].provider = prov
      BY <1>3, <1>4, <2>2, <3>1, <3>3
    <3>6. Tool.schema = Tools[plan[k].tool].schema
      BY <3>1 DEF Tool, Step
    <3> QED  BY <3>4, <3>5, <3>6
  <2> QED  BY <2>3, <2>4
<1>9. LadderClimbs'
  <2> SUFFICES ASSUME NEW u \in StepIds
               PROVE  /\ Cardinality(Attempts(u)') <= MaxRetries + 1
                      /\ \A i, j \in Attempts(u)' :
                           log'[i].provider = log'[j].provider => i = j
    BY <1>8 DEF LadderClimbs
  <2>1. CASE u = s
    BY <1>1, <1>5, <1>6, <1>7, <2>1
  <2>2. CASE u # s
    <3>1. Attempts(u)' = Attempts(u)
      BY <1>2, <2>2
    <3> QED  BY <1>4, <3>1 DEF ClimbInv, LadderClimbs
  <2> QED  BY <2>1, <2>2
<1> QED  BY <1>2, <1>3, <1>4, <1>5, <1>9

LEMMA InitClimbs == Init => ClimbInv
<1> SUFFICES ASSUME Init PROVE ClimbInv
  OBVIOUS
<1>1. \A s : Attempts(s) = {}
  BY DEF Init, Attempts, ThisRun
<1>2. Cardinality({}) = 0 /\ MaxRetries \in Nat
  BY FS_EmptySet, RuntimeAssumption
<1>3. LadderClimbs
  BY <1>1, <1>2 DEF LadderClimbs, CalledInRank
<1> QED  BY <1>1, <1>3, InitTypes DEF Init, ClimbInv, Untried, Ladder, Rungs

\* A call that is tried again: one more provider in `tried`, one more retry.
LEMMA TriesNextClimbs ==
  ASSUME ClimbInv, TypeInv', TriesNext, elapsed <= elapsed'
  PROVE  ClimbInv'
<1> PICK s \in StepIds : s = Id
  BY AtACall DEF ClimbInv, TriesNext
<1> PICK n \in Nat : n = Len(log) + 1
  BY LogIndices DEF ClimbInv, TypeInv
<1>1. /\ pc = "call" /\ pc' = "select" /\ runStart' = runStart /\ Id' = s
      /\ UNCHANGED <<plan, pos, tried, raw>>
      /\ retries' = [retries EXCEPT ![s] = @ + 1] /\ retries[s] + 1 <= MaxRetries
      /\ retries \in [StepIds -> Nat] /\ MaxRetries \in Nat /\ TypeOK /\ TypeOK'
  <2>1. /\ pc = "call" /\ Retry /\ NoteRetry(s) /\ ~RetriesSpent(s)
        /\ UNCHANGED <<plan, steps, runStart>>
    BY DEF TriesNext
  <2>2. Id' = s
    BY <2>1 DEF Retry, Id, Step
  <2>3. TypeOK /\ TypeOK' /\ retries \in [StepIds -> Nat] /\ MaxRetries \in Nat
    BY RuntimeAssumption DEF ClimbInv, TypeInv, TypeOK
  <2>4. retries[s] \in Nat
    BY <2>3
  <2>5. retries[s] + 1 <= MaxRetries
    BY <2>1, <2>3, <2>4 DEF RetriesSpent
  <2> QED  BY <2>1, <2>2, <2>3, <2>5 DEF Retry, NoteRetry
<1>2. n \notin ThisRun
  BY <1>1, LogIndices DEF ThisRun
<1>3. \A i \in New : i = n /\ log'[i].step = Id /\ log'[i].provider = prov
  BY DEF TriesNext
<1>4. /\ LadderClimbs'
      /\ \A u \in StepIds \ {s} : Attempts(u)' = Attempts(u)
      /\ Attempts(s)' \subseteq Attempts(s) \cup {n}
      /\ Cardinality(Attempts(s)') <= Cardinality(Attempts(s)) + 1
      /\ \A u : \A i \in Attempts(u) : log'[i] = log[i]
      /\ n \in Attempts(s)' => log'[n].provider = prov
  BY <1>1, <1>2, <1>3, AttemptClimbs DEF TriesNext
<1>5. /\ \A i \in Attempts(s) : log[i].provider \in tried
      /\ prov \in tried
      /\ Cardinality(Attempts(s)) <= retries[s]
      /\ Cardinality(Attempts(s)) \in Nat /\ Cardinality(Attempts(s)') \in Nat
  <2>1. Cardinality(Attempts(s)) \in Nat
    BY <1>1, AttemptsFinite
  <2>2. IsFiniteSet(Attempts(s)) /\ IsFiniteSet({n})
    BY <1>1, AttemptsFinite, FS_Singleton
  <2>3. Cardinality(Attempts(s)') \in Nat
    BY <1>4, <2>2, FS_Union, FS_Subset, FS_CardinalityType
  <2> QED  BY <1>1, <2>1, <2>3 DEF ClimbInv, Ladder
<1>6. Ladder'
  <2>1. \A i \in Attempts(s)' : log'[i].provider \in tried
    BY <1>4, <1>5
  <2>2. Cardinality(Attempts(s)') <= retries'[s] /\ retries'[s] <= MaxRetries
    BY <1>1, <1>4, <1>5
  <2> QED  BY <1>1, <2>1, <2>2 DEF Ladder
<1>7. Untried'
  <2>1. Ids(1, pos - 1)' = Ids(1, pos - 1)
    BY <1>1 DEF Ids
  <2> QED  BY <1>1, <1>4, <2>1 DEF ClimbInv, Untried, Running, InStep
<1>8. Rungs'
  <2>1. Tool' = Tool
    BY <1>1 DEF Tool, Step
  <2>2. \A q \in Pool(Request)' : q \in Pool(Request)
    BY <1>1, PoolShrinks
  <2>3. \A q \in Pool(Request)' :
          /\ Before(prov, q, Tool.schema)
          /\ \A i \in Attempts(s) : Before(log[i].provider, q, Tool.schema)
    BY <1>1, <2>2 DEF ClimbInv, Rungs
  <2>4. \A q \in Pool(Request)', i \in Attempts(s)' : Before(log'[i].provider, q, Tool.schema)
    BY <1>4, <2>3
  <2> QED  BY <1>1, <2>1, <2>4 DEF Rungs
<1> QED  BY <1>4, <1>6, <1>7, <1>8 DEF ClimbInv

\* The loop goes on behind a step that was called, or without a call.
LEMMA PassedClimbs ==
  ASSUME ClimbInv, TypeInv', pc \in Running, pos <= Len(plan), pc' \in {"loop", "answer"},
         Extends, UNCHANGED <<plan, runStart>>, pos' = pos + 1,
         \A i \in New : /\ log'[i].step = Id
                        /\ log'[i].provider # None =>
                             pc = "call" /\ i = Len(log) + 1 /\ log'[i].provider = prov
  PROVE  ClimbInv'
<1> PICK s \in StepIds : s = Id
  BY IdIsFresh DEF ClimbInv, TypeInv
<1> PICK n \in Nat : n = Len(log) + 1
  BY LogIndices DEF ClimbInv, TypeInv
<1>1. TypeOK /\ Ids(1, pos - 1)' = Ids(1, pos - 1) \cup {s} /\ n \notin ThisRun
  BY IdIsFresh, LogIndices DEF ClimbInv, TypeInv, ThisRun
<1>2. LadderClimbs' /\ \A u \in StepIds \ {s} : Attempts(u)' = Attempts(u)
  <2>1. CASE pc = "call"
    BY <1>1, <2>1, AttemptClimbs
  <2>2. CASE pc # "call"
    BY <2>2, AttemptsStay
  <2> QED  BY <2>1, <2>2
<1>3. Untried'
  BY <1>1, <1>2 DEF ClimbInv, Untried
<1>4. Ladder' /\ Rungs'
  BY DEF Ladder, Rungs
<1> QED  BY <1>2, <1>3, <1>4 DEF ClimbInv

\* The steps that call nobody and stay where they are.
LEMMA QuietClimbs ==
  ASSUME ClimbInv, TypeInv', Extends, runStart' = runStart, plan' \in {plan, <<>>},
         \A i \in New : log'[i].provider = None,
         \/ pc' \notin Running
         \/ pc \in Running \ {"select", "call"} /\ pc' \notin {"select", "call"}
            /\ UNCHANGED <<plan, pos>>
  PROVE  ClimbInv'
<1>1. (\A s : Attempts(s)' = Attempts(s)) /\ LadderClimbs'
  BY AttemptsStay
<1>2. Untried'
  BY <1>1 DEF ClimbInv, Untried, Ids, Id, Step
<1>3. Ladder' /\ Rungs'
  BY DEF Ladder, Rungs, Running, InStep
<1> QED  BY <1>1, <1>2, <1>3 DEF ClimbInv

LEMMA ToolOutputClimbs ==
  ASSUME ClimbInv, TypeInv', NEW level \in TrustLevels, NEW d \in Nat, ToolOutput(level, d)
  PROVE  ClimbInv'
<1> DEFINE event == About("tool_output", Id)
<1>1. /\ TypeOK /\ pos <= Len(plan) /\ pc = "execute" /\ pc' = "select" /\ log' = Append(log, event)
      /\ UNCHANGED <<plan, pos, retries, runStart>> /\ retries \in [StepIds -> Nat]
  BY DEF ToolOutput, ClimbInv, TypeInv, TypeOK, Held, InStep
<1>2. event \in Event /\ event.provider = None
  BY <1>1, AboutEvent DEF EventTypes
<1> HIDE DEF event
<1>3. Extends /\ \A i \in New : log'[i].provider = None
  BY <1>1, <1>2, AppendExtends
<1>4. (\A s : Attempts(s)' = Attempts(s)) /\ LadderClimbs'
  BY <1>1, <1>3, AttemptsStay
<1>5. Id \in StepIds /\ Attempts(Id) = {} /\ Id' = Id
  BY <1>1, IdIsFresh DEF ClimbInv, Untried, Running, InStep, Id, Step
<1>6. Attempts(Id)' = {}
  BY <1>4, <1>5 DEF Attempts
<1>7. Ladder'
  BY <1>1, <1>5, <1>6, FS_EmptySet DEF Ladder
<1>8. Untried'
  BY <1>1, <1>4 DEF ClimbInv, Untried, Ids, Running, InStep
<1>9. Rungs'
  BY <1>1, <1>5, <1>6 DEF Rungs
<1> QED  BY <1>4, <1>7, <1>8, <1>9 DEF ClimbInv

\* select() leaves out what was tried.
LEMMA SelectClimbs ==
  ASSUME ClimbInv, TypeInv', SelectProvider
  PROVE  ClimbInv'
<1>1. /\ TypeOK /\ pc = "select" /\ pc' = "call" /\ prov' \notin tried /\ tried' = tried \cup {prov'}
      /\ UNCHANGED <<log, plan, pos, retries, runStart>>
  <2>1. Select(Request) \in Providers \ Request.exclude
    BY SelectionMayRead DEF SelectProvider
  <2> QED  BY <2>1 DEF SelectProvider, Request, memory, ClimbInv, TypeInv
<1>2. \A s : Attempts(s)' = Attempts(s)
  BY <1>1 DEF Attempts, ThisRun
<1>3. Id' = Id
  BY <1>1 DEF Id, Step
<1>4. Attempts(Id)' = Attempts(Id)
  BY <1>1, <1>3 DEF Attempts, ThisRun
<1>5. LadderClimbs'
  <2>1. CalledInRank'
    BY <1>1 DEF ClimbInv, LadderClimbs, CalledInRank, Attempts, ThisRun
  <2> QED  BY <1>1, <1>2, <2>1 DEF ClimbInv, LadderClimbs
<1>6. Untried'
  BY <1>1, <1>2, <1>3 DEF ClimbInv, Untried, Ids, Running, InStep
<1>7. Ladder'
  BY <1>1, <1>3, <1>4 DEF ClimbInv, Ladder
<1>8. Rungs'
  <2>1. /\ prov' \in Pool(Request)
        /\ \A q \in Pool(Request) \ {prov'} : Before(prov', q, Request.schema)
    BY SelectionIsBest DEF SelectProvider
  <2>2. Tool' = Tool /\ Request.schema = Tool.schema
    BY <1>1 DEF Tool, Step, Request
  <2>3. UNCHANGED <<raw, elapsed>> /\ elapsed \in Nat
    BY <1>1 DEF SelectProvider, memory, TypeOK
  <2>4. \A q \in Pool(Request)' : q \in Pool(Request) /\ q \notin tried'
    <3>1. tried \subseteq tried' /\ elapsed <= elapsed' /\ TypeOK'
      BY <1>1, <2>3 DEF TypeInv
    <3> QED  BY <1>1, <2>3, <3>1, PoolShrinks
  <2>5. \A q \in Pool(Request)' : q \in Pool(Request) \ {prov'}
    BY <1>1, <2>4
  <2>6. \A q \in Pool(Request), i \in Attempts(Id) : Before(log[i].provider, q, Tool.schema)
    BY <1>1 DEF ClimbInv, Rungs
  <2>7. \A q \in Pool(Request)', i \in Attempts(Id)' : Before(log'[i].provider, q, Tool.schema)
    BY <1>1, <1>4, <2>5, <2>6
  <2>8. \A i \in Attempts(Id)' : Before(log'[i].provider, prov', Tool.schema)
    BY <1>1, <1>4, <2>1, <2>6
  <2>9. \A q \in Pool(Request)' : Before(prov', q, Tool.schema)
    BY <2>1, <2>2, <2>5
  <2> QED  BY <2>2, <2>7, <2>8, <2>9 DEF Rungs
<1> QED  BY <1>5, <1>6, <1>7, <1>8 DEF ClimbInv

LEMMA ClimbsKept == ClimbInv /\ [Next]_vars => ClimbInv'
<1> SUFFICES ASSUME ClimbInv, [Next]_vars PROVE ClimbInv'
  OBVIOUS
<1>0. TypeInv /\ TypeInv' /\ TypeOK /\ TypeOK'
  BY TypesKept DEF ClimbInv, TypeInv
<1>1. CASE Boot
  <2>1. /\ Plain("composition") \in Event /\ Plain("composition").provider = None
        /\ log' = Append(log, Plain("composition"))
    BY <1>1, PlainEvent DEF Boot, EventTypes
  <2>2. Extends /\ \A i \in New : log'[i].provider = None
    BY <1>0, <2>1, AppendExtends
  <2>3. runStart' = runStart /\ plan' = plan /\ pc' \notin Running
    BY <1>1 DEF Boot, Running, InStep
  <2> QED  BY <1>0, <2>2, <2>3, QuietClimbs
<1>2. CASE Crash
  <2>1. \A i \in ThisRun' : FALSE
    BY <1>0, <1>2, LogIndices DEF Crash, ThisRun
  <2>2. LadderClimbs' /\ pc' = "down"
    BY <1>0, <1>2, <2>1, NoAttempts DEF Crash
  <2> QED  BY <1>0, <2>2 DEF ClimbInv, Untried, Ladder, Rungs, Running, InStep
<1>3. ASSUME NEW p \in Plans, NEW d \in Nat, Submit(p, d)
      PROVE  ClimbInv'
  <2>1. \A i \in ThisRun' : log'[i] \in Opening
    BY <1>0, <1>3, SubmitLog DEF ThisRun
  <2>2. \A i \in ThisRun' : log'[i].provider = None
    BY <2>1, OpeningEvents
  <2>3. (\A s : Attempts(s)' = {}) /\ LadderClimbs' /\ pc' = "loop"
    BY <1>0, <1>3, <2>2, NoAttempts DEF Submit
  <2> QED  BY <1>0, <2>3 DEF ClimbInv, Untried, Ladder, Rungs
<1>4. CASE StartStep
  <2>1. /\ Id \in StepIds /\ Tool.trust \in TrustLevels
        /\ log' = Append(log, Labelled("step_started", Id, Tool.trust))
    BY <1>0, <1>4, AtAPlace, RuntimeAssumption DEF StartStep, AtStep, Tool
  <2>2. /\ Labelled("step_started", Id, Tool.trust) \in Event
        /\ Labelled("step_started", Id, Tool.trust).provider = None
    <3>1. "step_started" \in EventTypes
      BY DEF EventTypes
    <3>2. Labelled("step_started", Id, Tool.trust).provider = None
      BY DEF Labelled, About, Plain
    <3> QED  BY <2>1, <3>1, <3>2, LabelledIsEvent
  <2>3. Extends /\ \A i \in New : log'[i].provider = None
    BY <1>0, <2>1, <2>2, AppendExtends
  <2>4. /\ pc \in Running \ {"select", "call"} /\ pc' \notin {"select", "call"}
        /\ UNCHANGED <<plan, pos, runStart>>
    BY <1>4 DEF StartStep, AtStep, Running, InStep
  <2> QED  BY <1>0, <2>3, <2>4, QuietClimbs
<1>5. CASE EndOfPlan
  <2>1. Extends /\ New = {} /\ runStart' = runStart
    BY <1>0, <1>5, SameExtends DEF EndOfPlan
  <2>2. /\ pc \in Running \ {"select", "call"} /\ pc' \notin {"select", "call"}
        /\ UNCHANGED <<plan, pos>>
    BY <1>5 DEF EndOfPlan, Running, InStep
  <2> QED  BY <1>0, <2>1, <2>2, QuietClimbs
<1>6. ASSUME NEW d \in Nat, Commit(d)
      PROVE  ClimbInv'
  <2>1. /\ Called("fact_added", d, d) \in Event /\ Called("fact_added", d, d).step = Id
        /\ Called("fact_added", d, d).provider = prov
        /\ log' = Append(log, Called("fact_added", d, d)) /\ pc = "call" /\ pos <= Len(plan)
    <3>1. pc = "call" /\ log' = Append(log, Called("fact_added", d, d))
      BY <1>6 DEF Commit, Calling
    <3> QED  BY <1>0, <3>1, FactEvent DEF TypeInv, Held, InStep
  <2>2. /\ Extends /\ New = {Len(log) + 1}
        /\ log'[Len(log) + 1] = Called("fact_added", d, d)
    BY <1>0, <2>1, AppendExtends
  <2>3. /\ pc \in Running /\ pc' \in {"loop", "answer"} /\ UNCHANGED <<plan, runStart>>
        /\ pos' = pos + 1
    BY <1>6, <2>1 DEF Commit, Running, InStep
  <2> QED  BY <1>0, <2>1, <2>2, <2>3, PassedClimbs
<1>7. CASE GivesUp
  <2>1. pos' = pos + 1 /\ pc' \in {"loop", "answer"}
    BY <1>7 DEF GivesUp, Miss
  <2> QED  BY <1>0, <1>7, <2>1, PassedClimbs DEF GivesUp
<1>8. CASE Ends
  <2>1. Extends /\ runStart' = runStart /\ plan' \in {plan, <<>>} /\ pc' \notin Running
        /\ \A i \in New : log'[i].provider = None
    BY <1>8 DEF Ends, NoRun, Running, InStep
  <2> QED  BY <1>0, <2>1, QuietClimbs
<1>9. CASE TriesNext
  <2>1. pc' = "select"
    BY <1>9 DEF TriesNext, Retry
  <2>2. ~ Boot /\ ~ Crash /\ ~ UNCHANGED vars
    BY <1>9, <2>1 DEF Boot, Crash, vars, TriesNext
  <2>3. elapsed <= elapsed'
    BY <1>0, <2>2, SpentGrows
  <2> QED  BY <1>0, <1>9, <2>3, TriesNextClimbs
<1>10. CASE UNCHANGED vars
  <2>1. /\ UNCHANGED <<log, pc, plan, pos, tried, raw, prov, elapsed, retries, runStart>>
        /\ elapsed <= elapsed'
    BY <1>0, <1>10 DEF vars, memory, reduce, TypeOK
  <2>2. LadderClimbs' /\ Untried' /\ Ladder'
    <3>1. LadderClimbs'
      BY <2>1 DEF ClimbInv, LadderClimbs, CalledInRank, Attempts, ThisRun
    <3>2. Untried' /\ Ladder'
      BY <2>1 DEF ClimbInv, Untried, Ladder, Attempts, ThisRun, Ids, Id, Step
    <3> QED  BY <3>1, <3>2
  <2>3. Attempts(Id)' = Attempts(Id) /\ Tool' = Tool
    BY <2>1 DEF Attempts, ThisRun, Tool, Id, Step
  <2>4. \A q \in Pool(Request)' : q \in Pool(Request)
    BY <1>0, <2>1, PoolShrinks
  <2>5. Rungs'
    BY <2>1, <2>3, <2>4 DEF ClimbInv, Rungs
  <2> QED  BY <1>0, <2>2, <2>5 DEF ClimbInv
<1> QED
  BY <1>0, <1>1, <1>2, <1>3, <1>4, <1>5, <1>6, <1>7, <1>8, <1>9, <1>10, StepKinds, SelectClimbs,
     ToolOutputClimbs DEF Kinds

\* Within a run no provider is called twice for one step, none after
\* max_retries_per_step + 1 calls, and those that are called are called in
\* the order of rank().
THEOREM RetriesClimb == Spec => []LadderClimbs
<1>1. ClimbInv => LadderClimbs
  BY DEF ClimbInv
<1> QED  BY <1>1, InitClimbs, ClimbsKept, PTL DEF Spec

----------------------------------------------------------------------------
(* The last word about a step.                                             *)

\* Some event of the run is about step s, and the last of them is of `types`.
EndsWith(s, types) ==
  \E i \in Mentions(s) : (\A j \in Mentions(s) : j <= i) /\ log[i].type \in types

Tells ==
  /\ \A s \in missing : EndsWith(s, Failures)
  /\ \A s \in Committed : EndsWith(s, {"fact_added"})
  /\ pc = "down" => runStart = Len(log)

TellInv == SettleInv /\ Tells

\* Events about other steps change no last word.
LEMMA LastWordStays ==
  ASSUME TypeOK, TypeOK', Extends, runStart' = runStart, NEW s, NEW types,
         \A i \in New : log'[i].step # s, EndsWith(s, types)
  PROVE  EndsWith(s, types)'
<1>1. Mentions(s)' = Mentions(s) /\ \A i \in Mentions(s) : log'[i] = log[i]
  BY MentionsGrow DEF Mentions
<1> QED  BY <1>1 DEF EndsWith

\* The last of the new events is the last word of the step it is about.
LEMMA LastWordIsNew ==
  ASSUME TypeOK, TypeOK', Extends, runStart' = runStart, NEW s, NEW types,
         New # {}, \A i \in New : log'[i].step = s /\ log'[i].type \in types
  PROVE  EndsWith(s, types)'
<1>1. Len(log) \in Nat /\ Len(log') \in Nat /\ Len(log') \in New
  BY LogIndices DEF Extends, New
<1>2. Len(log') \in Mentions(s)'
  BY <1>1, MentionsGrow
<1>3. \A j \in Mentions(s)' : j <= Len(log')
  <2>1. \A j \in ThisRun' : j <= Len(log')
    BY <1>1, LogIndices DEF ThisRun, TypeOK
  <2> QED  BY <2>1 DEF Mentions
<1> QED  BY <1>1, <1>2, <1>3 DEF EndsWith

LEMMA NoFactsNew ==
  ASSUME TypeOK, Extends, runStart' = runStart, \A i \in New : log'[i].type # "fact_added"
  PROVE  Committed' = Committed
BY FactsKept DEF Extends, LogExtends, New

\* What is not about a settled step.
LEMMA TellsStay ==
  ASSUME TellInv, TypeOK', Extends, runStart' = runStart, pc' # "down", missing' \subseteq missing,
         \A i \in New : /\ log'[i].type # "fact_added"
                        /\ log'[i].step \notin missing \cup Committed
  PROVE  Tells'
<1>1. TypeOK /\ Committed' = Committed
  BY NoFactsNew DEF TellInv, SettleInv, TypeInv
<1>2. \A s \in missing : EndsWith(s, Failures)'
  BY <1>1, LastWordStays DEF TellInv, Tells
<1>3. \A s \in Committed : EndsWith(s, {"fact_added"})'
  BY <1>1, LastWordStays DEF TellInv, Tells
<1> QED  BY <1>1, <1>2, <1>3 DEF Tells

\* The step at hand is not settled yet.
LEMMA IdIsOpen ==
  ASSUME SettleInv, pc \in Running, pos <= Len(plan)
  PROVE  Id \in StepIds /\ Id \notin missing \cup Committed
<1>1. TypeOK /\ Committed \cup missing = Ids(1, pos - 1)
  BY DEF SettleInv, TypeInv, SettledOnce
<1> QED  BY <1>1, IdIsFresh

\* Python's None is the id of no step.
LEMMA NoneIsOpen ==
  ASSUME TellInv, pc \in Running \cup {"down"}
  PROVE  None \notin missing \cup Committed
<1>1. None \notin StepIds /\ missing \subseteq StepIds /\ TypeOK
  BY RuntimeAssumption DEF TellInv, SettleInv, TypeInv, TypeOK
<1>2. CASE pc = "down"
  <2>1. ThisRun = {}
    BY <1>1, <1>2, LogIndices DEF TellInv, Tells, ThisRun
  <2>2. Committed = {}
    BY <2>1 DEF Committed, Facts
  <2> QED  BY <1>1, <2>2
<1>3. CASE pc \in Running
  <2>1. Committed \subseteq Ids(1, pos - 1)
    BY <1>3 DEF TellInv, SettleInv, SettledOnce
  <2>2. \A k \in 1 .. pos - 1 : plan[k].id \in StepIds
    <3>1. /\ plan \in Plans \/ plan = <<>>
          /\ pos \in 1 .. Len(plan) + 1 /\ Len(plan) \in Nat /\ pos \in Nat
      BY <1>1, PlanLength DEF TypeOK
    <3>2. \A k \in 1 .. pos - 1 : k \in 1 .. Len(plan)
      BY <3>1
    <3>3. CASE plan \in Plans
      <4>1. plan \in Seq([id : StepIds, tool : STRING])
        BY <3>3, PlanAssumption
      <4>2. \A k \in 1 .. Len(plan) : plan[k] \in [id : StepIds, tool : STRING]
        BY <4>1, ElementOfSeq
      <4>3. \A e \in [id : StepIds, tool : STRING] : e.id \in StepIds
        OBVIOUS
      <4> QED  BY <3>2, <4>2, <4>3
    <3>4. CASE plan = <<>>
      <4>1. 1 .. pos - 1 = {}
        BY <3>1, <3>4
      <4> QED  BY <4>1
    <3> QED  BY <3>1, <3>3, <3>4
  <2> QED  BY <1>1, <2>1, <2>2 DEF Ids
<1> QED  BY <1>2, <1>3

LEMMA InitTells == Init => TellInv
<1> SUFFICES ASSUME Init PROVE TellInv
  OBVIOUS
<1>1. Committed = {} /\ missing = {} /\ runStart = Len(log)
  BY DEF Init, Committed, Facts, ThisRun
<1> QED  BY <1>1, InitSettles DEF TellInv, Tells

LEMMA GivesUpTells ==
  ASSUME TellInv, TypeOK', GivesUp
  PROVE  Tells'
<1> PICK s \in StepIds : s = Id
  BY IdIsOpen DEF GivesUp, TellInv
<1>1. /\ TypeOK /\ Extends /\ runStart' = runStart /\ New # {} /\ s \notin missing \cup Committed
      /\ \A i \in New : log'[i].step = s /\ log'[i].type \in Failures
  BY IdIsOpen DEF GivesUp, TellInv, SettleInv, TypeInv
<1>2. missing' = missing \cup {s} /\ pc' # "down"
  BY DEF GivesUp, Miss
<1>3. Committed' = Committed
  BY <1>1, NoFactsNew DEF Failures
<1>4. EndsWith(s, Failures)'
  BY <1>1, LastWordIsNew
<1>5. \A u \in missing : EndsWith(u, Failures)'
  BY <1>1, LastWordStays DEF TellInv, Tells
<1>6. \A u \in Committed : EndsWith(u, {"fact_added"})'
  BY <1>1, LastWordStays DEF TellInv, Tells
<1> QED  BY <1>2, <1>3, <1>4, <1>5, <1>6 DEF Tells

LEMMA CommitTells ==
  ASSUME TellInv, TypeOK', NEW d \in Nat, Commit(d)
  PROVE  Tells'
<1>1. /\ pc \in Running /\ pos <= Len(plan) /\ TypeInv /\ TypeOK /\ pc = "call"
  BY AtACall DEF Commit, Calling, TellInv, SettleInv, TypeInv, Running, InStep
<1> PICK s \in StepIds : s = Id
  BY <1>1, IdIsOpen DEF TellInv
<1> PICK n \in Nat : n = Len(log) + 1
  BY <1>1, LogIndices
<1>2. /\ Called("fact_added", d, d) \in Event /\ Called("fact_added", d, d).step = s
      /\ Called("fact_added", d, d).type = "fact_added"
      /\ log' = Append(log, Called("fact_added", d, d))
  BY <1>1, CalledEvent DEF Commit, EventTypes
<1>3. /\ Extends /\ New = {n} /\ log'[n].step = s /\ log'[n].type = "fact_added"
      /\ UNCHANGED <<missing, runStart>> /\ pc' # "down" /\ s \notin missing \cup Committed
  BY <1>1, <1>2, AppendExtends, IdIsOpen DEF Commit, TellInv
<1>4. Committed' = Committed \cup {s}
  <2>1. LogExtends /\ Len(log') = Len(log) + 1
    BY <1>1, <1>2, <1>3, AppendProperties DEF Extends, LogExtends, TypeOK
  <2> QED  BY <1>1, <1>3, <2>1, FactAdded
<1>5. EndsWith(s, {"fact_added"})'
  BY <1>1, <1>3, LastWordIsNew
<1>6. \A u \in missing : EndsWith(u, Failures)'
  BY <1>1, <1>3, LastWordStays DEF TellInv, Tells
<1>7. \A u \in Committed : EndsWith(u, {"fact_added"})'
  BY <1>1, <1>3, LastWordStays DEF TellInv, Tells
<1> QED  BY <1>3, <1>4, <1>5, <1>6, <1>7 DEF Tells

LEMMA TellsKept == TellInv /\ [Next]_vars => TellInv'
<1> SUFFICES ASSUME TellInv, [Next]_vars PROVE Tells'
  BY SettlesKept DEF TellInv
<1>0. SettleInv /\ SettleInv' /\ TypeInv /\ TypeOK /\ TypeOK'
  BY SettlesKept DEF TellInv, SettleInv, TypeInv
<1>1. CASE Boot
  <2>1. /\ Plain("composition") \in Event /\ Plain("composition").step = None
        /\ Plain("composition").type = "composition"
        /\ log' = Append(log, Plain("composition"))
    BY <1>1, PlainEvent DEF Boot, EventTypes
  <2>2. /\ Extends
        /\ \A i \in New : log'[i].type = "composition" /\ log'[i].step = None
    BY <1>0, <2>1, AppendExtends
  <2>3. None \notin missing \cup Committed
    BY <1>1, NoneIsOpen DEF Boot
  <2>4. UNCHANGED <<missing, runStart>> /\ pc' # "down"
    BY <1>1 DEF Boot
  <2> QED  BY <1>0, <2>2, <2>3, <2>4, TellsStay
<1>2. CASE Crash
  <2>1. runStart' = Len(log') /\ missing' = {} /\ ThisRun' = {}
    BY <1>0, <1>2, LogIndices DEF Crash, NoRun, ThisRun
  <2>2. Committed' = {}
    BY <2>1 DEF Committed, Facts
  <2> QED  BY <2>1, <2>2 DEF Tells
<1>3. ASSUME NEW p \in Plans, NEW d \in Nat, Submit(p, d)
      PROVE  Tells'
  <2>1. \A i \in ThisRun' : log'[i].type # "fact_added"
    BY <1>0, <1>3, SubmitLog, OpeningEvents DEF ThisRun
  <2>2. Committed' = {} /\ missing' = {} /\ pc' # "down"
    BY <1>3, <2>1 DEF Committed, Facts, Submit, Begin
  <2> QED  BY <2>2 DEF Tells
<1>4. CASE StartStep
  <2>1. /\ Id \in StepIds /\ Tool.trust \in TrustLevels /\ Id \notin missing \cup Committed
        /\ log' = Append(log, Labelled("step_started", Id, Tool.trust))
    BY <1>0, <1>4, IdIsOpen, RuntimeAssumption DEF StartStep, AtStep, Tool, Running
  <2>2. /\ Labelled("step_started", Id, Tool.trust) \in Event
        /\ Labelled("step_started", Id, Tool.trust).step = Id
        /\ Labelled("step_started", Id, Tool.trust).type = "step_started"
    <3>1. "step_started" \in EventTypes
      BY DEF EventTypes
    <3>2. Labelled("step_started", Id, Tool.trust).step = Id
      BY DEF Labelled, About, Plain
    <3> QED  BY <2>1, <3>1, <3>2, LabelledIsEvent
  <2>3. Extends /\ \A i \in New : log'[i].step = Id /\ log'[i].type = "step_started"
    BY <1>0, <2>1, <2>2, AppendExtends
  <2>4. UNCHANGED <<missing, runStart>> /\ pc' # "down"
    BY <1>4 DEF StartStep
  <2> QED  BY <1>0, <2>1, <2>3, <2>4, TellsStay
<1>5. CASE EndOfPlan \/ SelectProvider
  <2>1. UNCHANGED <<log, missing, runStart>> /\ pc' # "down"
    BY <1>5 DEF EndOfPlan, SelectProvider
  <2>2. Extends /\ New = {}
    BY <1>0, <2>1, SameExtends
  <2> QED  BY <1>0, <2>1, <2>2, TellsStay
<1>6. ASSUME NEW d \in Nat, NEW level \in TrustLevels, ToolOutput(level, d)
      PROVE  Tells'
  <2>1. /\ pos <= Len(plan) /\ pc \in Running
        /\ UNCHANGED <<missing, runStart>> /\ pc' # "down"
    BY <1>0, <1>6 DEF ToolOutput, TypeInv, Held, Running, InStep
  <2>2. /\ About("tool_output", Id) \in Event /\ About("tool_output", Id).step = Id
        /\ About("tool_output", Id).type = "tool_output"
        /\ log' = Append(log, About("tool_output", Id))
    BY <1>0, <1>6, <2>1, AboutEvent DEF ToolOutput, EventTypes
  <2>3. Extends /\ \A i \in New : log'[i].step = Id /\ log'[i].type = "tool_output"
    BY <1>0, <2>2, AppendExtends
  <2>4. Id \notin missing \cup Committed
    BY <1>0, <2>1, IdIsOpen
  <2> QED  BY <1>0, <2>1, <2>3, <2>4, TellsStay
<1>7. CASE TriesNext
  <2>1. /\ pos <= Len(plan) /\ pc \in Running
        /\ UNCHANGED <<missing, runStart>> /\ pc' # "down"
    BY <1>0, <1>7, AtACall DEF TriesNext, Retry, Running, InStep
  <2>2. Extends /\ \A i \in New : log'[i].step = Id /\ log'[i].type # "fact_added"
    BY <1>7 DEF TriesNext, Failures
  <2>3. Id \notin missing \cup Committed
    BY <1>0, <2>1, IdIsOpen
  <2> QED  BY <1>0, <2>1, <2>2, <2>3, TellsStay
<1>8. CASE Ends
  <2>1. runStart' = runStart /\ missing' \subseteq missing /\ pc' # "down" /\ Extends
    BY <1>8 DEF Ends, NoRun
  <2>2. \A i \in New : /\ pc = "answer"
                       /\ log'[i].step = None /\ log'[i].type # "fact_added"
    BY <1>8 DEF Ends
  <2>3. pc = "answer" => None \notin missing \cup Committed
    BY NoneIsOpen DEF Running
  <2> QED  BY <1>0, <2>1, <2>2, <2>3, TellsStay
<1>9. CASE UNCHANGED vars
  BY <1>9 DEF vars, TellInv, Tells, Committed, Facts, EndsWith, Mentions, ThisRun
<1> QED
  BY <1>0, <1>1, <1>2, <1>3, <1>4, <1>5, <1>6, <1>7, <1>8, <1>9, StepKinds, GivesUpTells,
     CommitTells DEF Kinds

\* The last event of a run about a missing step is a failure, and about a
\* committed one its fact, whatever came before: what failure.py classifies
\* is what happened.
THEOREM LedgerTells == Spec => []LedgerTellsEnding
<1>1. TellInv => LedgerTellsEnding
  <2> SUFFICES ASSUME TellInv PROVE LedgerTellsEnding
    OBVIOUS
  <2>1. ASSUME NEW s, NEW types, EndsWith(s, types)
        PROVE  Mentions(s) # {} /\ LastWord(s) \in types
    <3> PICK i \in Mentions(s) : (\A j \in Mentions(s) : j <= i) /\ log[i].type \in types
      BY <2>1 DEF EndsWith
    <3>1. Mentions(s) \in SUBSET Nat
      BY LogIndices DEF Mentions, ThisRun, TellInv, SettleInv, TypeInv
    <3>2. (CHOOSE k \in Mentions(s) : \A j \in Mentions(s) : j <= k) = i
      BY <3>1, LastOf
    <3> QED  BY <3>2 DEF LastWord
  <2> QED  BY <2>1 DEF TellInv, Tells, LedgerTellsEnding
<1> QED  BY <1>1, InitTells, TellsKept, PTL DEF Spec

----------------------------------------------------------------------------
(* The loop implements TaskContract.                                       *)

\* What the refinement mapping of RuntimeProperties reads off the state.
Rest(p, n) == [k \in 1 .. Len(p) - n + 1 |-> p[n + k - 1].id]
Todo == Rest(plan, pos)
CutSeen == \E i \in ThisRun : log[i].type \in Cuts

\* The loop goes on only in a run that was not cut, and the answer is reached
\* at the end of the plan or by the cut that the ledger shows.
CutShort ==
  /\ pc \in Running \ {"answer"} => ~ CutSeen
  /\ pc = "answer" => pos > Len(plan) \/ CutSeen

CutInv == SettleInv /\ CutShort

LEMMA CutGrows ==
  ASSUME TypeOK, Extends, runStart' = runStart
  PROVE  CutSeen' <=> CutSeen \/ \E i \in New : log'[i].type \in Cuts
<1>1. /\ Len(log) \in Nat /\ Len(log') \in Nat /\ runStart \in Nat
      /\ runStart <= Len(log) /\ Len(log) <= Len(log')
  BY LogIndices DEF Extends
<1>2. ThisRun' = ThisRun \cup New /\ ThisRun \subseteq 1 .. Len(log)
  BY <1>1 DEF ThisRun, New
<1>3. \A i \in ThisRun : log'[i] = log[i]
  BY <1>2 DEF Extends
<1> QED  BY <1>2, <1>3 DEF CutSeen

LEMMA RestIsSeq ==
  ASSUME NEW p \in Plans \cup {<<>>}, NEW n \in 1 .. Len(p) + 1
  PROVE  /\ n \in Nat /\ Len(p) \in Nat
         /\ Rest(p, n) \in Seq(StepIds) /\ Len(Rest(p, n)) = Len(p) - n + 1
         /\ \A k \in 1 .. Len(Rest(p, n)) : Rest(p, n)[k] = p[n + k - 1].id
<1>1. p \in Seq([id : StepIds, tool : STRING])
  BY PlanAssumption, EmptySeq
<1>2. Len(p) \in Nat /\ n \in Nat /\ n >= 1 /\ n <= Len(p) + 1
  BY <1>1
<1> PICK m \in Nat : m = Len(p) - n + 1
  BY <1>2
<1>3. \A k \in 1 .. m : n + k - 1 \in 1 .. Len(p)
  BY <1>2
<1>4. \A k \in 1 .. Len(p) : p[k].id \in StepIds
  <2>1. \A k \in 1 .. Len(p) : p[k] \in [id : StepIds, tool : STRING]
    BY <1>1, ElementOfSeq
  <2> QED  BY <2>1
<1>5. Rest(p, n) = [k \in 1 .. m |-> p[n + k - 1].id]
  BY DEF Rest
<1>6. Rest(p, n) \in [1 .. m -> StepIds]
  BY <1>3, <1>4, <1>5
<1>7. Rest(p, n) \in Seq(StepIds) /\ Len(Rest(p, n)) = m
  BY <1>6
<1> QED  BY <1>2, <1>5, <1>7

\* One step further in the plan is the tail of what is left.
LEMMA TodoTail ==
  ASSUME TypeOK, TypeOK', pos <= Len(plan), plan' = plan, pos' = pos + 1
  PROVE  Todo # <<>> /\ Head(Todo) = Id /\ Todo' = Tail(Todo)
<1>1. Len(plan) \in Nat /\ pos \in Nat /\ pos >= 1
  BY PlanLength DEF TypeOK
<1>2. /\ Todo \in Seq(StepIds) /\ Len(Todo) = Len(plan) - pos + 1
      /\ \A k \in 1 .. Len(Todo) : Todo[k] = plan[pos + k - 1].id
  BY RestIsSeq DEF TypeOK, Todo
<1>3. /\ Todo' \in Seq(StepIds) /\ Len(Todo') = Len(plan) - pos
      /\ \A k \in 1 .. Len(Todo') : Todo'[k] = plan[pos + k].id
  <2>1. /\ Todo' \in Seq(StepIds) /\ Len(Todo') = Len(plan') - pos' + 1
        /\ \A k \in 1 .. Len(Todo') : Todo'[k] = plan'[pos' + k - 1].id
    BY RestIsSeq DEF TypeOK, Todo
  <2>2. Len(plan') - pos' + 1 = Len(plan) - pos /\ \A k \in Nat : pos' + k - 1 = pos + k
    BY <1>1
  <2>3. \A k \in 1 .. Len(Todo') : k \in Nat
    BY <2>1
  <2>4. ASSUME NEW k \in 1 .. Len(Todo') PROVE Todo'[k] = plan[pos + k].id
    <3>1. Todo'[k] = plan'[pos' + k - 1].id /\ pos' + k - 1 = pos + k
      BY <2>1, <2>2, <2>3
    <3> QED  BY <3>1
  <2> QED  BY <2>1, <2>2, <2>4
<1>4. Todo # <<>> /\ Len(Todo) >= 1
  BY <1>1, <1>2, EmptySeq
<1>5. Head(Todo) = Id
  <2>1. Head(Todo) = Todo[1] /\ 1 \in 1 .. Len(Todo) /\ pos + 1 - 1 = pos
    BY <1>1, <1>2, <1>4
  <2> QED  BY <1>2, <2>1 DEF Id, Step
<1>6. /\ Tail(Todo) \in Seq(StepIds) /\ Len(Tail(Todo)) = Len(Todo) - 1
      /\ \A k \in 1 .. Len(Tail(Todo)) : Tail(Todo)[k] = Todo[k + 1]
  BY <1>2, <1>4, HeadTailProperties
<1> PICK m \in Nat : m = Len(plan) - pos
  BY <1>1
<1>7. Len(Todo') = m /\ Len(Tail(Todo)) = m /\ Len(Todo) = m + 1
  BY <1>1, <1>2, <1>3, <1>6
<1>8. ASSUME NEW k \in 1 .. m PROVE Todo'[k] = Tail(Todo)[k]
  <2>1. k + 1 \in 1 .. m + 1 /\ pos + (k + 1) - 1 = pos + k
    BY <1>1
  <2>2. Todo[k + 1] = plan[pos + k].id
    BY <1>2, <1>7, <2>1
  <2>3. Todo'[k] = plan[pos + k].id /\ Tail(Todo)[k] = Todo[k + 1]
    BY <1>3, <1>6, <1>7
  <2> QED  BY <2>2, <2>3
<1>9. Todo' = Tail(Todo)
  BY <1>3, <1>6, <1>7, <1>8, SeqEqual
<1> QED  BY <1>4, <1>5, <1>9

\* The kinds of steps, as steps of the contract.
Abiding == Contract!Next \/ UNCHANGED Contract!vars

\* No run before and none behind: nothing happened, or what there was is gone.
LEMMA AbandonAbides ==
  ASSUME pc' \notin Running \cup {"returned"}, missing' = {}, outcome' = None
  PROVE  Abiding
<1>1. pc' \notin Running /\ ~ Delivered'
  BY DEF Delivered
<1>2. Contract!Abandon
  BY <1>1 DEF Contract!Abandon
<1> QED  BY <1>2 DEF Contract!Next, Abiding

\* A step that settles nothing.
LEMMA StutterAbides ==
  ASSUME pc \in Running <=> pc' \in Running, Delivered <=> Delivered',
         UNCHANGED <<plan, pos, missing, outcome>>,
         Delivered => Committed' = Committed /\ (CutSeen' <=> CutSeen)
  PROVE  Abiding
<1>1. CASE Delivered
  <2>1. Delivered' /\ Committed' = Committed /\ (CutSeen' <=> CutSeen)
    BY <1>1
  <2> QED  BY <1>1, <2>1 DEF Contract!vars, CutSeen, Cuts, Abiding
<1>2. CASE ~ Delivered
  <2>1. ~ Delivered'
    BY <1>2
  <2> QED  BY <1>2, <2>1 DEF Contract!vars, Abiding
<1> QED  BY <1>1, <1>2

LEMMA SubmitAbides ==
  ASSUME CutInv, NEW p \in Plans, NEW d \in Nat, Submit(p, d)
  PROVE  Abiding /\ CutShort'
<1>1. /\ pc \notin Running /\ pc' = "loop" /\ pc' \in Running /\ Delivered'
      /\ plan' = p /\ pos' = 1 /\ missing' = {} /\ outcome' = None
  BY DEF Submit, Begin, Running, InStep, Delivered
<1>2. \A i \in ThisRun' : log'[i] \in Opening
  BY SubmitLog DEF ThisRun, CutInv, SettleInv, TypeInv
<1>3. Committed' = {} /\ ~ CutSeen'
  BY <1>2, OpeningEvents DEF Committed, Facts, CutSeen, Cuts
<1>4. Todo' = [k \in DOMAIN p |-> p[k].id]
  <2>1. p \in Seq([id : StepIds, tool : STRING]) /\ Len(p) \in Nat /\ DOMAIN p = 1 .. Len(p)
    <3>1. p \in Seq([id : StepIds, tool : STRING])
      BY PlanAssumption
    <3> QED  BY <3>1
  <2>2. Len(p) - 1 + 1 = Len(p) /\ \A k \in 1 .. Len(p) : 1 + k - 1 = k
    BY <2>1
  <2> QED  BY <1>1, <2>1, <2>2 DEF Todo, Rest
<1>5. Contract!Begin
  BY <1>1, <1>3, <1>4 DEF Contract!Begin, Todo, Rest, CutSeen, Cuts
<1> QED  BY <1>1, <1>3, <1>5 DEF Contract!Next, CutShort, Abiding

LEMMA CommitAbides ==
  ASSUME CutInv, TypeOK', NEW d \in Nat, Commit(d), outcome = None
  PROVE  Abiding /\ CutShort'
<1>1. /\ pc = "call" /\ pc \in Running \ {"answer"} /\ pc' = "loop" /\ pos <= Len(plan)
      /\ TypeInv /\ TypeOK /\ UNCHANGED <<plan, missing, outcome, runStart>> /\ pos' = pos + 1
  BY AtACall DEF Commit, Calling, CutInv, SettleInv, TypeInv, Running, InStep
<1>2. /\ pc \in Running /\ pc' \in Running /\ Delivered /\ Delivered' /\ ~ CutSeen
  BY <1>1 DEF Running, InStep, Delivered, CutInv, CutShort
<1>3. /\ Called("fact_added", d, d) \in Event /\ Called("fact_added", d, d).step = Id
      /\ Called("fact_added", d, d).type = "fact_added"
      /\ log' = Append(log, Called("fact_added", d, d))
  BY <1>1, FactEvent DEF Commit
<1>4. /\ Extends /\ New = {Len(log) + 1} /\ log'[Len(log) + 1] = Called("fact_added", d, d)
  BY <1>1, <1>3, AppendExtends
<1>5. Committed' = Committed \cup {Id}
  <2>1. LogExtends /\ Len(log') = Len(log) + 1
    BY <1>1, <1>3, <1>4, AppendProperties DEF Extends, LogExtends, TypeOK
  <2> QED  BY <1>1, <1>3, <1>4, <2>1, FactAdded
<1>6. ~ CutSeen'
  BY <1>1, <1>2, <1>3, <1>4, CutGrows DEF Cuts
<1>7. Todo # <<>> /\ Head(Todo) = Id /\ Todo' = Tail(Todo)
  BY <1>1, TodoTail
<1>8. Contract!Commit
  BY <1>1, <1>2, <1>5, <1>6, <1>7 DEF Contract!Commit, Todo, Rest, CutSeen, Cuts
<1> QED  BY <1>1, <1>6, <1>8 DEF Contract!Next, CutShort, Abiding

LEMMA GivesUpAbides ==
  ASSUME CutInv, TypeOK', GivesUp, outcome = None, outcome' = None
  PROVE  Abiding /\ CutShort'
<1>1. /\ pc \in Running \ {"answer"} /\ pc' \in {"loop", "answer"} /\ pos <= Len(plan)
      /\ TypeInv /\ TypeOK /\ UNCHANGED <<plan, runStart>> /\ pos' = pos + 1
      /\ missing' = missing \cup {Id} /\ Extends /\ Len(log) + 1 \in New
  BY DEF GivesUp, Miss, CutInv, SettleInv, TypeInv
<1>2. /\ pc \in Running /\ pc' \in Running /\ Delivered /\ Delivered' /\ ~ CutSeen
  BY <1>1 DEF Running, Delivered, CutInv, CutShort
<1>3. Committed' = Committed
  <2>1. \A i \in New : log'[i].type # "fact_added"
    BY DEF GivesUp, Failures
  <2> QED  BY <1>1, <2>1, NoFactsNew
<1>4. Todo # <<>> /\ Head(Todo) = Id /\ Todo' = Tail(Todo)
  BY <1>1, TodoTail
<1>5. Contract!Miss
  BY <1>1, <1>2, <1>3, <1>4 DEF Contract!Miss, Todo, Rest, CutSeen, Cuts
<1>6. CutShort'
  <2>1. pc' = "loop" => ~ CutSeen'
    BY <1>1, <1>2, CutGrows DEF GivesUp
  <2>2. pc' = "answer" => CutSeen'
    BY <1>1, CutGrows DEF GivesUp
  <2> QED  BY <1>1, <2>1, <2>2 DEF CutShort
<1> QED  BY <1>5, <1>6 DEF Contract!Next, Abiding

LEMMA EndsAbides ==
  ASSUME CutInv, TypeOK', Ends, outcome = None
  PROVE  Abiding /\ CutShort'
<1>1. CutShort'
  BY DEF Ends, CutShort, Running, InStep
<1>2. CASE pc' = "raised"
  <2>1. missing' = {} /\ outcome' = None /\ pc' \notin Running \cup {"returned"}
    BY <1>2 DEF Ends, NoRun, Running, InStep
  <2> QED  BY <1>1, <2>1, AbandonAbides
<1>3. CASE pc' = "returned"
  <2>1. /\ pc = "answer" /\ UNCHANGED <<plan, pos, missing, runStart>> /\ Extends
        /\ \A i \in New : log'[i].type \in {"declined", "answer_sent"}
        /\ TypeOK
    BY <1>3 DEF Ends, CutInv, SettleInv, TypeInv
  <2>2. /\ pc \in Running /\ pc' \notin Running /\ Delivered /\ Delivered'
    BY <1>3, <2>1 DEF Running, InStep, Delivered
  <2>3. Committed' = Committed /\ (CutSeen' <=> CutSeen)
    <3>1. \A i \in New : log'[i].type # "fact_added" /\ log'[i].type \notin Cuts
      BY <2>1 DEF Cuts
    <3> QED  BY <2>1, <3>1, NoFactsNew, CutGrows
  <2>4. Todo' = Todo
    BY <2>1 DEF Todo
  <2>5. Todo = <<>> \/ CutSeen
    <3>1. CASE pos > Len(plan)
      <4>1. /\ Todo \in Seq(StepIds) /\ Len(Todo) = Len(plan) - pos + 1
            /\ pos \in Nat /\ Len(plan) \in Nat /\ pos <= Len(plan) + 1
        BY <2>1, RestIsSeq DEF TypeOK, Todo
      <4>2. Len(Todo) = 0
        BY <3>1, <4>1
      <4> QED  BY <4>1, <4>2, EmptySeq
    <3> QED  BY <2>1, <3>1 DEF CutInv, CutShort
  <2>6. PICK status \in {"answered", "partial", "declined"} :
          /\ outcome'.status = status /\ outcome'.missing = missing /\ outcome' # None
          /\ status = "answered" => missing = {}
          /\ status = "partial" => missing # {}
    BY <1>3 DEF Ends
  <2>7. Contract!Return(status)
    BY <2>1, <2>2, <2>3, <2>4, <2>5, <2>6 DEF Contract!Return, Todo, Rest, CutSeen, Cuts
  <2> QED  BY <1>1, <2>7 DEF Contract!Next, Abiding
<1> QED  BY <1>2, <1>3 DEF Ends

LEMMA StepAbides == CutInv /\ [Next]_vars => Abiding /\ CutInv'
<1> SUFFICES ASSUME CutInv, [Next]_vars PROVE Abiding /\ CutShort'
  BY SettlesKept DEF CutInv
<1>0. SettleInv /\ SettleInv' /\ TypeInv /\ TypeOK /\ TypeOK'
  BY SettlesKept DEF CutInv, SettleInv, TypeInv
<1>1. (pc # "returned" => outcome = None) /\ (pc' # "returned" => outcome' = None)
  BY <1>0 DEF SettleInv, AnswerReached
<1>2. CASE Boot
  <2>1. /\ pc \notin Running \cup {"returned"} /\ pc' \notin Running \cup {"returned"}
        /\ UNCHANGED <<plan, pos, missing, outcome>>
    BY <1>2 DEF Boot, Running, InStep
  <2>2. CutShort'
    BY <2>1 DEF CutShort, Running
  <2> QED  BY <2>1, <2>2, StutterAbides DEF Delivered
<1>3. CASE Crash
  <2>1. pc' \notin Running \cup {"returned"} /\ missing' = {} /\ outcome' = None
    BY <1>3 DEF Crash, NoRun, Running, InStep
  <2>2. CutShort'
    BY <2>1 DEF CutShort, Running
  <2> QED  BY <2>1, <2>2, AbandonAbides
<1>4. ASSUME NEW p \in Plans, NEW d \in Nat, Submit(p, d)
      PROVE  Abiding /\ CutShort'
  BY <1>4, SubmitAbides
<1>5. ASSUME pc \in Running \ {"answer"}, pc' \in Running, pc' = "answer" => pos > Len(plan),
             UNCHANGED <<plan, pos, missing, runStart>>, Extends,
             \A i \in New : log'[i].type \notin Cuts \cup {"fact_added"}
      PROVE  Abiding /\ CutShort'
  <2>1. Committed' = Committed /\ (CutSeen' <=> CutSeen)
    BY <1>0, <1>5, NoFactsNew, CutGrows
  <2>2. outcome = None /\ outcome' = None /\ Delivered /\ Delivered'
    BY <1>1, <1>5 DEF Running, InStep, Delivered
  <2>3. CutShort'
    BY <1>5, <2>1 DEF CutInv, CutShort
  <2> QED  BY <1>5, <2>1, <2>2, <2>3, StutterAbides
<1>6. CASE StartStep
  <2>1. /\ Id \in StepIds /\ Tool.trust \in TrustLevels
        /\ log' = Append(log, Labelled("step_started", Id, Tool.trust))
    BY <1>0, <1>6, AtAPlace, RuntimeAssumption DEF StartStep, AtStep, Tool
  <2>2. "step_started" \in EventTypes /\ "step_started" \notin Cuts \cup {"fact_added"}
    BY DEF EventTypes, Cuts
  <2>3. /\ Labelled("step_started", Id, Tool.trust) \in Event
        /\ Labelled("step_started", Id, Tool.trust).type = "step_started"
    BY <2>1, <2>2, LabelledIsEvent
  <2>4. Extends /\ \A i \in New : log'[i].type \notin Cuts \cup {"fact_added"}
    BY <1>0, <2>1, <2>2, <2>3, AppendExtends
  <2>5. /\ pc \in Running \ {"answer"} /\ pc' \in Running \ {"answer"}
        /\ UNCHANGED <<plan, pos, missing, runStart>>
    BY <1>6 DEF StartStep, AtStep, Running, InStep
  <2> QED  BY <1>5, <2>4, <2>5
<1>7. CASE EndOfPlan \/ SelectProvider
  <2>1. /\ pc \in Running \ {"answer"} /\ pc' \in Running /\ (pc' = "answer" => pos > Len(plan))
        /\ UNCHANGED <<log, plan, pos, missing, runStart>>
    BY <1>7 DEF EndOfPlan, SelectProvider, Running, InStep
  <2>2. Extends /\ New = {}
    BY <1>0, <2>1, SameExtends
  <2> QED  BY <1>5, <2>1, <2>2
<1>8. ASSUME NEW d \in Nat, NEW level \in TrustLevels, ToolOutput(level, d)
      PROVE  Abiding /\ CutShort'
  <2>1. /\ pc \in Running \ {"answer"} /\ pc' \in Running \ {"answer"} /\ pos <= Len(plan)
        /\ UNCHANGED <<plan, pos, missing, runStart>>
    BY <1>0, <1>8 DEF ToolOutput, TypeInv, Held, Running, InStep
  <2>2. "tool_output" \in EventTypes /\ "tool_output" \notin Cuts \cup {"fact_added"}
    BY DEF EventTypes, Cuts
  <2>3. /\ About("tool_output", Id) \in Event /\ About("tool_output", Id).type = "tool_output"
        /\ log' = Append(log, About("tool_output", Id))
    BY <1>0, <1>8, <2>1, <2>2, AboutEvent DEF ToolOutput
  <2>4. Extends /\ \A i \in New : log'[i].type \notin Cuts \cup {"fact_added"}
    BY <1>0, <2>2, <2>3, AppendExtends
  <2> QED  BY <1>5, <2>1, <2>4
<1>9. CASE TriesNext
  <2>1. /\ pc \in Running \ {"answer"} /\ pc' \in Running \ {"answer"}
        /\ UNCHANGED <<plan, pos, missing, runStart>> /\ Extends
    BY <1>9 DEF TriesNext, Retry, Running, InStep
  <2>2. \A i \in New : log'[i].type \notin Cuts \cup {"fact_added"}
    BY <1>9 DEF TriesNext, Failures
  <2> QED  BY <1>5, <2>1, <2>2
<1>10. ASSUME NEW d \in Nat, Commit(d)
       PROVE  Abiding /\ CutShort'
  <2>1. outcome = None
    BY <1>1, <1>10 DEF Commit, Calling
  <2> QED  BY <1>0, <1>10, <2>1, CommitAbides
<1>11. CASE GivesUp
  <2>1. outcome = None /\ outcome' = None
    BY <1>1, <1>11 DEF GivesUp, Miss, Running, InStep
  <2> QED  BY <1>0, <1>11, <2>1, GivesUpAbides
<1>12. CASE Ends
  <2>1. CASE outcome = None
    BY <1>0, <1>12, <2>1, EndsAbides
  <2>2. CASE outcome # None
    <3>1. pc = "returned"
      BY <1>1, <2>2
    <3>2. pc' = "raised" /\ missing' = {} /\ outcome' = None
      BY <1>12, <3>1 DEF Ends, NoRun
    <3>3. CutShort' /\ pc' \notin Running \cup {"returned"}
      BY <3>2 DEF CutShort, Running, InStep
    <3> QED  BY <3>2, <3>3, AbandonAbides
  <2> QED  BY <2>1, <2>2
<1>13. CASE UNCHANGED vars
  <2>1. UNCHANGED <<log, pc, plan, pos, missing, outcome, runStart>>
    BY <1>13 DEF vars
  <2>2. Committed' = Committed /\ (CutSeen' <=> CutSeen) /\ (Delivered <=> Delivered')
    BY <2>1 DEF Committed, Facts, CutSeen, ThisRun, Delivered
  <2>3. CutShort'
    BY <2>1, <2>2 DEF CutInv, CutShort
  <2> QED  BY <2>1, <2>2, <2>3, StutterAbides
<1> QED
  BY <1>0, <1>2, <1>3, <1>4, <1>6, <1>7, <1>8, <1>9, <1>10, <1>11, <1>12, <1>13, StepKinds
     DEF Kinds

LEMMA InitAbides == Init => Contract!Init /\ CutInv
<1> SUFFICES ASSUME Init PROVE Contract!Init /\ CutInv
  OBVIOUS
<1>1. pc \notin Running \cup {"returned"}
  BY DEF Init, Running, InStep
<1>2. Contract!Init
  BY <1>1 DEF Init, Contract!Init, Delivered
<1> QED  BY <1>1, <1>2, InitSettles DEF CutInv, CutShort, Running

\* The main loop implements TaskContract: every run of it, with its retries,
\* rejections, cuts, exceptions and restarts, settles the steps of each plan
\* one at a time and in order, and returns an outcome that agrees with them.
THEOREM Implements == Spec => KeepsContract
<1>1. Abiding => [Contract!Next]_(Contract!vars)
  BY DEF Abiding
<1>2. Spec => []CutInv
  BY InitAbides, StepAbides, PTL DEF Spec
<1>3. Spec => Contract!Init /\ [][Contract!Next]_(Contract!vars)
  BY <1>1, <1>2, InitAbides, StepAbides, PTL DEF Spec
<1> QED  BY <1>3 DEF KeepsContract, Contract!Spec

----------------------------------------------------------------------------
(* What an outcome leaves unsaid.                                          *)

\* The outcome carries what the run missed, and is given at the end of the
\* plan or behind a cut.
Told ==
  outcome # None =>
    /\ pc = "returned" /\ outcome.missing = missing
    /\ pos > Len(plan) \/ CutSeen

ToldInv == CutInv /\ Told

LEMMA ToldKept == ToldInv /\ [Next]_vars => ToldInv'
<1> SUFFICES ASSUME ToldInv, [Next]_vars, outcome' # None
             PROVE  /\ pc' = "returned" /\ (outcome').missing = missing'
                    /\ pos' > Len(plan') \/ CutSeen'
  BY StepAbides DEF ToldInv, Told
<1>0. /\ TypeInv /\ TypeOK /\ TypeOK' /\ SettleInv' /\ CutShort /\ Told
  BY StepAbides, SettlesKept DEF ToldInv, CutInv, SettleInv, TypeInv
<1>1. pc' = "returned"
  BY <1>0 DEF SettleInv, AnswerReached
<1>2. CASE Ends
  <2>1. /\ pc = "answer" /\ UNCHANGED <<plan, pos, missing, runStart>> /\ Extends
        /\ (outcome').missing = missing
    BY <1>1, <1>2 DEF Ends
  <2>2. CutSeen => CutSeen'
    BY <1>0, <2>1, CutGrows
  <2> QED  BY <1>0, <1>1, <2>1, <2>2 DEF CutShort
<1>3. CASE UNCHANGED vars
  <2>1. CutSeen' <=> CutSeen
    BY <1>3 DEF vars, CutSeen, ThisRun
  <2> QED  BY <1>0, <1>1, <1>3, <2>1 DEF vars, Told
<1>4. ASSUME \/ Boot \/ Crash \/ StartStep \/ EndOfPlan \/ SelectProvider \/ GivesUp \/ TriesNext
             \/ \E p \in Plans, d \in Nat : Submit(p, d)
             \/ \E level \in TrustLevels, d \in Nat : ToolOutput(level, d)
             \/ \E d \in Nat : Commit(d)
      PROVE  pc' # "returned"
  BY <1>4 DEF Boot, Crash, StartStep, EndOfPlan, SelectProvider, GivesUp, Miss, TriesNext, Retry,
              Submit, ToolOutput, Commit
<1> QED  BY <1>0, <1>1, <1>2, <1>3, <1>4, StepKinds DEF Kinds

\* The steps that an outcome passes over in silence are those the loop never
\* came to, and there are such steps only behind a cut: a run that was not cut
\* accounts for every step of its plan (run() and _answer()).
THEOREM SilentOnlyBehindCut ==
  Spec => [](/\ outcome # None =>
                  Ids(1, Len(plan)) \ (Committed \cup outcome.missing) = Ids(pos, Len(plan))
             /\ ~ CutSeen => GapsNamed)
<1>1. ToldInv => /\ outcome # None =>
                      Ids(1, Len(plan)) \ (Committed \cup outcome.missing) = Ids(pos, Len(plan))
                 /\ ~ CutSeen => GapsNamed
  <2> SUFFICES ASSUME ToldInv, outcome # None
               PROVE  /\ Ids(1, Len(plan)) \ (Committed \cup outcome.missing) = Ids(pos, Len(plan))
                      /\ ~ CutSeen => Ids(1, Len(plan)) \subseteq Committed \cup outcome.missing
    BY DEF GapsNamed
  <2>1. Committed \cup outcome.missing = Ids(1, pos - 1) /\ TypeOK
    BY DEF ToldInv, Told, CutInv, SettleInv, TypeInv, SettledOnce
  <2>2. /\ Len(plan) \in Nat /\ pos \in Nat /\ 1 <= pos /\ pos <= Len(plan) + 1
        /\ DOMAIN plan = 1 .. Len(plan)
        /\ \A i, j \in DOMAIN plan : plan[i].id = plan[j].id => i = j
    <3>1. plan \in Seq([id : StepIds, tool : STRING])
          /\ \A i, j \in DOMAIN plan : plan[i].id = plan[j].id => i = j
      <4>1. CASE plan \in Plans
        BY <4>1, PlanAssumption
      <4>2. CASE plan = <<>>
        BY <4>2
      <4> QED  BY <2>1, <4>1, <4>2 DEF TypeOK
    <3>2. DOMAIN plan = 1 .. Len(plan)
      BY <3>1
    <3> QED  BY <2>1, <3>1, <3>2, PlanLength DEF TypeOK
  <2>3. \A k \in 1 .. Len(plan) : k \in 1 .. pos - 1 \/ k \in pos .. Len(plan)
    BY <2>2
  <2>4. \A k \in pos .. Len(plan) : k \in 1 .. Len(plan) /\ k \notin 1 .. pos - 1
    BY <2>2
  <2>5. \A k \in 1 .. pos - 1 : k \in 1 .. Len(plan)
    BY <2>2
  <2>6. Ids(1, Len(plan)) \ Ids(1, pos - 1) = Ids(pos, Len(plan))
    BY <2>2, <2>3, <2>4, <2>5 DEF Ids
  <2>7. ~ CutSeen => Ids(pos, Len(plan)) = {}
    <3>1. pos > Len(plan) => pos .. Len(plan) = {}
      BY <2>2
    <3> QED  BY <3>1 DEF ToldInv, Told, Ids
  <2> QED  BY <2>1, <2>6, <2>7
<1>2. Init => ToldInv
  BY InitAbides DEF Init, ToldInv, Told
<1> QED  BY <1>1, <1>2, ToldKept, PTL DEF Spec
=============================================================================
