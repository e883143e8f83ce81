------------------------------ MODULE Runtime ------------------------------
(***************************************************************************)
(* The main loop of runtime.py, with the budget and the breakers           *)
(* (budget.py), the hooks where the loop calls them (hooks.py), and the    *)
(* projection that is compared before every provider call (ledger.py).     *)
(*                                                                         *)
(* One process runs one plan at a time; `pc` names the phase it is in.  An *)
(* action is the code up to the end of a phase with what it appends to the *)
(* ledger; events that nothing can come between are appended together.     *)
(* The process may die between any two actions and be booted again on the  *)
(* same ledger.  A provider, a tool and a listener answer as they like.    *)
(***************************************************************************)
EXTENDS Selection, Integers, Sequences

CONSTANTS
  StepIds,     \* the ids a plan may use
  Plans,       \* the plans a caller may submit: sequences of [id, tool]
  Tools,       \* tool name -> [trust, reducer, schema, mime]
  WallLimit,   \* Limit.wall_ms, in ticks
  MaxSteps,    \* Breakers.max_steps
  MaxRetries,  \* Breakers.max_retries_per_step
  QualityFloor,\* the runtime's quality_floor, or None
  RejectTypes, \* the events a listener names when it raises Rejected
  Ticks,       \* the durations a tool or a provider call may take
  Faults,      \* which of the faults below the environment commits
  MaxRuns,     \* bound on run() calls over the life of the ledger
  MaxBoots     \* bound on processes over the life of the ledger

(***************************************************************************)
(* "crash"          the process dies                                       *)
(* "relabel"        a tool or an on_output listener hands over a payload   *)
(*                  whose trust is not the tool's declared trust_out       *)
(* "output_reject"  an on_output listener raises Rejected                  *)
(* "listener_error" a listener or a tool raises what the loop does not     *)
(*                  expect of it (HookError, for one)                      *)
(* "adapter_error"  adapter.load raises, or adapter.run raises anything    *)
(*                  but ProviderError                                      *)
(* "unload_error"   adapter.unload raises UnwindError                      *)
(***************************************************************************)
FaultKinds == {"crash", "relabel", "output_reject", "listener_error",
               "adapter_error", "unload_error"}

ASSUME RuntimeAssumption ==
  /\ WallLimit \in Nat /\ MaxSteps \in Nat /\ MaxRetries \in Nat
  /\ Ticks \subseteq Nat
  /\ Faults \subseteq FaultKinds
  /\ RejectTypes \subseteq {"validation_failed", "tool_failed"}
  /\ None \notin StepIds \cup TrustLevels
  /\ QualityFloor \in Nat \cup {None}
  /\ \A t \in DOMAIN Tools : Tools[t].trust \in TrustLevels

\* No code checks that the ids of a plan differ; every caller in the
\* repository numbers its steps, and everything below relies on it.
ASSUME PlanAssumption ==
  \A p \in Plans :
    /\ p \in Seq([id : StepIds, tool : STRING])
    /\ \A i, j \in DOMAIN p : p[i].id = p[j].id => i = j

VARIABLES
  log,      \* events.jsonl: what every append has put on disk, in order
  pc,       \* the phase of the process
  plan,     \* run()'s argument
  pos,      \* the place in the plan
  missing,  \* run()'s list of missing steps
  steps,    \* BreakerState.steps
  retries,  \* BreakerState.retries, 0 for a step that is not a key
  elapsed,  \* Budget.elapsed_ms in ticks, saturating at WallLimit
  tried,    \* _reduce's set of providers
  raw,      \* the trust of the payload that _reduce holds, or None
  prov,     \* the provider _reduce selected, or None
  outcome,  \* what run() returned
  runStart  \* history: the length of the ledger when run() was called

memory == <<steps, retries, elapsed>>
reduce == <<tried, raw, prov>>
vars == <<log, pc, plan, pos, missing, memory, reduce, outcome, runStart>>

----------------------------------------------------------------------------
(* Events.  `label` is the trust that step_started records; on a fact it is *)
(* a history field, the trust of the payload the fact was made from.  `ms`  *)
(* is what the call is charged and `took`, a history field, what it took.  *)

EventTypes ==
  {"composition", "user_input", "policy_snapshot", "plan_created",
   "step_started", "tool_output", "tool_empty", "tool_failed",
   "validation_failed", "capability_gap", "step_failed", "fact_added",
   "budget_exhausted", "breaker_tripped", "answer_sent", "declined"}

Event ==
  [type : EventTypes, step : StepIds \cup {None}, provider : Providers \cup {None},
   label : TrustLevels \cup {None}, ms : Nat, took : Nat]

Plain(type) ==
  [type |-> type, step |-> None, provider |-> None, label |-> None, ms |-> 0, took |-> 0]

About(type, s) == [Plain(type) EXCEPT !.step = s]
Labelled(type, s, level) == [About(type, s) EXCEPT !.label = level]

Attempt(type, s, p, level, ms, took) ==
  [Labelled(type, s, level) EXCEPT !.provider = p, !.ms = ms, !.took = took]

Places(type) == {i \in DOMAIN log : log[i].type = type}
ThisRun == runStart + 1 .. Len(log)

----------------------------------------------------------------------------
(* The budget and the breakers.                                            *)

\* A mutant: max_steps is compared before the step is counted.
TrippedLate == steps > MaxSteps

Exceeded == elapsed >= WallLimit
RemainingMs == WallLimit - elapsed
Elapse(d) == elapsed' = IF elapsed + d > WallLimit THEN WallLimit ELSE elapsed + d

NoteStep == steps' = steps + 1
Tripped == steps + 1 > MaxSteps

NoteRetry(s) == retries' = [retries EXCEPT ![s] = @ + 1]
RetriesSpent(s) == retries[s] + 1 > MaxRetries

----------------------------------------------------------------------------
(* The projection of section 4.5.                                          *)

Starts(s) == {i \in Places("step_started") : log[i].step = s}

\* The label project() gives the payload: the last step_started of the step.
DeclaredTrust(s) ==
  log[CHOOSE i \in Starts(s) : \A j \in Starts(s) : j <= i].label

\* A mutant: the last step_started of the whole ledger labels every fact.
FactTrustLast(i) == DeclaredTrust(log[i].step)

\* The label project() gives the fact at place i: the last step_started of
\* its step among the events before it.
FactTrust(i) ==
  LET before == {j \in Starts(log[i].step) : j < i}
  IN  IF before = {} THEN "T1"
      ELSE log[CHOOSE j \in before : \A k \in before : k <= j].label

\* A mutant: project() leaves nothing out.
AllowedAll(ceiling) == IF ceiling \in TrustLevels THEN TrustLevels ELSE {}

AllowedBy(ceiling) == IF ceiling = "T2" THEN {"T2"} ELSE TrustLevels

\* The facts of other steps that go into a call for step s.
ProjectedFacts(s, ceiling) ==
  {i \in Places("fact_added") : log[i].step # s /\ FactTrust(i) \in AllowedBy(ceiling)}

\* A mutant: assert_visible is not called.
VisibleUnchecked(s) == s \in StepIds

\* assert_visible: what is held against what the ledger accounts for.
Visible(s) == raw = DeclaredTrust(s)

----------------------------------------------------------------------------
(* A process: composition.boot on a new or a resumed ledger, and a death.  *)

FreshMemory ==
  /\ steps' = 0
  /\ retries' = [s \in StepIds |-> 0]
  /\ elapsed' = 0

NoReduce == tried' = {} /\ raw' = None /\ prov' = None

NoRun ==
  /\ plan' = <<>> /\ pos' = 1 /\ missing' = {}
  /\ outcome' = None
  /\ NoReduce

Init ==
  /\ log = <<>>
  /\ pc = "down"
  /\ plan = <<>> /\ pos = 1 /\ missing = {}
  /\ steps = 0 /\ retries = [s \in StepIds |-> 0] /\ elapsed = 0
  /\ tried = {} /\ raw = None /\ prov = None
  /\ outcome = None
  /\ runStart = 0

\* The process resumes the ledger, appends its composition and builds a
\* Runtime with a new Budget and new breakers.
Boot ==
  /\ pc = "down"
  /\ Cardinality(Places("composition")) < MaxBoots
  /\ log' = Append(log, Plain("composition"))
  /\ pc' = "ready"
  /\ FreshMemory
  /\ UNCHANGED <<plan, pos, missing, reduce, outcome, runStart>>

\* Every append has been synced, so the ledger is all that is left.
Crash ==
  /\ "crash" \in Faults
  /\ pc # "down"
  /\ pc' = "down"
  /\ FreshMemory
  /\ NoRun
  /\ runStart' = Len(log)
  /\ UNCHANGED log

\* An exception that run() does not catch: the caller gets no Outcome.  The
\* Runtime, its budget and its breakers live on.
Raised(d) ==
  /\ Elapse(d)
  /\ pc' = "raised"
  /\ NoRun
  /\ UNCHANGED <<steps, retries, runStart>>

Escape(d) == Raised(d) /\ UNCHANGED log

----------------------------------------------------------------------------
(* run(): the loop over the plan.                                          *)

Step == plan[pos]
Id == Step.id
Tool == Tools[Step.tool]

\* A mutant: a failed step is not appended to `missing`.
MissSilently(next) ==
  /\ UNCHANGED missing
  /\ pos' = pos + 1
  /\ pc' = next
  /\ NoReduce

\* The step is not committed: missing.append(step.id), and on to the next.
Miss(next) ==
  /\ missing' = missing \cup {Id}
  /\ pos' = pos + 1
  /\ pc' = next
  /\ NoReduce

\* A mutant: the loop goes on at its old place.
BeginStale(p) == plan' = p /\ missing' = {} /\ UNCHANGED pos

Begin(p) == plan' = p /\ missing' = {} /\ pos' = 1

\* d is the time the Runtime was idle: its budget's clock does not stop.
Submit(p, d) ==
  /\ pc \in {"ready", "returned", "raised"}
  /\ Cardinality(Places("user_input")) < MaxRuns
  /\ LET snapshot == IF DOMAIN Rows # {} \/ QualityFloor # None
                     THEN <<Plain("policy_snapshot")>> ELSE <<>>
     IN  log' = log \o <<Plain("user_input")>> \o snapshot \o <<Plain("plan_created")>>
  /\ runStart' = Len(log)
  /\ Begin(p)
  /\ outcome' = None
  /\ pc' = "loop"
  /\ Elapse(d)
  /\ UNCHANGED <<steps, retries, reduce>>

AtStep == pc = "loop" /\ pos <= Len(plan)

\* Mutants: the step the loop is cut at is not missing; `continue` for `break`.
ExhaustSilently ==
  /\ AtStep /\ Exceeded
  /\ log' = Append(log, About("budget_exhausted", Id))
  /\ MissSilently("answer")
  /\ UNCHANGED <<plan, memory, outcome, runStart>>

ExhaustContinues ==
  /\ AtStep /\ Exceeded
  /\ log' = Append(log, About("budget_exhausted", Id))
  /\ Miss("loop")
  /\ UNCHANGED <<plan, memory, outcome, runStart>>

ExhaustBudget ==
  /\ AtStep /\ Exceeded
  /\ log' = Append(log, About("budget_exhausted", Id))
  /\ Miss("answer")
  /\ UNCHANGED <<plan, memory, outcome, runStart>>

TripBreaker ==
  /\ AtStep /\ ~Exceeded /\ Tripped
  /\ NoteStep
  /\ log' = Append(log, About("breaker_tripped", Id))
  /\ Miss("answer")
  /\ UNCHANGED <<plan, retries, elapsed, outcome, runStart>>

NoSuchTool ==
  /\ AtStep /\ ~Exceeded /\ ~Tripped
  /\ Step.tool \notin DOMAIN Tools
  /\ NoteStep
  /\ log' = Append(log, About("tool_failed", Id))
  /\ Miss("loop")
  /\ UNCHANGED <<plan, retries, elapsed, outcome, runStart>>

StartStep ==
  /\ AtStep /\ ~Exceeded /\ ~Tripped
  /\ Step.tool \in DOMAIN Tools
  /\ NoteStep
  /\ log' = Append(log, Labelled("step_started", Id, Tool.trust))
  /\ pc' = "execute"
  /\ UNCHANGED <<plan, pos, missing, retries, elapsed, reduce, outcome, runStart>>

EndOfPlan ==
  /\ pc = "loop" /\ pos > Len(plan)
  /\ pc' = "answer"
  /\ UNCHANGED <<log, plan, pos, missing, memory, reduce, outcome, runStart>>

----------------------------------------------------------------------------
(* _run_step: PREPARE and EXECUTE.                                         *)

\* The step ends with one event and no fact: an on_prepare listener rejects
\* (RejectTypes), the arguments do not match the input schema
\* (validation_failed), the world refuses (tool_failed), or the output that
\* comes out of on_output is empty (tool_empty).
StepEndings == RejectTypes \cup {"validation_failed", "tool_failed", "tool_empty"}

StepFails(type, d) ==
  /\ pc = "execute"
  /\ Elapse(d)
  /\ log' = Append(log, About(type, Id))
  /\ Miss("loop")
  /\ UNCHANGED <<plan, steps, retries, outcome, runStart>>

\* The blob and tool_output are written, and _reduce starts with nothing tried.
ToolOutput(level, d) ==
  /\ pc = "execute"
  /\ level = Tool.trust \/ "relabel" \in Faults
  /\ Elapse(d)
  /\ log' = Append(log, About("tool_output", Id))
  /\ raw' = level /\ tried' = {}
  /\ pc' = "select"
  /\ UNCHANGED <<plan, pos, missing, steps, retries, prov, outcome, runStart>>

\* on_output runs outside the try block of _run_step, which catches nothing
\* but Rejected and WorldError anyway.
StepEscapes(d) ==
  /\ pc = "execute"
  /\ Faults \cap {"output_reject", "listener_error"} # {}
  /\ Escape(d)

----------------------------------------------------------------------------
(* _reduce: REDUCE, VALIDATE, COMMIT.                                      *)

Request ==
  [cap |-> Tool.reducer, schema |-> Tool.schema, trust |-> raw, mime |-> Tool.mime,
   exclude |-> tried, floor |-> QualityFloor, ms |-> RemainingMs]

\* Mutants: a gap that writes no event, and one that is not caught.
GapSilent ==
  /\ pc = "select"
  /\ Pool(Request) = {}
  /\ Miss("loop")
  /\ UNCHANGED <<log, plan, memory, outcome, runStart>>

GapUncaught ==
  /\ pc = "select"
  /\ Pool(Request) = {}
  /\ Escape(0)

Gap ==
  /\ pc = "select"
  /\ Pool(Request) = {}
  /\ log' = Append(log, About("capability_gap", Id))
  /\ Miss("loop")
  /\ UNCHANGED <<plan, memory, outcome, runStart>>

\* A mutant: only the last provider is left out of the next choice.
SelectForgetful ==
  /\ pc = "select"
  /\ Pool(Request) # {}
  /\ prov' = Select(Request)
  /\ tried' = {}
  /\ pc' = "call"
  /\ UNCHANGED <<log, plan, pos, missing, memory, raw, outcome, runStart>>

SelectProvider ==
  /\ pc = "select"
  /\ Pool(Request) # {}
  /\ prov' = Select(Request)
  /\ tried' = tried \cup {prov'}
  /\ pc' = "call"
  /\ UNCHANGED <<log, plan, pos, missing, memory, raw, outcome, runStart>>

\* assert_visible, the adapter, or a listener at on_commit raises: before the
\* call, or after it.
CallEscapes(d) ==
  /\ pc = "call"
  /\ \/ ~Visible(Id)
     \/ Faults \cap {"adapter_error", "unload_error", "listener_error"} # {}
  /\ Escape(d)

Calling == pc = "call" /\ Visible(Id)

Called(type, ms, d) == Attempt(type, Id, prov, raw, ms, d)

Retry ==
  /\ pc' = "select"
  /\ prov' = None
  /\ UNCHANGED <<pos, missing, tried, raw>>

\* The provider raises (tool_failed, recorded with a duration of 0), or its
\* record is refused: below the manifest's confidence floor or by the
\* validation ladder (validation_failed).
AttemptFails(type, d) ==
  /\ Calling
  /\ Elapse(d)
  /\ NoteRetry(Id)
  /\ LET event == Called(type, IF type = "tool_failed" THEN 0 ELSE d, d)
     IN  IF RetriesSpent(Id)
         THEN /\ log' = log \o <<event, About("step_failed", Id)>>
              /\ Miss("loop")
         ELSE log' = Append(log, event) /\ Retry
  /\ UNCHANGED <<plan, steps, outcome, runStart>>

\* An on_commit listener rejects a valid record: the same count, but the end
\* of the retries writes no step_failed.
CommitRejected(type, d) ==
  /\ Calling
  /\ Elapse(d)
  /\ NoteRetry(Id)
  /\ log' = Append(log, Called(type, d, d))
  /\ IF RetriesSpent(Id) THEN Miss("loop") ELSE Retry
  /\ UNCHANGED <<plan, steps, outcome, runStart>>

Commit(d) ==
  /\ Calling
  /\ Elapse(d)
  /\ log' = Append(log, Called("fact_added", d, d))
  /\ pos' = pos + 1
  /\ pc' = "loop"
  /\ NoReduce
  /\ UNCHANGED <<plan, missing, steps, retries, outcome, runStart>>

----------------------------------------------------------------------------
(* _answer.                                                                *)

AnswerRequest ==
  [cap |-> "answer@1", schema |-> None, trust |-> "T2", mime |-> "text/plain",
   exclude |-> {}, floor |-> None, ms |-> None]

Finish(type, status, d) ==
  /\ Elapse(d)
  /\ log' = Append(log, Plain(type))
  /\ outcome' = [status |-> status, missing |-> missing, facts |-> Places("fact_added")]
  /\ pc' = "returned"
  /\ UNCHANGED <<plan, pos, missing, steps, retries, reduce, runStart>>

\* No provider for answer@1, or the one selected raises.
Decline(d) ==
  /\ pc = "answer"
  /\ Finish("declined", "declined", d)

SendAnswer(d) ==
  /\ pc = "answer"
  /\ Pool(AnswerRequest) # {}
  /\ Finish("answer_sent", IF missing = {} THEN "answered" ELSE "partial", d)

AnswerEscapes(d) ==
  /\ pc = "answer"
  /\ Pool(AnswerRequest) # {}
  /\ Faults \cap {"adapter_error", "unload_error"} # {}
  /\ Escape(d)

\* The provider raises, `declined` is written, and then unload raises too.
DeclineEscapes(d) ==
  /\ pc = "answer"
  /\ Pool(AnswerRequest) # {}
  /\ "unload_error" \in Faults
  /\ log' = Append(log, Plain("declined"))
  /\ Raised(d)

----------------------------------------------------------------------------

\* What run() does by itself once it is called.
Work ==
  \/ ExhaustBudget \/ TripBreaker \/ NoSuchTool \/ StartStep \/ EndOfPlan
  \/ Gap \/ SelectProvider
  \/ \E d \in Ticks :
       \/ \E type \in StepEndings : StepFails(type, d)
       \/ \E level \in TrustLevels : ToolOutput(level, d)
       \/ StepEscapes(d)
       \/ CallEscapes(d)
       \/ \E type \in {"tool_failed", "validation_failed"} : AttemptFails(type, d)
       \/ \E type \in RejectTypes : CommitRejected(type, d)
       \/ Commit(d)
       \/ Decline(d)
       \/ SendAnswer(d)
       \/ AnswerEscapes(d)
       \/ DeclineEscapes(d)

Next ==
  \/ Boot
  \/ \E p \in Plans, d \in Ticks : Submit(p, d)
  \/ Work
  \/ Crash

Spec == Init /\ [][Next]_vars

\* run() is straight-line code over calls that return: it takes its next
\* step as long as it has one.  Nothing makes a caller boot or submit.
FairSpec == Spec /\ WF_vars(Work)
=============================================================================
