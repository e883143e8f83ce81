------------------------- MODULE RuntimeProperties -------------------------
(***************************************************************************)
(* What must be true of the main loop.                                     *)
(***************************************************************************)
EXTENDS Runtime

Phases == {"down", "ready", "loop", "execute", "select", "call", "answer",
           "returned", "raised"}
InStep == {"execute", "select", "call"}
Running == {"loop", "answer"} \cup InStep

Outcomes ==
  [status : {"answered", "partial", "declined"}, missing : SUBSET StepIds,
   facts : SUBSET Nat]

\* Python's None is no Outcome.
ASSUME OutcomeAssumption == None \notin Outcomes

\* Type correctness of the loop's state.
TypeOK ==
  /\ log \in Seq(Event)
  /\ pc \in Phases
  /\ plan \in Plans \cup {<<>>}
  /\ pos \in 1 .. Len(plan) + 1
  /\ missing \subseteq StepIds
  /\ steps \in Nat
  /\ retries \in [StepIds -> Nat]
  /\ elapsed \in 0 .. WallLimit
  /\ tried \subseteq Providers
  /\ raw \in TrustLevels \cup {None}
  /\ prov \in Providers \cup {None}
  /\ outcome \in Outcomes \cup {None}
  /\ runStart \in 0 .. Len(log)

----------------------------------------------------------------------------
(* Settling the steps of a plan.                                           *)

Facts == {i \in ThisRun : log[i].type = "fact_added"}
Committed == {log[i].step : i \in Facts}
Ids(first, last) == {plan[k].id : k \in first .. last}

\* Every step the loop has passed is settled exactly once in this run, by one
\* fact in the ledger or by its name in `missing`, never by both, whatever
\* retries, rejections and earlier runs on the same ledger came before
\* (run() and _reduce()).
SettledOnce ==
  pc \in Running \cup {"returned"} =>
    /\ Committed \cap missing = {}
    /\ Committed \cup missing = Ids(1, pos - 1)
    /\ \A i, j \in Facts : log[i].step = log[j].step => i = j

\* "answered" means the whole plan: an outcome that names nothing missing has
\* a fact of this run for every step, also when the loop was cut (_answer()).
AnsweredMeansComplete ==
  outcome # None /\ outcome.status = "answered" =>
    /\ Committed = Ids(1, Len(plan))
    /\ \A s \in Ids(1, Len(plan)) : \E i \in outcome.facts : log[i].step = s

Failures == {"tool_failed", "tool_empty", "validation_failed", "capability_gap",
             "step_failed", "budget_exhausted", "breaker_tripped"}

Mentions(s) == {i \in ThisRun : log[i].step = s}
LastWord(s) == log[CHOOSE i \in Mentions(s) : \A j \in Mentions(s) : j <= i].type

\* The ledger alone tells how each step ended: the last event of the run
\* about a missing step is a failure, and about a committed one its fact.
\* failure.py and episodic.py classify a step from exactly these events.
LedgerTellsEnding ==
  /\ \A s \in missing : Mentions(s) # {} /\ LastWord(s) \in Failures
  /\ \A s \in Committed : LastWord(s) = "fact_added"

----------------------------------------------------------------------------
(* Calls and facts.                                                        *)

StartOf(i) ==
  CHOOSE j \in Starts(log[i].step) :
    j < i /\ \A k \in Starts(log[i].step) : k < i => k <= j

\* Behind every fact of the ledger stand a start and an output of its own
\* step with no event of another step in between, and the provider that made
\* it was admitted for the trust that start declared, although select() asks
\* about the payload in hand (select() and assert_visible() in _call()).
FactGrounded ==
  \A i \in Places("fact_added") :
    /\ \E j \in Starts(log[i].step) : j < i
    /\ \A k \in StartOf(i) .. i : log[k].step = log[i].step
    /\ \E k \in StartOf(i) .. i : log[k].type = "tool_output"
    /\ \E t \in DOMAIN Tools :
         /\ Tools[t].trust = log[StartOf(i)].label
         /\ Within(Tools[t].trust, MaxTrustIn(log[i].provider, Tools[t].reducer))

\* What project() says of a fact is what the fact was made from, even when a
\* later run reuses the step's id with a tool of another trust level.
FactTrustIsOrigin ==
  \A i \in Places("fact_added") : FactTrust(i) = log[i].label

\* No call mixes in a fact above the ceiling that the selection enforced on
\* the payload: the facts project() adds are within it too.
ProjectedWithinCeiling ==
  pc = "call" =>
    LET ceiling == MaxTrustIn(prov, Tool.reducer)
    IN  \A i \in ProjectedFacts(Id, ceiling) : Within(log[i].label, ceiling)

Attempts(s) == {i \in ThisRun : log[i].step = s /\ log[i].provider # None}

\* The calls for one step of the plan come in the order of rank().
CalledInRank ==
  \A k \in DOMAIN plan : \A i, j \in Attempts(plan[k].id) :
    i < j => Before(log[i].provider, log[j].provider, Tools[plan[k].tool].schema)

\* The retry ladder climbs: within a run no provider is called twice for one
\* step, each is called after those that rank() puts before it, although the
\* pool is built anew from what is left of the budget every time, and there
\* are at most max_retries_per_step + 1 calls (_reduce()).
LadderClimbs ==
  /\ CalledInRank
  /\ \A s \in StepIds :
       /\ Cardinality(Attempts(s)) <= MaxRetries + 1
       /\ \A i, j \in Attempts(s) : log[i].provider = log[j].provider => i = j

SinceBoot == {i \in DOMAIN log : \A b \in Places("composition") : b <= i}
Begun == SinceBoot \cap Places("step_started")

\* The events that cut a run short.
Cuts == {"budget_exhausted", "breaker_tripped"}

\* max_steps bounds what one process starts, over all its run() calls, and a
\* cut is final: the budget and the breakers live as long as the Runtime, so
\* no step starts behind an exhausted budget or a tripped breaker, in that run
\* or a later one (the loop of run()).
StepsBounded ==
  /\ Cardinality(Begun) <= MaxSteps
  /\ \A i \in SinceBoot, j \in Begun : log[i].type \in Cuts => j < i

----------------------------------------------------------------------------
(* The abstract promise, and getting there.                                *)

Delivered == pc \in Running \cup {"returned"}

\* TaskContract is implemented: what the abstract run has committed is read
\* off the ledger, what is left to do off the loop's place in the plan.
Contract ==
  INSTANCE TaskContract WITH
    phase     <- IF pc \in Running THEN "running" ELSE "idle",
    todo      <- IF Delivered THEN [k \in 1 .. Len(plan) - pos + 1 |-> plan[pos + k - 1].id]
                 ELSE <<>>,
    committed <- IF Delivered THEN Committed ELSE {},
    missing   <- missing,
    cut       <- Delivered /\ \E i \in ThisRun :
                   log[i].type \in Cuts,
    outcome   <- IF outcome = None THEN None
                 ELSE [status |-> outcome.status, missing |-> outcome.missing]

\* Every run is a run of TaskContract: steps settle one at a time, in plan
\* order and for good, and the outcome agrees with them (run()).
KeepsContract == Contract!Spec

\* "Always returns; never leaves the caller waiting": where no call raises
\* past run() and the process lives, an outcome is delivered.
RunReturns == (pc = "loop") ~> (pc = "returned")

----------------------------------------------------------------------------
(* Claims of the documentation that the code does not keep.                *)

\* "A partial answer with a named gap": every step of the plan that has no
\* fact is named as missing in the outcome, also those after the step the
\* loop was cut at (_answer()).
GapsNamed ==
  outcome # None => Ids(1, Len(plan)) \subseteq Committed \cup outcome.missing
=============================================================================
