# A verification project for picoharness

picoharness runs a plan of steps on a small machine: each step calls a tool,
a *provider* (a parser or a small model) reduces the tool's output to a record,
the record is validated and committed as a *fact*, and everything that happens
is an event in an append-only *ledger*. Memory across sessions is an index
derived from the ledgers; what it measures feeds back into the choice of
providers. The program is sequential, so what is hard about it is not races but
*order, failure and persistence*: many ways for a step to end, state that
outlives a run, a process or a machine that stops in between, and several
readers that must draw the same conclusion from the same events.

All source paths below are relative to `src/src/picoharness/`.

## 1. Inventory

| Component | State | Operations | Interacts with | What makes it correct |
|---|---|---|---|---|
| Runtime loop (`runtime.py`) | place in the plan, `missing`, the payload in hand, the providers tried | `run`, `_run_step`, `_reduce`, `_call`, `_answer` | appends to the ledger; asks registry, budget, breakers; calls tools, hooks, adapters | every step settles once; `answered` is complete; the ledger tells how each step ended; it returns |
| Budget, breakers (`budget.py`) | start of the clock, step count, retry counts | `exceeded`, `remaining`, `note_step`, `note_retry`, `tripped` | read and counted by the loop, never reset between runs | the bounds hold over the life of the process |
| Provider selection (`registry.py`, `policy.py`) | none of its own | `select`, `Snapshot.of` | registrations, measurements, budget | a total, deterministic choice within the trust ceiling |
| Registration and audit (`registry.py`, `schemas.py`) | capabilities, adapters, providers, the list of candidates | `add_*`, `load_dir`, `audit`, `resolve` | manifests, selection, the composition's document | no slip in a manifest widens what its provider is chosen for |
| Hooks (`hooks.py`) | listeners per phase | `run`, `Rejected` | called by the loop | a rejection leaves an event |
| Projection (`ledger.py`) | none | `project`, `assert_visible` | reads the ledger before each call | a provider gets what the ledger explains and its ceiling allows |
| Event file (`ledger.py`) | file, handle, `_seq` | `append`, `_resume`, `close`, `read_events`, blobs | operating system, disk | an acknowledged event is durable, in order and numbered by its place |
| Recall (`memory/episodic.py`) | none | `recall`, `recall_for_control` | the index; a planner | a planner gets what it may read, and all of it |
| Episodic index (`memory/episodic.py`) | sqlite tables, an open transaction | `ingest_ledger`, `ingest_dir`, `rebuild` | ledgers that still grow, the other memories on its connection | no half session, nothing left out for ever |
| Episode builder, failures (`memory/episodic.py`, `memory/failure.py`) | one pass over a ledger | `consume`, `link_resolutions`, `classify_event`, advice | the events of the loop | its tables agree with what the caller was told |
| Cost and measurements (`memory/cost.py`, `memory/policy.py`) | views | `estimate`, `read_measurements` | the index; selection | small samples stay silent; a cost is the p90 of what was recorded |
| Validation ladder (`validate.py`, `schemas.py`) | none | `ladder` | called by the loop | levels in order, the first failure wins |
| Adapters (`adapters/`) | handles, scopes, hashes of weights | `load`, `run`, `unload`, `probe` | the loop, a model library | every load unwinds; what runs is what is pinned |
| Prompts (`prompt.py`) | none | `audit`, `render` | the gguf adapter | the model is told the schema it is asked for |
| Composition (`composition.py`) | none | `boot`, digests | event 0 of the ledger | a run says what it was made of |
| Replay (`composition.py`, `ledger.py`) | a clock of recorded times | `check_replay`, `ReplayClock`, `first_difference` | a second run | same inputs, same choices |
| World, tools, providers | none | parsing, rendering, I/O | called by the loop | their own tests |

The hard behaviours: a plan cut in the middle by budget or breaker; exceptions
from listeners and adapters; step ids that a later run reuses with another
tool; payloads whose label is not what the ledger says; a process that dies and
is started again on the same ledger; a power loss between write and fsync; a
failed flush that leaves a line behind; ledgers that grow while they are
indexed; transactions left open by an exception; a manifest with a slip of the
pen; a weights file that is replaced between two loads. `PROJECT.json` lists them
under "hazards", each at its line with the properties that watch it.

## 2. The modules

| Module | Models | Built on |
|---|---|---|
| `Trust` | `trust.py`: levels, their order, what a control provider may read | |
| `Selection` | `Registry.select`, the manifest queries, `Snapshot.of` | `Trust` |
| `Runtime` | the main loop with budget, breakers, hooks, projection, boot and crash | `Selection` |
| `RuntimeProperties` | what must hold of the loop, and the mapping to `TaskContract` | `Runtime` |
| `TaskContract` | abstract specification: what `run` promises its caller | |
| `Resolutions` | what memory reads off the loop's ledger: `consume`, `classify_event`, `link_resolutions` | `RuntimeProperties` |
| `Recall` | `recall`, `recall_for_control` and the remedies behind `avoidance` | `Resolutions` |
| `Ledger` | the event file against crashes and failing system calls | |
| `Episodic` | ingest and rebuild of the index against growing ledgers, bad lines and crashes | |
| `Measurements` | `cost.py`, the health view, `read_measurements`, and the way from a call to the next choice | `Selection` |
| `Ladder` | the validation ladder | |
| `Scope` | registrations and their undoing | |
| `HookChain` | the waterfall at one hook point | |
| `Prompt` | `prompt.py`: the audit and the rendering of an instruction | |
| `Registry` | registration with its checks, event 0, the check of a replay, the audit | `Trust`, `Selection` |
| `Call` | one provider call or probe in the small, over an installation: adapter, prompt, weights, ladder, listeners | `Registry`, `Prompt`, `Ladder`, `Scope`, `HookChain` |
| `MCRuntime`, `MCEpisodic`, `MCMeasurements`, `MCCall` | instances for TLC | |
| `SelectionProofs` | proofs: a choice is well defined | `Selection` |
| `RuntimeProofs`, `GroundingProofs` | proofs: the loop's types, settling, trust, bounds, and the refinement | `RuntimeProperties`, `SelectionProofs` |
| `RecallProofs` | proofs: memory's reading of the ledger | `Recall`, `GroundingProofs` |
| `LedgerProofs`, `EpisodicProofs` | proofs: the event file, the index | `Ledger`, `Episodic` |
| `CallProofs` | proofs: installation, replay, one call | `Call`, `SelectionProofs` |
| `MeasurementsProofs` | proofs: costs, verdicts, demotion | `Measurements`, `SelectionProofs` |

### Runtime

`pc` is the phase of the process: `down`, `ready` (booted), `loop` (at the head
of the `for` in `run`), `execute` (`_run_step` behind `step_started`), `select`
and `call` (the two halves of `_reduce`'s `while`), `answer`, `returned`, and
`raised` (an exception has left `run`). An action is the code of a phase with
the events it appends: `ExhaustBudget`, `TripBreaker`, `NoSuchTool`, `StartStep`
and `EndOfPlan` are the branches of the loop; `StepFails`, `ToolOutput` and
`StepEscapes` those of `_run_step`; `Gap`, `SelectProvider`, `AttemptFails`,
`CommitRejected`, `Commit` and `CallEscapes` those of `_reduce` and `_call`;
`Decline`, `SendAnswer`, `AnswerEscapes` and `DeclineEscapes` those of `_answer`.
`Boot` is `composition.boot` with a new `Runtime`; `Crash` loses everything but
the ledger, because every append is synced (which `Ledger` is about).

Events keep their type, step, provider, declared trust and charge. Payloads and
records are abstracted to their trust: that is all that selection, projection
and `assert_visible` compare that something behind the ledger's back could
change. What a tool, a listener, a provider or the validation ladder answers is
a free choice. Two fields are history: `label` on a fact (the trust of the
payload it was made from) and `took` (what a call took, where `ms` is what it
is charged); so is `runStart`.

Left out: `Budget.charge` (nothing reads `spent`, and no caller charges model
calls or CPU time, so `exceeded` is about the wall clock alone), an unlimited
wall clock (`None`; a large `WallLimit` behaves alike), events an
`on_prepare` listener invents with a type that is not a failure, and a crash
between two events that are appended with nothing in between.

### Selection

A request is a record of `select`'s keyword arguments. The filters are the
conjuncts of `Admitted`, `GoodEnough` and `CheapEnough` in the order of the
code; `Before` is the sort key. A manifest is reduced to what the filters read.

### Ledger

The file as readers see it, the length of it that is synced, the handle's
buffer, `_seq`, and the phase between `flush` and `fsync`. `append` is `Flush`
then `Sync`, or `FlushFails` or `SyncFails`; the environment kills the process
(the operating system keeps what it was given) or the machine (any suffix that
was not synced is lost, and with "torn" a line may be left in part). A part has
no newline, so the next text that is appended continues it: `Join` makes one
`broken` line of the two, which ends and does not parse.

### Episodic

A ledger's content is its length, and a hash of it is that length: an
append-only file has one content per length. A table row holds the length it
was read from. `db` is what is committed, `view` what the connection sees.
`Hash`/`Write` are the two ends of `ingest_ledger`, between which a ledger may
grow; `Rebuild`, `RebuildFacts`, `RebuildEpisodes` are the deletes that
`executescript` runs one by one. The full-text tables follow the fact table and
are not modelled apart; neither is `force=True`, which has no caller in `src`,
nor a line that is half written at the moment it is read.

### Resolutions

A fact and a failure are known by the place of their event. `StepTrusts` is the
dictionary that `consume` keeps, event by event; `Resolution` is the verdict of
`link_resolutions`. They are evaluated on the ledgers that `Runtime` writes.

### Recall

A policy is what the two queries take. The conditions on query, schema, subject
and dates are one free set `match` of facts, over all of whose values the
property quantifies; `IndexTrust`, `EffectiveLimit`, `Allowed` and the order of
filter and limit are the code's. The clock follows the ledger, so the latest
facts are those with the highest places. `Recovered` are the failures that
`avoidance` counts as overcome, by signature as far as events tell signatures
apart. Left out: the ranking of the full-text search, which picks others of the
same allowed facts; `field_range`, which repeats the filter over another table;
`similar_episodes`, which hands out no facts.

### Measurements

Three copies of the truth, each of which may lag behind the one before it: the
calls in the ledgers, the calls in the index, and the snapshot a `Runtime` was
built with and keeps for life. `Turn` is one turn of `_reduce`'s loop: it asks
`Selection` with the snapshot and records the call; `step` remembers whom the
step has asked. Calls are bags, since no view depends on their order. The SQL
is translated to what it yields: `Measured` is `read_measurements`, `P90` the
rank query, `PassRate` the health view with its rounding to four digits. Only
what selection reads is kept: means, medians and `cheapest` are reports. A call
has the time it `took` and the `Duration` its event records: 0 if it raised, none
if the commit was rejected. Every `Runtime` here reads the index; one that is
built without measurements has the empty snapshot the model starts with.

### Registry

`capabilities`, `adapters` and `providers` are the dictionaries of the class,
`listing` is `_by_capability`. An author means a manifest (one of `Intents`) and
writes it, or writes it with one word or key misspelled (`WrittenFrom`);
`AddProvider` registers what is written if `manifest@1` and the security block
allow it. `meant` keeps the intent as history, so that a property can compare
what an installation does with what was meant. `Boot` is event 0, in a replay
behind `check_replay`; `Build` is the audit in `Runtime`'s constructor; `Replay`
lets a new process register again, whatever it likes, in order to replay the
session of the built one. `Now` is `Selection` over what is registered; the
measurements depend on the machine alone, because a replay reads back the
snapshot that its session recorded.

The document is that part of `Composition.resolve` which `Registry.resolve`
fills. A composition made of the manifests alone, as
`tests/test_runtime.py` builds it, is the mutant `DocumentManifests`: it admits
replays that choose otherwise. The digests are taken to be injective.

Two things the code allows and `ChoiceAsMeant` and `ReplayChoosesSame` leave
out. An id that is registered again with fewer capabilities stays a candidate
for the old ones (`Stale`), since `_by_capability` is only ever extended, and
the document does not show it: with such an id both properties are false.
And `checked=False` registers what no check has seen (`unchecked`). Bounds of
the model: registration ends at event 0, which callers do but no code enforces;
one replay, of a session whose manifests were checked and that chooses
somebody; a level that is no level is not registered unchecked, since `select` would then raise a `KeyError`.

### Prompt

The prose of an instruction is the sequence of its tokens; `Audit` and `Renders`
are the conditions of `audit` and `render`. The adapter renders with no values,
so an instruction with a parameter always raises in `run`, although it passes
the audit: typed parameters wait for another caller.

### Call

What `Runtime` takes as one step with a free outcome, from the inside, for the
provider that an installation chooses (`Call`) or that is probed (`Probe`):
`CodeLoadRaises`, `GgufLoadRaises`, `ReadPrompt`, `Take` and `Loaded` are
`load`, `RunReturns`, `RunRefuses` and `GgufRunRaises` the three ways `run` ends, `GiveBack` a turn of `Scope.unwind`, `Unloaded` what
stands behind the `finally`, `BelowFloor`, `Refused` and `Valid` the verdict,
`Listen` and `Listened` the chain at `on_commit`. `user` says whether the loop
calls or `timed_probe`, which runs several times, gives back and loads once
more. `weights` is the file with its size and mtime, `checked` the hashes the
adapter keeps by them, and `ReplaceWeights` puts another file in its place
between two calls. `handle` is the instruction that `load` read and `run`
renders; the grammars cached in the handle are left out. A file replaced
between the hash and the library's own open, or by one with the same size and
mtime, is outside the model. `Ladder` abstracts a value to the rung that refuses it. A listener's
return value is left out: what `on_commit` gives back is committed without
another look, so there is nothing the model could compare it with. A schema
that is not registered (everything passes) is left out too. Both adapters
register one resource per load; two let the order of undoing show.

## 3. What is checked

| Run | Question | Bounds |
|---|---|---|
| `runtime_faults` | does every step settle once, does the ledger and the failure table say so, do the ladder and the breaker hold over two runs, and does a remedy stay one? | three plans that reuse two ids, two runs of one process, every fault but death, calls that take no time or all that is left, 3 steps, 1 retry, a quality floor |
| `runtime_restart` | do facts keep their ground and their trust over crashes and restarts, and what of them may a planner recall? | one-step plans, two runs, two processes, a clock of one tick |
| `runtime_contract` | does `run` implement `TaskContract`, and does it return? | plans of two and three steps against a breaker of two, a clock of three ticks, no faults |
| `ledger` | is an acknowledged event durable, ordered and numbered? | five lines in file and buffer |
| `episodic` | is the index whole and complete? | three ledgers of two sessions, two events each |
| `measurements` | is a cost the p90 of what was recorded, who is turned down, and does anybody come back? | two models, two schemas, three calls after a history of none or nine, two samples to judge by, an index up to two calls behind |
| `call` | is anybody chosen for what was not meant, does a replay choose the same, does a model run from what is pinned and read what it is asked, is everything given back, in order, and is the right rung named? | two manifests out of three intents, each with at most one slip, two machines, one replay; over two of the installations two calls or probes of either adapter, two resources, six prompts, one replaced weights file, three listeners, every record over two fields |

Why the bounds are enough. Two runs and two processes are needed for state that
outlives a run (retry and step counts, the clock) and for ids used twice; a
third adds nothing new, since all that a run inherits is those counters and the
ledger. Two providers for one capability and one retry let the ladder climb,
run out of retries and run out of providers. Five lines let the file be
extended after two recoveries. Two events suffice for a ledger that grew
between hash and read, and the third file is a second copy of a session.
Nine calls are the largest sample whose p90 is its slowest call, so the tenth
tells the ranks apart; three new calls suffice for a model to be tried, judged
and left. Two calls are enough for one to find what the other left behind,
three listeners for one that is neither first nor last. Two manifests are one
choice between two providers, or one id twice; a second slip could only repeat
what a slip in the other manifest does, and nothing carries over from one replay
to the next. Calls are made over two installations only (`Served`: a model
alone, and a router that says nothing of what it produces beside a parser),
because what a call does depends on its provider's manifest and not on its
neighbours; among them every way a prompt can miss its schema occurs. One
replacement of the weights shows a hash that is kept too long.

The properties, by hazard:

* *Settling.* `SettledOnce`, `AnsweredMeansComplete`, `KeepsContract`:
  whatever combination of rejections, gaps, retries, cuts and earlier runs, a
  step the loop has passed is a fact of this run or a name in `missing`, once;
  and the outcome agrees.
* *Readers of the ledger.* `LedgerTellsEnding` (the last word on a step),
  `RowsTellOutcome` (the failure table and the caller agree),
  `StoreAgreesWithProjection`, `RemedyKept` (a later ingest takes no remedy back).
* *Trust.* `FactGrounded`, `FactTrustIsOrigin`, `ProjectedWithinCeiling`,
  `ControlRecallClean`.
* *Installation.* `ChoiceAsMeant`: "a typo that widens a security boundary is
  worse than a typo that breaks the run", taken over registration, audit and
  selection together; `ReplayChoosesSame`; `PromptFits` and `RunsThePinned`,
  between what `load` checks and what `run` does.
* *Bounds across runs.* `LadderClimbs`: within a run a step's providers are called
  in rank order, none twice, no more than the retries allow. `StepsBounded`: no
  more steps than the breaker allows, and none behind a cut, in that run or any
  later one of the process.
* *Getting there.* `RunReturns`.
* *Durability.* `AckedSurvives`, `AckedInOrder`, `SeqIsPlace`,
  `CompositionFirst`, `DurableGrows`.
* *Index.* `SessionsWhole`, `DigestNotAhead`, `IngestComplete`, `IngestKeeps`.
* *Feedback.* `CostIsP90`, which is about the durations in the ledgers and not
  about the time calls took, `VerdictEarned`, and `DemotionIsFinal`, which states
  a consequence the code does not spell out: nothing brings a provider back.
* *Giving back.* `NothingStranded`, `UndoneInReverse`, `UnwindIsLoud`.
* *Verdicts and listeners.* `RungNamed`, `OnceInOrder`.

Every one of them is refuted by at least one small change to the code's model,
listed under "mutants"; the changed forms stand beside the originals.

Fairness. `FairSpec` asks weak fairness of `Work`, what `run` does by itself:
it is straight-line code in one thread over calls that return, so it takes its
next step as long as it has one. Nothing makes a caller boot or submit. That
tools and providers return at all is assumed by the model (a call is one step).

`CHECK_DEADLOCK FALSE` stands in the runs whose system may stop: the last run
has returned and nobody submits another, or the bound on calls is reached.

### Where the code and its documentation disagree

* `runtime_cut`: a loop cut by budget or breaker names only the step it was cut
  at; the steps behind it are in no list ("name what is not there").
* `runtime_returns`: a rejection at `on_output` leaves `run` as an exception
  ("Always returns").
* `runtime_ceiling`: the projection filters facts only for a ceiling of T2; the
  input projected for a provider with ceiling T0 holds T1 facts ("A fact above the ceiling is left out
  here").
* `ledger_torn`: a partial last line makes the session impossible to open
  ("Continue after a crash").
* `episodic_rebuild`: a rebuild that dies between its deletes leaves sessions
  that no later ingest repairs ("must give the same result").

For each of these runs section 4 has theorems that draw the line: under which
condition the documentation is right, and what holds where it is not.

| Run | Right when | Holds always |
|---|---|---|
| `runtime_cut` | no cut in the run (`SilentOnlyBehindCut`) | only what the loop never came to is left out (the same) |
| `runtime_returns` | no fault but a crash (`RaisesOnlyOnFaults`) | every run is finite (`RunsDescend`) |
| `runtime_ceiling` | no reader of a tool's output is declared for T0 (`ProjectionWithinCeiling`) | a fact shows the trust of its origin (`FactsKeepTheirOrigin`) |
| `ledger_torn` | no line tears (`ResumesUnlessTorn`) | loss is loud (`LosesLoudly`), numbers are never reused (`NumbersNeverReused`) |
| `episodic_rebuild` | no crash inside a rebuild (`IngestsAll`) | the index is short, never wrong (`RebuildOnlyLoses`) |

One disagreement is shown by a proof and not by a run. "A failed call still
consumed the time, so it belongs in the estimate" (`cost.py:45-46`; likewise
`budget.py:91`, the repository's README on the cost model, section 12.4 of the
design document and `test_gguf.py:158-160`). `_call` returns 0.0 for a call that raised
(`runtime.py:370`), and that is what its event records and `v_provider_cost`
ranks; a commit that was rejected records no duration, so the view leaves the call
out. "A number it will beat most of the time" (`cost.py:17`) therefore holds of
the durations, not of the calls: with two samples to judge by, two raised calls of
three units each make a cost of 0.

| Statement | Where |
|---|---|
| a pair of whose calls nine in ten raised is measured at 0, however long they took | `RaisedIsFree`, proved as `FailuresAreFree` |
| of the calls with a duration nine in ten took no longer than the cost, less as many as raised: the documentation is right when none did | `CoversUnlessRaised`, proved as `CoveredUnlessRaised` |
| what the cost is of the recorded durations | `CostIsP90`, checked by `measurements` and proved as `CostsCoverTheRecord` |

## 4. What is proved

TLAPS checks the following for every value of the constants that satisfies the
modules' assumptions.

* `SelectionProofs` — `SelectionIsBest`: on a non-empty pool `Select` is a
  member and stands before every other member. The sort key has to be shown
  well-founded: the unmeasured cost is last, costs are naturals and ids differ
  in their order. `SelectionMayRead`: the choice may read what the request
  offers. From `ManifestAssumption`.
* `RuntimeProofs` — `TypeCorrect`: `TypeOK` is an invariant of `Spec`. It is
  not inductive alone: an action in a step reads `plan[pos]`, the payload and
  the provider, so `Held` adds what each phase has in hand.
  `SettlesOnce`, `AnsweredIsComplete`: the invariant is
  `TypeInv /\ SettledOnce /\ AnswerReached`; the last says how `answer` and
  `returned` can be reached with an empty `missing`: only behind the end of the
  plan, since every cut puts its step in `missing`. The proofs use that the ids
  of a plan differ (`PlanAssumption`), which no code checks.
* `GroundingProofs` — what else the loop promises. An action writes one of a few
  shapes of events; `StepKinds` sorts them once, and each proof then has one
  case per shape.
  * `FactsAreGrounded`, `FactsKeepTheirOrigin`: a fact's ground is the stretch of
    ledger from its start to itself. While the step is under way that stretch
    is still open, so `GroundInv` adds `Open` (only the step at hand was written
    about since its start) and that the payload in hand during a call is within
    the provider's ceiling; `assert_visible` against the projection then forces
    the label to be the tool's trust, which no listener can have changed.
  * `BreakerBoundsSteps`: the breaker's count is never behind the ledger's
    (`Counted`), from boot on; and the process that wrote a cut still has what it
    was cut for, because neither its clock nor its count goes back (`CutFinal`,
    from `SpentGrows`).
  * `RetriesClimb`: what was called for the step at hand is in `tried` and counted
    in `retries`, which may be ahead because an earlier run used the id
    (`Ladder`); steps the loop has not come to have no calls (`Untried`). That
    the calls are in rank order is `Rungs`: each choice is first in its pool
    (`SelectionIsBest`), and the pool only shrinks (`PoolShrinks`), since more is
    excluded and less of the budget is left.
  * `ProjectionWithinCeiling`, under `NoT0Reader`: no provider of a tool's reducer is
    declared for T0 alone. The one manifest the repository ships declares T1.
    A fact's trust is at most T2, so only a ceiling of T0 can be exceeded by what
    the projection lets in (`OnlyT0Exceeds`).
  * `VisibleUnlessRelabelled`, under `NoRelabel`, and `RaisesOnlyOnFaults`, under
    `OnlyCrashes`: `assert_visible` refuses nothing but a payload that a tool
    or a listener gave another trust, and nothing else in the loop raises by itself. `OwnInv`
    adds to `GroundInv` that the payload in hand has its tool's trust.
  * `RunsDescend`: `Left`, a natural number, falls with every step of `Work`, whatever
    the answers, and `Submit` sets it to `PlanBound`, a linear function of the
    plan's length. So a run takes at most that many steps; that it takes them is
    the weak fairness of `RunReturns`.
  * `LedgerTells`: on top of settling, that the last event about a step is of
    the right kind at every moment (`Tells`), not only at the end.
  * `Implements`: `Spec => KeepsContract`. Under the refinement mapping a step
    of the loop is `Begin`, `Commit`, `Miss`, `Return`, `Abandon` or a stutter. Beyond
    settling it takes `CutShort`: the ledger of the run shows a cut exactly where
    the abstract run is cut, and nothing but the answer comes behind it. It uses
    that no outcome is `None` (`OutcomeAssumption`).
  * `SilentOnlyBehindCut`: an outcome leaves unnamed exactly the steps from `pos`
    on, and without a cut in the run none. `ToldInv` adds to the invariant of the
    refinement that there is an outcome only behind the end of the plan or a cut.
* `RecallProofs` — what memory makes of any ledger the loop can write.
  `StoreAgrees` is about a fold (`StepTrusts`): that the recursive function
  exists and holds the label of the last start of each step is proved by least
  counterexample (`LeastNat`, `AllUpTo`), which needs no induction schema. With
  `GroundInv` the trust in the index is then the payload's, as the
  projection's is. `RecallIsClean` follows, for every policy and every set of
  matches. `RemediesAreKept`: a fix stays the first fact behind its failure,
  and a new plan behind it stays one, as the ledger only grows. `RowsAgree`
  needs settling, last words, the ladder (no provider twice, so no remedy is
  `retry_same`) and grounding together, and `RunRows` beside them: a run writes
  only about steps it has come to, and its last event tells its outcome.
* `LedgerProofs` — two invariants.
  * `LedgerInv`, under `NoTorn` (no fault leaves a part of a line), for
    `AcknowledgedSurvives`, `AcknowledgedInOrder`, `NumbersArePlaces`,
    `DurableOnlyGrows` and `ResumesUnlessTorn`. It says what survives a failed
    append: numbers in the file never descend, the handle is ahead of every
    acknowledged number and not behind any number in file or buffer, and an
    acknowledged line lies in the synced part.
  * `TornInv`, of every behaviour, for `LedgerTypeCorrect`, `CompositionIsFirst`,
    `LosesLoudly` and `NumbersNeverReused`. A line that lacks only its newline
    parses, so the file is opened, and the first append is merged into it and
    acknowledged all the same. What is kept of an acknowledged event is: it is
    whole at its place, or a line up to there stops every reader (`Accounted`). A handle is opened only on a
    file that was read in full, where the second case is excluded, so it starts
    above every number that was ever returned.
* `EpisodicProofs` — two invariants.
  * `EpisodicInv`, under `NoRebuildCrash` (a process does not die between the
    deletes of `rebuild`), for the four properties of `Episodic`; the types hold
    without it. It relates three things a property speaks of apart: what is
    committed, what the connection sees, and the files. Both sets of tables are
    `Sound` (rows of one reading, with a hash not ahead of it); the open
    transaction has deleted and written nothing else (`OnlyDeleted`), and
    `WhyDeleted` says of whom; what `ingest_dir` has behind it is in the tables at
    the length it was asked for (`Ingested`). Files shrink never, sessions may
    share ledgers.
  * `GoneInv`, of every behaviour, for `RebuildOnlyLoses`: the deletes go from
    failures to facts to rows, so whatever is cut off leaves no fact without
    its row and no failure that is not of the facts' reading.
* `CallProofs` — one specification, `Spec` of `Call`.
  * Installation: every manifest was written from its intent by at most one
    slip and, if checked, passed the checks (`Written`); a built runtime was
    audited (`BuiltAudited`); a recorded session's choices are a function of the
    document (`Replayed`, with `ChoiceOf`). `SlipsWidenNothing` then goes through
    the slips one by one and shows which of the four gates stops each;
    `ReplaysTheChoice` that what `select` reads is in the document. Both rest on
    `SelectionIsBest`, through an instance of `SelectionProofs` over the
    registered manifests. `TypoAssumption`: a misspelled word is nobody's word.
  * A call: `ScopeInv` for `NothingStaysHeld`, `UndoesInReverse` and
    `UnwindsLoudly` (what is held is what is still to be undone and what is
    stuck, and this load's stuck ones were registered behind the former);
    `ChainInv` for `ListenersInOrder`; `HashesRight` and `LoadedRight` for
    `LoadsThePinned` and `ShowsTheSchema` (a kept hash of the stamp the file has
    is that file's, and a handle came through `_verify` and the audit); `Judged`
    for `NamesTheRung`.
* `MeasurementsProofs` — the properties of `Measurements`, for every history,
  which is a bag of calls of any size. The rows of a bag are its `Copies`, so that
  counting (`Tally`) is the cardinality of a set: it grows with the calls that
  are counted and adds up over disjoint ones.
  * `CostsCoverTheRecord`: the row of every rank is found (`RankFound`, by the least
    duration that enough calls do not exceed), hence the p90 of a pair is the
    least number that nine in ten of its durations do not exceed. The greatest of
    the schemas' costs covers nine in ten of each schema's durations, and so of all
    of them (`PoolCovers`, by the smallest set of schemas that it would not cover).
  * `CoveredUnlessRaised`, `FailuresAreFree`: a raised call counts at every
    duration, the others as they took (`RaisedCounts`).
  * `VerdictsEarned`: a rounded rate is below the floor exactly if twice what is
    missing exceeds the number of calls (`QuotientBelow`), and that is what is
    turned down, whichever of the three rows `Snapshot.of` falls back to.
  * `DemotionStands`: who is called passed the quality filter (`SelectionIsBest`,
    instantiated with the running snapshot), so a demoted pair gains no call,
    and a measurement of a pair depends on its calls alone (`BelowIs`).

What the assumptions on the constants say beyond types: ids of manifests and
their order are a bijection, ids of a plan differ, `None` is no value of anything,
`PathOrder` holds every ledger, a misspelled word is nobody's.

Only model-checked:

* `RunReturns`, liveness under fairness. All of its argument that is not about
  fairness is proved: a run is finite (`RunsDescend`) and, without the faults, does
  not end in an exception (`RaisesOnlyOnFaults`). What is left is that `Work` is
  enabled until the run has returned, which is about ENABLED.

## 5. The plan, and what is not modelled

Modelled and checked: selection, registration, audit and replay, the loop with
its contract, the event file, ingest, the failure table, recall, the
measurements, and the call in the small over an installation. Proved: every
safety property a passing run checks, the action properties, and the refinement
of `TaskContract`.

Not modelled:

* Blobs of the event file. A blob is read back only within the step that wrote
  it, by the process that wrote it, so no decision can meet a lost or an
  overwritten one; what a power loss takes is the audit of earlier steps.
* `ReplayClock` and `first_difference`: nothing in `src` calls them. The budget
  reads the machine's clock in a replay, too, so `ReplayChoosesSame` is about
  requests without a limit on cost.
* What a listener may reject with is limited to types of failures
  (`RejectTypes`); the flush with which `events()` begins is left out (it has
  something to do only behind an append whose own flush failed); `Document` takes
  it that the caller puts `Registry.resolve()` into the `Composition`, which no code in the
  repository does for it (`test_runtime.py` puts in the manifests); a prompt for a
  manifest that does not say what it produces is not audited, and
  `PromptFits` leaves it out.
* What no property asks: retries for a later run that reuses an id
  (`LadderClimbs` is an upper bound); the ledgers behind one whose ingest raised,
  and a second file of a session (`IngestComplete` is about ingests that return);
  that the pooled row should outweigh a single call of a pair (`Evidence` follows
  the code); the undoing of a load that breaks off half-way (the loads of both
  adapters raise only before they have taken anything).
* The loop's `Selection` is not the one over `Registry`'s state: `Runtime` takes
  any manifests that satisfy `ManifestAssumption`, whether or not they can be
  registered, which is the weaker assumption.
* Parsers, renderers of tools, the front matter of prompts, hashing and the model
  library behind the gguf adapter: pure functions, I/O or third-party code, with
  tests of their own.
