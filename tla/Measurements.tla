---------------------------- MODULE Measurements ----------------------------
(***************************************************************************)
(* What memory measures of the providers, and how that steers the next     *)
(* choice: the views of cost.py and failure.py, CostModel.estimate, and    *)
(* read_measurements (memory/policy.py).                                   *)
(*                                                                         *)
(* The loop is closed through three copies of the truth.  A call goes into *)
(* the ledger; ingest copies ledgers into the index when somebody runs it; *)
(* a Runtime is built with a snapshot of the index and keeps it for life.  *)
(* Each may lag behind the one before it.  The order of the calls does not *)
(* matter to a measurement, so ledger and index are bags.                  *)
(***************************************************************************)
EXTENDS Integers, FiniteSets, Bags, Functions

CONSTANTS
  None, Providers, Manifest, Adapters, ControlCaps,  \* as in Selection
  Requests,    \* the calls the loop asks for: [cap, schema, trust, mime]
  Floor,       \* the runtime's quality_floor, in ten-thousandths
  Budgets,     \* what may be left of the wall clock when select() is asked
  Outcomes,    \* how a call may end: [ending, took]
  MinSamples,  \* min_samples
  Histories,   \* the bags of calls that may be there before
  MaxNew,      \* bound on the calls that are made after that
  MaxLag       \* bound on the calls the index lags behind

\* "fact" and "refused" (by the confidence floor or the ladder) record what
\* the call took, "raised" records 0, and "rejected" (by an on_commit
\* listener) records no duration.
Endings == {"fact", "refused", "raised", "rejected"}

VARIABLES
  ledger,  \* the calls in all ledgers
  index,   \* the calls in the tables fact and failure
  rows,    \* the Snapshot of the running Runtime
  step     \* the step that is being reduced, [request, tried], or None

vars == <<ledger, index, rows, step>>

Schemas == {r.schema : r \in Requests}
Call == [provider : Providers, schema : Schemas, ending : Endings, took : Nat]

ASSUME MeasurementsAssumption ==
  /\ MinSamples \in Nat \ {0} /\ Floor \in Nat /\ Floor <= 10000
  /\ Outcomes \subseteq [ending : Endings, took : Nat] /\ Budgets \subseteq Nat
  /\ None \notin Schemas
  /\ \A h \in Histories :
       IsABag(h) /\ BagToSet(h) \subseteq Call /\ IsFiniteSet(BagToSet(h))

----------------------------------------------------------------------------
(* The views.                                                              *)

\* A table has a row for every copy of a call; the rows are what is counted.
Copies(calls) == UNION {{c} \X (1 .. calls[c]) : c \in BagToSet(calls)}

Number(calls) == Cardinality(Copies(calls))

Of(calls, p) == Restrict(calls, {c \in BagToSet(calls) : c.provider = p})
OfPair(calls, p, s) == Restrict(Of(calls, p), {c \in BagToSet(Of(calls, p)) : c.schema = s})
Priced(calls) == Restrict(calls, {c \in BagToSet(calls) : c.ending # "rejected"})

\* The column duration_ms of a call that has one.
Duration(c) == IF c.ending = "raised" THEN 0 ELSE c.took

UpTo(calls, d) == Number(Restrict(calls, {c \in BagToSet(calls) : Duration(c) <= d}))

\* The duration in the row that ROW_NUMBER() gives the number r.
AtRank(calls, r) ==
  CHOOSE d \in {Duration(c) : c \in BagToSet(calls)} :
    /\ UpTo(calls, d) >= r
    /\ UpTo(calls, d - 1) < r

\* A mutant: the integer division is not rounded up.
P90RankDown(n) == (n * 9) \div 10

P90Rank(n) == (n * 9 + 9) \div 10

\* v_provider_cost, for a pair with at least one priced call.
P90(calls) == AtRank(calls, P90Rank(Number(calls)))

\* A mutant: a pair that reaches min_samples is still called small.
FewStrict(n) == n <= MinSamples

\* The small-sample rule of section 12.4.
Few(n) == n < MinSamples

\* CostModel.estimate: the pooled number is the dearest of the schemas'.
PairCost(calls, p, s) ==
  LET priced == Priced(OfPair(calls, p, s))
  IN  IF Few(Number(priced)) THEN None ELSE P90(priced)

Pooled(costs) == CHOOSE d \in costs : \A e \in costs : d >= e

PooledCost(calls, p) ==
  LET priced == Priced(Of(calls, p))
      served == {c.schema : c \in BagToSet(priced)}
  IN  IF Few(Number(priced)) THEN None
      ELSE Pooled({P90(OfPair(priced, p, s)) : s \in served})

Facts(calls) == Number(Restrict(calls, {c \in BagToSet(calls) : c.ending = "fact"}))

\* v_provider_health and the pooled query over it, rounded to four digits.
\* Every fact and every failure counts, with a duration or without.
PassRate(calls) ==
  LET n == Number(calls)
  IN  IF Few(n) THEN None ELSE (20000 * Facts(calls) + n) \div (2 * n)

----------------------------------------------------------------------------
(* read_measurements.                                                      *)

Seen(calls) == {c.provider : c \in BagToSet(calls)}
SeenPairs(calls) == {<<c.provider, c.schema>> : c \in BagToSet(calls)}

\* A mutant: no pooled rows.
KeysUnpooled(calls) == SeenPairs(calls)

Keys(calls) == SeenPairs(calls) \cup {<<p, None>> : p \in Seen(calls)}

Row(calls, p, s) ==
  IF s = None
  THEN [p90 |-> PooledCost(calls, p), rate |-> PassRate(Of(calls, p))]
  ELSE [p90 |-> PairCost(calls, p, s), rate |-> PassRate(OfPair(calls, p, s))]

Measured(calls) == [k \in Keys(calls) |-> Row(calls, k[1], k[2])]

----------------------------------------------------------------------------
(* The loop from call to choice.                                           *)

Policy == INSTANCE Selection WITH Rows <- rows

ASSUME ProvidersAssumption ==
  /\ None \notin Nat \cup Providers
  /\ \A p \in Providers : Policy!ManifestOK(Manifest[p])
  /\ \A p, q \in Providers : Manifest[p].order = Manifest[q].order => p = q

Init ==
  /\ ledger \in Histories
  /\ index = ledger
  /\ rows = <<>>
  /\ step = None

\* ingest_dir brings the tables up to the ledgers.
Ingest ==
  /\ index # ledger
  /\ index' = ledger
  /\ UNCHANGED <<ledger, rows, step>>

\* A Runtime is built with what the index holds now.
NewRuntime ==
  /\ step = None
  /\ rows # Measured(index)
  /\ rows' = Measured(index)
  /\ UNCHANGED <<ledger, index, step>>

AskFor(request, tried, floor, ms) ==
  [cap |-> request.cap, schema |-> request.schema, trust |-> request.trust,
   mime |-> request.mime, exclude |-> tried, floor |-> floor, ms |-> ms]

\* A mutant: the loop does not hand its quality floor to select().
AskNoFloor(request, tried, ms) == AskFor(request, tried, None, ms)

Ask(request, tried, ms) == AskFor(request, tried, Floor, ms)

Record(p, s, outcome) ==
  ledger' = ledger (+) SetToBag({[provider |-> p, schema |-> s, ending |-> outcome.ending,
                                  took |-> outcome.took]})

MayCall ==
  /\ \E h \in Histories : h \sqsubseteq ledger /\ Number(ledger) < Number(h) + MaxNew
  /\ Number(ledger) < Number(index) + MaxLag

\* A turn of the loop in _reduce: of a new step, or of one whose calls so far
\* gave no fact.  It goes on without the provider that was called.
Turn(request, ms, outcome) ==
  LET tried    == IF step = None THEN {} ELSE step.tried
      ask      == Ask(request, tried, ms)
      provider == Policy!Select(ask)
  IN  /\ step # None => request = step.request
      /\ MayCall
      /\ Policy!Pool(ask) # {}
      /\ Record(provider, request.schema, outcome)
      /\ step' = (IF outcome.ending = "fact" THEN None
                 ELSE [request |-> request, tried |-> tried \cup {provider}])
      /\ UNCHANGED <<index, rows>>

\* A gap, or the retries are spent, or the process is gone.
GiveUp ==
  /\ step # None
  /\ step' = None
  /\ UNCHANGED <<ledger, index, rows>>

Next ==
  \/ Ingest
  \/ NewRuntime
  \/ \E request \in Requests, ms \in Budgets, outcome \in Outcomes :
       Turn(request, ms, outcome)
  \/ GiveUp

Spec == Init /\ [][Next]_vars

----------------------------------------------------------------------------
(* What must be true.                                                      *)

\* In ten-thousandths, or not known.
Rates == {r \in Nat : r <= 10000} \cup {None}

\* Type correctness; and whoever has a row for a schema has a pooled one,
\* which Snapshot.of falls back to.
TypeOK ==
  /\ IsABag(ledger) /\ BagToSet(ledger) \subseteq Call
  /\ index \sqsubseteq ledger
  /\ step # None => step.request \in Requests /\ step.tried \subseteq Providers
  /\ DOMAIN rows \subseteq Providers \X (Schemas \cup {None})
  /\ \A k \in DOMAIN rows :
       /\ rows[k].p90 \in Nat \cup {None} /\ rows[k].rate \in Rates
       /\ <<k[1], None>> \in DOMAIN rows

\* The calls behind a row: those of the pair, or all of the provider, that have
\* a duration.
Behind(k) == Priced(IF k[2] = None THEN Of(index, k[1]) ELSE OfPair(index, k[1], k[2]))

Cost(k) == Measured(index)[k].p90

Costed == {k \in Keys(index) : Cost(k) # None}

\* A measured cost, of a pair or pooled over schemas of different sizes, is no
\* less than nine in ten of the durations that were recorded, and that of a
\* pair is the least such number (v_provider_cost, CostModel.estimate).  It is
\* about what was recorded: a call that raised is recorded as 0, and a rejected
\* one without a duration.
CostIsP90 ==
  \A k \in Costed :
    /\ 10 * UpTo(Behind(k), Cost(k)) >= 9 * Number(Behind(k))
    /\ k[2] # None => 10 * UpTo(Behind(k), Cost(k) - 1) < 9 * Number(Behind(k))

Raised(calls) == Number(Restrict(calls, {c \in BagToSet(calls) : c.ending = "raised"}))

\* The calls that really took no longer than d.
InTime(calls, d) == Number(Restrict(calls, {c \in BagToSet(calls) : c.took <= d}))

\* How far "a number it will beat most of the time" goes: of the calls that
\* have a duration nine in ten took no longer than the cost, less the ones that
\* raised (_call's except clause, v_provider_cost).
CoversUnlessRaised ==
  \A k \in Costed :
    10 * (InTime(Behind(k), Cost(k)) + Raised(Behind(k))) >= 9 * Number(Behind(k))

\* "A failed call still consumed the time, so it belongs in the estimate" is
\* not what the code does with calls that raise: once they are nine in ten of a
\* pair's, the pair is measured at 0, whatever they took (_call's except
\* clause, v_provider_cost).
RaisedIsFree ==
  \A k \in Costed :
    k[2] # None /\ 10 * Raised(Behind(k)) >= 9 * Number(Behind(k)) => Cost(k) = 0

\* The calls a verdict on a provider for a schema rests on: its calls of that
\* schema if there are any, else all its calls.
Evidence(p, s) == IF OfPair(index, p, s) # EmptyBag THEN OfPair(index, p, s) ELSE Of(index, p)

Fresh == INSTANCE Selection WITH Rows <- Measured(index)

\* "One failure is not a bad provider": a Runtime built now turns a provider
\* down on quality only if there are min_samples calls to judge it by and the
\* share of facts among them, before it is rounded, is below the floor; and it
\* does if the share is short of the floor by more than the rounding
\* (read_measurements, Snapshot.of and the quality filter of select).
VerdictEarned ==
  \A p \in Providers, request \in Requests :
    LET calls  == Evidence(p, request.schema)
        n      == Number(calls)
        short  == Floor * n - 10000 * Facts(calls)
        turned == ~ Fresh!GoodEnough(p, Ask(request, {}, None))
    IN  /\ turned => n >= MinSamples /\ short > 0
        /\ n >= MinSamples /\ 2 * short > n => turned

Below(snapshot, p, s) ==
  <<p, s>> \in DOMAIN snapshot /\ snapshot[<<p, s>>].rate # None
  /\ snapshot[<<p, s>>].rate < Floor

\* Ledger, index and Runtime all measure the pair below the floor.
Demoted(p, s) ==
  Below(Measured(ledger), p, s) /\ Below(Measured(index), p, s) /\ Below(rows, p, s)

\* Demotion is for good: once the three copies agree that a provider is below
\* the floor for a schema it is never called for it again, by this Runtime or
\* a later one, so that its rate can never recover (select and
\* read_measurements).
DemotionIsFinal ==
  [][\A p \in Providers, s \in Schemas :
       Demoted(p, s) =>
         Demoted(p, s)' /\ OfPair(ledger', p, s) = OfPair(ledger, p, s)]_vars
=============================================================================
