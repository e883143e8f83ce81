---------------------------- MODULE Resolutions ----------------------------
(***************************************************************************)
(* What memory makes of a ledger the loop has written: the trust and the   *)
(* failures that _EpisodeBuilder.consume reads off the events one by one   *)
(* (memory/episodic.py), the classification of failure.py, and what        *)
(* link_resolutions says became of each failure.                           *)
(*                                                                         *)
(* A fact and a failure are known by the place of their event, which is    *)
(* the (session, seq) key of their tables.                                 *)
(***************************************************************************)
EXTENDS RuntimeProperties

----------------------------------------------------------------------------
(* consume(): the trust of a fact.                                         *)

NoTrust == [s \in StepIds |-> None]

\* A mutant: a step keeps the trust of its first start.
StepTrustFirst(trust, e) ==
  IF e.type = "step_started" /\ trust[e.step] = None
  THEN [trust EXCEPT ![e.step] = e.label] ELSE trust

StepTrust(trust, e) ==
  IF e.type = "step_started" THEN [trust EXCEPT ![e.step] = e.label] ELSE trust

\* _step_trust when event n has been consumed.
StepTrusts ==
  LET after[n \in 0 .. Len(log)] ==
        IF n = 0 THEN NoTrust ELSE StepTrust(after[n - 1], log[n])
  IN  after

\* Inherited, never upgraded.
IndexTrust(i) ==
  LET trust == StepTrusts[i][log[i].step]
  IN  IF trust = None THEN "T1" ELSE trust

----------------------------------------------------------------------------
(* classify_event and link_resolutions.                                    *)

\* EVENT_TO_KIND, for the types that the loop writes.
EventToKind ==
  [validation_failed |-> "schema", tool_failed |-> "tool_error", tool_empty |-> "empty",
   capability_gap |-> "capability_gap", breaker_tripped |-> "budget",
   budget_exhausted |-> "budget", step_failed |-> "unknown"]

FailureRows == {i \in DOMAIN log : log[i].type \in DOMAIN EventToKind}

\* The facts of a failure's step that came after it; the first one is its fix.
Later(i) == {f \in Places("fact_added") : log[f].step = log[i].step /\ f > i}
Fix(i) == CHOOSE f \in Later(i) : \A g \in Later(i) : f <= g

\* A plan counts as a new plan once the session has a fact.
ReplannedAfter ==
  {n \in Places("plan_created") : \E f \in Places("fact_added") : f < n}

Endings == Places("answer_sent") \cup Places("declined")

\* A mutant: a session that was declined once stays declined.
SessionDeclinedOnce == Places("declined") # {}

\* The outcome of the session is its last one.
SessionDeclined ==
  \E i \in Places("declined") : \A j \in Endings : j <= i

\* A mutant: what the session came to outranks the new plan.
ResolutionOutcomeFirst(i) ==
  CASE Later(i) # {} -> IF log[Fix(i)].provider = log[i].provider THEN "retry_same" ELSE "escalated"
    [] Later(i) = {} /\ SessionDeclined -> "declined"
    [] Later(i) = {} /\ ~ SessionDeclined /\ (\E n \in ReplannedAfter : n > i) -> "replanned"
    [] OTHER -> "abandoned"

Resolution(i) ==
  CASE Later(i) # {} /\ log[Fix(i)].provider = log[i].provider -> "retry_same"
    [] Later(i) # {} /\ log[Fix(i)].provider # log[i].provider -> "escalated"
    [] Later(i) = {} /\ (\E n \in ReplannedAfter : n > i) -> "replanned"
    [] Later(i) = {} /\ ~(\E n \in ReplannedAfter : n > i) /\ SessionDeclined -> "declined"
    [] OTHER -> "abandoned"

----------------------------------------------------------------------------

\* The store and the projection say the same of every fact, so that recall
\* and a provider call cannot disagree about what it may reach ("the two must
\* agree", project() and consume()).
StoreAgreesWithProjection ==
  \A i \in Places("fact_added") : IndexTrust(i) = FactTrust(i)

\* What the failure table says of a run that has just returned is what the
\* caller was told: every missing step has a row and all its rows are without
\* a remedy, declined exactly if the caller was; and a failure of a committed
\* step was overcome by another provider, the one that made the step's fact
\* (link_resolutions() after run()).
RowsTellOutcome ==
  outcome # None =>
    /\ \A s \in missing : \E i \in FailureRows \cap ThisRun : log[i].step = s
    /\ \A i \in FailureRows \cap ThisRun :
         IF log[i].step \in missing
         THEN Resolution(i) = IF outcome.status = "declined" THEN "declined" ELSE "abandoned"
         ELSE Resolution(i) = "escalated" /\ Fix(i) \in Facts
=============================================================================
