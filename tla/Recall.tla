------------------------------- MODULE Recall -------------------------------
(***************************************************************************)
(* What memory hands to a planner: recall with its filter on trust         *)
(* (memory/episodic.py) and the notes on earlier failures                  *)
(* (memory/failure.py), both over the ledger the loop has written.         *)
(***************************************************************************)
EXTENDS Resolutions

----------------------------------------------------------------------------
(* recall and recall_for_control.  A policy is [allow, control, limit,     *)
(* class].  `match` are the facts that the query, the schema, the subject  *)
(* and the dates let through; the loop writes no valid_until.              *)

InteractiveLimit == 5

EffectiveLimit(policy) ==
  IF policy.class = "interactive" /\ policy.limit > InteractiveLimit
  THEN InteractiveLimit ELSE policy.limit

Allowed(policy) ==
  IF policy.control THEN ControlSafe \cap policy.allow ELSE policy.allow

\* ORDER BY observed_at DESC LIMIT n; the clock follows the ledger here.
Latest(n, facts) == {f \in facts : Cardinality({g \in facts : g > f}) < n}

\* A mutant: the rows are limited first and filtered then.
RecallLimited(policy, match) ==
  {f \in Latest(EffectiveLimit(policy), match) : IndexTrust(f) \in Allowed(policy)}

RecallFacts(policy, match) ==
  Latest(EffectiveLimit(policy), {f \in match : IndexTrust(f) \in Allowed(policy)})

\* The flag stays set on the caller's policy; that only narrows later calls.
RecallForControl(policy, match) ==
  RecallFacts([policy EXCEPT !.control = TRUE], match)

----------------------------------------------------------------------------
(* v_signature and avoidance.                                              *)

\* The group a failure is counted in, as far as the events tell them apart.
Signature(i) == <<log[i].type, log[i].provider, log[i].label>>

Remedies == {"retry_same", "escalated", "replanned"}

Recovered(signature) ==
  {i \in FailureRows : Signature(i) = signature /\ Resolution(i) \in Remedies}

Signatures == {Signature(i) : i \in FailureRows}

----------------------------------------------------------------------------

\* Memory as a way around the trust boundary: what a planner is given are the
\* latest facts, up to its limit, among exactly those that were made from
\* input a control provider may read, as the payload was labelled when they
\* were made; a fact from outside neither gets in nor takes the place of one
\* (consume(), recall(), recall_for_control()).
ControlRecallClean ==
  \A match \in SUBSET Places("fact_added"), allow \in SUBSET TrustLevels, limit \in 1 .. 2 :
    LET policy == [allow |-> allow, control |-> FALSE, limit |-> limit, class |-> "interactive"]
    IN  RecallForControl(policy, match) =
          Latest(limit, {f \in match : log[f].label \in ControlSafe \cap allow})

\* A remedy is never unlearned: each ingest computes anew from a longer
\* ledger what became of every failure, and the failures of a signature that
\* were overcome once are so for good (link_resolutions(), avoidance()).
RemedyKept ==
  [][\A s \in Signatures : Recovered(s) \subseteq Recovered(s)']_log
=============================================================================
