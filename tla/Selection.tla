----------------------------- MODULE Selection -----------------------------
(***************************************************************************)
(* The provider policy: Registry.select with what it reads of a manifest   *)
(* (registry.py) and of the measurements (policy.py).  A pure function of  *)
(* the registrations and one request; no state.                            *)
(*                                                                         *)
(* A request is [cap, schema, trust, mime, exclude, floor, ms]: the         *)
(* keyword arguments of select(); None stands for Python's None.           *)
(***************************************************************************)
EXTENDS Trust

CONSTANTS
  None,         \* Python's None
  Providers,    \* the ids registered with add_provider
  Manifest,     \* [Providers -> the fields of a manifest that select reads]
  Adapters,     \* the kinds an adapter is registered for
  ControlCaps,  \* the capabilities declared with is_control
  Rows          \* the measurements: <<provider, schema or None>> -> row

\* A scalar max_trust_in is [default |-> level, listed |-> <<>>]; the per-
\* capability form has default "T2" and its entries in `listed`.
\* `modality` holds the mime types that the types and families of modality_in
\* stand for, `control` the capabilities that the flag or the list of
\* may_emit_control stands for, `order` the id's place among the sorted ids.
ManifestOK(m) ==
  /\ m.ceiling.default \in TrustLevels
  /\ \A c \in DOMAIN m.ceiling.listed : m.ceiling.listed[c] \in TrustLevels
  /\ m.order \in Nat

\* A measured cost or rate is a number or None, never a made-up zero.
RowOK(r) == r.p90 \in Nat \cup {None} /\ r.rate \in Nat \cup {None}

ASSUME ManifestAssumption ==
  /\ None \notin Nat \cup Providers
  /\ \A p \in Providers : ManifestOK(Manifest[p])
  /\ \A p, q \in Providers : Manifest[p].order = Manifest[q].order => p = q
  /\ \A k \in DOMAIN Rows : RowOK(Rows[k])

----------------------------------------------------------------------------
(* What a manifest says.                                                   *)

MaxTrustIn(p, cap) ==
  LET c == Manifest[p].ceiling
  IN  IF cap \in DOMAIN c.listed THEN c.listed[cap] ELSE c.default

MayEmitControl(p, cap) == cap \in Manifest[p].control

\* An empty modality_in takes every payload.
Accepts(p, mime) == Manifest[p].modality = {} \/ mime \in Manifest[p].modality

\* An empty `produces` stays in every pool.
Produces(p, schema) ==
  schema = None \/ Manifest[p].produces = {} \/ schema \in Manifest[p].produces

----------------------------------------------------------------------------
(* What was measured.                                                      *)

Unmeasured == [p90 |-> None, rate |-> None]

\* The row of the pair, else the provider's pooled row, else nothing.
MeasureOf(p, schema) ==
  CASE <<p, schema>> \in DOMAIN Rows -> Rows[<<p, schema>>]
    [] <<p, schema>> \notin DOMAIN Rows /\ <<p, None>> \in DOMAIN Rows ->
         Rows[<<p, None>>]
    [] OTHER -> Unmeasured

GoodEnough(p, r) ==
  LET rate == MeasureOf(p, r.schema).rate
  IN  r.floor = None \/ rate = None \/ rate >= r.floor

CheapEnough(p, r) ==
  LET cost == MeasureOf(p, r.schema).p90
  IN  r.ms = None \/ cost = None \/ cost <= r.ms

----------------------------------------------------------------------------
(* The choice.                                                             *)

\* The filters that do not depend on what was measured.
Admitted(p, r) ==
  /\ p \notin r.exclude
  /\ r.cap \in Manifest[p].implements
  /\ Produces(p, r.schema)
  /\ Accepts(p, r.mime)
  /\ Within(r.trust, MaxTrustIn(p, r.cap))
  /\ MayEmitControl(p, r.cap) <=> r.cap \in ControlCaps
  /\ Manifest[p].kind \in Adapters

Pool(r) == {p \in Providers : Admitted(p, r) /\ GoodEnough(p, r) /\ CheapEnough(p, r)}

\* rank(): code first, then cheapest with an unmeasured cost last, then id.
Cheaper(a, b) == a # None /\ (b = None \/ a < b)

Before(p, q, schema) ==
  LET a == MeasureOf(p, schema).p90
      b == MeasureOf(q, schema).p90
      pCode == Manifest[p].kind = "code"
      qCode == Manifest[q].kind = "code"
  IN  \/ pCode /\ ~qCode
      \/ pCode = qCode /\ Cheaper(a, b)
      \/ pCode = qCode /\ a = b /\ Manifest[p].order < Manifest[q].order

\* Only for a request whose pool is not empty; an empty pool is a CapabilityGap.
Select(r) == CHOOSE p \in Pool(r) : \A q \in Pool(r) \ {p} : Before(p, q, r.schema)
=============================================================================
