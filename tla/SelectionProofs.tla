-------------------------- MODULE SelectionProofs --------------------------
(***************************************************************************)
(* Registry.select is well defined: a pool that is not empty has a first   *)
(* provider in the order of rank(), and that is the one selected.          *)
(***************************************************************************)
EXTENDS Selection, WellFoundedInduction, TLAPS

\* A nonempty set of naturals has a least element.
LEMMA LeastOfNaturals ==
  ASSUME NEW T \in SUBSET Nat, T # {}
  PROVE  \E x \in T : \A y \in T : x <= y
<1>1. IsWellFoundedOn(OpToRel(<, Nat), Nat)
  BY NatLessThanWellFounded
<1>2. PICK x \in T : \A y \in T : ~(<<y, x>> \in OpToRel(<, Nat))
  BY <1>1, WFMin
<1>3. \A y \in T : ~(y < x)
  BY <1>2 DEF OpToRel
<1> QED  BY <1>3

\* The same for the values of a function into the naturals.
LEMMA LeastValue ==
  ASSUME NEW S, S # {}, NEW f \in [S -> Nat]
  PROVE  \E x \in S : \A y \in S : f[x] <= f[y]
<1> DEFINE T == {f[x] : x \in S}
<1>1. T \in SUBSET Nat /\ T # {}
  OBVIOUS
<1>2. PICK n \in T : \A m \in T : n <= m
  BY <1>1, LeastOfNaturals
<1> QED  BY <1>2

\* A measured cost is a number or None.
LEMMA MeasuredCost ==
  ASSUME NEW p, NEW schema
  PROVE  MeasureOf(p, schema).p90 \in Nat \cup {None}
BY ManifestAssumption DEF MeasureOf, Unmeasured, RowOK

\* Whatever providers are registered and measured, a pool that is not empty
\* has a first provider: select() returns one that passed every filter and
\* that no other one of the pool comes before (rank() is a strict order with
\* the id as its last key).
THEOREM SelectionIsBest ==
  ASSUME NEW r, Pool(r) # {}
  PROVE  /\ Select(r) \in Pool(r)
         /\ \A q \in Pool(r) \ {Select(r)} : Before(Select(r), q, r.schema)
<1> DEFINE S == Pool(r)
           code(p) == Manifest[p].kind = "code"
           cost(p) == MeasureOf(p, r.schema).p90
           codes == {p \in S : code(p)}
           kindBest == IF codes # {} THEN codes ELSE S
           measured == {p \in kindBest : cost(p) # None}
<1>1. kindBest # {} /\ kindBest \subseteq S
      /\ \A p \in kindBest, q \in S : code(q) => code(p)
  OBVIOUS
<1>2. \A p : cost(p) \in Nat \cup {None}
  BY MeasuredCost
<1>3. PICK c \in kindBest : \A q \in kindBest : cost(q) = cost(c) \/ Cheaper(cost(c), cost(q))
  <2>1. CASE measured = {}
    BY <1>1, <2>1
  <2>2. CASE measured # {}
    <3> DEFINE f == [p \in measured |-> cost(p)]
    <3>1. f \in [measured -> Nat]
      BY <1>2
    <3> HIDE DEF f
    <3>2. PICK c \in measured : \A q \in measured : f[c] <= f[q]
      BY <3>1, <2>2, LeastValue
    <3>3. \A q \in measured : cost(c) <= cost(q) /\ cost(c) \in Nat /\ cost(q) \in Nat
      <4>1. \A q \in measured : f[q] = cost(q)
        BY DEF f
      <4>2. \A q \in measured : cost(q) \in Nat
        BY <1>2
      <4> HIDE DEF cost, measured
      <4> QED  BY <3>2, <4>1, <4>2
    <3>4. ASSUME NEW q \in kindBest
          PROVE  cost(q) = cost(c) \/ Cheaper(cost(c), cost(q))
      <4>0. cost(c) # None
        OBVIOUS
      <4>1. CASE q \in measured
        <5> HIDE DEF cost
        <5> QED  BY <3>3, <4>0, <4>1 DEF Cheaper
      <4>2. CASE q \notin measured
        BY <4>0, <4>2, <3>2 DEF Cheaper
      <4> QED  BY <4>1, <4>2
    <3> QED  BY <3>4
  <2> QED  BY <2>1, <2>2
<1> DEFINE costBest == {p \in kindBest : cost(p) = cost(c)}
           g == [p \in costBest |-> Manifest[p].order]
<1>4. costBest # {} /\ costBest \subseteq Providers
  BY <1>1, <1>3 DEF Pool
<1>5. g \in [costBest -> Nat]
  BY <1>4, ManifestAssumption DEF ManifestOK
<1> HIDE DEF g
<1>6. PICK w \in costBest : \A q \in costBest : g[w] <= g[q]
  BY <1>4, <1>5, LeastValue
<1>7. \A q \in costBest \ {w} : Manifest[w].order < Manifest[q].order
  <2> TAKE q \in costBest \ {w}
  <2>1. Manifest[w].order # Manifest[q].order
    BY <1>4, ManifestAssumption
  <2>2. Manifest[w].order <= Manifest[q].order
    BY <1>6 DEF g
  <2>3. Manifest[w].order \in Nat /\ Manifest[q].order \in Nat
    BY <1>4, ManifestAssumption DEF ManifestOK
  <2> QED  BY <2>1, <2>2, <2>3
<1>8. w \in S
  BY <1>1
<1>9. ASSUME NEW q \in S \ {w}
      PROVE  Before(w, q, r.schema)
  <2>1. w \in kindBest /\ cost(w) = cost(c)
    BY <1>6
  <2>2. CASE code(q) # code(w)
    BY <1>1, <2>1, <2>2 DEF Before
  <2>3. CASE code(q) = code(w)
    <3>1. q \in kindBest
      BY <1>1, <2>1, <2>3
    <3>2. CASE cost(q) = cost(c)
      BY <1>7, <2>1, <2>3, <3>1, <3>2 DEF Before
    <3>3. CASE Cheaper(cost(c), cost(q))
      BY <2>1, <2>3, <3>3 DEF Before
    <3> QED  BY <1>3, <3>1, <3>2, <3>3
  <2> QED  BY <2>2, <2>3
<1> QED  BY <1>8, <1>9 DEF Select

\* The provider that is called may read what it is given: it is registered
\* and the trust of the payload is within its ceiling for the capability
\* (select()'s trust filter).
THEOREM SelectionMayRead ==
  ASSUME NEW r, Pool(r) # {}
  PROVE  /\ Select(r) \in Providers \ r.exclude
         /\ Within(r.trust, MaxTrustIn(Select(r), r.cap))
BY SelectionIsBest DEF Pool, Admitted
=============================================================================
