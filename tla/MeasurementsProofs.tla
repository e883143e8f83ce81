-------------------------- MODULE MeasurementsProofs --------------------------
(***************************************************************************)
(* What memory measures, for every set of providers, schemas, outcomes and *)
(* histories: a cost is a p90 however it was pooled, nobody is turned down *)
(* without evidence, and nobody who was turned down comes back.            *)
(***************************************************************************)
EXTENDS Measurements, FiniteSetTheorems, WellFoundedInduction, TLAPS

----------------------------------------------------------------------------
(* The rows of a bag of calls.                                             *)

\* A table of calls.
Table(B) == IsABag(B) /\ IsFiniteSet(DOMAIN B) /\ DOMAIN B \subseteq Call

\* The calls of B that are in S.
Some(B, S) == Restrict(B, S \cap DOMAIN B)

LEMMA CopiesOf ==
  ASSUME NEW B, Table(B)
  PROVE  /\ IsFiniteSet(Copies(B)) /\ Number(B) \in Nat
         /\ Number(B) = 0 <=> DOMAIN B = {}
<1> DEFINE rowsOf == [c \in DOMAIN B |-> {c} \X (1 .. B[c])]
           S == {rowsOf[c] : c \in DOMAIN B}
<1>1. \A c \in DOMAIN B : B[c] \in Nat /\ B[c] > 0
  BY DEF Table, IsABag
<1>2. IsFiniteSet(S)
  <2>1. rowsOf \in Surjection(DOMAIN B, S)
    BY DEF Surjection
  <2> QED  BY <2>1, FS_Surjection DEF Table
<1>3. \A T \in S : IsFiniteSet(T)
  <2> SUFFICES ASSUME NEW c \in DOMAIN B PROVE IsFiniteSet({c} \X (1 .. B[c]))
    OBVIOUS
  <2>1. IsFiniteSet({c})
    BY FS_Singleton
  <2>2. IsFiniteSet(1 .. B[c])
    BY <1>1, FS_Interval
  <2> QED  BY <2>1, <2>2, FS_Product
<1>4. Copies(B) = UNION S
  BY DEF Copies, BagToSet
<1>5. IsFiniteSet(Copies(B))
  BY <1>2, <1>3, <1>4, FS_UNION
<1>6. Copies(B) = {} <=> DOMAIN B = {}
  <2>1. \A c \in DOMAIN B : <<c, 1>> \in Copies(B)
    BY <1>1 DEF Copies, BagToSet
  <2>2. DOMAIN B = {} => Copies(B) = {}
    BY DEF Copies, BagToSet
  <2> QED  BY <2>1, <2>2
<1> QED  BY <1>5, <1>6, FS_CardinalityType, FS_EmptySet DEF Number

LEMMA SomeOf ==
  ASSUME NEW B, Table(B), NEW S
  PROVE  /\ Table(Some(B, S)) /\ DOMAIN Some(B, S) = S \cap DOMAIN B
         /\ \A c \in S \cap DOMAIN B : Some(B, S)[c] = B[c]
         /\ Copies(Some(B, S)) = {row \in Copies(B) : row[1] \in S}
<1>1. DOMAIN Some(B, S) = S \cap DOMAIN B /\ \A c \in S \cap DOMAIN B : Some(B, S)[c] = B[c]
  BY DEF Some, Restrict
<1>2. IsFiniteSet(S \cap DOMAIN B)
  BY FS_Intersection DEF Table
<1>3. IsABag(Some(B, S))
  BY DEF Table, IsABag, Some, Restrict
<1>4. Copies(Some(B, S)) = {row \in Copies(B) : row[1] \in S}
  <2>1. \A row \in Copies(Some(B, S)) : row \in Copies(B) /\ row[1] \in S
    BY <1>1 DEF Copies, BagToSet
  <2>2. \A row \in Copies(B) : row[1] \in S => row \in Copies(Some(B, S))
    BY <1>1 DEF Copies, BagToSet
  <2> QED  BY <2>1, <2>2
<1> QED  BY <1>1, <1>2, <1>3, <1>4 DEF Table

\* Fewer kinds of calls have fewer rows, and disjoint ones add up.
LEMMA SomeNumber ==
  ASSUME NEW B, Table(B), NEW S, NEW T
  PROVE  /\ Number(Some(B, S)) \in Nat
         /\ S \cap DOMAIN B \subseteq T => Number(Some(B, S)) <= Number(Some(B, T))
         /\ S \cap T \cap DOMAIN B = {} =>
              Number(Some(B, S \cup T)) = Number(Some(B, S)) + Number(Some(B, T))
<1> DEFINE R(U) == Copies(Some(B, U))
<1>1. \A U : Table(Some(B, U)) /\ R(U) = {row \in Copies(B) : row[1] \in U}
  BY SomeOf
<1>2. \A U : IsFiniteSet(R(U)) /\ Number(Some(B, U)) \in Nat
  BY <1>1, CopiesOf
<1>3. \A row \in Copies(B) : row[1] \in DOMAIN B
  BY DEF Copies, BagToSet
<1> HIDE DEF R
<1>4. ASSUME S \cap DOMAIN B \subseteq T PROVE Number(Some(B, S)) <= Number(Some(B, T))
  <2>1. R(S) \subseteq R(T)
    BY <1>1, <1>3, <1>4
  <2>2. Cardinality(R(S)) <= Cardinality(R(T))
    BY <1>2, <2>1, FS_Subset
  <2> QED  BY <2>2 DEF Number, R
<1>5. ASSUME S \cap T \cap DOMAIN B = {}
      PROVE  Number(Some(B, S \cup T)) = Number(Some(B, S)) + Number(Some(B, T))
  <2>1. R(S \cup T) = R(S) \cup R(T) /\ R(S) \cap R(T) = {}
    BY <1>1, <1>3, <1>5
  <2>2. Cardinality(R(S) \cup R(T)) = Cardinality(R(S)) + Cardinality(R(T)) - Cardinality(R(S) \cap R(T))
    BY <1>2, FS_Union
  <2>3. Cardinality(R(S)) \in Nat /\ Cardinality(R(T)) \in Nat
    BY <1>2, FS_CardinalityType
  <2>4. Cardinality(R(S \cup T)) = Cardinality(R(S)) + Cardinality(R(T))
    <3>1. Cardinality(R(S) \cap R(T)) = 0
      BY <2>1, FS_EmptySet
    <3>2. Cardinality(R(S \cup T)) = Cardinality(R(S) \cup R(T))
      BY <2>1
    <3> QED  BY <2>2, <2>3, <3>1, <3>2
  <2> QED  BY <2>4 DEF Number, R
<1> QED  BY <1>2, <1>4, <1>5

\* The views are parts of the table, and so are views of views.
LEMMA SomeSome ==
  ASSUME NEW B, NEW S, NEW T
  PROVE  Some(Some(B, S), T) = Some(B, S \cap T)
<1>1. DOMAIN Some(B, S) = S \cap DOMAIN B
  BY DEF Some, Restrict
<1> QED  BY <1>1 DEF Some, Restrict

LEMMA Views ==
  ASSUME NEW B, NEW p, NEW s, NEW S
  PROVE  /\ S = {c \in DOMAIN B : c.provider = p} => Of(B, p) = Some(B, S)
         /\ S = {c \in DOMAIN B : c.provider = p /\ c.schema = s} => OfPair(B, p, s) = Some(B, S)
         /\ S = {c \in DOMAIN B : c.ending # "rejected"} => Priced(B) = Some(B, S)
         /\ S = {c \in DOMAIN B : c.ending = "fact"} => Facts(B) = Number(Some(B, S))
<1>1. S \subseteq DOMAIN B => Some(B, S) = [c \in S |-> B[c]]
  BY DEF Some, Restrict
<1>2. S = {c \in DOMAIN B : c.provider = p} => Of(B, p) = Some(B, S)
  BY <1>1 DEF Of, BagToSet, Restrict
<1>3. S = {c \in DOMAIN B : c.ending # "rejected"} => Priced(B) = Some(B, S)
  BY <1>1 DEF Priced, BagToSet, Restrict
<1>4. S = {c \in DOMAIN B : c.ending = "fact"} => Facts(B) = Number(Some(B, S))
  BY <1>1 DEF Facts, BagToSet, Restrict
<1>5. ASSUME S = {c \in DOMAIN B : c.provider = p /\ c.schema = s}
      PROVE  OfPair(B, p, s) = Some(B, S)
  <2> PICK A : A = Of(B, p)
    OBVIOUS
  <2>1. DOMAIN A = {c \in DOMAIN B : c.provider = p} /\ \A c \in DOMAIN A : A[c] = B[c]
    BY DEF Of, BagToSet, Restrict
  <2>2. S = {c \in DOMAIN A : c.schema = s} /\ S \subseteq DOMAIN B
    BY <1>5, <2>1
  <2>3. OfPair(B, p, s) = [c \in S |-> A[c]]
    BY <2>1, <2>2 DEF OfPair, BagToSet, Restrict
  <2> QED  BY <1>1, <2>1, <2>2, <2>3
<1> QED  BY <1>2, <1>3, <1>4, <1>5

----------------------------------------------------------------------------
(* Least and greatest.                                                     *)

\* Every set of parts of a finite set has a smallest part in it.
LEMMA SmallestPart ==
  ASSUME NEW U, IsFiniteSet(U), NEW parts \in SUBSET (SUBSET U), parts # {}
  PROVE  \E V \in parts : \A W \in parts : W \subseteq V => W = V
<1>1. IsWellFoundedOn(StrictSubsetOrdering(U), FiniteSubsetsOf(U))
  BY FS_StrictSubsetOrderingWellFounded
<1>2. parts \subseteq FiniteSubsetsOf(U)
  BY FS_FiniteSubsetsOfFinite
<1>3. \E V \in parts : \A W \in parts : ~ (<<W, V>> \in StrictSubsetOrdering(U))
  BY <1>1, <1>2, WFMin
<1> QED  BY <1>3 DEF StrictSubsetOrdering

LEMMA Greatest ==
  ASSUME NEW T, IsFiniteSet(T), T \subseteq Nat, T # {}
  PROVE  \E d \in T : \A e \in T : e <= d
<1> DEFINE from(d) == {e \in T : d <= e}
<1> PICK parts : parts = {from(d) : d \in T}
  OBVIOUS
<1>1. PICK V \in parts : \A W \in parts : W \subseteq V => W = V
  <2>1. parts \in SUBSET (SUBSET T) /\ parts # {}
    OBVIOUS
  <2>2. IsFiniteSet(T)
    OBVIOUS
  <2>3. \E V \in parts : \A W \in parts : W \subseteq V => W = V
    BY ONLY <2>1, <2>2, SmallestPart
  <2> QED  BY <2>3
<1>2. PICK d \in T : V = from(d)
  OBVIOUS
<1>3. ASSUME NEW e \in T, ~ (e <= d)
      PROVE  FALSE
  <2>1. d \in Nat /\ e \in Nat /\ d < e
    BY <1>3
  <2>2. \A x \in T : x \in Nat /\ (e <= x => d <= x)
    BY <2>1
  <2>3. from(e) \subseteq from(d)
    BY <2>2
  <2>4. d \in from(d) /\ d \notin from(e)
    BY <2>1
  <2> QED  BY <1>1, <1>2, <2>3, <2>4
<1> QED  BY <1>3

LEMMA Least ==
  ASSUME NEW T \in SUBSET Nat, T # {}
  PROVE  \E d \in T : \A e \in T : d <= e
<1>1. PICK d \in T : \A e \in T : ~ (<<e, d>> \in OpToRel(<, Nat))
  BY NatLessThanWellFounded, WFMin
<1>2. \A e \in T : ~ (e < d)
  BY <1>1 DEF OpToRel
<1> QED  BY <1>2

----------------------------------------------------------------------------
(* The p90.                                                                *)

LEMMA Durations ==
  ASSUME NEW B, Table(B)
  PROVE  LET D == {Duration(c) : c \in DOMAIN B}
         IN  IsFiniteSet(D) /\ D \subseteq Nat
<1> DEFINE D == {Duration(c) : c \in DOMAIN B}
           f == [c \in DOMAIN B |-> Duration(c)]
<1>1. f \in Surjection(DOMAIN B, D)
  BY DEF Surjection
<1>2. IsFiniteSet(D)
  BY <1>1, FS_Surjection DEF Table
<1>3. D \subseteq Nat
  BY DEF Table, Call, Duration
<1> QED  BY <1>2, <1>3

LEMMA UpToIs ==
  ASSUME NEW B, Table(B), NEW d
  PROVE  /\ UpTo(B, d) = Number(Some(B, {c \in DOMAIN B : Duration(c) <= d}))
         /\ UpTo(B, d) \in Nat
<1>1. UpTo(B, d) = Number(Some(B, {c \in DOMAIN B : Duration(c) <= d}))
  BY DEF UpTo, BagToSet, Some, Restrict
<1> QED  BY <1>1, SomeNumber

\* ROW_NUMBER() gives every number up to the number of rows.
LEMMA RankFound ==
  ASSUME NEW B, Table(B), NEW r \in Nat, 1 <= r, r <= Number(B)
  PROVE  /\ AtRank(B, r) \in Nat /\ UpTo(B, AtRank(B, r)) >= r
         /\ UpTo(B, AtRank(B, r) - 1) < r
<1> DEFINE D == {Duration(c) : c \in DOMAIN B}
           E == {d \in D : UpTo(B, d) >= r}
<1>0. IsFiniteSet(D) /\ D \subseteq Nat /\ \A c \in DOMAIN B : Duration(c) \in D
  BY Durations
<1>1. E # {}
  <2>1. D # {}
    <3>1. Number(B) # 0
      OBVIOUS
    <3>2. DOMAIN B # {}
      BY <3>1, CopiesOf
    <3> QED  BY <3>2
  <2>2. PICK d \in D : \A e \in D : e <= d
    BY <1>0, <2>1, Greatest
  <2>3. {c \in DOMAIN B : Duration(c) <= d} = DOMAIN B
    BY <1>0, <2>2
  <2>4. Some(B, DOMAIN B) = B
    BY DEF Some, Restrict, Table, IsABag
  <2>5. UpTo(B, d) = Number(B)
    BY <2>3, <2>4, UpToIs
  <2> QED  BY <2>5
<1>2. PICK d \in E : \A e \in E : d <= e
  BY <1>0, <1>1, Least
<1>3. ASSUME ~ (UpTo(B, d - 1) < r)
      PROVE  FALSE
  <2> DEFINE F == {e \in D : e <= d - 1}
  <2>0. UpTo(B, d - 1) \in Nat
    BY UpToIs
  <2>1. UpTo(B, d - 1) \in Nat /\ UpTo(B, d - 1) >= r /\ d \in Nat
    BY <1>0, <1>3, <2>0
  <2>2. F # {}
    <3>1. ASSUME F = {} PROVE FALSE
      <4>1. {c \in DOMAIN B : Duration(c) <= d - 1} = {}
        BY <1>0, <3>1
      <4>2. DOMAIN Some(B, {}) = {} \cap DOMAIN B /\ Table(Some(B, {}))
        BY SomeOf
      <4>3. Number(Some(B, {})) = 0
        BY <4>2, CopiesOf
      <4>4. UpTo(B, d - 1) = 0
        BY <4>1, <4>3, UpToIs
      <4> QED  BY <2>1, <4>4
    <3> QED  BY <3>1
  <2>3. PICK e \in F : \A x \in F : x <= e
    <3>1. IsFiniteSet(F)
      BY <1>0, FS_Subset
    <3> QED  BY <1>0, <2>2, <3>1, Greatest
  <2>4. {c \in DOMAIN B : Duration(c) <= d - 1} = {c \in DOMAIN B : Duration(c) <= e}
    <3>1. e \in Nat /\ e <= d - 1
      BY <1>0, <2>3
    <3>2. ASSUME NEW x \in D PROVE x <= d - 1 <=> x <= e
      <4>1. x \in Nat /\ d \in Nat
        BY <1>0, <2>1
      <4>2. x <= d - 1 => x <= e
        BY <2>3
      <4> QED  BY <3>1, <4>1, <4>2
    <3> QED  BY <1>0, <3>2
  <2>5. UpTo(B, e) = UpTo(B, d - 1)
    BY <2>4, UpToIs
  <2>6. e \in E
    BY <2>1, <2>3, <2>5
  <2>7. d <= e /\ e <= d - 1 /\ e \in Nat
    BY <1>0, <1>2, <2>3, <2>6
  <2> QED  BY <2>1, <2>7
<1>4. AtRank(B, r) \in D /\ UpTo(B, AtRank(B, r)) >= r /\ UpTo(B, AtRank(B, r) - 1) < r
  <2>1. \E x \in D : UpTo(B, x) >= r /\ UpTo(B, x - 1) < r
    BY <1>2, <1>3
  <2>2. AtRank(B, r) = CHOOSE x \in D : UpTo(B, x) >= r /\ UpTo(B, x - 1) < r
    BY DEF AtRank, BagToSet
  <2> HIDE DEF D
  <2> QED  BY <2>1, <2>2
<1> QED  BY <1>0, <1>4

\* Nine in ten of the durations are the p90 or less, and it is the least such
\* number.
LEMMA P90Covers ==
  ASSUME NEW B, Table(B), 1 <= Number(B)
  PROVE  /\ P90(B) \in Nat /\ 10 * UpTo(B, P90(B)) >= 9 * Number(B)
         /\ 10 * UpTo(B, P90(B) - 1) < 9 * Number(B)
<1> DEFINE n == Number(B)
           r == P90Rank(n)
<1>1. n \in Nat /\ n >= 1
  BY CopiesOf
<1>2. r \in Nat /\ 1 <= r /\ r <= n /\ 10 * r >= 9 * n /\ 10 * r < 9 * n + 10
  BY <1>1 DEF P90Rank
<1>3. P90(B) \in Nat /\ UpTo(B, P90(B)) >= r /\ UpTo(B, P90(B) - 1) < r
  BY <1>2, RankFound DEF P90
<1>4. UpTo(B, P90(B)) \in Nat /\ UpTo(B, P90(B) - 1) \in Nat
  BY UpToIs
<1> QED  BY <1>1, <1>2, <1>3, <1>4

\* How many of the calls of B are in S.
Tally(B, S) == Number(Some(B, S))

LEMMA TallyIs ==
  ASSUME NEW B, Table(B)
  PROVE  /\ \A S : Tally(B, S) \in Nat
         /\ \A S, T : S \cap DOMAIN B \subseteq T => Tally(B, S) <= Tally(B, T)
         /\ \A S, T : S \cap T \cap DOMAIN B = {} => Tally(B, S \cup T) = Tally(B, S) + Tally(B, T)
         /\ \A S : S \cap DOMAIN B = {} => Tally(B, S) = 0
         /\ Tally(B, DOMAIN B) = Number(B)
         /\ \A d : UpTo(B, d) = Tally(B, {c \in DOMAIN B : Duration(c) <= d})
<1>1. \A S, T : /\ Tally(B, S) \in Nat
                /\ S \cap DOMAIN B \subseteq T => Tally(B, S) <= Tally(B, T)
                /\ S \cap T \cap DOMAIN B = {} => Tally(B, S \cup T) = Tally(B, S) + Tally(B, T)
  BY SomeNumber DEF Tally
<1>2. \A S : S \cap DOMAIN B = {} => Tally(B, S) = 0
  <2> SUFFICES ASSUME NEW S, S \cap DOMAIN B = {} PROVE Number(Some(B, S)) = 0
    BY DEF Tally
  <2>1. Table(Some(B, S)) /\ DOMAIN Some(B, S) = {}
    BY SomeOf
  <2> QED  BY <2>1, CopiesOf
<1>3. Tally(B, DOMAIN B) = Number(B)
  <2>1. Some(B, DOMAIN B) = B
    BY DEF Some, Restrict, Table, IsABag
  <2> QED  BY <2>1 DEF Tally
<1>4. \A d : UpTo(B, d) = Tally(B, {c \in DOMAIN B : Duration(c) <= d})
  BY UpToIs DEF Tally
<1> QED  BY <1>1, <1>2, <1>3, <1>4

LEMMA TallyOfSome ==
  ASSUME NEW B, NEW S, NEW T
  PROVE  Tally(Some(B, S), T) = Tally(B, S \cap T)
BY SomeSome DEF Tally

LEMMA UpToGrows ==
  ASSUME NEW B, Table(B), NEW d \in Nat, NEW e \in Nat, d <= e
  PROVE  UpTo(B, d) <= UpTo(B, e)
<1> PICK S, T : S = {c \in DOMAIN B : Duration(c) <= d} /\ T = {c \in DOMAIN B : Duration(c) <= e}
  OBVIOUS
<1>1. \A c \in DOMAIN B : Duration(c) \in Nat
  BY DEF Table, Call, Duration
<1>2. S \cap DOMAIN B \subseteq T
  BY <1>1
<1>3. Tally(B, S) <= Tally(B, T)
  BY <1>2, TallyIs
<1>4. UpTo(B, d) = Tally(B, S) /\ UpTo(B, e) = Tally(B, T)
  BY TallyIs
<1> QED  BY <1>3, <1>4

\* A cost that is no less than the p90 of each schema covers all the calls of
\* a provider: schema by schema, by the smallest set of them that it does not
\* cover.
LEMMA PoolCovers ==
  ASSUME NEW C, Table(C), NEW p, \A c \in DOMAIN C : c.provider = p, NEW cost \in Nat,
         \A s \in {c.schema : c \in DOMAIN C} : P90(OfPair(C, p, s)) <= cost
  PROVE  10 * UpTo(C, cost) >= 9 * Number(C)
<1> DEFINE served == {c.schema : c \in DOMAIN C}
           of(T) == {c \in DOMAIN C : c.schema \in T}
           N(T) == Tally(C, of(T))
<1> PICK cheap : cheap = {c \in DOMAIN C : Duration(c) <= cost}
  OBVIOUS
<1> DEFINE K(T) == Tally(C, of(T) \cap cheap)
           Good(T) == 10 * K(T) >= 9 * N(T)
<1>1. \A T : N(T) \in Nat /\ K(T) \in Nat
  BY TallyIs
<1>2. IsFiniteSet(served)
  <2> DEFINE f == [c \in DOMAIN C |-> c.schema]
  <2>1. f \in Surjection(DOMAIN C, served)
    BY DEF Surjection
  <2> QED  BY <2>1, FS_Surjection DEF Table
<1>3. ASSUME NEW s \in served
      PROVE  Good({s})
  <2> PICK B, S : B = OfPair(C, p, s) /\ S = of({s})
    OBVIOUS
  <2>1. B = Some(C, S)
    <3>1. S = {c \in DOMAIN C : c.provider = p /\ c.schema = s}
      OBVIOUS
    <3>2. OfPair(C, p, s) = Some(C, S)
      BY ONLY <3>1, Views
    <3> QED  BY ONLY <3>2, B = OfPair(C, p, s)
  <2>2. Table(B) /\ DOMAIN B = S \cap DOMAIN C
    BY ONLY Table(C), <2>1, SomeOf
  <2>3. 1 <= Number(B)
    <3>1. DOMAIN B # {}
      BY <2>2
    <3>2. Number(B) \in Nat /\ Number(B) # 0
      BY <2>2, <3>1, CopiesOf
    <3> QED  BY <3>2
  <2>4. P90(B) \in Nat /\ 10 * UpTo(B, P90(B)) >= 9 * Number(B)
    BY <2>2, <2>3, P90Covers
  <2>5. P90(B) <= cost
    OBVIOUS
  <2>6. UpTo(B, P90(B)) <= UpTo(B, cost)
    BY <2>2, <2>4, <2>5, UpToGrows
  <2>7. UpTo(B, cost) = K({s})
    <3> PICK U : U = {c \in DOMAIN B : Duration(c) <= cost}
      OBVIOUS
    <3>1. S \cap U = S \cap cheap
      BY <2>2
    <3>2. UpTo(B, cost) = Tally(B, U)
      BY <2>2, TallyIs
    <3>3. Tally(B, U) = Tally(C, S \cap U)
      BY ONLY <2>1, TallyOfSome
    <3> QED  BY <3>1, <3>2, <3>3
  <2>8. UpTo(B, P90(B)) \in Nat /\ UpTo(B, cost) \in Nat /\ Number(B) \in Nat
    BY <2>2, UpToIs, CopiesOf
  <2>9. N({s}) = Number(B)
    BY <2>1 DEF Tally
  <2> HIDE DEF N, K
  <2> QED  BY <2>4, <2>6, <2>7, <2>8, <2>9
<1>4. ASSUME NEW T, NEW s \in T, Good(T \ {s}), Good({s})
      PROVE  Good(T)
  <2> PICK X, Y : X = of(T \ {s}) /\ Y = of({s})
    OBVIOUS
  <2>1. of(T) = X \cup Y /\ X \cap Y \cap DOMAIN C = {}
    OBVIOUS
  <2>2. N(T) = N(T \ {s}) + N({s})
    <3>1. Tally(C, X \cup Y) = Tally(C, X) + Tally(C, Y)
      BY ONLY Table(C), <2>1, TallyIs
    <3> QED  BY <2>1, <3>1
  <2>3. /\ of(T) \cap cheap = (X \cap cheap) \cup (Y \cap cheap)
        /\ (X \cap cheap) \cap (Y \cap cheap) \cap DOMAIN C = {}
    BY <2>1
  <2>4. K(T) = K(T \ {s}) + K({s})
    <3>1. Tally(C, (X \cap cheap) \cup (Y \cap cheap)) = Tally(C, X \cap cheap) + Tally(C, Y \cap cheap)
      BY ONLY Table(C), <2>3, TallyIs
    <3> QED  BY <2>3, <3>1
  <2> HIDE DEF N, K
  <2>5. /\ N(T \ {s}) \in Nat /\ N({s}) \in Nat /\ K(T \ {s}) \in Nat /\ K({s}) \in Nat
    BY <1>1
  <2> QED  BY <1>4, <2>2, <2>4, <2>5
<1>5. Good({})
  <2>1. N({}) = 0
    BY TallyIs
  <2> HIDE DEF N, K
  <2>2. K({}) \in Nat
    BY <1>1
  <2> QED  BY <2>1, <2>2
<1> HIDE DEF Good
<1>6. Good(served)
  <2> SUFFICES ASSUME ~ Good(served) PROVE FALSE
    OBVIOUS
  <2> PICK parts : parts = {T \in SUBSET served : ~ Good(T)}
    OBVIOUS
  <2>1. parts \in SUBSET (SUBSET served) /\ parts # {}
    OBVIOUS
  <2>2. \E V \in parts : \A W \in parts : W \subseteq V => W = V
    BY ONLY <1>2, <2>1, SmallestPart
  <2>3. PICK V \in parts : \A W \in parts : W \subseteq V => W = V
    BY <2>2
  <2>4. PICK s \in V : s \in served
    BY <1>5, <2>3
  <2>5. V \ {s} \in SUBSET served /\ V \ {s} # V
    BY <2>3, <2>4
  <2>6. Good(V \ {s})
    BY <2>3, <2>5
  <2> QED  BY <1>3, <1>4, <2>3, <2>4, <2>6
<1>7. of(served) = DOMAIN C /\ of(served) \cap cheap = cheap
  OBVIOUS
<1>8. N(served) = Number(C)
  BY <1>7, TallyIs
<1>9. K(served) = UpTo(C, cost)
  BY <1>7, TallyIs
<1> QED  BY <1>6, <1>8, <1>9 DEF Good

----------------------------------------------------------------------------
(* The measurements.                                                       *)

\* What the views of a table are tables of.
LEMMA PartsOf ==
  ASSUME NEW B, Table(B), NEW p, NEW s
  PROVE  /\ Table(Of(B, p)) /\ Table(OfPair(B, p, s)) /\ Table(Priced(B))
         /\ \A c : c \in DOMAIN Of(B, p) <=> c \in DOMAIN B /\ c.provider = p
         /\ \A c : c \in DOMAIN OfPair(B, p, s) <=>
                     c \in DOMAIN B /\ c.provider = p /\ c.schema = s
         /\ \A c : c \in DOMAIN Priced(B) <=> c \in DOMAIN B /\ c.ending # "rejected"
         /\ Facts(B) \in Nat /\ Facts(B) <= Number(B)
<1>1. \A S : S \subseteq DOMAIN B => Table(Some(B, S)) /\ DOMAIN Some(B, S) = S
  <2> SUFFICES ASSUME NEW S, S \subseteq DOMAIN B
               PROVE  Table(Some(B, S)) /\ DOMAIN Some(B, S) = S
    OBVIOUS
  <2>1. S \cap DOMAIN B = S
    OBVIOUS
  <2> QED  BY ONLY Table(B), <2>1, SomeOf
<1> PICK P, Q, R, F : /\ P = {c \in DOMAIN B : c.provider = p}
                      /\ Q = {c \in DOMAIN B : c.provider = p /\ c.schema = s}
                      /\ R = {c \in DOMAIN B : c.ending # "rejected"}
                      /\ F = {c \in DOMAIN B : c.ending = "fact"}
  OBVIOUS
<1>2. Of(B, p) = Some(B, P) /\ OfPair(B, p, s) = Some(B, Q) /\ Priced(B) = Some(B, R)
      /\ Facts(B) = Number(Some(B, F))
  <2>1. Of(B, p) = Some(B, P)
    BY ONLY P = {c \in DOMAIN B : c.provider = p}, Views
  <2>2. OfPair(B, p, s) = Some(B, Q)
    BY ONLY Q = {c \in DOMAIN B : c.provider = p /\ c.schema = s}, Views
  <2>3. Priced(B) = Some(B, R)
    BY ONLY R = {c \in DOMAIN B : c.ending # "rejected"}, Views
  <2>4. Facts(B) = Number(Some(B, F))
    BY ONLY F = {c \in DOMAIN B : c.ending = "fact"}, Views
  <2> QED  BY <2>1, <2>2, <2>3, <2>4
<1>3. P \subseteq DOMAIN B /\ Q \subseteq DOMAIN B /\ R \subseteq DOMAIN B /\ F \subseteq DOMAIN B
  OBVIOUS
<1>4. Facts(B) \in Nat /\ Facts(B) <= Number(B)
  <2>1. Facts(B) = Tally(B, F)
    BY <1>2 DEF Tally
  <2>2. F \cap DOMAIN B \subseteq DOMAIN B
    OBVIOUS
  <2>3. Tally(B, F) \in Nat /\ Tally(B, F) <= Tally(B, DOMAIN B) /\ Tally(B, DOMAIN B) = Number(B)
    BY ONLY Table(B), <2>2, TallyIs
  <2> QED  BY <2>1, <2>3
<1>5. /\ Table(Of(B, p)) /\ DOMAIN Of(B, p) = P
      /\ Table(OfPair(B, p, s)) /\ DOMAIN OfPair(B, p, s) = Q
      /\ Table(Priced(B)) /\ DOMAIN Priced(B) = R
  BY ONLY <1>1, <1>2, <1>3
<1> QED  BY <1>4, <1>5

LEMMA PairCostIs ==
  ASSUME NEW B, Table(B), NEW p, NEW s
  PROVE  \/ PairCost(B, p, s) = None
         \/ /\ PairCost(B, p, s) \in Nat
            /\ 10 * UpTo(Priced(OfPair(B, p, s)), PairCost(B, p, s)) >= 9 * Number(Priced(OfPair(B, p, s)))
            /\ 10 * UpTo(Priced(OfPair(B, p, s)), PairCost(B, p, s) - 1) < 9 * Number(Priced(OfPair(B, p, s)))
<1> PICK C : C = Priced(OfPair(B, p, s))
  OBVIOUS
<1>1. Table(C)
  <2>1. Table(OfPair(B, p, s))
    BY PartsOf
  <2> QED  BY <2>1, PartsOf
<1>2. PairCost(B, p, s) = IF Few(Number(C)) THEN None ELSE P90(C)
  BY DEF PairCost
<1>3. Number(C) \in Nat
  BY <1>1, CopiesOf
<1>4. ~ Few(Number(C)) => 1 <= Number(C)
  BY <1>3, MeasurementsAssumption DEF Few
<1> QED  BY <1>1, <1>2, <1>4, P90Covers

LEMMA PooledCostIs ==
  ASSUME NEW B, Table(B), NEW p
  PROVE  \/ PooledCost(B, p) = None
         \/ /\ PooledCost(B, p) \in Nat
            /\ 10 * UpTo(Priced(Of(B, p)), PooledCost(B, p)) >= 9 * Number(Priced(Of(B, p)))
<1> PICK C : C = Priced(Of(B, p))
  OBVIOUS
<1> DEFINE served == {c.schema : c \in DOMAIN C}
<1> PICK costs : costs = {P90(OfPair(C, p, s)) : s \in served}
  OBVIOUS
<1>1. Table(C) /\ \A c \in DOMAIN C : c.provider = p
  <2> PICK A : A = Of(B, p)
    OBVIOUS
  <2>1. Table(A) /\ \A c : c \in DOMAIN A => c.provider = p
    BY PartsOf
  <2>2. Table(C) /\ \A c : c \in DOMAIN C => c \in DOMAIN A
    BY <2>1, PartsOf
  <2> QED  BY <2>1, <2>2
<1>2. PooledCost(B, p) = IF Few(Number(C)) THEN None ELSE Pooled(costs)
  BY DEF PooledCost, BagToSet
<1> SUFFICES ASSUME ~ Few(Number(C))
             PROVE  /\ Pooled(costs) \in Nat
                    /\ 10 * UpTo(C, Pooled(costs)) >= 9 * Number(C)
  BY <1>2
<1>3. Number(C) \in Nat /\ Number(C) # 0
  <2>1. Number(C) \in Nat
    BY <1>1, CopiesOf
  <2> QED  BY <2>1, MeasurementsAssumption DEF Few
<1>4. served # {}
  BY <1>1, <1>3, CopiesOf
<1>5. ASSUME NEW s \in served PROVE P90(OfPair(C, p, s)) \in Nat
  <2> PICK D : D = OfPair(C, p, s)
    OBVIOUS
  <2>1. Table(D) /\ \A c : c \in DOMAIN D <=> c \in DOMAIN C /\ c.provider = p /\ c.schema = s
    BY <1>1, PartsOf
  <2>2. DOMAIN D # {}
    BY <1>1, <2>1
  <2>3. Number(D) \in Nat /\ Number(D) # 0
    BY <2>1, <2>2, CopiesOf
  <2>4. 1 <= Number(D)
    BY <2>3
  <2> QED  BY <2>1, <2>4, P90Covers
<1>6. IsFiniteSet(costs)
  <2> DEFINE f == [c \in DOMAIN C |-> P90(OfPair(C, p, c.schema))]
  <2>1. f \in Surjection(DOMAIN C, costs)
    BY DEF Surjection
  <2> QED  BY <1>1, <2>1, FS_Surjection DEF Table
<1>7. costs \subseteq Nat /\ costs # {}
  BY <1>4, <1>5
<1>8. \E d \in costs : \A e \in costs : e <= d
  BY <1>6, <1>7, Greatest
<1>9. Pooled(costs) \in costs /\ \A e \in costs : Pooled(costs) >= e
  <2>1. \E d \in costs : \A e \in costs : d >= e
    BY <1>7, <1>8
  <2> QED  BY ONLY <2>1 DEF Pooled
<1>10. Pooled(costs) \in Nat
  BY <1>7, <1>9
<1>11. \A s \in served : P90(OfPair(C, p, s)) <= Pooled(costs)
  BY <1>5, <1>9, <1>10
<1> QED  BY <1>1, <1>10, <1>11, PoolCovers

\* Whole numbers: a quotient is below a bound exactly if the dividend is below
\* the bound's multiple.
LEMMA QuotientBelow ==
  ASSUME NEW a \in Nat, NEW b \in Nat, b > 0, NEW f \in Nat
  PROVE  a \div b \in Nat /\ (a \div b < f <=> a < b * f)
<1> PICK q : q = a \div b
  OBVIOUS
<1>1. q \in Nat /\ b * q <= a /\ a < b * q + b
  OBVIOUS
<1>2. q < f => b * q + b <= b * f
  <2>1. ASSUME q < f PROVE b * (q + 1) <= b * f
    BY <1>1, <2>1
  <2>2. b * (q + 1) = b * q + b
    BY <1>1
  <2> QED  BY <2>1, <2>2
<1>3. ~ (q < f) => b * f <= b * q
  BY <1>1
<1>4. b * q \in Nat /\ b * f \in Nat
  BY <1>1
<1> QED  BY <1>1, <1>2, <1>3, <1>4

LEMMA FloorIs ==
  Floor \in Nat /\ Floor # None
<1>1. Floor \in Nat
  BY MeasurementsAssumption
<1> QED  BY <1>1, ProvidersAssumption

LEMMA PassRateIs ==
  ASSUME NEW B, Table(B)
  PROVE  LET n == Number(B)
         IN  /\ Few(n) => PassRate(B) = None
             /\ ~ Few(n) => /\ PassRate(B) \in Nat /\ PassRate(B) <= 10000
                            /\ PassRate(B) < Floor <=> 2 * (Floor * n - 10000 * Facts(B)) > n
<1> PICK n, F, a, b, q, m :
      /\ n = Number(B) /\ F = Facts(B) /\ a = 20000 * F + n /\ b = 2 * n
      /\ q = a \div b /\ m = Floor * n
  OBVIOUS
<1>1. n \in Nat /\ F \in Nat /\ F <= n /\ Floor \in Nat
  <2>1. Number(B) \in Nat
    BY CopiesOf
  <2>2. Facts(B) \in Nat /\ Facts(B) <= Number(B)
    BY PartsOf
  <2> QED  BY <2>1, <2>2, FloorIs
<1>2. PassRate(B) = IF Few(n) THEN None ELSE q
  BY DEF PassRate
<1>3. ASSUME ~ Few(n)
      PROVE  q \in Nat /\ q <= 10000 /\ (q < Floor <=> 2 * (m - 10000 * F) > n)
  <2>1. n > 0
    BY <1>1, <1>3, MeasurementsAssumption DEF Few
  <2>2. a \in Nat /\ b \in Nat /\ b > 0
    BY <1>1, <2>1
  <2>3. \A f \in Nat : q \in Nat /\ (q < f <=> a < b * f)
    BY <2>2, QuotientBelow
  <2>4. m \in Nat /\ b * Floor = 2 * m
    BY <1>1
  <2>5. q \in Nat /\ (q < Floor <=> a < b * Floor) /\ (q < 10001 <=> a < b * 10001)
    BY <1>1, <2>3
  <2>6. a < b * 10001
    BY <1>1, <2>1
  <2>7. q \in Nat /\ q <= 10000
    BY ONLY <2>5, <2>6
  <2>8. a < 2 * m <=> 2 * (m - 10000 * F) > n
    BY <1>1, <2>4
  <2>9. q < Floor <=> 2 * (m - 10000 * F) > n
    BY ONLY <2>4, <2>5, <2>8
  <2> QED  BY ONLY <2>7, <2>9
<1>4. ~ Few(n) => PassRate(B) = q
  BY <1>2
<1>5. ~ Few(n) => PassRate(B) \in Nat /\ PassRate(B) <= 10000 /\ (PassRate(B) < Floor <=> 2 * (m - 10000 * F) > n)
  BY ONLY <1>3, <1>4
<1>6. Few(n) => PassRate(B) = None
  BY <1>2
<1> QED  BY <1>5, <1>6

LEMMA KnownRate ==
  ASSUME NEW r \in Rates, r # None
  PROVE  r \in Nat
BY DEF Rates

\* A known rate below the floor.
BelowFloor(rate) == rate # None /\ ~ (rate >= Floor)

LEMMA RateBelowFloor ==
  ASSUME NEW B, Table(B), NEW n, n = Number(B), NEW F, F = Facts(B), NEW m, m = Floor * n
  PROVE  BelowFloor(PassRate(B)) <=> ~ Few(n) /\ 2 * (m - 10000 * F) > n
<1> PICK r : r = PassRate(B)
  OBVIOUS
<1>1. Few(n) => r = None
  BY PassRateIs
<1>2. ~ Few(n) => r \in Nat
  BY PassRateIs
<1>3. ~ Few(n) => (r < Floor <=> 2 * (m - 10000 * F) > n)
  BY PassRateIs
<1>4. Floor \in Nat
  BY MeasurementsAssumption
<1>5. ~ Few(n) => r \in Nat /\ r # None
  BY <1>2, ProvidersAssumption
<1>6. ~ Few(n) => (r < Floor <=> ~ (r >= Floor))
  BY <1>4, <1>5
<1> QED  BY <1>1, <1>3, <1>5, <1>6 DEF BelowFloor

----------------------------------------------------------------------------
(* The invariant: ledger and index are tables, and the Runtime's rows are  *)
(* well typed.                                                             *)

MeasurementsInv == Table(ledger) /\ Table(index) /\ TypeOK

\* The call that Record adds.
CallOf(p, s, outcome) == [provider |-> p, schema |-> s, ending |-> outcome.ending, took |-> outcome.took]

LEMMA Recorded ==
  ASSUME Table(ledger), NEW p \in Providers, NEW s \in Schemas, NEW outcome \in Outcomes,
         Record(p, s, outcome)
  PROVE  /\ Table(ledger') /\ DOMAIN ledger' = DOMAIN ledger \cup {CallOf(p, s, outcome)}
         /\ \A c \in DOMAIN ledger : ledger[c] <= ledger'[c]
         /\ \A c \in DOMAIN ledger : c # CallOf(p, s, outcome) => ledger'[c] = ledger[c]
<1> PICK new : new = CallOf(p, s, outcome)
  OBVIOUS
<1>1. new \in Call
  BY MeasurementsAssumption DEF Call, CallOf
<1>2. ledger' = [c \in DOMAIN ledger \cup {new} |->
                   (IF c \in DOMAIN ledger THEN ledger[c] ELSE 0) + (IF c \in {new} THEN 1 ELSE 0)]
  BY DEF Record, CallOf, (+), SetToBag
<1>3. \A c \in DOMAIN ledger : ledger[c] \in Nat /\ ledger[c] > 0
  BY DEF Table, IsABag
<1>4. /\ DOMAIN ledger' = DOMAIN ledger \cup {new}
      /\ \A c \in DOMAIN ledger : ledger[c] <= ledger'[c] /\ (c # new => ledger'[c] = ledger[c])
      /\ \A c \in DOMAIN ledger' : ledger'[c] \in Nat /\ ledger'[c] > 0
  BY <1>2, <1>3
<1>5. IsABag(ledger')
  BY <1>2, <1>4 DEF IsABag
<1>6. IsFiniteSet(DOMAIN ledger')
  BY <1>4, FS_AddElement DEF Table
<1> QED  BY <1>1, <1>4, <1>5, <1>6 DEF Table

\* What a Runtime is built with.
LEMMA MeasuredIs ==
  ASSUME NEW B, Table(B)
  PROVE  /\ DOMAIN Measured(B) \subseteq Providers \X (Schemas \cup {None})
         /\ \A p, s : s \in Schemas =>
              /\ <<p, s>> \in DOMAIN Measured(B) <=> DOMAIN OfPair(B, p, s) # {}
              /\ <<p, s>> \in DOMAIN Measured(B) => Measured(B)[<<p, s>>].rate = PassRate(OfPair(B, p, s))
         /\ \A p : /\ <<p, None>> \in DOMAIN Measured(B) <=> DOMAIN Of(B, p) # {}
                   /\ <<p, None>> \in DOMAIN Measured(B) => Measured(B)[<<p, None>>].rate = PassRate(Of(B, p))
         /\ \A k \in DOMAIN Measured(B) :
              /\ Measured(B)[k].p90 \in Nat \cup {None}
              /\ Measured(B)[k].rate \in Rates
              /\ <<k[1], None>> \in DOMAIN Measured(B)
<1>1. DOMAIN Measured(B) = Keys(B) /\ \A k \in Keys(B) : Measured(B)[k] = Row(B, k[1], k[2])
  BY DEF Measured
<1>2. Keys(B) \subseteq Providers \X (Schemas \cup {None})
  BY DEF Keys, SeenPairs, Seen, BagToSet, Table, Call
<1>3. ASSUME NEW p, NEW s, s \in Schemas
      PROVE  /\ <<p, s>> \in Keys(B) <=> DOMAIN OfPair(B, p, s) # {}
             /\ Row(B, p, s).rate = PassRate(OfPair(B, p, s))
  <2>1. s # None
    BY <1>3, MeasurementsAssumption
  <2>2. <<p, s>> \in Keys(B) <=> \E c \in DOMAIN B : c.provider = p /\ c.schema = s
    BY <2>1 DEF Keys, SeenPairs, BagToSet
  <2>3. \A c : c \in DOMAIN OfPair(B, p, s) <=> c \in DOMAIN B /\ c.provider = p /\ c.schema = s
    BY PartsOf
  <2>4. Row(B, p, s).rate = PassRate(OfPair(B, p, s))
    BY <2>1 DEF Row
  <2> QED  BY <2>2, <2>3, <2>4
<1>4. ASSUME NEW p
      PROVE  /\ <<p, None>> \in Keys(B) <=> DOMAIN Of(B, p) # {}
             /\ Row(B, p, None).rate = PassRate(Of(B, p))
  <2>1. \A c \in DOMAIN B : c.schema # None
    BY MeasurementsAssumption DEF Table, Call
  <2>2. <<p, None>> \in Keys(B) <=> \E c \in DOMAIN B : c.provider = p
    BY <2>1 DEF Keys, SeenPairs, Seen, BagToSet
  <2>3. \A c : c \in DOMAIN Of(B, p) <=> c \in DOMAIN B /\ c.provider = p
    BY PartsOf
  <2>4. Row(B, p, None).rate = PassRate(Of(B, p))
    BY DEF Row
  <2> QED  BY <2>2, <2>3, <2>4
<1>5. ASSUME NEW k \in Keys(B)
      PROVE  /\ Row(B, k[1], k[2]).p90 \in Nat \cup {None}
             /\ Row(B, k[1], k[2]).rate \in Rates
             /\ <<k[1], None>> \in Keys(B)
  <2>0. PICK p, s : p = k[1] /\ s = k[2]
    OBVIOUS
  <2>1. Row(B, p, s) = IF s = None
                       THEN [p90 |-> PooledCost(B, p), rate |-> PassRate(Of(B, p))]
                       ELSE [p90 |-> PairCost(B, p, s), rate |-> PassRate(OfPair(B, p, s))]
    BY DEF Row
  <2>2. PooledCost(B, p) \in Nat \cup {None} /\ PairCost(B, p, s) \in Nat \cup {None}
    BY PooledCostIs, PairCostIs
  <2>3. Table(Of(B, p)) /\ Table(OfPair(B, p, s))
    BY PartsOf
  <2>4. \A A : Table(A) => PassRate(A) \in Rates
    BY PassRateIs DEF Rates
  <2>5. <<p, None>> \in Keys(B)
    BY <2>0 DEF Keys, SeenPairs, Seen
  <2>6. PassRate(Of(B, p)) \in Rates
        /\ PassRate(OfPair(B, p, s)) \in Rates
    BY ONLY <2>3, <2>4
  <2>7. Row(B, p, s).p90 \in Nat \cup {None}
    BY ONLY <2>1, <2>2
  <2>8. Row(B, p, s).rate \in Rates
    <3>1. Row(B, p, s).rate = PassRate(Of(B, p)) \/ Row(B, p, s).rate = PassRate(OfPair(B, p, s))
      BY ONLY <2>1
    <3> QED  BY <2>6, <3>1
  <2> QED  BY <2>0, <2>5, <2>7, <2>8
<1>6. \A p, s : <<p, s>> \in Keys(B) => Measured(B)[<<p, s>>] = Row(B, p, s)
  BY <1>1
<1>7. \A p, s : s \in Schemas =>
        /\ <<p, s>> \in DOMAIN Measured(B) <=> DOMAIN OfPair(B, p, s) # {}
        /\ <<p, s>> \in DOMAIN Measured(B) => Measured(B)[<<p, s>>].rate = PassRate(OfPair(B, p, s))
  BY ONLY <1>1, <1>3, <1>6
<1>8. \A p : /\ <<p, None>> \in DOMAIN Measured(B) <=> DOMAIN Of(B, p) # {}
             /\ <<p, None>> \in DOMAIN Measured(B) => Measured(B)[<<p, None>>].rate = PassRate(Of(B, p))
  BY ONLY <1>1, <1>4, <1>6
<1>9. \A k \in DOMAIN Measured(B) :
        /\ Measured(B)[k].p90 \in Nat \cup {None}
        /\ Measured(B)[k].rate \in Rates
        /\ <<k[1], None>> \in DOMAIN Measured(B)
  <2> SUFFICES ASSUME NEW k \in Keys(B)
               PROVE  /\ Measured(B)[k].p90 \in Nat \cup {None}
                      /\ Measured(B)[k].rate \in Rates
                      /\ <<k[1], None>> \in Keys(B)
    BY <1>1
  <2>1. Measured(B)[k] = Row(B, k[1], k[2])
    BY <1>1
  <2> QED  BY <1>5, <2>1
<1>10. DOMAIN Measured(B) \subseteq Providers \X (Schemas \cup {None})
  BY ONLY <1>1, <1>2
<1> QED  BY ONLY <1>7, <1>8, <1>9, <1>10

\* The choice the loop makes is the one that SelectionProofs is about.
Best == INSTANCE SelectionProofs WITH Rows <- rows

LEMMA ChosenIsGoodEnough ==
  ASSUME TypeOK, NEW ask, Policy!Pool(ask) # {}
  PROVE  Policy!Select(ask) \in Providers /\ Policy!GoodEnough(Policy!Select(ask), ask)
<1>1. Best!ManifestAssumption
  <2>1. \A p \in Providers : Best!ManifestOK(Manifest[p])
    BY ProvidersAssumption DEF Best!ManifestOK, Best!TrustLevels, Policy!ManifestOK, Policy!TrustLevels
  <2>2. \A k \in DOMAIN rows : Best!RowOK(rows[k])
    <3>1. \A k \in DOMAIN rows : rows[k].p90 \in Nat \cup {None} /\ rows[k].rate \in Rates
      BY DEF TypeOK
    <3>2. \A r \in Rates : r \in Nat \cup {None}
      BY DEF Rates
    <3> QED  BY <3>1, <3>2 DEF Best!RowOK
  <2> QED  BY <2>1, <2>2, ProvidersAssumption DEF Best!ManifestAssumption
<1>2. Best!Pool(ask) = Policy!Pool(ask)
  BY DEF Best!Pool, Best!Admitted, Best!GoodEnough, Best!CheapEnough, Best!Produces, Best!Accepts,
         Best!MaxTrustIn, Best!MayEmitControl, Best!MeasureOf, Best!Unmeasured, Best!Within,
         Best!TrustOrder, Policy!Pool, Policy!Admitted, Policy!GoodEnough, Policy!CheapEnough,
         Policy!Produces, Policy!Accepts, Policy!MaxTrustIn, Policy!MayEmitControl,
         Policy!MeasureOf, Policy!Unmeasured, Policy!Within, Policy!TrustOrder
<1>3. Best!Select(ask) = Policy!Select(ask)
  BY <1>2 DEF Best!Select, Best!Before, Best!MeasureOf, Best!Unmeasured, Best!Cheaper,
              Policy!Select, Policy!Before, Policy!MeasureOf, Policy!Unmeasured, Policy!Cheaper
<1>4. Best!Select(ask) \in Best!Pool(ask)
  BY <1>1, <1>2, Best!SelectionIsBest DEF Best!ManifestAssumption
<1>5. Policy!Select(ask) \in Policy!Pool(ask)
  BY <1>2, <1>3, <1>4
<1> QED  BY <1>5 DEF Policy!Pool

LEMMA StartMeasures ==
  Init => MeasurementsInv
<1> SUFFICES ASSUME Init PROVE MeasurementsInv
  OBVIOUS
<1>1. Table(ledger) /\ Table(index)
  BY MeasurementsAssumption DEF Init, Table, BagToSet
<1>2. index \sqsubseteq ledger
  <2>1. \A c \in DOMAIN ledger : ledger[c] \in Nat
    BY <1>1 DEF Table, IsABag
  <2> QED  BY <2>1 DEF Init, \sqsubseteq
<1>3. TypeOK
  BY <1>1, <1>2 DEF Init, TypeOK, Table, BagToSet
<1> QED  BY <1>1, <1>3 DEF MeasurementsInv

\* A turn adds a call of the provider that was chosen.
LEMMA TurnRecords ==
  ASSUME MeasurementsInv, NEW request \in Requests, NEW ms \in Budgets, NEW outcome \in Outcomes,
         Turn(request, ms, outcome)
  PROVE  \E p \in Providers, tried \in SUBSET Providers :
           /\ Policy!GoodEnough(p, Ask(request, tried, ms))
           /\ Record(p, request.schema, outcome)
           /\ step' = None \/ step' = [request |-> request, tried |-> tried \cup {p}]
<1> PICK tried : tried = IF step = None THEN {} ELSE step.tried
  OBVIOUS
<1> PICK ask : ask = Ask(request, tried, ms)
  OBVIOUS
<1>1. Policy!Pool(ask) # {}
  BY DEF Turn
<1>2. Policy!Select(ask) \in Providers /\ Policy!GoodEnough(Policy!Select(ask), ask)
  BY <1>1, ChosenIsGoodEnough DEF MeasurementsInv
<1>3. tried \subseteq Providers
  BY DEF MeasurementsInv, TypeOK
<1>4. Record(Policy!Select(ask), request.schema, outcome)
  BY DEF Turn
<1>5. step' = None \/ step' = [request |-> request, tried |-> tried \cup {Policy!Select(ask)}]
  BY DEF Turn
<1> QED  BY <1>2, <1>3, <1>4, <1>5

LEMMA StepMeasures ==
  MeasurementsInv /\ [Next]_vars => MeasurementsInv'
<1> SUFFICES ASSUME MeasurementsInv, [Next]_vars PROVE MeasurementsInv'
  OBVIOUS
<1>1. CASE Ingest
  <2>1. index' \sqsubseteq ledger'
    <3>1. \A c \in DOMAIN ledger : ledger[c] \in Nat
      BY DEF MeasurementsInv, Table, IsABag
    <3> QED  BY <1>1, <3>1 DEF Ingest, \sqsubseteq
  <2>2. TypeOK'
    BY <1>1, <2>1 DEF Ingest, MeasurementsInv, TypeOK
  <2>3. Table(ledger') /\ Table(index')
    BY <1>1 DEF Ingest, MeasurementsInv
  <2> QED  BY <2>2, <2>3 DEF MeasurementsInv
<1>2. CASE NewRuntime
  <2> PICK M : M = Measured(index)
    OBVIOUS
  <2>1. /\ DOMAIN M \subseteq Providers \X (Schemas \cup {None})
        /\ \A k \in DOMAIN M : /\ M[k].p90 \in Nat \cup {None} /\ M[k].rate \in Rates
                               /\ <<k[1], None>> \in DOMAIN M
    BY MeasuredIs DEF MeasurementsInv
  <2>2. rows' = M /\ UNCHANGED <<ledger, index, step>>
    BY <1>2 DEF NewRuntime
  <2>3. TypeOK'
    BY <2>1, <2>2 DEF MeasurementsInv, TypeOK
  <2> QED  BY <2>2, <2>3 DEF MeasurementsInv
<1>3. ASSUME NEW request \in Requests, NEW ms \in Budgets, NEW outcome \in Outcomes,
             Turn(request, ms, outcome)
      PROVE  MeasurementsInv'
  <2>1. PICK p \in Providers, tried \in SUBSET Providers :
          /\ Record(p, request.schema, outcome)
          /\ step' = None \/ step' = [request |-> request, tried |-> tried \cup {p}]
    BY <1>3, TurnRecords
  <2>2. request.schema \in Schemas
    BY DEF Schemas
  <2>3. /\ Table(ledger') /\ DOMAIN ledger \subseteq DOMAIN ledger'
        /\ \A c \in DOMAIN ledger : ledger[c] <= ledger'[c]
    BY <2>1, <2>2, Recorded DEF MeasurementsInv
  <2>4. UNCHANGED <<index, rows>>
    BY <1>3 DEF Turn
  <2>5. index' \sqsubseteq ledger'
    <3>1. \A c \in DOMAIN index : c \in DOMAIN ledger /\ index[c] <= ledger[c]
      BY DEF MeasurementsInv, TypeOK, \sqsubseteq
    <3>2. \A c \in DOMAIN index : index[c] \in Nat
      BY DEF MeasurementsInv, Table, IsABag
    <3>3. \A c \in DOMAIN ledger : ledger[c] \in Nat
      BY DEF MeasurementsInv, Table, IsABag
    <3>4. \A c \in DOMAIN ledger' : ledger'[c] \in Nat
      BY <2>3 DEF Table, IsABag
    <3>5. \A c \in DOMAIN index : index[c] <= ledger'[c]
      BY <2>3, <3>1, <3>2, <3>3, <3>4
    <3> QED  BY <2>3, <2>4, <3>1, <3>5 DEF \sqsubseteq
  <2>6. step' # None => step'.request \in Requests /\ step'.tried \subseteq Providers
    BY <2>1
  <2>7. TypeOK'
    BY <2>3, <2>4, <2>5, <2>6 DEF MeasurementsInv, TypeOK, Table, BagToSet
  <2> QED  BY <2>3, <2>4, <2>7 DEF MeasurementsInv
<1>4. CASE GiveUp
  BY <1>4 DEF GiveUp, MeasurementsInv, TypeOK
<1>5. CASE UNCHANGED vars
  BY <1>5 DEF vars, MeasurementsInv, TypeOK
<1> QED  BY <1>1, <1>2, <1>3, <1>4, <1>5 DEF Next

LEMMA Measures ==
  Spec => []MeasurementsInv
<1> QED  BY StartMeasures, StepMeasures, PTL DEF Spec

----------------------------------------------------------------------------
(* The theorems.                                                           *)

\* Type correctness of ledgers, index and snapshot; whoever has a row for a
\* schema has a pooled row (read_measurements).
THEOREM MeasurementsTyped ==
  Spec => []TypeOK
<1>1. MeasurementsInv => TypeOK
  BY DEF MeasurementsInv
<1> QED  BY <1>1, Measures, PTL

\* What is behind a row is a table, and its cost a number that covers it.
LEMMA CostsAre ==
  ASSUME Table(index), NEW k \in Costed
  PROVE  /\ Table(Behind(k)) /\ Cost(k) \in Nat
         /\ 10 * UpTo(Behind(k), Cost(k)) >= 9 * Number(Behind(k))
         /\ k[2] # None => 10 * UpTo(Behind(k), Cost(k) - 1) < 9 * Number(Behind(k))
<1> PICK p, s : p = k[1] /\ s = k[2]
  OBVIOUS
<1>1. k \in Keys(index) /\ Cost(k) # None
  BY DEF Costed
<1>2. Cost(k) = Row(index, p, s).p90
  BY <1>1 DEF Cost, Measured
<1>3. CASE s = None
  <2>1. Cost(k) = PooledCost(index, p) /\ Behind(k) = Priced(Of(index, p))
    BY <1>2, <1>3 DEF Row, Behind
  <2>2. Table(Of(index, p))
    BY PartsOf
  <2>3. Table(Behind(k))
    BY <2>1, <2>2, PartsOf
  <2> QED  BY <1>1, <1>3, <2>1, <2>3, PooledCostIs
<1>4. CASE s # None
  <2>1. Cost(k) = PairCost(index, p, s) /\ Behind(k) = Priced(OfPair(index, p, s))
    BY <1>2, <1>4 DEF Row, Behind
  <2>2. Table(OfPair(index, p, s))
    BY PartsOf
  <2>3. Table(Behind(k))
    BY <2>1, <2>2, PartsOf
  <2> QED  BY <1>1, <1>4, <2>1, <2>3, PairCostIs
<1> QED  BY <1>3, <1>4

\* The rows that raised are counted in at every duration; the others as they
\* took.
LEMMA RaisedCounts ==
  ASSUME NEW B, Table(B), NEW d \in Nat
  PROVE  /\ Raised(B) \in Nat /\ InTime(B, d) \in Nat
         /\ Raised(B) <= UpTo(B, d) /\ UpTo(B, d) <= InTime(B, d) + Raised(B)
<1> PICK R, K, T : /\ R = {c \in DOMAIN B : c.ending = "raised"}
                   /\ K = {c \in DOMAIN B : Duration(c) <= d}
                   /\ T = {c \in DOMAIN B : c.took <= d}
  OBVIOUS
<1>1. Raised(B) = Tally(B, R)
  BY DEF Raised, BagToSet, Tally, Some, Restrict
<1>2. InTime(B, d) = Tally(B, T)
  BY DEF InTime, BagToSet, Tally, Some, Restrict
<1>3. UpTo(B, d) = Tally(B, K)
  BY TallyIs
<1>4. R \cap DOMAIN B \subseteq K
  BY DEF Duration
<1>5. K \cap DOMAIN B \subseteq (T \ R) \cup R /\ (T \ R) \cap R \cap DOMAIN B = {}
  BY DEF Duration
<1>6. (T \ R) \cap DOMAIN B \subseteq T
  OBVIOUS
<1>7. \A S : Tally(B, S) \in Nat
  BY TallyIs
<1>8. Tally(B, R) <= Tally(B, K)
  BY <1>4, TallyIs
<1>9. Tally(B, K) <= Tally(B, (T \ R) \cup R)
  BY <1>5, TallyIs
<1>10. Tally(B, (T \ R) \cup R) = Tally(B, T \ R) + Tally(B, R)
  BY <1>5, TallyIs
<1>11. Tally(B, T \ R) <= Tally(B, T)
  BY <1>6, TallyIs
<1> QED  BY <1>1, <1>2, <1>3, <1>7, <1>8, <1>9, <1>10, <1>11

\* A cost is no less than nine in ten of the durations that were recorded,
\* whatever calls were made: of a pair, for which it is the least such number,
\* and pooled over schemas of any sizes.  A call that raised is recorded as 0
\* and a rejected one not at all (v_provider_cost and CostModel.estimate).
THEOREM CostsCoverTheRecord ==
  Spec => []CostIsP90
<1>1. MeasurementsInv => CostIsP90
  BY CostsAre DEF MeasurementsInv, CostIsP90
<1> QED  BY <1>1, Measures, PTL

\* Of the calls themselves, by the time they took, a cost covers nine in ten of
\* those that have a duration as long as none of them raised, and at most as
\* many less as did (_call, v_provider_cost).
THEOREM CoveredUnlessRaised ==
  Spec => []CoversUnlessRaised
<1>1. MeasurementsInv => CoversUnlessRaised
  <2> SUFFICES ASSUME MeasurementsInv, NEW k \in Costed
               PROVE  10 * (InTime(Behind(k), Cost(k)) + Raised(Behind(k))) >= 9 * Number(Behind(k))
    BY DEF CoversUnlessRaised
  <2> PICK B, cost : B = Behind(k) /\ cost = Cost(k)
    OBVIOUS
  <2>1. Table(B) /\ cost \in Nat /\ 10 * UpTo(B, cost) >= 9 * Number(B)
    BY CostsAre DEF MeasurementsInv
  <2>2. InTime(B, cost) \in Nat /\ Raised(B) \in Nat /\ UpTo(B, cost) <= InTime(B, cost) + Raised(B)
    BY <2>1, RaisedCounts
  <2>3. UpTo(B, cost) \in Nat /\ Number(B) \in Nat
    BY <2>1, UpToIs, CopiesOf
  <2>4. 10 * (InTime(B, cost) + Raised(B)) >= 9 * Number(B)
    BY <2>1, <2>2, <2>3
  <2> QED  BY <2>4
<1> QED  BY <1>1, Measures, PTL

\* A failed call does not belong in the estimate if it failed by raising: a
\* pair of whose calls nine in ten raised is measured at 0, however long they
\* took (_call, v_provider_cost).
THEOREM FailuresAreFree ==
  Spec => []RaisedIsFree
<1>1. MeasurementsInv => RaisedIsFree
  <2> SUFFICES ASSUME MeasurementsInv, NEW k \in Costed, k[2] # None,
                      10 * Raised(Behind(k)) >= 9 * Number(Behind(k)), Cost(k) # 0
               PROVE  FALSE
    BY DEF RaisedIsFree
  <2> PICK B, cost : B = Behind(k) /\ cost = Cost(k)
    OBVIOUS
  <2>1. Table(B) /\ cost \in Nat /\ 10 * UpTo(B, cost - 1) < 9 * Number(B)
    BY CostsAre DEF MeasurementsInv
  <2>2. cost - 1 \in Nat
    BY <2>1
  <2>3. Raised(B) \in Nat /\ Raised(B) <= UpTo(B, cost - 1)
    BY <2>1, <2>2, RaisedCounts
  <2>4. UpTo(B, cost - 1) \in Nat /\ Number(B) \in Nat
    BY <2>1, UpToIs, CopiesOf
  <2> QED  BY <2>1, <2>3, <2>4
<1> QED  BY <1>1, Measures, PTL

\* One failure is not a bad provider, and a bad one is not kept: whatever was
\* measured, a Runtime built now turns a provider down for quality exactly on
\* the evidence of min_samples calls whose share of facts is below the floor,
\* up to the rounding to four digits (read_measurements, Snapshot.of, select).
THEOREM VerdictsEarned ==
  Spec => []VerdictEarned
<1>1. MeasurementsInv => VerdictEarned
  <2> SUFFICES ASSUME MeasurementsInv, NEW p \in Providers, NEW request \in Requests
               PROVE  LET calls  == Evidence(p, request.schema)
                          n      == Number(calls)
                          short  == Floor * n - 10000 * Facts(calls)
                          turned == ~ Fresh!GoodEnough(p, Ask(request, {}, None))
                      IN  /\ turned => n >= MinSamples /\ short > 0
                          /\ n >= MinSamples /\ 2 * short > n => turned
    BY DEF VerdictEarned
  <2> PICK s, calls, n, F, m, rate :
        /\ s = request.schema /\ calls = Evidence(p, s) /\ n = Number(calls) /\ F = Facts(calls)
        /\ m = Floor * n
        /\ rate = Fresh!MeasureOf(p, s).rate
    OBVIOUS
  <2> DEFINE turned == ~ Fresh!GoodEnough(p, Ask(request, {}, None))
  <2> SUFFICES /\ turned => n >= MinSamples /\ m - 10000 * F > 0
               /\ n >= MinSamples /\ 2 * (m - 10000 * F) > n => turned
    OBVIOUS
  <2>1. s \in Schemas /\ s # None
    BY MeasurementsAssumption DEF Schemas
  <2>2. Table(index)
    BY DEF MeasurementsInv
  <2>3. Table(calls)
    BY <2>2, PartsOf DEF Evidence
  <2>4. Floor \in Nat /\ Floor # None /\ MinSamples \in Nat
    BY FloorIs, MeasurementsAssumption
  <2>5. turned <=> rate # None /\ ~ (rate >= Floor)
    BY <2>4 DEF Fresh!GoodEnough, Ask, AskFor
  <2> HIDE DEF turned
  <2>6. n \in Nat /\ F \in Nat /\ (Few(n) <=> n < MinSamples)
    BY <2>3, CopiesOf, PartsOf DEF Few
  <2>7. BelowFloor(PassRate(calls)) <=> ~ Few(n) /\ 2 * (m - 10000 * F) > n
    BY <2>3, RateBelowFloor
  <2>8. rate = PassRate(calls) \/ (rate = None /\ Few(n))
    <3> PICK M, A, C : M = Measured(index) /\ A = OfPair(index, p, s) /\ C = Of(index, p)
      OBVIOUS
    <3>1. /\ <<p, s>> \in DOMAIN M <=> DOMAIN A # {}
          /\ <<p, s>> \in DOMAIN M => M[<<p, s>>].rate = PassRate(A)
      BY <2>1, <2>2, MeasuredIs
    <3>2. /\ <<p, None>> \in DOMAIN M <=> DOMAIN C # {}
          /\ <<p, None>> \in DOMAIN M => M[<<p, None>>].rate = PassRate(C)
      BY <2>2, MeasuredIs
    <3>3. /\ <<p, s>> \in DOMAIN M => rate = M[<<p, s>>].rate
          /\ <<p, s>> \notin DOMAIN M /\ <<p, None>> \in DOMAIN M => rate = M[<<p, None>>].rate
          /\ <<p, s>> \notin DOMAIN M /\ <<p, None>> \notin DOMAIN M => rate = None
      BY DEF Fresh!MeasureOf, Fresh!Unmeasured
    <3>4. A = EmptyBag <=> DOMAIN A = {}
      <4>1. IsABag(A)
        BY <2>2, PartsOf DEF Table
      <4> QED  BY <4>1 DEF IsABag, EmptyBag, SetToBag
    <3>5. calls = IF A # EmptyBag THEN A ELSE C
      BY DEF Evidence
    <3>6. DOMAIN C = {} /\ calls = C => Few(n)
      <4>1. DOMAIN C = {} /\ calls = C => n = 0
        BY <2>3, CopiesOf
      <4> QED  BY <2>6, <4>1, MeasurementsAssumption
    <3> QED  BY ONLY <3>1, <3>2, <3>3, <3>4, <3>5, <3>6
  <2>9. m \in Nat
    BY <2>4, <2>6
  <2>10. turned => ~ Few(n) /\ 2 * (m - 10000 * F) > n
    BY ONLY <2>5, <2>7, <2>8 DEF BelowFloor
  <2>11. ~ Few(n) /\ 2 * (m - 10000 * F) > n => turned
    <3>1. Few(n) \/ rate = PassRate(calls)
      BY ONLY <2>8
    <3> QED  BY ONLY <2>5, <2>7, <3>1 DEF BelowFloor
  <2>12. turned => n >= MinSamples /\ m - 10000 * F > 0
    BY <2>4, <2>6, <2>9, <2>10
  <2>13. n >= MinSamples /\ 2 * (m - 10000 * F) > n => turned
    BY <2>4, <2>6, <2>11
  <2> QED  BY <2>12, <2>13
<1> QED  BY <1>1, Measures, PTL

\* Whether a snapshot shows a pair below the floor depends on its calls alone.
LEMMA BelowIs ==
  ASSUME NEW A, Table(A), NEW B, Table(B), NEW p, NEW s \in Schemas,
         OfPair(A, p, s) = OfPair(B, p, s), Below(Measured(A), p, s)
  PROVE  Below(Measured(B), p, s)
<1> PICK M, N, k : M = Measured(A) /\ N = Measured(B) /\ k = <<p, s>>
  OBVIOUS
<1>1. /\ k \in DOMAIN M <=> DOMAIN OfPair(A, p, s) # {}
      /\ k \in DOMAIN M => M[k].rate = PassRate(OfPair(A, p, s))
  BY MeasuredIs
<1>2. /\ k \in DOMAIN N <=> DOMAIN OfPair(B, p, s) # {}
      /\ k \in DOMAIN N => N[k].rate = PassRate(OfPair(B, p, s))
  BY MeasuredIs
<1>3. k \in DOMAIN M /\ M[k].rate # None /\ M[k].rate < Floor
  BY DEF Below
<1>4. k \in DOMAIN N /\ N[k].rate = M[k].rate
  BY <1>1, <1>2, <1>3
<1> QED  BY <1>3, <1>4 DEF Below

\* A call of somebody else, or of another schema, leaves a pair as it was.
LEMMA PairUntouched ==
  ASSUME Table(ledger), NEW q \in Providers, NEW t \in Schemas, NEW outcome \in Outcomes,
         Record(q, t, outcome), NEW p, NEW s, q # p \/ t # s
  PROVE  OfPair(ledger', p, s) = OfPair(ledger, p, s)
<1> PICK S, new : /\ S = {c \in DOMAIN ledger : c.provider = p /\ c.schema = s}
                  /\ new = CallOf(q, t, outcome)
  OBVIOUS
<1>1. /\ DOMAIN ledger' = DOMAIN ledger \cup {new}
      /\ \A c \in DOMAIN ledger : c # new => ledger'[c] = ledger[c]
  BY Recorded
<1>2. ~ (new.provider = p /\ new.schema = s)
  BY DEF CallOf
<1>3. S = {c \in DOMAIN ledger' : c.provider = p /\ c.schema = s}
  BY <1>1, <1>2
<1>4. OfPair(ledger, p, s) = Some(ledger, S) /\ OfPair(ledger', p, s) = Some(ledger', S)
  BY <1>3, Views
<1>5. S \cap DOMAIN ledger = S /\ S \cap DOMAIN ledger' = S /\ \A c \in S : ledger'[c] = ledger[c]
  BY <1>1, <1>2
<1> QED  BY <1>4, <1>5 DEF Some, Restrict

\* Demotion is for good: once ledger, index and Runtime agree that a provider
\* is below the floor for a schema, no step calls it for it again, so that its
\* rate can never recover (select and read_measurements).
THEOREM DemotionStands ==
  Spec => DemotionIsFinal
<1>1. MeasurementsInv /\ MeasurementsInv' /\ [Next]_vars =>
        [\A p \in Providers, s \in Schemas :
           Demoted(p, s) => Demoted(p, s)' /\ OfPair(ledger', p, s) = OfPair(ledger, p, s)]_vars
  <2> SUFFICES ASSUME MeasurementsInv, MeasurementsInv', Next,
                      NEW p \in Providers, NEW s \in Schemas, Demoted(p, s)
               PROVE  Demoted(p, s)' /\ OfPair(ledger', p, s) = OfPair(ledger, p, s)
    OBVIOUS
  <2>1. Table(ledger) /\ Table(index) /\ Table(ledger')
    BY DEF MeasurementsInv
  <2>2. Below(Measured(ledger), p, s) /\ Below(Measured(index), p, s) /\ Below(rows, p, s)
    BY DEF Demoted
  <2>3. CASE Ingest
    BY <2>2, <2>3 DEF Ingest, Demoted
  <2>4. CASE NewRuntime
    BY <2>2, <2>4 DEF NewRuntime, Demoted
  <2>5. ASSUME NEW request \in Requests, NEW ms \in Budgets, NEW outcome \in Outcomes,
               Turn(request, ms, outcome)
        PROVE  Demoted(p, s)' /\ OfPair(ledger', p, s) = OfPair(ledger, p, s)
    <3>1. PICK q \in Providers, tried \in SUBSET Providers :
            Policy!GoodEnough(q, Ask(request, tried, ms)) /\ Record(q, request.schema, outcome)
      BY <2>5, TurnRecords
    <3>2. q # p \/ request.schema # s
      <4> SUFFICES ASSUME q = p, request.schema = s PROVE FALSE
        OBVIOUS
      <4> PICK rate : rate = rows[<<p, s>>].rate
        OBVIOUS
      <4>1. Policy!MeasureOf(p, s).rate = rate
        BY <2>2 DEF Policy!MeasureOf, Below
      <4>2. rate # None /\ rate < Floor
        BY <2>2 DEF Below
      <4>3. Floor \in Nat /\ Floor # None
        BY FloorIs
      <4>4. rate >= Floor
        BY <3>1, <4>1, <4>2, <4>3 DEF Policy!GoodEnough, Ask, AskFor
      <4>5. rate \in Nat
        <5>1. rate \in Rates
          BY <2>2 DEF MeasurementsInv, TypeOK, Below
        <5> QED  BY <4>2, <5>1, KnownRate
      <4> QED  BY <4>2, <4>3, <4>4, <4>5
    <3>3. request.schema \in Schemas
      BY DEF Schemas
    <3>4. OfPair(ledger', p, s) = OfPair(ledger, p, s)
      BY <2>1, <3>1, <3>2, <3>3, PairUntouched
    <3>5. Below(Measured(ledger'), p, s)
      BY <2>1, <2>2, <3>4, BelowIs
    <3>6. UNCHANGED <<index, rows>>
      BY <2>5 DEF Turn
    <3> QED  BY <2>2, <3>4, <3>5, <3>6 DEF Demoted
  <2>6. CASE GiveUp
    BY <2>2, <2>6 DEF GiveUp, Demoted
  <2> QED  BY <2>3, <2>4, <2>5, <2>6 DEF Next
<1> QED  BY <1>1, Measures, PTL DEF Spec, DemotionIsFinal

=============================================================================
