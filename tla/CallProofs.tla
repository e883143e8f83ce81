----------------------------- MODULE CallProofs -----------------------------
(***************************************************************************)
(* An installation and the calls made on it, for every set of manifests,   *)
(* slips, adapters, requests and listeners.  First what an audited         *)
(* installation and a replay of it choose: the steps of InstallNext keep   *)
(* InstallInv.  Then one provider call: what its scope holds and gives     *)
(* back, what a model is shown and loaded from, which rung is named, and   *)
(* in which order listeners are called.                                    *)
(***************************************************************************)
EXTENDS Call, SequenceTheorems, FiniteSetTheorems, TLAPS

----------------------------------------------------------------------------
(* The choice of an installation.                                          *)

\* The choice of an installation whose listing is that of its manifests.
ReadsOf(d, p) ==
  LET m == d.providers[p]
      caps == m.implements \cup DOMAIN d.capabilities
  IN  [kind |-> m.kind, implements |-> m.implements, produces |-> m.produces,
       modality |-> {}, order |-> m.order,
       ceiling |-> [default |-> "T2", listed |-> [c \in caps |-> Ceiling(m, c)]],
       control |-> {c \in caps : Control(m, c)}]

Of(d, at) == INSTANCE Selection
               WITH Providers <- DOMAIN d.providers,
                    Manifest <- [p \in DOMAIN d.providers |-> ReadsOf(d, p)],
                    Adapters <- d.adapters,
                    ControlCaps <- {c \in DOMAIN d.capabilities : d.capabilities[c]},
                    Rows <- Snapshot[at]

ChoiceOf(d, at) ==
  [r \in Requests |-> IF Of(d, at)!Pool(r) = {} THEN None ELSE Of(d, at)!Select(r)]

----------------------------------------------------------------------------
(* The inductive invariant of an installation.                             *)

\* Every manifest was written from what its author meant, and passed the
\* checks unless it was registered unchecked.
Written ==
  \A p \in DOMAIN providers :
    /\ meant[p] \in Intents /\ meant[p].id = p
    /\ providers[p] \in WrittenFrom(meant[p])
    /\ Levels(providers[p])
    /\ ~ unchecked => ManifestSchema(providers[p]) /\ Security(providers[p])

\* Every provider is listed for what its manifest implements, at least.
ListsAll ==
  \A p \in DOMAIN providers : \A c \in providers[p].implements : <<c, p>> \in listing

Declared == DOMAIN capabilities \subseteq {d[1] : d \in Declarations}

\* A runtime is built over an installation that was audited.
BuiltAudited ==
  stage \in {"built", "serving"} => \E known \in SchemaSets : Audited(known)

\* A session is replayed over the installation that was recorded.
Replayed ==
  recorded # None =>
    /\ stage \in {"booted", "built", "serving"} => recorded.document = Document
    /\ ~ recorded.stale => recorded.choice = ChoiceOf(recorded.document, recorded.machine)

InstallInv ==
  InstallTypeOK /\ Written /\ ListsAll /\ Declared /\ BuiltAudited /\ Replayed

----------------------------------------------------------------------------
(* What is written, and what is put into a function.                       *)

LEMMA Extended ==
  ASSUME NEW f, NEW key, NEW value
  PROVE  /\ DOMAIN Extend(f, key, value) = DOMAIN f \cup {key}
         /\ Extend(f, key, value)[key] = value
         /\ \A k \in DOMAIN f \ {key} : Extend(f, key, value)[k] = f[k]
BY DEF Extend

\* No slip is in the id, so none is in its place among the ids.
LEMMA SlipKeepsId ==
  ASSUME NEW i \in Intents, NEW m \in WrittenFrom(i)
  PROVE  m.id = i.id /\ m.order = i.order
<1>1. IsManifest(i)
  BY RegistryAssumption
<1> QED  BY <1>1 DEF WrittenFrom, IsManifest

----------------------------------------------------------------------------
(* The steps.                                                              *)

LEMMA InstallInitInv ==
  ASSUME InstallInit
  PROVE  InstallInv
<1>1. InstallTypeOK
  BY RegistryAssumption DEF InstallInit, InstallTypeOK
<1>2. Written /\ ListsAll /\ Declared /\ BuiltAudited /\ Replayed
  BY DEF InstallInit, Written, ListsAll, Declared, BuiltAudited, Replayed
<1> QED  BY <1>1, <1>2 DEF InstallInv

LEMMA AddCapabilityInv ==
  ASSUME InstallInv, NEW d \in Declarations, AddCapability(d[1], d[2])
  PROVE  InstallInv'
<1> USE DEF InstallInv, AddCapability
<1>1. /\ DOMAIN capabilities' = DOMAIN capabilities \cup {d[1]}
      /\ \A k \in DOMAIN capabilities' : capabilities'[k] \in BOOLEAN
      /\ capabilities' = [k \in DOMAIN capabilities' |-> capabilities'[k]]
  <2>1. d[2] \in BOOLEAN /\ \A k \in DOMAIN capabilities : capabilities[k] \in BOOLEAN
    BY RegistryAssumption DEF InstallTypeOK
  <2> QED  BY <2>1, Extended DEF Extend
<1>2. InstallTypeOK'
  BY <1>1 DEF InstallTypeOK
<1>3. Written' /\ ListsAll'
  BY DEF Written, ListsAll
<1>4. Declared'
  BY <1>1 DEF Declared
<1>5. BuiltAudited' /\ Replayed'
  BY DEF BuiltAudited, Replayed
<1> QED  BY <1>2, <1>3, <1>4, <1>5

LEMMA AddAdapterInv ==
  ASSUME InstallInv, NEW k \in Kinds, AddAdapter(k)
  PROVE  InstallInv'
<1> USE DEF InstallInv, AddAdapter
<1>1. InstallTypeOK'
  BY DEF InstallTypeOK
<1>2. Written' /\ ListsAll' /\ Declared'
  BY DEF Written, ListsAll, Declared
<1>3. BuiltAudited' /\ Replayed'
  BY DEF BuiltAudited, Replayed
<1> QED  BY <1>1, <1>2, <1>3

LEMMA AddProviderInv ==
  ASSUME InstallInv, NEW i \in Intents, NEW ok \in BOOLEAN, NEW m \in WrittenFrom(i),
         AddProvider(i, m, ok)
  PROVE  InstallInv'
<1> USE DEF InstallInv, AddProvider
<1>1. /\ DOMAIN providers' = DOMAIN providers \cup {m.id}
      /\ providers'[m.id] = m
      /\ \A p \in DOMAIN providers \ {m.id} : providers'[p] = providers[p]
  BY Extended DEF Extend
<1>2. /\ DOMAIN meant' = DOMAIN providers'
      /\ meant'[m.id] = i
      /\ \A p \in DOMAIN providers \ {m.id} : meant'[p] = meant[p]
  BY Extended, <1>1 DEF InstallTypeOK, Extend
<1>3. InstallTypeOK'
  <2>1. \A l \in listing' : l[2] \in DOMAIN providers'
    BY <1>1 DEF InstallTypeOK
  <2>2. adds' \in 0 .. MaxAdds
    BY RegistryAssumption DEF InstallTypeOK
  <2> QED  BY <1>2, <2>1, <2>2 DEF InstallTypeOK
<1>4. Written'
  <2>1. Levels(m) /\ (~ unchecked' => ManifestSchema(m) /\ Security(m))
    BY DEF Security
  <2>2. m.id = i.id /\ m \in WrittenFrom(i) /\ i \in Intents
    BY SlipKeepsId
  <2>3. unchecked => unchecked'
    OBVIOUS
  <2> SUFFICES ASSUME NEW p \in DOMAIN providers'
               PROVE  /\ meant'[p] \in Intents /\ meant'[p].id = p
                      /\ providers'[p] \in WrittenFrom(meant'[p])
                      /\ Levels(providers'[p])
                      /\ ~ unchecked' => ManifestSchema(providers'[p]) /\ Security(providers'[p])
    BY DEF Written
  <2>4. CASE p = m.id
    BY ONLY <1>1, <1>2, <2>1, <2>2, <2>4
  <2>5. CASE p # m.id
    <3>1. p \in DOMAIN providers /\ meant'[p] = meant[p] /\ providers'[p] = providers[p]
      BY ONLY <1>1, <1>2, <2>5, p \in DOMAIN providers'
    <3>2. Written
      OBVIOUS
    <3> QED  BY ONLY <2>3, <3>1, <3>2 DEF Written
  <2> QED  BY <2>4, <2>5
<1>5. ListsAll'
  BY <1>1 DEF ListsAll
<1>6. Declared' /\ BuiltAudited'
  BY DEF Declared, BuiltAudited
<1>7. Replayed'
  BY DEF Replayed
<1> QED  BY <1>3, <1>4, <1>5, <1>6, <1>7

LEMMA BootInv ==
  ASSUME InstallInv, NEW allowMachine \in BOOLEAN, Boot(allowMachine)
  PROVE  InstallInv'
<1> USE DEF InstallInv, Boot, registrations
<1>1. InstallTypeOK'
  BY DEF InstallTypeOK
<1>2. Written' /\ ListsAll' /\ Declared' /\ BuiltAudited'
  BY DEF Written, ListsAll, Declared, BuiltAudited
<1>3. Replayed'
  BY DEF Replayed, MayReplay, Document
<1> QED  BY <1>1, <1>2, <1>3

LEMMA BuildInv ==
  ASSUME InstallInv, NEW known \in SchemaSets, Build(known)
  PROVE  InstallInv'
<1> USE DEF InstallInv, Build, registrations
<1>1. InstallTypeOK'
  BY DEF InstallTypeOK
<1>2. Written' /\ ListsAll' /\ Declared'
  BY DEF Written, ListsAll, Declared
<1>3. BuiltAudited'
  BY DEF BuiltAudited, Audited
<1>4. Replayed'
  BY DEF Replayed, Document
<1> QED  BY <1>1, <1>2, <1>3, <1>4

\* The runtime is put to use.
LEMMA ServeInv ==
  ASSUME InstallInv, stage \in {"built", "serving"}, stage' = "serving",
         UNCHANGED <<registrations, machine, recorded>>
  PROVE  InstallInv'
<1> USE DEF InstallInv, registrations
<1>1. InstallTypeOK'
  BY DEF InstallTypeOK
<1>2. Written' /\ ListsAll' /\ Declared'
  BY DEF Written, ListsAll, Declared
<1>3. BuiltAudited'
  BY DEF BuiltAudited, Audited
<1>4. Replayed'
  BY DEF Replayed, Document
<1> QED  BY <1>1, <1>2, <1>3, <1>4

LEMMA InstallStays ==
  ASSUME InstallInv, UNCHANGED install
  PROVE  InstallInv'
<1> USE DEF InstallInv, registrations, install
<1>1. InstallTypeOK'
  BY DEF InstallTypeOK
<1>2. Written' /\ ListsAll' /\ Declared'
  BY DEF Written, ListsAll, Declared
<1>3. BuiltAudited'
  BY DEF BuiltAudited, Audited
<1>4. Replayed'
  BY DEF Replayed, Document
<1> QED  BY <1>1, <1>2, <1>3, <1>4

----------------------------------------------------------------------------
(* What is chosen.                                                         *)

\* What Registry.select() reads of a manifest is in the document, unless an id
\* was registered again with less.
LEMMA ReadsFromDocument ==
  ASSUME InstallInv, ~ Stale, NEW p \in DOMAIN providers
  PROVE  Listed(p) = providers[p].implements /\ Reads(p) = ReadsOf(Document, p)
<1>1. Listed(p) = providers[p].implements
  <2>1. \A c \in providers[p].implements : <<c, p>> \in listing /\ <<c, p>>[1] = c
    BY DEF InstallInv, ListsAll
  <2>2. \A c : <<c, p>> \in listing => c \in providers[p].implements
    <3>1. \A c : <<c, p>>[1] = c /\ <<c, p>>[2] = p
      OBVIOUS
    <3> QED  BY <3>1 DEF Stale
  <2> QED  BY <2>1, <2>2 DEF Listed
<1>2. Document.providers = providers /\ Document.capabilities = capabilities
  BY DEF Document
<1> QED  BY <1>1, <1>2 DEF Reads, ReadsOf

LEMMA ChoiceFromDocument ==
  ASSUME InstallInv, ~ Stale
  PROVE  Choice = ChoiceOf(Document, machine)
<1> DEFINE D == Document
           N == [p \in DOMAIN providers |-> Reads(p)]
           O == [p \in DOMAIN D.providers |-> ReadsOf(D, p)]
<1>1. /\ D.capabilities = capabilities /\ D.providers = providers /\ D.adapters = adapters
      /\ N = O
  BY ReadsFromDocument DEF Document
<1> HIDE DEF N, O, D
<1>2. \A p, s : Now!MeasureOf(p, s) = Of(D, machine)!MeasureOf(p, s)
  BY DEF Now!MeasureOf, Now!Unmeasured, Of!MeasureOf, Of!Unmeasured
<1>3. \A p, r : Now!Admitted(p, r) = Of(D, machine)!Admitted(p, r)
  BY <1>1 DEF N, O, Now!Admitted, Now!Produces, Now!Accepts, Now!MaxTrustIn, Now!MayEmitControl,
         Now!Within, Now!TrustOrder, Of!Admitted, Of!Produces, Of!Accepts, Of!MaxTrustIn,
         Of!MayEmitControl, Of!Within, Of!TrustOrder
<1>4. \A r : Now!Pool(r) = Of(D, machine)!Pool(r)
  BY <1>1, <1>2, <1>3
     DEF Now!Pool, Now!GoodEnough, Now!CheapEnough, Of!Pool, Of!GoodEnough, Of!CheapEnough
<1>5. \A p, q, s : Now!Before(p, q, s) = Of(D, machine)!Before(p, q, s)
  BY <1>1, <1>2 DEF N, O, Now!Before, Now!Cheaper, Of!Before, Of!Cheaper
<1>6. \A r : Now!Select(r) = Of(D, machine)!Select(r)
  BY <1>4, <1>5 DEF Now!Select, Of!Select
<1> QED  BY <1>4, <1>6 DEF Choice, ChoiceOf, Chosen, D

LEMMA ReplayInv ==
  ASSUME InstallInv, Replay
  PROVE  InstallInv'
<1> USE DEF InstallInv, Replay
<1>1. InstallTypeOK'
  BY RegistryAssumption DEF InstallTypeOK
<1>2. Written' /\ ListsAll' /\ Declared' /\ BuiltAudited'
  BY DEF Written, ListsAll, Declared, BuiltAudited
<1>3. Replayed'
  BY ChoiceFromDocument DEF Replayed
<1> QED  BY <1>1, <1>2, <1>3

LEMMA InstallNextInv ==
  ASSUME InstallInv, InstallNext
  PROVE  InstallInv'
BY AddCapabilityInv, AddAdapterInv, AddProviderInv, BootInv, BuildInv, ReplayInv
   DEF InstallNext

\* A replay that check_replay admits on the same machine and from the same
\* measurements makes every choice as the recorded session made it.
LEMMA ReplayChooses ==
  ASSUME InstallInv
  PROVE  ReplayChoosesSame
<1> SUFFICES ASSUME stage = "built", recorded # None, ~ Stale, ~ recorded.stale,
                    recorded.machine = machine
             PROVE  Choice = recorded.choice
  BY DEF ReplayChoosesSame
<1>1. recorded.document = Document /\ recorded.choice = ChoiceOf(recorded.document, recorded.machine)
  BY DEF InstallInv, Replayed
<1> QED  BY <1>1, ChoiceFromDocument

\* The choice over any installation is a member of the pool: the manifests,
\* checked or not, have what rank() orders by, and the sort is total.
Best == INSTANCE SelectionProofs
          WITH Providers <- DOMAIN providers,
               Manifest <- [p \in DOMAIN providers |-> Reads(p)],
               Adapters <- adapters,
               ControlCaps <- {c \in DOMAIN capabilities : capabilities[c]},
               Rows <- Snapshot[machine]

LEMMA ManifestsSound ==
  ASSUME InstallInv
  PROVE  Best!ManifestAssumption
<1>1. /\ \A p \in DOMAIN providers :
           /\ meant[p] \in Intents /\ meant[p].id = p
           /\ providers[p].id = p /\ providers[p].order = meant[p].order
           /\ Levels(providers[p])
      /\ DOMAIN meant = DOMAIN providers /\ machine \in DOMAIN Snapshot
  BY SlipKeepsId DEF InstallInv, Written, InstallTypeOK
<1>2. None \notin Nat \cup DOMAIN providers
  BY <1>1, RegistryAssumption
<1>3. \A p \in DOMAIN providers : Best!ManifestOK(Reads(p))
  <2> SUFFICES ASSUME NEW p \in DOMAIN providers
               PROVE  Best!ManifestOK(Reads(p))
    OBVIOUS
  <2>1. \A c : Ceiling(providers[p], c) \in TrustLevels
    BY <1>1 DEF Ceiling, Levels, Keys, TrustLevels
  <2>2. providers[p].order \in Nat
    BY <1>1, RegistryAssumption
  <2> QED  BY <2>1, <2>2 DEF Best!ManifestOK, Best!TrustLevels, TrustLevels, Reads
<1>4. \A p, q \in DOMAIN providers : Reads(p).order = Reads(q).order => p = q
  BY <1>1, RegistryAssumption DEF Reads
<1>5. \A k \in DOMAIN Snapshot[machine] : Best!RowOK(Snapshot[machine][k])
  BY <1>1, RegistryAssumption DEF RowTyped, Best!RowOK
<1> QED  BY <1>2, <1>3, <1>4, <1>5 DEF Best!ManifestAssumption

LEMMA ChosenFromPool ==
  ASSUME InstallInv, NEW r, Chosen(r) # None
  PROVE  Chosen(r) \in Now!Pool(r)
<1>1. Now!Pool(r) # {} /\ Chosen(r) = Now!Select(r)
  BY DEF Chosen
<1>2. Best!Pool(r) = Now!Pool(r)
  BY DEF Best!Pool, Best!Admitted, Best!GoodEnough, Best!CheapEnough, Best!Produces, Best!Accepts,
         Best!MaxTrustIn, Best!MayEmitControl, Best!MeasureOf, Best!Unmeasured, Best!Within,
         Best!TrustOrder, Now!Pool, Now!Admitted, Now!GoodEnough, Now!CheapEnough, Now!Produces,
         Now!Accepts, Now!MaxTrustIn, Now!MayEmitControl, Now!MeasureOf, Now!Unmeasured,
         Now!Within, Now!TrustOrder
<1>3. Best!Select(r) = Now!Select(r)
  BY <1>2 DEF Best!Select, Best!Before, Best!MeasureOf, Best!Unmeasured, Best!Cheaper,
              Now!Select, Now!Before, Now!MeasureOf, Now!Unmeasured, Now!Cheaper
<1>4. Best!Select(r) \in Best!Pool(r)
  BY <1>1, <1>2, ManifestsSound, Best!SelectionIsBest DEF Best!ManifestAssumption
<1> QED  BY <1>1, <1>2, <1>3, <1>4

\* What may be chosen for a request reads what the request offers: the filters
\* of select() in terms of the manifest as it is written.
LEMMA ChosenReads ==
  ASSUME InstallInv, ~ Stale, NEW r \in Requests, Chosen(r) # None
  PROVE  LET p == Chosen(r)
             m == providers[p]
         IN  /\ p \in DOMAIN providers
             /\ r.cap \in m.implements
             /\ r.schema = None \/ m.produces = {} \/ r.schema \in m.produces
             /\ Within(r.trust, Ceiling(m, r.cap))
             /\ Control(m, r.cap) <=> r.cap \in {c \in DOMAIN capabilities : capabilities[c]}
<1> DEFINE p == Chosen(r)
           m == providers[p]
<1>1. p \in DOMAIN providers /\ Now!Admitted(p, r)
  BY ChosenFromPool DEF Now!Pool
<1>2. Reads(p) = ReadsOf(Document, p)
  BY <1>1, ReadsFromDocument
<1>3. /\ [q \in DOMAIN providers |-> Reads(q)][p] = Reads(p)
      /\ Reads(p).implements = m.implements /\ Reads(p).produces = m.produces
      /\ r.cap \in m.implements
  BY <1>1, <1>2 DEF Now!Admitted, ReadsOf, Document
<1>4. /\ Reads(p).ceiling.listed[r.cap] = Ceiling(m, r.cap)
      /\ r.cap \in DOMAIN Reads(p).ceiling.listed
      /\ r.cap \in Reads(p).control <=> Control(m, r.cap)
  BY <1>2, <1>3 DEF ReadsOf, Document
<1>5. r.schema = None \/ m.produces = {} \/ r.schema \in m.produces
  BY <1>1, <1>3 DEF Now!Admitted, Now!Produces
<1>6. Within(r.trust, Ceiling(m, r.cap))
  BY <1>1, <1>3, <1>4 DEF Now!Admitted, Now!MaxTrustIn, Now!Within, Now!TrustOrder, Within, TrustOrder
<1>7. Control(m, r.cap) <=> r.cap \in {c \in DOMAIN capabilities : capabilities[c]}
  BY <1>1, <1>3, <1>4 DEF Now!Admitted, Now!MayEmitControl
<1> QED  BY <1>1, <1>3, <1>5, <1>6, <1>7

\* A slip that passes the checks of add_provider and the audit is none, or is
\* in `produces`, where the audit has no schemas to compare with.
LEMMA SlipsStopped ==
  ASSUME InstallInv, stage = "built", ~ unchecked, NEW p \in DOMAIN providers
  PROVE  \/ providers[p] = meant[p]
         \/ \E w \in meant[p].produces :
              providers[p] = [meant[p] EXCEPT !.produces = Misspell(@, w)]
<1> DEFINE i == meant[p]
           m == providers[p]
<1>1. i \in Intents /\ m \in WrittenFrom(i) /\ ManifestSchema(m) /\ Security(m)
  BY DEF InstallInv, Written
<1>2. m.implements \subseteq DOMAIN capabilities /\ Typo \notin DOMAIN capabilities
  BY TypoAssumption DEF InstallInv, BuiltAudited, Audited, Declared
<1>3. IsManifest(i) /\ ~ i.stray /\ Typo \notin i.implements
  BY <1>1, RegistryAssumption, TypoAssumption
<1>4. m # [i EXCEPT !.kind = Typo]
  BY <1>1, <1>3, TypoAssumption DEF ManifestSchema, IsManifest
<1>5. \A w \in i.implements : m # [i EXCEPT !.implements = Misspell(@, w)]
  BY <1>2, <1>3 DEF Misspell, IsManifest
<1>6. \A w \in Words(i.control) \ {Every} : m # [i EXCEPT !.control = Misspell(@, w)]
  <2> SUFFICES ASSUME NEW w \in Words(i.control) \ {Every},
                      m = [i EXCEPT !.control = Misspell(@, w)]
               PROVE  FALSE
    OBVIOUS
  <2>1. m.control = Misspell(i.control, w) /\ m.implements = i.implements
    BY <1>3 DEF IsManifest
  <2>2. Typo \in m.control
    BY <2>1 DEF Misspell
  <2>3. m.control # None
    BY <1>1, <2>1, NoneAssumption
  <2> QED  BY <2>1, <2>2, <2>3, <1>1, <1>3, TypoAssumption DEF Security, Words
<1>7. \A w \in Keys(i.ceiling) \ {Every} : m # [i EXCEPT !.ceiling = MisspellKey(@, w)]
  <2> SUFFICES ASSUME NEW w \in Keys(i.ceiling) \ {Every},
                      m = [i EXCEPT !.ceiling = MisspellKey(@, w)]
               PROVE  FALSE
    OBVIOUS
  <2>1. m.ceiling = MisspellKey(i.ceiling, w) /\ m.implements = i.implements
    BY <1>3 DEF IsManifest
  <2>2. m.ceiling # None
    BY <1>1, <2>1, NoneAssumption
  <2>3. Typo \in Keys(m.ceiling)
    BY <2>1, <2>2 DEF Keys, MisspellKey, Misspell
  <2> QED  BY <2>1, <2>3, <1>1, <1>3, TypoAssumption DEF Security
<1>8. \A w \in Keys(i.ceiling) : m # [i EXCEPT !.ceiling = [@ EXCEPT ![w] = Typo]]
  <2> SUFFICES ASSUME NEW w \in Keys(i.ceiling),
                      m = [i EXCEPT !.ceiling = [@ EXCEPT ![w] = Typo]]
               PROVE  FALSE
    OBVIOUS
  <2>1. m.ceiling = [i.ceiling EXCEPT ![w] = Typo]
    BY <1>3 DEF IsManifest
  <2>2. m.ceiling # None /\ w \in DOMAIN i.ceiling
    BY <1>1, <2>1, NoneAssumption DEF Keys
  <2>3. w \in Keys(m.ceiling) /\ m.ceiling[w] = Typo
    BY <2>1, <2>2 DEF Keys
  <2> QED  BY <2>3, <1>1, TypoAssumption DEF Security, Levels
<1>9. /\ m # [i EXCEPT !.ceiling = None, !.stray = TRUE]
      /\ m # [i EXCEPT !.control = None, !.stray = TRUE]
      /\ m # [i EXCEPT !.produces = {}, !.stray = TRUE]
  BY <1>1, <1>3 DEF ManifestSchema, IsManifest
<1> QED  BY <1>1, <1>4, <1>5, <1>6, <1>7, <1>8, <1>9 DEF WrittenFrom

\* Over an audited installation every choice is one that the manifest's author
\* meant.
LEMMA ChoosesAsMeant ==
  ASSUME InstallInv
  PROVE  ChoiceAsMeant
<1> SUFFICES ASSUME stage = "built", ~ unchecked, ~ Stale,
                    NEW r \in Requests, Chosen(r) # None
             PROVE  LET i == meant[Chosen(r)]
                    IN  /\ r.cap \in i.implements
                        /\ i.produces = {} \/ r.schema \in i.produces
                        /\ Within(r.trust, Ceiling(i, r.cap))
                        /\ Control(i, r.cap) <=> capabilities[r.cap]
  BY DEF ChoiceAsMeant
<1> DEFINE p == Chosen(r)
           i == meant[p]
           m == providers[p]
<1>1. /\ p \in DOMAIN providers /\ r.cap \in m.implements
      /\ m.produces = {} \/ r.schema \in m.produces
      /\ Within(r.trust, Ceiling(m, r.cap))
      /\ Control(m, r.cap) <=> r.cap \in {c \in DOMAIN capabilities : capabilities[c]}
  BY ChosenReads, TypoAssumption
<1>2. r.cap \in DOMAIN capabilities
  BY <1>1 DEF InstallInv, BuiltAudited, Audited
<1>3. CASE m = i
  BY <1>1, <1>2, <1>3
<1>4. ASSUME NEW w \in i.produces, m = [i EXCEPT !.produces = Misspell(@, w)]
      PROVE  /\ m.implements = i.implements /\ i.produces # {}
             /\ m.ceiling = i.ceiling /\ m.control = i.control
             /\ r.schema \in m.produces => r.schema \in i.produces
             /\ m.produces # {}
  <2>1. IsManifest(i)
    BY <1>1, RegistryAssumption DEF InstallInv, Written
  <2>2. m.produces = Misspell(i.produces, w)
    BY <1>4, <2>1 DEF IsManifest
  <2> QED  BY <1>4, <2>1, <2>2, TypoAssumption DEF IsManifest, Misspell
<1>5. ASSUME NEW w \in i.produces, m = [i EXCEPT !.produces = Misspell(@, w)]
      PROVE  /\ r.cap \in i.implements
             /\ i.produces = {} \/ r.schema \in i.produces
             /\ Within(r.trust, Ceiling(i, r.cap))
             /\ Control(i, r.cap) <=> capabilities[r.cap]
  <2>1. Ceiling(m, r.cap) = Ceiling(i, r.cap) /\ Control(m, r.cap) = Control(i, r.cap)
    BY <1>4, <1>5 DEF Ceiling, Control
  <2> QED  BY <1>1, <1>2, <1>4, <1>5, <2>1
<1> QED  BY <1>1, <1>3, <1>5, SlipsStopped

----------------------------------------------------------------------------
(* The inductive invariant of a call.                                      *)

\* What one load takes.
Labels == [call : Nat, warm : BOOLEAN, nth : Nat]

ScopeTypes ==
  /\ count \in Nat
  /\ held \subseteq Labels /\ stuck \subseteq held
  /\ undos \in Seq(Labels) /\ tried \in Seq(Labels) /\ failed \in Seq(Labels)

\* What is held is what is still registered and what is stuck; what this load
\* left stuck was registered behind all that is still to be undone.
ScopeHolds ==
  /\ \A k \in DOMAIN undos : undos[k] = [call |-> count, warm |-> warm, nth |-> k]
  /\ held = stuck \cup {undos[k] : k \in DOMAIN undos}
  /\ \A label \in stuck :
       /\ label.call <= count
       /\ pc = "unload" /\ label.call = count => label.warm = warm /\ label.nth > Len(undos)
  /\ pc \notin {"load", "run", "unload"} => undos = <<>>

ScopeUndoes ==
  /\ pc \in {"load", "run"} => tried = <<>>
  /\ \A k \in DOMAIN tried : tried[k].nth > Len(undos)
  /\ UndoneInReverse

\* A call goes on, and ends other than by escaping, only with nothing stuck.
ScopeLoud ==
  /\ pc \in {"load", "run", "judge", "commit"} => failed = <<>>
  /\ pc # "idle" => ending = None
  /\ pc # "idle" /\ failed = <<>> => \A label \in stuck : label.call # count
  /\ UnwindIsLoud

ScopeInv == ScopeTypes /\ ScopeHolds /\ ScopeUndoes /\ ScopeLoud

\* A listener is only called behind one that has passed control on.
ChainInv ==
  /\ ran \in Seq(Nat) /\ Len(ran) \in 0 .. Count
  /\ depth \in 0 .. Len(ran) /\ called \subseteq 1 .. Len(ran)
  /\ result \in {"value", Running} \cup Raises
  /\ depth > 0 /\ depth \notin called => Len(ran) = depth
  /\ pc = "commit" => (depth = 0 <=> result # Running)
  /\ pc # "commit" => depth = 0 /\ called = {} /\ ran = <<>> /\ result = Running
  /\ OnceInOrder

\* The call under way.
UnderWay ==
  /\ pc \in Phases /\ user \in {"loop", "probe"} /\ handle \in Prompts \cup {None}
  /\ pc # "idle" => stage = "serving" /\ provider \in DOMAIN providers
  /\ runs \in 0 .. ProbeRuns + 1 /\ warm \in BOOLEAN
  /\ pc = "run" \/ (pc = "load" /\ ~ warm) => runs > 0
  /\ pc \in {"unload", "judge", "commit"} \/ (pc = "load" /\ warm) =>
       answer.how \in {"record", "refused", "raised"}
  /\ answer # None => answer.how \in {"record", "refused", "raised"}
  /\ ending # None => ending.type \in EndingTypes

\* The hash that is kept for the file that lies there is its own.
HashesRight ==
  /\ weights.stamp \in Nat /\ weights.pinned \in BOOLEAN
  /\ weights = [pinned |-> weights.pinned, stamp |-> weights.stamp]
  /\ checked \in [DOMAIN checked -> BOOLEAN]
  /\ \A s \in DOMAIN checked : s \in 0 .. weights.stamp
  /\ weights.stamp \in DOMAIN checked => checked[weights.stamp] = weights.pinned

\* A handle of a model is made behind _verify and _instruction.
LoadedRight ==
  OfModel =>
    /\ Manifest.produces # {} => asked \in Manifest.produces
    /\ pc = "load" /\ undos # <<>> => handle # None
    /\ pc \in {"run", "unload"} => handle # None
    /\ pc = "load" /\ ~ warm => answer = None
    /\ pc \in {"load", "run", "unload"} /\ handle # None =>
         weights.pinned /\ Passes(handle)
    /\ pc \in {"run", "unload"} /\ ~ warm /\ answer # None /\ answer.how = "record" =>
         Known /\ Prompted

\* Only what no rung found fault with comes before the listeners.
Judged ==
  /\ pc = "commit" => answer.sure /\ Verdict(answer.record) = {}
  /\ RungNamed

CallInv ==
  InstallInv /\ UnderWay /\ ScopeInv /\ ChainInv /\ HashesRight /\ LoadedRight /\ Judged

----------------------------------------------------------------------------
(* The listeners.                                                          *)

LEMMA ChainStarts ==
  ASSUME Start
  PROVE  /\ ran' \in Seq(Nat) /\ Len(ran') \in 0 .. Count
         /\ depth' \in 0 .. Len(ran') /\ called' = {}
         /\ result' \in {"value", Running}
         /\ depth' > 0 => Len(ran') = depth'
         /\ depth' = 0 <=> result' # Running
         /\ OnceInOrder'
<1>1. CASE Count = 0
  BY <1>1, RunningAssumption, CountAssumption DEF Start, OnceInOrder
<1>2. CASE Count # 0
  <2>1. /\ ran' = <<1>> /\ depth' = 1 /\ called' = {} /\ result' = Running
        /\ Count \in Nat /\ Count > 0
    BY <1>2, CountAssumption DEF Start
  <2>2. Len(ran') = 1 /\ ran'[1] = 1 /\ DOMAIN ran' = {1} /\ ran' \in Seq(Nat)
    BY <2>1
  <2>3. OnceInOrder'
    BY <2>2 DEF OnceInOrder
  <2> QED  BY <2>1, <2>2, <2>3
<1> QED  BY <1>1, <1>2

LEMMA ChainGoesOn ==
  ASSUME ChainInv, pc = "commit", pc' = "commit", result = Running,
         CallNext \/ Return \/ \E why \in Raises, to \in 0 .. Count : Raise(why, to)
  PROVE  ChainInv'
<1> USE CountAssumption, RunningAssumption
<1>1. CASE CallNext
  <2>1. CASE depth < Count
    <3>1. ran' = Append(ran, depth + 1) /\ Len(ran) = depth /\ depth > 0
      BY <1>1, <2>1 DEF ChainInv, CallNext, Free
    <3>2. /\ ran' \in Seq(Nat) /\ Len(ran') = depth + 1 /\ ran'[depth + 1] = depth + 1
          /\ \A k \in 1 .. depth : ran'[k] = ran[k]
      BY <3>1 DEF ChainInv
    <3>3. OnceInOrder'
      BY <1>1, <3>1, <3>2 DEF ChainInv, CallNext, OnceInOrder
    <3> QED  BY <1>1, <2>1, <3>1, <3>2, <3>3 DEF ChainInv, CallNext, Free
  <2>2. CASE ~ (depth < Count)
    <3>1. ran' = ran /\ depth' = depth /\ Len(ran) = depth /\ depth > 0 /\ result' = result
      BY <1>1, <2>2 DEF ChainInv, CallNext, Free
    <3>2. OnceInOrder'
      BY <1>1, <3>1 DEF ChainInv, CallNext, OnceInOrder
    <3> QED  BY <1>1, <3>1, <3>2 DEF ChainInv, CallNext, Free
  <2> QED  BY <2>1, <2>2
<1>2. CASE Return
  <2>1. OnceInOrder'
    BY <1>2 DEF ChainInv, Return, OnceInOrder
  <2>2. depth' > 0 => depth' \in called'
    BY <1>2 DEF ChainInv, Return, OnceInOrder
  <2> QED  BY <1>2, <2>1, <2>2 DEF ChainInv, Return, Raises
<1>3. ASSUME NEW why \in Raises, NEW to \in 0 .. Count, Raise(why, to)
      PROVE  ChainInv'
  <2>1. OnceInOrder'
    <3>1. ran' = ran /\ called' = called /\ OnceInOrder
      BY <1>3 DEF ChainInv, Raise
    <3> QED  BY <3>1 DEF OnceInOrder
  <2>2. depth' > 0 => depth' \in called'
    <3> SUFFICES ASSUME depth' > 0 PROVE depth' \in called'
      OBVIOUS
    <3>1. depth' = to /\ called' = called /\ to + 1 \in 2 .. Len(ran) /\ (to + 1) - 1 = to
      BY <1>3 DEF ChainInv, Raise
    <3> QED  BY <3>1 DEF ChainInv, OnceInOrder
  <2> QED  BY <1>3, <2>1, <2>2 DEF ChainInv, Raise, Raises
<1> QED  BY <1>1, <1>2, <1>3

LEMMA ChainStays ==
  ASSUME ChainInv, UNCHANGED chain, pc' = "commit" <=> pc = "commit"
  PROVE  ChainInv'
BY DEF ChainInv, chain, OnceInOrder

LEMMA ChainStep ==
  ASSUME ChainInv, Next
  PROVE  ChainInv'
<1>1. CASE Valid
  <2>1. pc' = "commit" /\ Start
    BY <1>1 DEF Valid
  <2> QED  BY <2>1, ChainStarts DEF ChainInv, Raises
<1>2. CASE Listen
  BY <1>2, ChainGoesOn DEF Listen
<1>3. CASE Listened
  <2>1. pc' = "idle" /\ Forget
    BY <1>3, RunningAssumption DEF Listened, End, ChainInv, Raises
  <2> QED  BY <2>1, CountAssumption DEF Forget, ChainInv, OnceInOrder
<1>4. ASSUME UNCHANGED chain, pc' = "commit" <=> pc = "commit"
      PROVE  ChainInv'
  BY <1>4, ChainStays
<1>5. CASE InstallNext /\ UNCHANGED callVars
  BY <1>4, <1>5 DEF callVars, chain
<1>6. ASSUME NEW p, NEW schema, NEW by, Begin(p, schema, by)
      PROVE  ChainInv'
  BY <1>4, <1>6 DEF Begin, MayBegin
<1>7. CASE \/ CodeLoadRaises \/ GgufLoadRaises \/ Take \/ Loaded \/ Unloaded
           \/ \E i \in Prompts : ReadPrompt(i)
           \/ \E raises \in BOOLEAN : GiveBack(raises)
           \/ \E pinned \in BOOLEAN : ReplaceWeights(pinned)
           \/ BelowFloor \/ Refused
  BY <1>4, <1>7 DEF CodeLoadRaises, GgufLoadRaises, LoadRaises, Take, Loaded, Unloaded, ReadPrompt,
         GiveBack, ReplaceWeights, BelowFloor, Refused, End
<1>8. CASE \/ \E record \in Records, sure \in BOOLEAN : RunReturns(record, sure)
           \/ RunRefuses \/ GgufRunRaises
  BY <1>4, <1>8 DEF RunReturns, RunRefuses, GgufRunRaises, RunEnds, After
<1> QED  BY <1>1, <1>2, <1>3, <1>5, <1>6, <1>7, <1>8 DEF Next, Call, Probe

----------------------------------------------------------------------------
(* The installation, and the call under way.                               *)

LEMMA InstallsBefore ==
  ASSUME InstallNext
  PROVE  stage \in {"installing", "booted", "built"}
BY DEF InstallNext, AddCapability, AddAdapter, AddProvider, Boot, Build, Replay

\* A call begins over an installation that is built, with a provider of it.
LEMMA BeginsWith ==
  ASSUME InstallInv,
         (\E r \in Requests : Call(r)) \/ (\E p \in DOMAIN providers : Probe(p))
  PROVE  /\ \E schema, by : Begin(provider', schema, by)
         /\ provider' \in DOMAIN providers /\ user' \in {"loop", "probe"}
         /\ stage \in {"built", "serving"}
<1>1. ASSUME NEW r \in Requests, Call(r)
      PROVE  Begin(Chosen(r), r.schema, "loop") /\ Chosen(r) \in DOMAIN providers
  BY <1>1, ChosenFromPool DEF Call, Now!Pool
<1>2. ASSUME NEW p \in DOMAIN providers, Probe(p)
      PROVE  \E schema : Begin(p, schema, "probe")
  BY <1>2 DEF Probe
<1> QED  BY <1>1, <1>2 DEF Begin, MayBegin

LEMMA InstallStep ==
  ASSUME InstallInv, Next
  PROVE  InstallInv'
<1>1. CASE InstallNext
  BY <1>1, InstallNextInv
<1>2. CASE (\E r \in Requests : Call(r)) \/ (\E p \in DOMAIN providers : Probe(p))
  <2>1. /\ stage \in {"built", "serving"} /\ stage' = "serving"
        /\ UNCHANGED <<registrations, machine, recorded>>
    BY <1>2, BeginsWith DEF Begin
  <2> QED  BY <2>1, ServeInv
<1>3. CASE UNCHANGED install
  BY <1>3, InstallStays
<1> QED
  BY <1>1, <1>2, <1>3
     DEF Next, CodeLoadRaises, GgufLoadRaises, LoadRaises, ReadPrompt, Take, Loaded, RunReturns,
         RunRefuses, GgufRunRaises, RunEnds, GiveBack, Unloaded, ReplaceWeights, Quiet,
         BelowFloor, Refused, Valid, Listen, Listened

\* While a call is under way the installation stays as it is.
LEMMA InstallKept ==
  ASSUME UnderWay, Next, pc # "idle"
  PROVE  UNCHANGED install
<1>1. stage = "serving"
  BY DEF UnderWay
<1> QED
  BY <1>1, InstallsBefore
     DEF Next, Call, Probe, MayBegin, Begin, CodeLoadRaises, GgufLoadRaises, LoadRaises, ReadPrompt,
         Take, Loaded, RunReturns, RunRefuses, GgufRunRaises, RunEnds, GiveBack, Unloaded,
         ReplaceWeights, Quiet, BelowFloor, Refused, Valid, Listen, Listened

LEMMA UnderWayStep ==
  ASSUME InstallInv, UnderWay, ChainInv, Next
  PROVE  UnderWay'
<1> USE CallAssumption
<1>1. CASE InstallNext /\ UNCHANGED callVars
  BY <1>1, InstallsBefore DEF UnderWay, callVars, progress, who, place
<1>2. CASE (\E r \in Requests : Call(r)) \/ (\E p \in DOMAIN providers : Probe(p))
  <2>1. PICK schema, by : Begin(provider', schema, by)
    BY <1>2, BeginsWith
  <2>2. /\ provider' \in DOMAIN providers' /\ user' \in {"loop", "probe"}
        /\ stage' = "serving" /\ pc' = "load" /\ handle' = None /\ warm' = FALSE
        /\ answer' = None /\ ending' = None
        /\ runs' = (IF by = "probe" THEN ProbeRuns ELSE 1)
    BY <1>2, <2>1, BeginsWith DEF Begin, registrations
  <2>3. runs' \in 0 .. ProbeRuns + 1 /\ runs' > 0
    BY <2>2
  <2> QED  BY <2>2, <2>3 DEF UnderWay, Phases
<1>3. CASE CodeLoadRaises \/ GgufLoadRaises
  <2>1. LoadRaises
    BY <1>3 DEF CodeLoadRaises, GgufLoadRaises
  <2> QED
    BY <2>1 DEF LoadRaises, End, Ending, UnderWay, EndingTypes, Phases, place
<1>4. ASSUME NEW i \in Prompts, ReadPrompt(i)
      PROVE  UnderWay'
  BY <1>4 DEF ReadPrompt, UnderWay, install, registrations, who, place
<1>5. CASE Take
  BY <1>5 DEF Take, UnderWay, install, registrations, progress, who, place
<1>6. CASE Loaded
  BY <1>6 DEF Loaded, UnderWay, install, registrations, progress, who, place, Phases
<1>7. ASSUME NEW a, a.how \in {"record", "refused", "raised"}, pc = "run", RunEnds(a)
      PROVE  UnderWay'
  BY <1>7 DEF RunEnds, After, UnderWay, install, registrations, who, Phases
<1>8. CASE \/ \E record \in Records, sure \in BOOLEAN : RunReturns(record, sure)
           \/ RunRefuses \/ GgufRunRaises
  <2>1. \A how, record, sure : Answer(how, record, sure).how = how
    BY DEF Answer
  <2>2. ASSUME NEW record \in Records, NEW sure \in BOOLEAN, RunReturns(record, sure)
        PROVE  UnderWay'
    BY <2>1, <2>2, <1>7 DEF RunReturns
  <2>3. CASE RunRefuses
    <3>1. PICK a : a = Answer("refused", None, TRUE)
      OBVIOUS
    <3>2. a.how = "refused" /\ pc = "run" /\ RunEnds(a)
      BY <2>3, <3>1 DEF RunRefuses, Answer
    <3> QED  BY <3>2, <1>7
  <2>4. CASE GgufRunRaises
    <3>1. PICK a : a = Answer("raised", None, TRUE)
      OBVIOUS
    <3>2. a.how = "raised" /\ pc = "run" /\ RunEnds(a)
      BY <2>4, <3>1 DEF GgufRunRaises, Answer
    <3> QED  BY <3>2, <1>7
  <2> QED  BY <1>8, <2>2, <2>3, <2>4
<1>9. ASSUME NEW raises \in BOOLEAN, GiveBack(raises)
      PROVE  UnderWay'
  BY <1>9 DEF GiveBack, UnderWay, install, registrations, progress, who, place
<1>10. CASE Unloaded
  <2>1. UNCHANGED install /\ pc = "unload"
    BY <1>10 DEF Unloaded
  <2>2. ASSUME NEW type \in EndingTypes, NEW why, End(type, why), UNCHANGED place
        PROVE  UnderWay'
    BY <2>1, <2>2 DEF End, Ending, UnderWay, Phases, install, registrations, place
  <2>3. CASE pc' = "judge" /\ handle' = None /\ UNCHANGED <<who, place, answer, ending>>
    BY <2>1, <2>3 DEF UnderWay, Phases, install, registrations, who, place
  <2>4. CASE /\ pc' = "load" /\ warm' = TRUE /\ handle' = None
             /\ UNCHANGED <<who, runs, answer, ending>>
    BY <2>1, <2>4 DEF UnderWay, Phases, install, registrations, who
  <2>5. \/ \E type \in EndingTypes : \E why : End(type, why) /\ UNCHANGED place
        \/ pc' = "judge" /\ handle' = None /\ UNCHANGED <<who, place, answer, ending>>
        \/ /\ pc' = "load" /\ warm' = TRUE /\ handle' = None
           /\ UNCHANGED <<who, runs, answer, ending>>
    BY <1>10 DEF Unloaded, EndingTypes
  <2> QED  BY <2>2, <2>3, <2>4, <2>5
<1>11. ASSUME NEW pinned \in BOOLEAN, ReplaceWeights(pinned)
       PROVE  UnderWay'
  BY <1>11 DEF ReplaceWeights, UnderWay, install, registrations, progress, who, place
<1>12. CASE BelowFloor \/ Refused
  BY <1>12 DEF BelowFloor, Refused, Quiet, End, Ending, UnderWay, EndingTypes, Phases, install,
               registrations, place
<1>13. CASE Valid
  BY <1>13 DEF Valid, Quiet, UnderWay, Phases, install, registrations, who, place
<1>14. CASE Listen
  BY <1>14 DEF Listen, Quiet, UnderWay, install, registrations, who, place
<1>15. CASE Listened
  <2>1. \E type \in EndingTypes : End(type, None) /\ Quiet
    BY <1>15 DEF Listened, EndingTypes, ChainInv, Raises
  <2> QED  BY <2>1 DEF Quiet, End, Ending, UnderWay, Phases, install, registrations, place
<1> QED
  BY <1>1, <1>2, <1>3, <1>4, <1>5, <1>6, <1>8, <1>9, <1>10, <1>11, <1>12, <1>13, <1>14, <1>15 DEF Next

----------------------------------------------------------------------------
(* The scope.                                                              *)

LEMMA FrontAndLast ==
  ASSUME NEW S, NEW s \in Seq(S), s # <<>>
  PROVE  /\ Len(s) \in Nat /\ Len(s) >= 1
         /\ Front(s) \in Seq(S) /\ Len(Front(s)) = Len(s) - 1
         /\ \A k \in 1 .. Len(s) - 1 : Front(s)[k] = s[k]
         /\ Last(s) = s[Len(s)] /\ Last(s) \in S
<1>1. Len(s) \in Nat /\ Len(s) >= 1
  BY EmptySeq
<1>2. \A k \in 1 .. Len(s) : s[k] \in S
  OBVIOUS
<1>3. /\ Front(s) \in Seq(S) /\ Len(Front(s)) = Len(s) - 1
      /\ \A k \in 1 .. Len(s) - 1 : Front(s)[k] = s[k]
  <2> DEFINE n == Len(s) - 1
  <2>1. n \in Int /\ n >= 0 /\ \A k \in 1 .. n : s[k] \in S
    BY <1>1, <1>2
  <2> HIDE DEF n
  <2>2. /\ SubSeq(s, 1, n) \in Seq(S)
        /\ Len(SubSeq(s, 1, n)) = IF 1 <= n THEN n - 1 + 1 ELSE 0
        /\ \A k \in 1 .. n - 1 + 1 : SubSeq(s, 1, n)[k] = s[1 + k - 1]
    BY <2>1, SubSeqProperties
  <2>3. n - 1 + 1 = n /\ \A k \in 1 .. n : 1 + k - 1 = k
    BY <2>1
  <2>4. Len(SubSeq(s, 1, n)) = n /\ \A k \in 1 .. n : SubSeq(s, 1, n)[k] = s[k]
    BY <2>1, <2>2, <2>3
  <2> QED  BY <2>2, <2>4 DEF Front, n
<1> QED  BY <1>1, <1>2, <1>3 DEF Last

\* A step that neither takes nor gives back.
LEMMA ScopeStays ==
  ASSUME ScopeInv, UNCHANGED <<scope, held, stuck, count, warm>>,
         \/ pc' = pc /\ ending' = ending
         \/ pc \in {"load", "run"} /\ pc' \in {"run", "unload"} /\ ending' = ending
         \/ /\ pc # "idle" /\ undos = <<>> /\ pc' = "idle"
            /\ ending'.type = "escaped" \/ failed = <<>>
         \/ /\ pc # "idle" /\ undos = <<>> /\ pc' \in {"judge", "commit"}
            /\ failed = <<>> /\ ending' = ending
  PROVE  ScopeInv'
<1> USE DEF ScopeInv, scope
<1>1. ScopeTypes'
  BY DEF ScopeTypes
<1>2. ScopeHolds'
  BY DEF ScopeHolds, ScopeLoud
<1>3. ScopeUndoes'
  BY DEF ScopeUndoes, UndoneInReverse
<1>4. ScopeLoud'
  BY DEF ScopeLoud, UnwindIsLoud
<1> QED  BY <1>1, <1>2, <1>3, <1>4

\* A call, and the probe's second load, begin with an empty scope.
LEMMA ScopeBegins ==
  ASSUME ScopeInv, NewScope, pc' = "load", ending' = None, undos = <<>>,
         held' = held, stuck' = stuck, count' \in Nat, count <= count',
         \A label \in stuck : label.call # count'
  PROVE  ScopeInv'
<1> USE DEF ScopeInv, NewScope
<1>1. ScopeTypes'
  BY DEF ScopeTypes
<1>2. ScopeHolds'
  BY DEF ScopeTypes, ScopeHolds, Labels
<1>3. ScopeUndoes'
  BY DEF ScopeUndoes, UndoneInReverse
<1>4. ScopeLoud'
  BY DEF ScopeLoud, UnwindIsLoud
<1> QED  BY <1>1, <1>2, <1>3, <1>4

LEMMA ScopeTakes ==
  ASSUME UnderWay, ScopeInv, Take
  PROVE  ScopeInv'
<1> DEFINE label == [call |-> count, warm |-> warm, nth |-> Len(undos) + 1]
<1> USE DEF ScopeInv
<1>1. /\ label \in Labels /\ Len(undos) \in Nat
      /\ undos' = Append(undos, label) /\ held' = held \cup {label}
      /\ UNCHANGED <<pc, failed, tried, warm, ending, stuck, count>> /\ pc = "load"
  BY DEF Take, Register, ScopeTypes, Labels, UnderWay, progress, place
<1>2. /\ undos' \in Seq(Labels) /\ Len(undos') = Len(undos) + 1
      /\ DOMAIN undos' = DOMAIN undos \cup {Len(undos) + 1}
      /\ undos'[Len(undos) + 1] = label
      /\ \A k \in DOMAIN undos : undos'[k] = undos[k]
  BY <1>1 DEF ScopeTypes
<1> HIDE DEF label
<1>3. ScopeTypes'
  BY <1>1, <1>2 DEF ScopeTypes
<1>4. ScopeHolds'
  BY <1>1, <1>2 DEF ScopeHolds, label
<1>5. ScopeUndoes'
  BY <1>1 DEF ScopeUndoes, UndoneInReverse
<1>6. ScopeLoud'
  BY <1>1 DEF ScopeLoud, UnwindIsLoud
<1> QED  BY <1>3, <1>4, <1>5, <1>6

LEMMA ScopeGivesBack ==
  ASSUME UnderWay, ScopeInv, NEW raises \in BOOLEAN, GiveBack(raises)
  PROVE  ScopeInv'
<1> DEFINE label == Last(undos)
           n == Len(undos)
<1> USE DEF ScopeInv
<1>1. /\ undos # <<>> /\ undos' = Front(undos)
      /\ tried' = Append(tried, label)
      /\ failed' = (IF raises THEN Append(failed, label) ELSE failed)
      /\ held' = (IF raises THEN held ELSE held \ {label})
      /\ stuck' = (IF raises THEN stuck \cup {label} ELSE stuck)
      /\ UNCHANGED <<pc, warm, ending, count>> /\ pc = "unload"
  BY DEF GiveBack, Undo, Unwound, progress, place
<1>2. /\ n \in Nat /\ n >= 1 /\ label \in Labels /\ label = undos[n]
      /\ undos' \in Seq(Labels) /\ Len(undos') = n - 1
      /\ DOMAIN undos = 1 .. n /\ DOMAIN undos' = 1 .. n - 1
      /\ \A k \in 1 .. n - 1 : undos'[k] = undos[k]
  <2>1. undos \in Seq(Labels)
    BY DEF ScopeTypes
  <2> HIDE DEF ScopeInv
  <2>2. /\ n \in Nat /\ n >= 1 /\ label \in Labels /\ label = undos[n]
        /\ undos' \in Seq(Labels) /\ Len(undos') = n - 1
        /\ \A k \in 1 .. n - 1 : undos'[k] = undos[k]
    BY <1>1, <2>1, FrontAndLast
  <2> QED  BY <2>1, <2>2
<1>3. label = [call |-> count, warm |-> warm, nth |-> n]
  BY <1>2 DEF ScopeHolds
<1>4. /\ tried' \in Seq(Labels) /\ Len(tried') = Len(tried) + 1
      /\ DOMAIN tried' = DOMAIN tried \cup {Len(tried) + 1}
      /\ tried'[Len(tried) + 1] = label
      /\ \A k \in DOMAIN tried : tried'[k] = tried[k] /\ k < Len(tried) + 1
  BY <1>1, <1>2 DEF ScopeTypes
<1> HIDE DEF label, n
<1>5. label \notin stuck /\ \A k \in 1 .. n - 1 : undos[k] # label
  <2>1. label \notin stuck
    BY <1>1, <1>2, <1>3 DEF ScopeHolds, n
  <2>2. \A k \in 1 .. n - 1 : undos[k].nth = k /\ k # n
    BY <1>2 DEF ScopeHolds
  <2>3. label.nth = n
    BY <1>3
  <2> QED  BY <2>1, <2>2, <2>3
<1>6. ScopeTypes'
  <2>1. label \in held /\ stuck \subseteq held
    BY <1>2 DEF ScopeTypes, ScopeHolds
  <2>4. stuck' \subseteq held' /\ held' \subseteq held
    BY <1>1, <1>5, <2>1
  <2>2. failed' \in Seq(Labels)
    BY <1>1, <1>2 DEF ScopeTypes
  <2> QED  BY <1>1, <1>2, <1>4, <2>2, <2>4 DEF ScopeTypes
<1>7. ScopeHolds'
  <2>1. \A k \in DOMAIN undos' : undos'[k] = [call |-> count, warm |-> warm, nth |-> k]'
    BY <1>1, <1>2 DEF ScopeHolds
  <2>2. held' = stuck' \cup {undos'[k] : k \in DOMAIN undos'}
    <3>1. {undos[k] : k \in DOMAIN undos} = {undos'[k] : k \in DOMAIN undos'} \cup {label}
      <4>1. 1 .. n = (1 .. n - 1) \cup {n}
        BY <1>2
      <4> QED  BY <1>2, <4>1
    <3>2. label \notin {undos'[k] : k \in DOMAIN undos'}
      BY <1>2, <1>5
    <3> QED  BY <1>1, <1>5, <3>1, <3>2 DEF ScopeHolds
  <2>3. \A s \in stuck' : /\ s.call <= count
                          /\ s.call = count => s.warm = warm /\ s.nth > Len(undos')
    <3>1. \A s \in stuck : /\ s \in Labels /\ s.call <= count
                           /\ s.call = count => s.warm = warm /\ s.nth > n
      BY <1>1 DEF ScopeTypes, ScopeHolds, n
    <3>2. \A s \in stuck : s.nth \in Nat
      BY <3>1 DEF Labels
    <3>3. label.call = count /\ label.warm = warm /\ label.nth = n /\ count \in Nat
      BY <1>3 DEF ScopeTypes
    <3> QED  BY <1>1, <1>2, <3>1, <3>2, <3>3
  <2> QED  BY <1>1, <2>1, <2>2, <2>3 DEF ScopeHolds
<1>8. ScopeUndoes'
  <2>1. \A k \in DOMAIN tried : tried[k].nth \in Nat /\ tried[k].nth > n
    <3>1. \A k \in DOMAIN tried : tried[k] \in Labels
      BY DEF ScopeTypes
    <3> QED  BY <3>1 DEF ScopeUndoes, Labels, n
  <2>2. \A k \in DOMAIN tried' : tried'[k].nth > Len(undos')
    BY <1>2, <1>3, <1>4, <2>1
  <2>3. UndoneInReverse'
    <3> SUFFICES ASSUME NEW i \in DOMAIN tried', NEW j \in DOMAIN tried', i < j
                 PROVE  tried'[i].nth > tried'[j].nth
      BY DEF UndoneInReverse
    <3>1. i \in DOMAIN tried
      BY <1>4 DEF ScopeTypes
    <3>2. CASE j \in DOMAIN tried
      BY <1>4, <3>1, <3>2 DEF ScopeUndoes, UndoneInReverse
    <3>3. CASE j = Len(tried) + 1
      BY <1>3, <1>4, <2>1, <3>1, <3>3
    <3> QED  BY <1>4, <3>2, <3>3
  <2> QED  BY <1>1, <2>2, <2>3 DEF ScopeUndoes
<1>9. ScopeLoud'
  <2>1. failed' = <<>> => ~ raises /\ failed = <<>>
    <3>1. failed \in Seq(Labels)
      BY DEF ScopeTypes
    <3>2. Append(failed, label) # <<>>
      BY <1>2, <3>1
    <3> QED  BY <1>1, <3>2
  <2> QED  BY <1>1, <2>1 DEF ScopeLoud, UnwindIsLoud
<1> QED  BY <1>6, <1>7, <1>8, <1>9

LEMMA ScopeStep ==
  ASSUME InstallInv, UnderWay, ChainInv, ScopeInv, Next
  PROVE  ScopeInv'
<1> USE DEF callVars, progress, place
<1>1. CASE InstallNext /\ UNCHANGED callVars
  BY <1>1, ScopeStays
<1>2. CASE (\E r \in Requests : Call(r)) \/ (\E p \in DOMAIN providers : Probe(p))
  <2>1. PICK schema, by : Begin(provider', schema, by)
    BY <1>2, BeginsWith
  <2>2. /\ NewScope /\ pc' = "load" /\ ending' = None /\ held' = held /\ stuck' = stuck
        /\ count' = count + 1 /\ pc = "idle"
    BY <2>1 DEF Begin, MayBegin
  <2>3. count \in Nat /\ undos = <<>> /\ \A label \in stuck : label.call \in Nat /\ label.call <= count
    BY <2>2 DEF ScopeInv, ScopeTypes, ScopeHolds, Labels
  <2>4. \A label \in stuck : label.call # count'
    BY <2>2, <2>3
  <2> QED  BY <2>2, <2>3, <2>4, ScopeBegins
<1>3. CASE CodeLoadRaises \/ GgufLoadRaises
  <2>1. LoadRaises
    BY <1>3 DEF CodeLoadRaises, GgufLoadRaises
  <2>2. ending'.type = "escaped"
    BY <2>1 DEF LoadRaises, End, Ending
  <2> QED  BY <2>1, <2>2, ScopeStays DEF LoadRaises, End
<1>4. ASSUME NEW i \in Prompts, ReadPrompt(i)
      PROVE  ScopeInv'
  BY <1>4, ScopeStays DEF ReadPrompt
<1>5. CASE Take
  BY <1>5, ScopeTakes
<1>6. CASE Loaded
  BY <1>6, ScopeStays DEF Loaded
<1>7. ASSUME NEW a, pc = "run", RunEnds(a)
      PROVE  ScopeInv'
  BY <1>7, ScopeStays DEF RunEnds, After
<1>8. CASE \/ \E record \in Records, sure \in BOOLEAN : RunReturns(record, sure)
           \/ RunRefuses \/ GgufRunRaises
  <2>1. pc = "run" /\ \E a : RunEnds(a)
    BY <1>8 DEF RunReturns, RunRefuses, GgufRunRaises
  <2> QED  BY <1>7, <2>1
<1>9. ASSUME NEW raises \in BOOLEAN, GiveBack(raises)
      PROVE  ScopeInv'
  BY <1>9, ScopeGivesBack
<1>10. CASE Unloaded
  <2>1. pc = "unload" /\ undos = <<>> /\ UNCHANGED <<held, stuck, count>>
    BY <1>10 DEF Unloaded, Unwound
  <2>2. CASE \E type, why : /\ End(type, why) /\ place' = place /\ scope' = scope
                            /\ type = "escaped" \/ failed = <<>>
    <3>1. /\ pc' = "idle" /\ UNCHANGED <<warm, scope>>
          /\ ending'.type = "escaped" \/ failed = <<>>
      BY <2>2 DEF End, Ending
    <3> QED  BY <2>1, <3>1, ScopeStays
  <2>3. CASE /\ ~ UnwindRaises /\ pc' = "judge"
             /\ UNCHANGED <<place, ending, scope>>
    BY <2>1, <2>3, ScopeStays DEF UnwindRaises
  <2>4. CASE /\ ~ UnwindRaises /\ pc' = "load" /\ NewScope /\ UNCHANGED ending
    <3>1. /\ count \in Nat /\ ending = None
          /\ \A label \in stuck : label.call # count
      BY <2>1, <2>4 DEF ScopeInv, ScopeTypes, ScopeLoud, UnwindRaises
    <3> QED  BY <2>1, <2>4, <3>1, ScopeBegins
  <2>5. \/ \E type, why : /\ End(type, why) /\ place' = place /\ scope' = scope
                          /\ type = "escaped" \/ failed = <<>>
        \/ ~ UnwindRaises /\ pc' = "judge" /\ UNCHANGED <<place, ending, scope>>
        \/ ~ UnwindRaises /\ pc' = "load" /\ NewScope /\ UNCHANGED ending
    <3> HIDE DEF place, progress, callVars
    <3>1. CASE UnwindRaises \/ answer.how = "raised"
      BY <1>10, <3>1 DEF Unloaded, UnwindRaises
    <3>2. CASE ~ (UnwindRaises \/ answer.how = "raised")
      BY <1>10, <3>2 DEF Unloaded, UnwindRaises
    <3> QED  BY <3>1, <3>2
  <2> QED  BY <2>2, <2>3, <2>4, <2>5
<1>11. ASSUME NEW pinned \in BOOLEAN, ReplaceWeights(pinned)
       PROVE  ScopeInv'
  BY <1>11, ScopeStays DEF ReplaceWeights
<1>12. ASSUME pc \in {"judge", "commit"}, Quiet, NEW type, NEW why, End(type, why)
       PROVE  ScopeInv'
  <2>1. failed = <<>> /\ undos = <<>>
    BY <1>12 DEF ScopeInv, ScopeLoud, ScopeHolds
  <2> QED  BY <1>12, <2>1, ScopeStays DEF Quiet, End
<1>13. CASE BelowFloor \/ Refused
  BY <1>12, <1>13 DEF BelowFloor, Refused
<1>14. CASE Valid
  <2>1. failed = <<>> /\ undos = <<>>
    BY <1>14 DEF Valid, ScopeInv, ScopeLoud, ScopeHolds
  <2> QED  BY <1>14, <2>1, ScopeStays DEF Valid, Quiet
<1>15. CASE Listen
  BY <1>15, ScopeStays DEF Listen, Quiet
<1>16. CASE Listened
  BY <1>12, <1>16 DEF Listened, ChainInv, Raises
<1> QED
  BY <1>1, <1>2, <1>3, <1>4, <1>5, <1>6, <1>8, <1>9, <1>10, <1>11, <1>13, <1>14, <1>15, <1>16 DEF Next

----------------------------------------------------------------------------
(* The hashes, and what a model is shown.                                  *)

LEMMA VerifyRight ==
  ASSUME HashesRight, Verify, UNCHANGED weights
  PROVE  HashesRight' /\ Found = weights.pinned
<1>1. Found = weights.pinned /\ Found \in BOOLEAN
  BY DEF HashesRight, Found, Stamp
<1>2. checked' = Extend(checked, weights.stamp, weights.pinned)
  BY <1>1 DEF Verify, Stamp
<1>3. /\ DOMAIN checked' = DOMAIN checked \cup {weights.stamp}
      /\ checked'[weights.stamp] = weights.pinned
      /\ \A s \in DOMAIN checked \ {weights.stamp} : checked'[s] = checked[s]
      /\ checked' = [s \in DOMAIN checked' |-> checked'[s]]
  BY <1>2 DEF Extend
<1> QED  BY <1>1, <1>3 DEF HashesRight

LEMMA HashesStep ==
  ASSUME HashesRight, Next
  PROVE  HashesRight'
<1>1. ASSUME UNCHANGED files
      PROVE  HashesRight'
  BY <1>1 DEF files, HashesRight
<1>2. CASE GgufLoadRaises
  BY <1>1, <1>2, VerifyRight DEF GgufLoadRaises, LoadRaises, files
<1>3. CASE \E i \in Prompts : ReadPrompt(i)
  BY <1>3, VerifyRight DEF ReadPrompt
<1>4. ASSUME NEW pinned \in BOOLEAN, ReplaceWeights(pinned)
      PROVE  HashesRight'
  BY <1>4 DEF ReplaceWeights, HashesRight
<1>5. CASE InstallNext /\ UNCHANGED callVars
  BY <1>1, <1>5 DEF callVars
<1>6. CASE \/ \E r \in Requests : Call(r)
           \/ \E p \in DOMAIN providers : Probe(p)
  BY <1>1, <1>6 DEF Call, Probe, Begin
<1>7. CASE \/ CodeLoadRaises \/ Take \/ Loaded \/ RunRefuses \/ GgufRunRaises
           \/ \E record \in Records, sure \in BOOLEAN : RunReturns(record, sure)
           \/ \E raises \in BOOLEAN : GiveBack(raises)
           \/ Unloaded \/ BelowFloor \/ Refused \/ Valid \/ Listen \/ Listened
  BY <1>1, <1>7 DEF CodeLoadRaises, LoadRaises, Take, Loaded, RunRefuses, GgufRunRaises, RunReturns,
         RunEnds, GiveBack, Unloaded, BelowFloor, Refused, Valid, Listen, Listened, Quiet, files
<1> QED  BY <1>2, <1>3, <1>4, <1>5, <1>6, <1>7 DEF Next

\* select()'s filter on `produces`, and probe()'s choice of a schema.
LEMMA AskedOfItsOwn ==
  ASSUME InstallInv,
         (\E r \in Requests : Call(r)) \/ (\E p \in DOMAIN providers : Probe(p)),
         providers[provider'].kind = "gguf", providers[provider'].produces # {}
  PROVE  asked' \in providers[provider'].produces
<1>1. ASSUME NEW r \in Requests, Call(r)
      PROVE  asked' \in providers[provider'].produces
  <2>1. /\ provider' = Chosen(r) /\ asked' = r.schema /\ r.schema # None
        /\ Chosen(r) \in DOMAIN providers /\ Now!Produces(Chosen(r), r.schema)
    BY <1>1, ChosenFromPool, TypoAssumption DEF Call, Begin, Now!Pool, Now!Admitted
  <2>2. Reads(Chosen(r)).produces = providers[Chosen(r)].produces
    BY DEF Reads
  <2> QED  BY <2>1, <2>2 DEF Now!Produces
<1>2. ASSUME NEW p \in DOMAIN providers, Probe(p)
      PROVE  asked' \in providers[provider'].produces
  BY <1>2 DEF Probe, Begin
<1> QED  BY <1>1, <1>2

LEMMA LoadedStep ==
  ASSUME InstallInv, UnderWay, ChainInv, HashesRight, LoadedRight, Next
  PROVE  LoadedRight'
<1> USE DEF LoadedRight
<1>1. ASSUME pc' = "idle"
      PROVE  LoadedRight'
  BY <1>1 DEF OfModel
<1>2. CASE (\E r \in Requests : Call(r)) \/ (\E p \in DOMAIN providers : Probe(p))
  <2>1. /\ pc' = "load" /\ handle' = None /\ answer' = None /\ undos' = <<>>
        /\ UNCHANGED providers
    BY <1>2 DEF Call, Probe, Begin, NewScope, registrations
  <2> QED  BY <1>2, <2>1, AskedOfItsOwn DEF OfModel, Manifest
<1>3. ASSUME pc # "idle", UNCHANGED <<provider, asked>>, pc' # "idle"
      PROVE  /\ OfModel' = OfModel /\ Manifest' = Manifest
             /\ \A i : Passes(i)' = Passes(i)
             /\ Known' = Known
  <2>1. UNCHANGED providers
    BY <1>3, InstallKept DEF install, registrations
  <2>2. Manifest' = Manifest /\ OfModel' = OfModel
    BY <1>3, <2>1 DEF Manifest, OfModel
  <2> QED  BY <1>3, <2>2 DEF Passes, Known
<1>4. CASE InstallNext /\ UNCHANGED callVars
  BY <1>1, <1>4, InstallsBefore DEF UnderWay, callVars
<1>5. CASE CodeLoadRaises \/ GgufLoadRaises \/ BelowFloor \/ Refused
           \/ \E pinned \in BOOLEAN : ReplaceWeights(pinned)
  BY <1>1, <1>5 DEF CodeLoadRaises, GgufLoadRaises, LoadRaises, BelowFloor, Refused, End, ReplaceWeights
<1>6. ASSUME NEW i \in Prompts, ReadPrompt(i)
      PROVE  LoadedRight'
  <2>1. /\ pc = "load" /\ pc' = "load" /\ undos = <<>> /\ handle' = i /\ Found /\ Verify /\ Passes(i)
        /\ UNCHANGED <<provider, asked, weights, answer, undos, warm>>
    BY <1>6 DEF ReadPrompt, who, place, scope
  <2>2. weights.pinned
    BY <2>1, VerifyRight
  <2>3. Passes(handle)'
    BY <1>3, <2>1 DEF Passes
  <2> QED  BY <1>3, <2>1, <2>2, <2>3
<1>7. ASSUME pc # "idle", pc' # "idle", UNCHANGED <<provider, asked, handle, weights>>
      PROVE  /\ OfModel' = OfModel /\ Manifest' = Manifest /\ Passes(handle)' = Passes(handle)
             /\ Known' = Known /\ Prompted' = Prompted
  BY <1>3, <1>7 DEF Passes, Prompted
<1>8. CASE Take
  <2>1. /\ pc = "load" /\ pc' = "load" /\ (OfModel => handle # None)
        /\ UNCHANGED <<provider, asked, handle, weights, answer, warm>>
    BY <1>8 DEF Take, progress, who, place, files
  <2> QED  BY <1>7, <2>1
<1>9. CASE Loaded
  <2>1. /\ pc = "load" /\ undos # <<>> /\ pc' = (IF warm THEN "unload" ELSE "run")
        /\ UNCHANGED <<provider, asked, handle, weights, answer, warm, undos>>
    BY <1>9 DEF Loaded, progress, who, place, files, scope
  <2> QED  BY <1>7, <2>1 DEF UnderWay
<1>10. ASSUME NEW a, pc = "run", RunEnds(a), OfModel /\ a.how = "record" => Known /\ Prompted
       PROVE  LoadedRight'
  <2>1. /\ pc' \in {"run", "unload"} /\ answer' = a
        /\ UNCHANGED <<provider, asked, handle, weights, warm, undos>>
    BY <1>10 DEF RunEnds, After, who, files, scope
  <2> QED  BY <1>7, <1>10, <2>1
<1>11. CASE \/ \E record \in Records, sure \in BOOLEAN : RunReturns(record, sure)
            \/ RunRefuses \/ GgufRunRaises
  <2>1. PICK a : pc = "run" /\ RunEnds(a) /\ (OfModel /\ a.how = "record" => Known /\ Prompted)
    <3>1. CASE \E record \in Records, sure \in BOOLEAN : RunReturns(record, sure)
      BY <3>1 DEF RunReturns
    <3>2. CASE RunRefuses \/ GgufRunRaises
      BY <3>2 DEF RunRefuses, GgufRunRaises, Answer
    <3> QED  BY <1>11, <3>1, <3>2
  <2> QED  BY <1>10, <2>1
<1>12. ASSUME NEW raises \in BOOLEAN, GiveBack(raises)
       PROVE  LoadedRight'
  <2>1. /\ pc = "unload" /\ pc' = "unload"
        /\ UNCHANGED <<provider, asked, handle, weights, answer, warm>>
    BY <1>12 DEF GiveBack, progress, who, place, files
  <2> QED  BY <1>7, <2>1
<1>13. CASE Unloaded
  <2>1. \/ pc' = "idle"
        \/ pc' = "judge" /\ UNCHANGED <<provider, asked>>
        \/ /\ pc' = "load" /\ warm' = TRUE /\ handle' = None /\ undos' = <<>>
           /\ UNCHANGED <<provider, asked>>
    BY <1>13 DEF Unloaded, End, who, NewScope
  <2>2. pc = "unload"
    BY <1>13 DEF Unloaded
  <2> QED  BY <1>1, <1>3, <2>1, <2>2
<1>14. CASE Valid \/ Listen
  <2>1. pc \in {"judge", "commit"} /\ pc' = "commit" /\ UNCHANGED <<provider, asked>>
    BY <1>14 DEF Valid, Listen, who
  <2> QED  BY <1>3, <2>1
<1>15. CASE Listened
  <2>1. pc = "commit" /\ pc' = "idle"
    BY <1>15 DEF Listened, End, ChainInv, Raises
  <2> QED  BY <1>1, <2>1
<1> QED
  BY <1>2, <1>4, <1>5, <1>6, <1>8, <1>9, <1>11, <1>12, <1>13, <1>14, <1>15 DEF Next

----------------------------------------------------------------------------
(* The rungs.                                                              *)

\* Failures that are all of one level are named after it.
LEMMA OneLevel ==
  ASSUME NEW F, F # {}, NEW l \in {2, 3, 4}, \A f \in F : f.level = l
  PROVE  Lowest(F) = F /\ Level(F) = l
<1>1. {f.level : f \in F} = {l}
  OBVIOUS
<1> QED  BY <1>1 DEF Lowest, Level

\* What the ladder finds, and what it calls it.
LEMMA LadderNames ==
  ASSUME NEW r
  PROVE  /\ Verdict(r) = {} => WellFormed(r) /\ InRange(r) /\ Confirmed(r)
         /\ Verdict(r) # {} =>
              \/ Kind(Verdict(r)) = "schema" /\ ~ WellFormed(r)
              \/ Kind(Verdict(r)) = "range" /\ WellFormed(r) /\ ~ InRange(r)
              \/ Kind(Verdict(r)) = "crosscheck" /\ WellFormed(r) /\ InRange(r) /\ ~ Confirmed(r)
<1> DEFINE SF == SchemaFailures(r)
           RF == RangeFailures(r)
           CF == CrossFailures(r)
<1>1. \A l, n : Fail(l, n).level = l
  BY DEF Fail
<1>2. /\ \A f \in SF : f.level = 2
      /\ \A f \in RF : f.level = 3
      /\ \A f \in CF : f.level = 4
  BY <1>1 DEF SchemaFailures, RangeFailures, CrossFailures
<1>3. r # NotAnObject => (WellFormed(r) <=> SF = {})
  BY SchemaAssumption DEF WellFormed, SchemaFailures, Mistyped
<1>4. InRange(r) <=> RF = {}
  BY DEF InRange, RangeFailures
<1>5. Schema.text => (Confirmed(r) <=> CF = {})
  BY DEF Confirmed, CrossFailures
<1>6. \A F : Level(F) = 2 => Kind(F) = "schema"
  BY DEF Kind
<1>7. \A F : Level(F) = 3 => Kind(F) = "range"
  BY DEF Kind
<1>8. \A F : Level(F) = 4 => Kind(F) = "crosscheck"
  BY DEF Kind
<1> HIDE DEF SF, RF, CF
<1>9. CASE r = NotAnObject
  <2>1. Verdict(r) = {Fail(2, "root")} /\ ~ WellFormed(r)
    BY <1>9 DEF Verdict, Check, WellFormed
  <2>2. Level({Fail(2, "root")}) = 2
    BY <1>1, OneLevel
  <2> QED  BY <1>6, <2>1, <2>2
<1>10. CASE r # NotAnObject /\ SF # {}
  <2>1. Check(r) = SF
    <3>1. Check(r) = Lowest(SF \cup RF)
      BY <1>10 DEF Check, SF, RF
    <3>2. \A f \in SF \cup RF : f \in SF <=> \A g \in SF \cup RF : f.level <= g.level
      BY <1>2, <1>10
    <3> QED  BY <3>1, <3>2 DEF Lowest
  <2>2. Verdict(r) = SF /\ Level(SF) = 2
    BY <1>2, <1>10, <2>1, OneLevel DEF Verdict
  <2> QED  BY <1>3, <1>6, <1>10, <2>2
<1>11. CASE r # NotAnObject /\ SF = {} /\ RF # {}
  <2>1. Check(r) = RF /\ Level(RF) = 3
    BY <1>2, <1>11, OneLevel DEF Check, SF, RF
  <2>2. Verdict(r) = RF
    BY <1>11, <2>1 DEF Verdict
  <2> QED  BY <1>3, <1>4, <1>7, <1>11, <2>1, <2>2
<1>12. CASE r # NotAnObject /\ SF = {} /\ RF = {}
  <2>1. Check(r) = {}
    BY <1>12 DEF Check, Lowest, SF, RF
  <2>2. CASE Schema.text
    <3>1. Verdict(r) = CF
      BY <1>12, <2>1, <2>2 DEF Verdict, CF
    <3>2. CF # {} => Level(CF) = 4
      BY <1>2, OneLevel
    <3> QED  BY <1>3, <1>4, <1>5, <1>8, <1>12, <2>2, <3>1, <3>2
  <2>3. CASE ~ Schema.text
    <3>1. Verdict(r) = {} /\ Confirmed(r)
      BY <2>1, <2>3 DEF Verdict, Confirmed
    <3> QED  BY <1>3, <1>4, <1>12, <3>1
  <2> QED  BY <2>2, <2>3
<1> QED  BY <1>9, <1>10, <1>11, <1>12

LEMMA JudgedStep ==
  ASSUME ScopeLoud, ChainInv, Judged, Next
  PROVE  Judged'
<1> USE DEF Judged
<1>1. ASSUME UNCHANGED <<ending, answer>>, pc' = "commit" => pc = "commit"
      PROVE  Judged'
  BY <1>1 DEF RungNamed
<1>2. ASSUME pc' # "commit", ending' = None \/ ending'.type \in {"escaped", "tool_failed", "probed"}
      PROVE  Judged'
  BY <1>2 DEF RungNamed
<1>3. CASE InstallNext /\ UNCHANGED callVars
  BY <1>1, <1>3 DEF callVars
<1>4. CASE (\E r \in Requests : Call(r)) \/ (\E p \in DOMAIN providers : Probe(p))
  BY <1>2, <1>4 DEF Call, Probe, Begin
<1>5. CASE CodeLoadRaises \/ GgufLoadRaises
  BY <1>2, <1>5 DEF CodeLoadRaises, GgufLoadRaises, LoadRaises, End, Ending
<1>6. CASE \/ \E i \in Prompts : ReadPrompt(i)
           \/ Take \/ Loaded
           \/ \E raises \in BOOLEAN : GiveBack(raises)
           \/ \E pinned \in BOOLEAN : ReplaceWeights(pinned)
           \/ Listen
  BY <1>1, <1>6 DEF ReadPrompt, Take, Loaded, GiveBack, ReplaceWeights, Listen
<1>7. CASE \/ \E record \in Records, sure \in BOOLEAN : RunReturns(record, sure)
           \/ RunRefuses \/ GgufRunRaises
  <2>1. pc = "run" /\ pc' \in {"run", "unload"} /\ ending' = ending
    BY <1>7 DEF RunReturns, RunRefuses, GgufRunRaises, RunEnds, After
  <2> QED  BY <1>2, <2>1 DEF ScopeLoud
<1>8. CASE Unloaded
  <2>1. CASE UNCHANGED <<answer, ending>> /\ pc' # "commit"
    BY <1>1, <2>1
  <2>2. CASE pc' = "idle" /\ ending'.type \in {"escaped", "tool_failed", "probed"}
    BY <1>2, <2>2
  <2> QED  BY <1>8, <2>1, <2>2 DEF Unloaded, End, Ending
<1>9. CASE BelowFloor
  <2>1. /\ ending' = [type |-> "validation_failed", kind |-> "semantic"] /\ answer' = answer
        /\ ~ answer.sure /\ pc' = "idle"
    BY <1>9 DEF BelowFloor, End, Ending
  <2> QED  BY <2>1, CallAssumption DEF RungNamed
<1>10. CASE Refused
  <2>1. /\ ending' = [type |-> "validation_failed", kind |-> Kind(Verdict(answer.record))]
        /\ answer' = answer /\ answer.sure /\ pc' = "idle" /\ Verdict(answer.record) # {}
    BY <1>10 DEF Refused, End, Ending
  <2>2. \/ ending'.kind = "schema" /\ ~ WellFormed(answer.record)
        \/ ending'.kind = "range" /\ WellFormed(answer.record) /\ ~ InRange(answer.record)
        \/ /\ ending'.kind = "crosscheck" /\ WellFormed(answer.record) /\ InRange(answer.record)
           /\ ~ Confirmed(answer.record)
    BY <2>1, LadderNames
  <2> QED  BY <2>1, <2>2, CallAssumption DEF RungNamed
<1>11. CASE Valid
  <2>1. UNCHANGED <<answer, ending>> /\ answer.sure /\ Verdict(answer.record) = {}
    BY <1>11 DEF Valid
  <2> QED  BY <2>1 DEF RungNamed
<1>12. CASE Listened
  <2>1. /\ pc = "commit" /\ pc' = "idle" /\ answer' = answer /\ ending'.kind = None
    <3>1. pc = "commit" /\ result \in {"value", "rejected", "error"}
      BY <1>12 DEF Listened, ChainInv, Raises
    <3>2. \E type : End(type, None)
      BY <1>12, <3>1 DEF Listened
    <3> QED  BY <3>1, <3>2 DEF End, Ending
  <2>2. answer.sure /\ WellFormed(answer.record) /\ InRange(answer.record) /\ Confirmed(answer.record)
    BY <2>1, LadderNames
  <2> QED  BY <2>1, <2>2, CallAssumption DEF RungNamed
<1> QED
  BY <1>3, <1>4, <1>5, <1>6, <1>7, <1>8, <1>9, <1>10, <1>11, <1>12 DEF Next

----------------------------------------------------------------------------
(* The prompt.                                                             *)

\* What the audit lets pass and render takes is the one token <<schema>>.
LEMMA Rendered ==
  ASSUME NEW i \in Prompts, NEW id, Audit(i, id), Renders(i)
  PROVE  Render(i, id) = << <<id>> >>
<1>1. i.prose \in Seq(STRING)
  BY CallAssumption
<1>2. Len(i.prose) \in Nat /\ DOMAIN i.prose = 1 .. Len(i.prose)
  BY <1>1
<1>3. \A k \in DOMAIN i.prose : i.prose[k] = "schema"
  BY DEF Renders, Uses, Range
<1>4. Placed(i) = 1 .. Len(i.prose)
  BY <1>2, <1>3 DEF Placed
<1>5. Cardinality(1 .. Len(i.prose)) = Len(i.prose)
  BY <1>2, FS_Interval
<1>6. Len(i.prose) = 1
  BY <1>4, <1>5 DEF Audit
<1>7. Render(i, id) = [k \in 1 .. 1 |-> <<id>>]
  BY <1>2, <1>3, <1>6 DEF Render
<1> QED  BY <1>7

----------------------------------------------------------------------------
(* The theorems.                                                           *)

\* The inductive invariant holds of every behavior.
THEOREM CallInvariant == Spec => []CallInv
<1>1. Init => CallInv
  <2> SUFFICES ASSUME Init PROVE CallInv
    OBVIOUS
  <2>1. InstallInv
    BY InstallInitInv DEF Init
  <2>2. UnderWay
    <3>1. pc = "idle" /\ 0 \in 0 .. ProbeRuns + 1
      BY CallAssumption DEF Init
    <3> QED  BY <3>1 DEF Init, UnderWay, Phases
  <2>3. ScopeInv
    BY DEF Init, ScopeInv, ScopeTypes, ScopeHolds, ScopeUndoes, UndoneInReverse, ScopeLoud, UnwindIsLoud
  <2>4. ChainInv
    BY CountAssumption DEF Init, ChainInv, OnceInOrder
  <2>5. HashesRight
    BY DEF Init, HashesRight
  <2>6. LoadedRight /\ Judged
    BY DEF Init, LoadedRight, OfModel, Judged, RungNamed
  <2> QED  BY <2>1, <2>2, <2>3, <2>4, <2>5, <2>6 DEF CallInv
<1>2. CallInv /\ [Next]_vars => CallInv'
  <2> SUFFICES ASSUME CallInv, [Next]_vars PROVE CallInv'
    OBVIOUS
  <2> USE DEF CallInv
  <2>1. CASE Next
    BY <2>1, InstallStep, UnderWayStep, ScopeStep, ChainStep, HashesStep, LoadedStep, JudgedStep
       DEF ScopeInv
  <2>2. CASE UNCHANGED vars
    <3> USE <2>2 DEF vars, callVars, progress, who, place, files, scope, chain
    <3>1. InstallInv' /\ UNCHANGED install
      BY InstallStays
    <3>2. UnderWay'
      BY <3>1 DEF UnderWay, install, registrations
    <3>3. ScopeInv'
      BY ScopeStays
    <3>4. ChainInv'
      BY ChainStays
    <3>5. HashesRight'
      BY DEF HashesRight
    <3>6. LoadedRight'
      BY <3>1 DEF LoadedRight, OfModel, Manifest, Passes, Known, Prompted, install, registrations
    <3>7. Judged'
      BY DEF Judged, RungNamed
    <3> QED  BY <3>1, <3>2, <3>3, <3>4, <3>5, <3>6, <3>7
  <2> QED  BY <2>1, <2>2
<1> QED  BY <1>1, <1>2, PTL DEF Spec

\* Every variable of a call keeps its type, and a call under way has a provider.
THEOREM CallTypeCorrect == Spec => []TypeOK
<1>1. CallInv => TypeOK
  <2> SUFFICES ASSUME CallInv PROVE TypeOK
    OBVIOUS
  <2>1. depth \in 0 .. Count /\ called \subseteq 1 .. Count
    BY CountAssumption DEF CallInv, ChainInv
  <2> QED  BY <2>1 DEF CallInv, InstallInv, UnderWay, ScopeInv, ScopeTypes, ChainInv, TypeOK
<1> QED  BY <1>1, CallInvariant, PTL

\* Between calls nothing is held but what its own undo failed to give back
\* (_call, timed_probe, Scope.unwind).
THEOREM NothingStaysHeld == Spec => []NothingStranded
<1>1. CallInv => NothingStranded
  BY DEF CallInv, ScopeInv, ScopeHolds, NothingStranded
<1> QED  BY <1>1, CallInvariant, PTL

\* Undos run in reverse order, past those that raise (Scope.unwind).
THEOREM UndoesInReverse == Spec => []UndoneInReverse
<1>1. CallInv => UndoneInReverse
  BY DEF CallInv, ScopeInv, ScopeUndoes
<1> QED  BY <1>1, CallInvariant, PTL

\* A call that is recorded, or a probe that reports, gave everything back
\* (_call's finally).
THEOREM UnwindsLoudly == Spec => []UnwindIsLoud
<1>1. CallInv => UnwindIsLoud
  BY DEF CallInv, ScopeInv, ScopeLoud
<1> QED  BY <1>1, CallInvariant, PTL

\* The rung that the ledger names is the first one the answer fails on
\* (_reduce, ladder, Result.kind).
THEOREM NamesTheRung == Spec => []RungNamed
<1>1. CallInv => RungNamed
  BY DEF CallInv, Judged
<1> QED  BY <1>1, CallInvariant, PTL

\* Listeners are called once, in order, and none before everybody in front of
\* it has passed control on (Hooks.run).
THEOREM ListenersInOrder == Spec => []OnceInOrder
<1>1. CallInv => OnceInOrder
  BY DEF CallInv, ChainInv
<1> QED  BY <1>1, CallInvariant, PTL

\* A model that runs was loaded from the weights its manifest pins (_verify).
THEOREM LoadsThePinned == Spec => []RunsThePinned
<1>1. CallInv => RunsThePinned
  BY DEF CallInv, LoadedRight, RunsThePinned
<1> QED  BY <1>1, CallInvariant, PTL

\* A model that answers was shown the schema it was asked for, once and with
\* no token left (select, _instruction, run).
THEOREM ShowsTheSchema == Spec => []PromptFits
<1>1. CallInv => PromptFits
  <2> SUFFICES ASSUME CallInv, pc \in {"run", "unload"}, ~ warm, answer # None,
                      OfModel, Manifest.produces # {}, answer.how = "record"
               PROVE  /\ Render(handle, asked) = << <<asked>> >>
                      /\ handle.schema = asked
                      /\ Rules[asked].required \subseteq handle.covers
                      /\ handle.covers \subseteq Rules[asked].properties
    BY DEF PromptFits
  <2>1. /\ asked \in Manifest.produces /\ handle # None /\ Passes(handle)
        /\ asked \in DOMAIN Rules /\ Renders(handle)
    BY DEF CallInv, LoadedRight, Known, Prompted
  <2>2. handle \in Prompts /\ Audit(handle, asked)
    BY <2>1 DEF CallInv, UnderWay, Passes
  <2> QED  BY <2>1, <2>2, Rendered DEF Audit
<1> QED  BY <1>1, CallInvariant, PTL

\* No slip in a manifest widens what a provider is chosen for once a runtime
\* is built (add_provider, validate_security_block, audit, select).
THEOREM SlipsWidenNothing == Spec => []ChoiceAsMeant
<1>1. CallInv => ChoiceAsMeant
  BY ChoosesAsMeant DEF CallInv
<1> QED  BY <1>1, CallInvariant, PTL

\* A replay that is admitted on the same machine chooses as the recorded
\* session did (check_replay, resolve, select).
THEOREM ReplaysTheChoice == Spec => []ReplayChoosesSame
<1>1. CallInv => ReplayChoosesSame
  BY ReplayChooses DEF CallInv
<1> QED  BY <1>1, CallInvariant, PTL

=============================================================================
