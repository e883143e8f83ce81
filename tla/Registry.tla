------------------------------ MODULE Registry ------------------------------
(***************************************************************************)
(* How an installation comes about: the registrations of registry.py with  *)
(* the checks of schemas.py, event 0 and the check of a replay             *)
(* (composition.py), and the audit in Runtime's constructor.               *)
(*                                                                         *)
(* A manifest is written from an author's intent and may have one slip in  *)
(* it.  The intents are kept as history: the properties compare what the   *)
(* installation does with what was meant.                                  *)
(***************************************************************************)
EXTENDS Trust, Integers

CONSTANTS
  None,
  Kinds,        \* the adapters a program may register
  Intents,      \* the manifests an author may mean, all of them right
  Typo,         \* what a misspelled word reads
  Declarations, \* what add_capability may be given: <<name, is_control>>
  ToolSchemas,  \* the schemas that the runtime's tools name
  SchemaSets,   \* what a Runtime may be given as its schemas
  Requests,     \* the requests put to select()
  Snapshot,     \* machine -> the measurements a session on it starts from
  MaxAdds       \* bound on the manifests one process registers

ManifestKinds == {"code", "gguf", "onnx", "binary"}

\* A manifest: None is a key that is not there.  A scalar ceiling and the
\* flag of may_emit_control are said of Every capability.  `stray` says that
\* there is a key manifest@1 does not know, `order` is the id's place among
\* the sorted ids.
IsManifest(m) ==
  m = [id |-> m.id, kind |-> m.kind, implements |-> m.implements,
       produces |-> m.produces, ceiling |-> m.ceiling, control |-> m.control,
       pin |-> m.pin, stray |-> m.stray, order |-> m.order]

Every == "every"

RowTyped(row) == row.p90 \in Nat \cup {None} /\ row.rate \in Nat \cup {None}

ASSUME RegistryAssumption ==
  /\ Kinds \subseteq ManifestKinds /\ MaxAdds \in Nat /\ None \notin Nat
  /\ \A d \in Declarations : d[2] \in BOOLEAN
  /\ \A at \in DOMAIN Snapshot : \A k \in DOMAIN Snapshot[at] : RowTyped(Snapshot[at][k])
  /\ \A i \in Intents :
       /\ IsManifest(i) /\ i.kind \in ManifestKinds /\ ~ i.stray
       /\ i.id # None /\ i.order \in Nat
  /\ \A i, j \in Intents : i.order = j.order => i.id = j.id

\* A misspelled word is none that anybody knows; every request names a schema.
ASSUME TypoAssumption ==
  /\ Typo \notin ManifestKinds \cup TrustLevels \cup {Every}
  /\ \A d \in Declarations : d[1] # Typo
  /\ \A i \in Intents : Typo \notin i.implements
  /\ \A r \in Requests : r.schema \notin {None, Typo}

VARIABLES
  capabilities, \* name -> is_control
  adapters,     \* the kinds that are registered
  providers,    \* id -> the manifest as written
  listing,      \* _by_capability: <<name, id>>
  stage,        \* installing, booted, built, serving, refused
  machine,      \* where the process runs
  adds,         \* the manifests registered
  meant,        \* history: id -> the intent of the manifest
  unchecked,    \* history: a manifest was registered with checked=False
  recorded      \* what the session to replay left, or None

registrations == <<capabilities, adapters, providers, listing, adds, meant, unchecked>>
install == <<registrations, stage, machine, recorded>>

----------------------------------------------------------------------------
(* What a manifest says, and what its author may have written.             *)

Ceiling(m, cap) ==
  CASE m.ceiling = None -> "T1"
    [] m.ceiling # None /\ Every \in DOMAIN m.ceiling -> m.ceiling[Every]
    [] m.ceiling # None /\ cap \in DOMAIN m.ceiling -> m.ceiling[cap]
    [] OTHER -> "T2"

Control(m, cap) == m.control # None /\ {cap, Every} \cap m.control # {}

\* One word misspelled.
Misspell(words, w) == (words \ {w}) \cup {Typo}

MisspellKey(f, w) ==
  [n \in Misspell(DOMAIN f, w) |-> IF n = Typo THEN f[w] ELSE f[n]]

Words(field) == IF field = None THEN {} ELSE field
Keys(field) == IF field = None THEN {} ELSE DOMAIN field

\* What the author may write: what is meant, or that with a word misspelled.
\* A misspelled key takes its value with it.
WrittenFrom(i) ==
  {i, [i EXCEPT !.kind = Typo]}
  \cup {[i EXCEPT !.implements = Misspell(@, w)] : w \in i.implements}
  \cup {[i EXCEPT !.produces = Misspell(@, w)] : w \in i.produces}
  \cup {[i EXCEPT !.control = Misspell(@, w)] : w \in Words(i.control) \ {Every}}
  \cup {[i EXCEPT !.ceiling = MisspellKey(@, w)] : w \in Keys(i.ceiling) \ {Every}}
  \cup {[i EXCEPT !.ceiling = [@ EXCEPT ![w] = Typo]] : w \in Keys(i.ceiling)}
  \cup {[i EXCEPT !.ceiling = None, !.stray = TRUE],
        [i EXCEPT !.control = None, !.stray = TRUE],
        [i EXCEPT !.produces = {}, !.stray = TRUE]}

\* What is written is there.
ASSUME NoneAssumption ==
  \A i \in Intents :
    /\ \A w \in Words(i.control) : Misspell(i.control, w) # None
    /\ \A w \in Keys(i.ceiling) :
         /\ MisspellKey(i.ceiling, w) # None
         /\ [i.ceiling EXCEPT ![w] = Typo] # None

----------------------------------------------------------------------------
(* The checks.                                                             *)

\* manifest@1, as far as a slip can break it.
ManifestSchema(m) == ~ m.stray /\ m.kind \in ManifestKinds

Levels(m) == {m.ceiling[w] : w \in Keys(m.ceiling)} \subseteq TrustLevels

\* A mutant: the names in the security block are not compared with anything.
SecurityNameless(m) == Levels(m)

\* validate_security_block.
Security(m) ==
  /\ Levels(m)
  /\ Keys(m.ceiling) \ {Every} \subseteq m.implements
  /\ Words(m.control) \ {Every} \subseteq m.implements

\* Registry.audit and the tools' part of Runtime's constructor find nothing.
\* With no schemas at all a produced schema is not looked up.
Audited(known) ==
  /\ \A p \in DOMAIN providers :
       /\ providers[p].implements \subseteq DOMAIN capabilities
       /\ known # {} => providers[p].produces \subseteq known
       /\ providers[p].kind \in adapters
  /\ ToolSchemas \subseteq known

----------------------------------------------------------------------------
(* select() over what is registered.                                       *)

\* `candidates` goes by the listing and not by the manifest.
Listed(p) == {c \in {l[1] : l \in listing} : <<c, p>> \in listing}

Reads(p) ==
  LET m == providers[p]
      caps == Listed(p) \cup DOMAIN capabilities
  IN  [kind |-> m.kind, implements |-> Listed(p), produces |-> m.produces,
       modality |-> {}, order |-> m.order,
       ceiling |-> [default |-> "T2", listed |-> [c \in caps |-> Ceiling(m, c)]],
       control |-> {c \in caps : Control(m, c)}]

Now == INSTANCE Selection
         WITH Providers <- DOMAIN providers,
              Manifest <- [p \in DOMAIN providers |-> Reads(p)],
              Adapters <- adapters,
              ControlCaps <- {c \in DOMAIN capabilities : capabilities[c]},
              Rows <- Snapshot[machine]

\* None is a CapabilityGap.
Chosen(r) == IF Now!Pool(r) = {} THEN None ELSE Now!Select(r)

Choice == [r \in Requests |-> Chosen(r)]

\* An id was registered again with a manifest that implements less.
Stale == \E l \in listing : l[1] \notin providers[l[2]].implements

----------------------------------------------------------------------------

InstallInit ==
  /\ capabilities = <<>> /\ adapters = {} /\ providers = <<>> /\ listing = {}
  /\ adds = 0 /\ meant = <<>> /\ unchecked = FALSE
  /\ stage = "installing" /\ machine \in DOMAIN Snapshot /\ recorded = None

Extend(f, key, value) ==
  [k \in DOMAIN f \cup {key} |-> IF k = key THEN value ELSE f[k]]

AddCapability(name, control) ==
  /\ stage = "installing"
  /\ capabilities' = Extend(capabilities, name, control)
  /\ UNCHANGED <<adapters, providers, listing, adds, meant, unchecked, stage, machine, recorded>>

AddAdapter(k) ==
  /\ stage = "installing"
  /\ adapters' = adapters \cup {k}
  /\ UNCHANGED <<capabilities, providers, listing, adds, meant, unchecked, stage, machine, recorded>>

\* A refused manifest changes nothing, and those that load_dir read before it
\* stay.  Unchecked, a level that is no level is left out: select() would
\* raise a KeyError at every request that reaches it.  Bound: a replay checks
\* every manifest.
AddProvider(i, m, checked) ==
  /\ stage = "installing" /\ adds < MaxAdds
  /\ IF checked THEN ManifestSchema(m) /\ Security(m) ELSE Levels(m) /\ recorded = None
  /\ providers' = Extend(providers, m.id, m)
  /\ listing' = listing \cup (m.implements \X {m.id})
  /\ meant' = Extend(meant, m.id, i)
  /\ unchecked' = (unchecked \/ ~ checked)
  /\ adds' = adds + 1
  /\ UNCHANGED <<capabilities, adapters, stage, machine, recorded>>

\* A mutant: the document of the manifests alone.
DocumentManifests == providers

\* Registry.resolve() in the composition; everything else in it is the same
\* for every process here.
Document ==
  [capabilities |-> capabilities, providers |-> providers, adapters |-> adapters]

\* check_replay, for a replay, and event 0.
MayReplay(allowMachine) ==
  /\ recorded.document = Document
  /\ recorded.machine = machine \/ allowMachine

Boot(allowMachine) ==
  /\ stage = "installing"
  /\ stage' = (IF recorded = None \/ MayReplay(allowMachine) THEN "booted" ELSE "refused")
  /\ UNCHANGED <<registrations, machine, recorded>>

Build(known) ==
  /\ stage = "booted"
  /\ stage' = (IF Audited(known) THEN "built" ELSE "refused")
  /\ UNCHANGED <<registrations, machine, recorded>>

\* A new process is to replay the session of a built one.  Bound: one replay,
\* and only of sessions whose manifests were checked and that chose somebody.
Replay ==
  /\ stage = "built" /\ recorded = None /\ ~ unchecked
  /\ \E r \in Requests : Chosen(r) # None
  /\ recorded' = [document |-> Document, machine |-> machine,
                  choice |-> Choice, stale |-> Stale]
  /\ capabilities' = <<>> /\ adapters' = {} /\ providers' = <<>> /\ listing' = {}
  /\ adds' = 0 /\ meant' = <<>> /\ unchecked' = FALSE
  /\ stage' = "installing" /\ machine' \in DOMAIN Snapshot

InstallNext ==
  \/ \E d \in Declarations : AddCapability(d[1], d[2])
  \/ \E k \in Kinds : AddAdapter(k)
  \/ \E i \in Intents, checked \in BOOLEAN :
       \E m \in WrittenFrom(i) : AddProvider(i, m, checked)
  \/ \E allowMachine \in BOOLEAN : Boot(allowMachine)
  \/ \E known \in SchemaSets : Build(known)
  \/ Replay

----------------------------------------------------------------------------
(* What must be true.                                                      *)

\* Type correctness.
InstallTypeOK ==
  /\ capabilities \in [DOMAIN capabilities -> BOOLEAN]
  /\ adapters \subseteq Kinds
  /\ DOMAIN meant = DOMAIN providers
  /\ \A l \in listing : l[2] \in DOMAIN providers
  /\ stage \in {"installing", "booted", "built", "serving", "refused"}
  /\ machine \in DOMAIN Snapshot
  /\ adds \in 0 .. MaxAdds

\* Once a runtime is built, no slip of the pen in any manifest has widened
\* what a provider is chosen for: every choice is one that its author meant,
\* for the capability, the schema, the trust of the input and the control
\* ("a typo that widens a security boundary is worse than a typo that breaks
\* the run").  add_provider, validate_security_block, audit and select each
\* stop some slips.  Manifests registered unchecked, and ids registered again
\* with less, are outside it.
ChoiceAsMeant ==
  stage = "built" /\ ~ unchecked /\ ~ Stale =>
    \A r \in Requests : Chosen(r) # None =>
      LET i == meant[Chosen(r)]
      IN  /\ r.cap \in i.implements
          /\ i.produces = {} \/ r.schema \in i.produces
          /\ Within(r.trust, Ceiling(i, r.cap))
          /\ Control(i, r.cap) <=> capabilities[r.cap]

\* "A replay picks the same provider twice": one that check_replay admits on
\* the same machine, from the same measurements, makes every choice as the
\* recorded session made it.  False where an id was registered again with
\* less, because the document does not show what _by_capability still lists.
ReplayChoosesSame ==
  stage = "built" /\ recorded # None /\ ~ Stale /\ ~ recorded.stale /\ recorded.machine = machine =>
    Choice = recorded.choice
=============================================================================
