--------------------------- MODULE EpisodicProofs ---------------------------
(***************************************************************************)
(* The episodic index for any ledgers, sessions and interruptions.         *)
(* EpisodicInv is what holds as long as no crash falls between two of      *)
(* rebuild's deletes, NoRebuildCrash; EpisodicRebuild.cfg shows what goes  *)
(* wrong then, and GoneInv what still holds: the index is short, never     *)
(* wrong.                                                                  *)
(***************************************************************************)
EXTENDS Episodic, SequenceTheorems, TLAPS

NoRebuildCrash == "rebuild_crash" \notin Faults

----------------------------------------------------------------------------
(* The inductive invariant.                                                *)

\* A read is always of a ledger.
TypeInv == TypeOK /\ (pc = "read" => path \in Paths)

\* The rows of a session come from one reading of one of its ledgers.
Sound(t) ==
  \A s \in Sessions :
    /\ t.fact[s] = t.failure[s]
    /\ Indexed(t, s) <=> t.fact[s] > 0
    /\ Indexed(t, s) =>
         LET row == t.episode[s]
         IN  /\ row.path \in Paths /\ SessionOf[row.path] = s
             /\ row.digest <= t.fact[s] /\ t.fact[s] <= len[row.path]

\* The open transaction has deleted sessions and nothing else.
OnlyDeleted ==
  \A s \in Sessions : Indexed(view, s) =>
    view.episode[s] = db.episode[s] /\ view.fact[s] = db.fact[s]

\* What is deleted and not written anew is the session being read, or one with
\* a ledger that cannot be read.
WhyDeleted ==
  \A s \in Sessions : Indexed(db, s) /\ ~ Indexed(view, s) =>
    \/ \E p \in bad : SessionOf[p] = s
    \/ pc = "read" /\ db.episode[s].path = path

Rebuilds ==
  Rebuilding => db = view /\ (pc = "no_fact" => db.fact = Zero)

Reading ==
  /\ pc = "idle" => queue = <<>>
  /\ pc = "read" => digest <= len[path] /\ Known(path) = {}

\* The ledgers that ingest_dir has behind it are the ones that their sessions
\* were read from.
Behind(p) ==
  (\A k \in DOMAIN queue : queue[k] # p) /\ ~ (pc = "read" /\ path = p)

Ingested ==
  asked # None =>
    \A p \in Paths :
      /\ asked[p] <= len[p]
      /\ pc \in {"idle", "next", "read"} /\ Behind(p) /\ asked[p] > 0 =>
           /\ view.episode[SessionOf[p]].path = p
           /\ asked[p] <= view.fact[SessionOf[p]]

EpisodicInv ==
  /\ TypeInv /\ Reading /\ Rebuilds /\ Ingested
  /\ ~ Rebuilding => Sound(db) /\ Sound(view) /\ OnlyDeleted /\ WhyDeleted

----------------------------------------------------------------------------
(* Facts about the operators of the model.                                 *)

LEMMA QueueStep ==
  ASSUME NEW q \in Seq(Paths), q # <<>>
  PROVE  /\ Head(q) \in Paths /\ Tail(q) \in Seq(Paths)
         /\ \A p : (\A k \in DOMAIN Tail(q) : Tail(q)[k] # p) /\ Head(q) # p =>
                     \A k \in DOMAIN q : q[k] # p
<1>1. Head(q) \in Paths /\ Tail(q) \in Seq(Paths)
  BY HeadTailProperties
<1>2. ASSUME NEW p, \A k \in DOMAIN Tail(q) : Tail(q)[k] # p, Head(q) # p,
             NEW k \in DOMAIN q
      PROVE  q[k] # p
  <2>1. CASE k = 1
    BY <1>2, <2>1
  <2>2. CASE k # 1
    <3>1. k - 1 \in DOMAIN Tail(q) /\ Tail(q)[k - 1] = q[k]
      BY <1>2, <2>2
    <3> QED BY <3>1, <1>2
  <2> QED BY <2>1, <2>2
<1> QED BY <1>1, <1>2

LEMMA TablesTyped ==
  /\ NoRow \in Rows /\ Empty \in Tables /\ Zero \in [Sessions -> 0 .. MaxLen]
  /\ \A t \in Tables, s \in Sessions : WithoutSession(t, s) \in Tables
  /\ \A t \in Tables, s \in Sessions, p \in Paths, h, n \in 0 .. MaxLen :
       WithSession(t, s, p, h, n) \in Tables
  /\ \A p \in Paths : SessionOf[p] \in Sessions
<1>1. MaxLen \in Nat /\ 0 \in 0 .. MaxLen
  BY EpisodicAssumption
<1>2. NoRow \in Rows /\ Zero \in [Sessions -> 0 .. MaxLen]
  BY <1>1 DEF NoRow, Rows, Zero
<1>3. Empty \in Tables
  BY <1>2 DEF Empty, Tables
<1>4. ASSUME NEW t \in Tables, NEW s \in Sessions PROVE WithoutSession(t, s) \in Tables
  BY <1>1, <1>2 DEF WithoutSession, Tables
<1>5. ASSUME NEW t \in Tables, NEW s \in Sessions, NEW p \in Paths,
             NEW h \in 0 .. MaxLen, NEW n \in 0 .. MaxLen
      PROVE  WithSession(t, s, p, h, n) \in Tables
  <2>1. [path |-> p, digest |-> h] \in Rows
    BY DEF Rows
  <2> QED BY <2>1 DEF WithSession, Tables
<1> QED BY <1>2, <1>3, <1>4, <1>5 DEF Sessions

\* What deleting or writing the rows of one session does to each session.
LEMMA RowsAfter ==
  ASSUME NEW t \in Tables, NEW s \in Sessions, NEW u \in Sessions
  PROVE  /\ WithoutSession(t, s).episode[u] = (IF u = s THEN NoRow ELSE t.episode[u])
         /\ WithoutSession(t, s).fact[u] = (IF u = s THEN 0 ELSE t.fact[u])
         /\ WithoutSession(t, s).failure[u] = (IF u = s THEN 0 ELSE t.failure[u])
         /\ \A p, h, n :
              LET w == WithSession(t, s, p, h, n)
              IN  /\ w.episode[u] = (IF u = s THEN [path |-> p, digest |-> h] ELSE t.episode[u])
                  /\ w.fact[u] = (IF u = s THEN n ELSE t.fact[u])
                  /\ w.failure[u] = (IF u = s THEN n ELSE t.failure[u])
  BY DEF WithoutSession, WithSession, Tables

\* A path is a ledger or None, and only NoRow has None: the rows in use are
\* told from NoRow by their path.
LEMMA PathOfNoRow ==
  ASSUME NEW p \in Paths, NEW h
  PROVE  p # None /\ [path |-> p, digest |-> h] # NoRow
<1>1. p # None
  BY EpisodicAssumption
<1>2. [path |-> p, digest |-> h].path = p /\ NoRow.path = None
  BY DEF NoRow
<1> QED BY <1>1, <1>2

----------------------------------------------------------------------------
(* Types.                                                                  *)

LEMMA DropTyped ==
  ASSUME TypeOK, NEW p \in Paths, Drop(p)
  PROVE  view' \in Tables /\ db' \in Tables
<1>1. CASE Known(p) = {}
  BY <1>1 DEF Drop, TypeOK
<1>2. CASE Known(p) # {}
  <2>1. (CHOOSE s \in Known(p) : TRUE) \in Sessions
    BY <1>2 DEF Known
  <2> QED BY <1>2, <2>1, TablesTyped DEF Drop, TypeOK
<1> QED BY <1>1, <1>2

LEMMA TypeInitial == Init => TypeInv
<1> SUFFICES ASSUME Init PROVE TypeInv
  OBVIOUS
<1>1. db \in Tables /\ view \in Tables
  BY TablesTyped DEF Init
<1>2. <<>> \in Seq(Paths) /\ 0 \in 0 .. MaxLen
  BY EpisodicAssumption
<1> QED BY <1>1, <1>2 DEF Init, TypeInv, TypeOK

LEMMA TypeStep == TypeInv /\ [Next]_vars => TypeInv'
<1> SUFFICES ASSUME TypeInv, [Next]_vars PROVE TypeInv'
  OBVIOUS
<1> USE DEF job
<1>0. MaxLen \in Nat /\ PathOrder \in Seq(Paths) /\ <<>> \in Seq(Paths)
  BY EpisodicAssumption
<1>1. ASSUME NEW p \in Paths, Grow(p) PROVE TypeInv'
  <2>1. len[p] + 1 \in 0 .. MaxLen
    BY <1>0, <1>1 DEF Grow, TypeInv, TypeOK
  <2> QED BY <1>1, <2>1 DEF Grow, TypeInv, TypeOK
<1>2. ASSUME NEW p \in Paths, GoBad(p) PROVE TypeInv'
  BY <1>2 DEF GoBad, TypeInv, TypeOK
<1>3. ASSUME NEW p \in Paths, IngestOne(p) PROVE TypeInv'
  <2>1. <<p>> \in Seq(Paths)
    OBVIOUS
  <2> QED BY <1>3, <2>1 DEF IngestOne, TypeInv, TypeOK
<1>4. CASE IngestDir
  BY <1>0, <1>4 DEF IngestDir, TypeInv, TypeOK
<1>5. CASE Skip
  BY <1>5, QueueStep DEF Skip, TypeInv, TypeOK
<1>6. CASE Hash
  <2>1. Head(queue) \in Paths /\ Tail(queue) \in Seq(Paths)
    BY <1>6, QueueStep DEF Hash, TypeInv, TypeOK
  <2>2. view' \in Tables /\ db' \in Tables
    BY <1>6, <2>1, DropTyped DEF Hash, TypeInv
  <2> QED BY <1>6, <2>1, <2>2 DEF Hash, TypeInv, TypeOK
<1>7. CASE IngestRaises
  BY <1>0, <1>7 DEF IngestRaises, Raise, TypeInv, TypeOK
<1>8. CASE NoSession
  BY <1>0, <1>8 DEF NoSession, TypeInv, TypeOK
<1>9. CASE Write
  <2>1. pc = "read" /\ path \in Paths
    BY <1>9 DEF Write, TypeInv
  <2>2. view' \in Tables
    BY <1>9, <2>1, TablesTyped DEF Write, TypeInv, TypeOK
  <2> QED BY <1>0, <1>9, <2>2 DEF Write, TypeInv, TypeOK
<1>10. CASE Done
  BY <1>10 DEF Done, TypeInv, TypeOK
<1>11. CASE OpenMemory
  BY <1>11 DEF OpenMemory, TypeInv, TypeOK
<1>12. CASE Rebuild
  <2>1. view' \in Tables
    BY <1>12, TablesTyped DEF Rebuild, TypeInv, TypeOK, Tables
  <2> QED BY <1>12, <2>1 DEF Rebuild, TypeInv, TypeOK
<1>13. CASE RebuildFacts
  <2>1. view' \in Tables
    BY <1>13, TablesTyped DEF RebuildFacts, TypeInv, TypeOK, Tables
  <2> QED BY <1>13, <2>1 DEF RebuildFacts, TypeInv, TypeOK
<1>14. CASE RebuildEpisodes
  BY <1>0, <1>14, TablesTyped DEF RebuildEpisodes, TypeInv, TypeOK
<1>15. CASE Crash
  BY <1>0, <1>15 DEF Crash, Raise, TypeInv, TypeOK
<1>16. CASE UNCHANGED vars
  BY <1>16 DEF vars, TypeInv, TypeOK
<1> QED
  BY <1>1, <1>2, <1>3, <1>4, <1>5, <1>6, <1>7, <1>8, <1>9, <1>10, <1>11, <1>12,
     <1>13, <1>14, <1>15, <1>16 DEF Next

\* The files, the tables and the job keep their types.
THEOREM EpisodicTypeCorrect == Spec => []TypeOK
  <1>1. TypeInv => TypeOK
  BY DEF TypeInv
<1> QED BY <1>1, TypeInitial, TypeStep, PTL DEF Spec

----------------------------------------------------------------------------
(* The invariant holds initially and every action keeps it.                *)

\* The tables stay while the ledgers only grow: what was read is still a prefix.
LEMMA SoundStays ==
  ASSUME TypeOK, NEW t \in Tables, Sound(t),
         TypeOK', \A p \in Paths : len[p] <= len'[p]
  PROVE  \A s \in Sessions :
           /\ t.fact[s] = t.failure[s]
           /\ Indexed(t, s) <=> t.fact[s] > 0
           /\ Indexed(t, s) =>
                LET row == t.episode[s]
                IN  /\ row.path \in Paths /\ SessionOf[row.path] = s
                    /\ row.digest <= t.fact[s] /\ t.fact[s] <= len'[row.path]
<1> SUFFICES ASSUME NEW s \in Sessions, Indexed(t, s)
             PROVE  t.fact[s] <= len'[t.episode[s].path]
  BY DEF Sound
<1>1. t.episode[s].path \in Paths /\ t.fact[s] <= len[t.episode[s].path]
  BY DEF Sound
<1>2. /\ t.fact[s] \in Int /\ len[t.episode[s].path] \in Int
      /\ len'[t.episode[s].path] \in Int
      /\ len[t.episode[s].path] <= len'[t.episode[s].path]
  BY <1>1, EpisodicAssumption DEF TypeOK, Tables
<1> QED BY <1>1, <1>2

\* An action that leaves the tables, and to which the ledgers are append-only,
\* leaves what they say.
LEMMA TablesStay ==
  ASSUME EpisodicInv, TypeOK', UNCHANGED <<db, view>>,
         \A p \in Paths : len[p] <= len'[p], ~ Rebuilding
  PROVE  Sound(db)' /\ Sound(view)' /\ OnlyDeleted'
<1>1. Sound(db)' /\ Sound(view)'
  BY SoundStays DEF EpisodicInv, TypeInv, TypeOK, Sound, Indexed
<1>2. OnlyDeleted'
  BY DEF EpisodicInv, OnlyDeleted, Indexed
<1> QED BY <1>1, <1>2

LEMMA InvInitial == Init => EpisodicInv
<1> SUFFICES ASSUME Init PROVE EpisodicInv
  OBVIOUS
<1>1. TypeInv
  BY TypeInitial
<1>2. Sound(db) /\ Sound(view)
  BY DEF Init, Sound, Empty, Zero, Indexed
<1>3. OnlyDeleted /\ WhyDeleted
  BY DEF Init, OnlyDeleted, WhyDeleted
<1>4. Reading /\ Rebuilds /\ Ingested
  BY DEF Init, Reading, Rebuilds, Ingested, Rebuilding
<1> QED BY <1>1, <1>2, <1>3, <1>4 DEF EpisodicInv

LEMMA GrowKeeps ==
  ASSUME EpisodicInv, TypeInv', NEW q \in Paths, Grow(q)
  PROVE  EpisodicInv'
<1> USE DEF job
<1>0. TypeOK /\ TypeOK' /\ MaxLen \in Nat
  BY EpisodicAssumption DEF EpisodicInv, TypeInv
<1>1. \A p \in Paths : len[p] \in Int /\ len'[p] \in Int /\ len[p] <= len'[p]
  BY <1>0 DEF Grow, TypeOK
<1>2. Reading'
  BY <1>0, <1>1 DEF Grow, EpisodicInv, TypeInv, Reading, Known, TypeOK
<1>3. Rebuilds' /\ Rebuilding' = Rebuilding
  BY DEF Grow, EpisodicInv, Rebuilds, Rebuilding
<1>4. Ingested'
  <2> SUFFICES ASSUME asked # None, NEW p \in Paths PROVE asked[p] <= len'[p]
    BY DEF Grow, EpisodicInv, Ingested, Behind
  <2>1. asked[p] <= len[p] /\ asked[p] \in Int
    BY <1>0 DEF EpisodicInv, Ingested, TypeOK
  <2> QED BY <1>1, <2>1
<1>5. ASSUME ~ Rebuilding PROVE Sound(db)' /\ Sound(view)' /\ OnlyDeleted' /\ WhyDeleted'
  <2>1. WhyDeleted'
    BY <1>5 DEF Grow, EpisodicInv, WhyDeleted, Indexed
  <2> QED BY <1>0, <1>1, <1>5, <2>1, TablesStay DEF Grow
<1> QED BY <1>2, <1>3, <1>4, <1>5 DEF EpisodicInv

\* The steps that leave the ledgers and both tables: what must be shown of
\* them is about the job and what it has behind it.
LEMMA JobStep ==
  ASSUME EpisodicInv, TypeInv', UNCHANGED <<len, db, view>>, ~ Rebuilding, ~ Rebuilding',
         Reading', Ingested', WhyDeleted'
  PROVE  EpisodicInv'
<1>0. TypeOK /\ TypeOK' /\ MaxLen \in Nat
  BY EpisodicAssumption DEF EpisodicInv, TypeInv
<1>1. \A p \in Paths : len[p] <= len'[p]
  BY <1>0 DEF TypeOK
<1>2. Sound(db)' /\ Sound(view)' /\ OnlyDeleted'
  BY <1>0, <1>1, TablesStay
<1>3. Rebuilds'
  BY DEF Rebuilds
<1> QED BY <1>2, <1>3 DEF EpisodicInv

LEMMA GoBadKeeps ==
  ASSUME EpisodicInv, TypeInv', NEW q \in Paths, GoBad(q)
  PROVE  EpisodicInv'
<1> USE DEF job
<1>1. Reading' /\ Ingested' /\ Rebuilds' /\ Rebuilding' = Rebuilding
  BY DEF GoBad, EpisodicInv, Reading, Known, Ingested, Behind, Rebuilds, Rebuilding
<1>2. ~ Rebuilding => WhyDeleted'
  BY DEF GoBad, EpisodicInv, WhyDeleted, Indexed
<1>3. CASE ~ Rebuilding
  BY <1>1, <1>2, <1>3, JobStep DEF GoBad
<1>4. CASE Rebuilding
  BY <1>1, <1>4 DEF EpisodicInv
<1> QED BY <1>3, <1>4

LEMMA IngestOneKeeps ==
  ASSUME EpisodicInv, TypeInv', NEW q \in Paths, IngestOne(q)
  PROVE  EpisodicInv'
<1>1. Reading' /\ Ingested' /\ ~ Rebuilding /\ ~ Rebuilding'
  BY DEF IngestOne, Reading, Ingested, Rebuilding
<1>2. WhyDeleted'
  BY <1>1 DEF IngestOne, EpisodicInv, WhyDeleted, Indexed
<1> QED BY <1>1, <1>2, JobStep DEF IngestOne

LEMMA IngestDirKeeps ==
  ASSUME EpisodicInv, TypeInv', IngestDir
  PROVE  EpisodicInv'
<1>1. Reading' /\ ~ Rebuilding /\ ~ Rebuilding'
  BY DEF IngestDir, Reading, Rebuilding
<1>2. WhyDeleted'
  BY <1>1 DEF IngestDir, EpisodicInv, WhyDeleted, Indexed
<1>3. Ingested'
  <2>1. \A p \in Paths : len[p] <= len[p] /\ ~ Behind(p)'
    <3>1. \A p \in Paths : len[p] \in Int
      BY EpisodicAssumption DEF EpisodicInv, TypeInv, TypeOK
    <3> QED BY <3>1, EpisodicAssumption DEF IngestDir, Behind
  <2> QED BY <2>1 DEF IngestDir, Ingested
<1> QED BY <1>1, <1>2, <1>3, JobStep DEF IngestDir

LEMMA SkipKeeps ==
  ASSUME EpisodicInv, TypeInv', Skip
  PROVE  EpisodicInv'
<1>0. TypeOK /\ MaxLen \in Nat
  BY EpisodicAssumption DEF EpisodicInv, TypeInv
<1>1. Reading' /\ ~ Rebuilding /\ ~ Rebuilding'
  BY DEF Skip, Reading, Rebuilding
<1>2. WhyDeleted'
  BY <1>1 DEF Skip, EpisodicInv, WhyDeleted, Indexed
<1>3. Ingested'
  <2> SUFFICES ASSUME asked # None, NEW p \in Paths, Behind(p)', asked[p] > 0
               PROVE  /\ view.episode[SessionOf[p]].path = p
                      /\ asked[p] <= view.fact[SessionOf[p]]
    BY DEF Skip, EpisodicInv, Ingested
  <2>1. CASE p = Head(queue)
    <3>1. PICK s \in Sessions : view.episode[s].path = p /\ view.episode[s].digest = len[p]
      BY <2>1 DEF Skip, UpToDate, Known
    <3>2. Indexed(view, s)
      BY <3>1, EpisodicAssumption DEF Indexed, NoRow
    <3>3. s = SessionOf[p] /\ len[p] <= view.fact[s]
      BY <1>1, <3>1, <3>2 DEF EpisodicInv, Sound
    <3>4. asked[p] <= len[p] /\ asked[p] \in Int /\ len[p] \in Int /\ view.fact[s] \in Int
      BY <1>0 DEF EpisodicInv, Ingested, TypeOK, Tables
    <3> QED BY <3>1, <3>3, <3>4
  <2>2. CASE p # Head(queue)
    <3>1. Behind(p)
      BY <1>0, <2>2, QueueStep DEF Behind, Skip, TypeOK
    <3> QED BY <3>1 DEF Skip, EpisodicInv, Ingested
  <2> QED BY <2>1, <2>2
<1> QED BY <1>1, <1>2, <1>3, JobStep DEF Skip

LEMMA IngestRaisesKeeps ==
  ASSUME EpisodicInv, TypeInv', IngestRaises
  PROVE  EpisodicInv'
<1>1. Reading' /\ Ingested' /\ ~ Rebuilding /\ ~ Rebuilding'
  BY DEF IngestRaises, Raise, Reading, Ingested, Rebuilding
<1>2. WhyDeleted'
  <2> SUFFICES ASSUME NEW s \in Sessions, Indexed(db, s), ~ Indexed(view, s)
               PROVE  \E p \in bad : SessionOf[p] = s
    BY DEF IngestRaises, WhyDeleted, Indexed
  <2>1. CASE db.episode[s].path = path
    <3>1. SessionOf[path] = s
      BY <1>1, <2>1 DEF EpisodicInv, Sound
    <3> QED BY <3>1 DEF IngestRaises, Indexed
  <2>2. CASE db.episode[s].path # path
    BY <1>1, <2>2 DEF EpisodicInv, WhyDeleted
  <2> QED BY <2>1, <2>2
<1> QED BY <1>1, <1>2, JobStep DEF IngestRaises

\* A file without events is nobody's: no row was read from it.
LEMMA NoSessionKeeps ==
  ASSUME EpisodicInv, TypeInv', NoSession
  PROVE  EpisodicInv'
<1>0. TypeOK /\ MaxLen \in Nat /\ path \in Paths
  BY EpisodicAssumption DEF EpisodicInv, TypeInv, NoSession
<1>1. Reading' /\ ~ Rebuilding /\ ~ Rebuilding'
  BY DEF NoSession, Reading, Rebuilding
<1>2. WhyDeleted'
  <2> SUFFICES ASSUME NEW s \in Sessions, Indexed(db, s), ~ Indexed(view, s)
               PROVE  \E p \in bad : SessionOf[p] = s
    BY DEF NoSession, WhyDeleted, Indexed
  <2>1. db.episode[s].path # path
    <3>1. db.fact[s] > 0 /\ db.fact[s] <= len[db.episode[s].path]
      BY <1>1 DEF EpisodicInv, Sound
    <3>2. db.fact[s] \in Int
      BY <1>0 DEF TypeOK, Tables
    <3> QED BY <3>1, <3>2 DEF NoSession
  <2> QED BY <1>1, <2>1 DEF EpisodicInv, WhyDeleted
<1>3. Ingested'
  <2> SUFFICES ASSUME asked # None, NEW p \in Paths, Behind(p)', asked[p] > 0
               PROVE  Behind(p)
    BY DEF NoSession, EpisodicInv, Ingested
  <2>1. asked[p] <= len[p] /\ asked[p] \in Int
    BY <1>0 DEF EpisodicInv, Ingested, TypeOK
  <2>2. p # path
    BY <2>1 DEF NoSession
  <2> QED BY <2>2 DEF Behind, NoSession
<1> QED BY <1>1, <1>2, <1>3, JobStep DEF NoSession

LEMMA DoneKeeps ==
  ASSUME EpisodicInv, TypeInv', Done
  PROVE  EpisodicInv'
<1> USE DEF job
<1>1. Reading' /\ ~ Rebuilding /\ ~ Rebuilding'
  BY DEF Done, Reading, Rebuilding
<1>2. WhyDeleted'
  BY <1>1 DEF Done, EpisodicInv, WhyDeleted, Indexed
<1>3. Ingested'
  BY DEF Done, EpisodicInv, Ingested, Behind
<1> QED BY <1>1, <1>2, <1>3, JobStep DEF Done

LEMMA OpenMemoryKeeps ==
  ASSUME EpisodicInv, TypeInv', OpenMemory
  PROVE  EpisodicInv'
<1> USE DEF job
<1>1. Reading' /\ ~ Rebuilding /\ ~ Rebuilding'
  BY DEF OpenMemory, EpisodicInv, Reading, Known, Rebuilding
<1>2. Sound(db)' /\ Sound(view)' /\ OnlyDeleted' /\ WhyDeleted'
  BY <1>1 DEF OpenMemory, EpisodicInv, Sound, OnlyDeleted, WhyDeleted, Indexed
<1>3. Ingested' /\ Rebuilds'
  BY <1>1 DEF OpenMemory, EpisodicInv, Ingested, Behind, Rebuilds
<1> QED BY <1>1, <1>2, <1>3 DEF EpisodicInv

LEMMA CrashKeeps ==
  ASSUME NoRebuildCrash, EpisodicInv, TypeInv', Crash
  PROVE  EpisodicInv'
<1>1. Reading' /\ ~ Rebuilding /\ ~ Rebuilding'
  BY DEF NoRebuildCrash, Crash, Raise, Reading, Rebuilding
<1>2. Sound(db)' /\ Sound(view)' /\ OnlyDeleted' /\ WhyDeleted'
  BY <1>1 DEF Crash, EpisodicInv, Sound, OnlyDeleted, WhyDeleted, Indexed
<1>3. Ingested' /\ Rebuilds'
  BY <1>1 DEF Crash, Raise, Ingested, Rebuilds
<1> QED BY <1>1, <1>2, <1>3 DEF EpisodicInv

LEMMA HashKeeps ==
  ASSUME EpisodicInv, TypeInv', Hash
  PROVE  EpisodicInv'
<1> DEFINE q == Head(queue)
<1>0. TypeOK /\ TypeOK' /\ MaxLen \in Nat /\ q \in Paths
  BY EpisodicAssumption, QueueStep DEF EpisodicInv, TypeInv, TypeOK, Hash
<1>1. ~ Rebuilding /\ ~ Rebuilding' /\ path' = q /\ digest' = len[q]
      /\ pc' = "read" /\ queue' = Tail(queue) /\ UNCHANGED <<len, bad, db, asked>>
  BY DEF Hash, Rebuilding, Drop
<1>2. \A s \in Known(q) : s = SessionOf[q] /\ Indexed(view, s)
  <2> SUFFICES ASSUME NEW s \in Known(q) PROVE s = SessionOf[q] /\ Indexed(view, s)
    OBVIOUS
  <2>1. s \in Sessions /\ view.episode[s].path = q
    BY DEF Known
  <2>2. Indexed(view, s)
    BY <1>0, <2>1, EpisodicAssumption DEF Indexed, NoRow
  <2> QED BY <1>1, <2>1, <2>2 DEF EpisodicInv, Sound
<1>3. \A s \in Sessions :
        \/ /\ s \notin Known(q) /\ view'.episode[s] = view.episode[s]
           /\ view'.fact[s] = view.fact[s] /\ view'.failure[s] = view.failure[s]
        \/ /\ s \in Known(q) /\ view'.episode[s] = NoRow
           /\ view'.fact[s] = 0 /\ view'.failure[s] = 0
  <2>1. CASE Known(q) = {}
    BY <2>1 DEF Hash, Drop
  <2>2. CASE Known(q) # {}
    <3>1. Known(q) = {SessionOf[q]} /\ view' = WithoutSession(view, SessionOf[q])
      BY <1>2, <2>2 DEF Hash, Drop
    <3>2. view \in Tables /\ SessionOf[q] \in Sessions
      BY <1>0, TablesTyped DEF TypeOK
    <3> QED BY <3>1, <3>2, RowsAfter
  <2> QED BY <2>1, <2>2
<1>4. Reading'
  <2>1. Known(path)' = {}
    <3>1. \A s \in Sessions : view'.episode[s].path # q
      BY <1>0, <1>3, EpisodicAssumption DEF Known, NoRow
    <3> QED BY <1>1, <3>1 DEF Known
  <2>2. len[q] \in Int
    BY <1>0 DEF TypeOK
  <2> QED BY <1>1, <2>1, <2>2 DEF Reading
<1>5. Sound(db)' /\ Rebuilds'
  BY <1>1 DEF EpisodicInv, Sound, Indexed, Rebuilds
<1>6. Sound(view)'
  BY <1>1, <1>3 DEF EpisodicInv, Sound, Indexed
<1>7. OnlyDeleted'
  BY <1>1, <1>3 DEF EpisodicInv, OnlyDeleted, Indexed
<1>8. WhyDeleted'
  <2> SUFFICES ASSUME NEW s \in Sessions, Indexed(db, s), ~ Indexed(view, s)'
               PROVE  (\E p \in bad : SessionOf[p] = s) \/ db.episode[s].path = q
    BY <1>1 DEF WhyDeleted, Indexed
  <2>1. CASE s \in Known(q)
    <3>1. db.episode[s] = view.episode[s]
      BY <1>1, <1>2, <2>1 DEF EpisodicInv, OnlyDeleted
    <3> QED BY <2>1, <3>1 DEF Known
  <2>2. CASE s \notin Known(q)
    <3>1. ~ Indexed(view, s)
      BY <1>3, <2>2 DEF Indexed
    <3> QED BY <1>1, <3>1 DEF EpisodicInv, WhyDeleted, Hash
  <2> QED BY <2>1, <2>2
<1>9. Ingested'
  <2> SUFFICES ASSUME asked # None, NEW p \in Paths, Behind(p)', asked[p] > 0
               PROVE  /\ view'.episode[SessionOf[p]].path = p
                      /\ asked[p] <= view'.fact[SessionOf[p]]
    BY <1>1 DEF EpisodicInv, Ingested
  <2>1. p # q
    BY <1>1 DEF Behind
  <2>2. Behind(p)
    BY <1>0, <1>1, <2>1, QueueStep DEF Behind, Hash, TypeOK
  <2>3. view.episode[SessionOf[p]].path = p /\ asked[p] <= view.fact[SessionOf[p]]
    BY <2>2 DEF EpisodicInv, Ingested, Hash
  <2>4. SessionOf[p] \in Sessions /\ SessionOf[p] \notin Known(q)
    BY <2>1, <2>3, TablesTyped DEF Known
  <2> QED BY <1>3, <2>3, <2>4
<1> QED BY <1>1, <1>4, <1>5, <1>6, <1>7, <1>8, <1>9 DEF EpisodicInv

LEMMA WriteRows ==
  ASSUME TypeOK, Write, path \in Paths, NEW s \in Sessions
  PROVE  /\ view'.episode[s] = (IF s = SessionOf[path] THEN [path |-> path, digest |-> digest]
                                ELSE view.episode[s])
         /\ view'.fact[s] = (IF s = SessionOf[path] THEN len[path] ELSE view.fact[s])
         /\ view'.failure[s] = (IF s = SessionOf[path] THEN len[path] ELSE view.failure[s])
<1>1. SessionOf[path] \in Sessions
  BY TablesTyped
<1> QED BY <1>1, RowsAfter DEF Write, TypeOK

LEMMA WriteKeeps ==
  ASSUME EpisodicInv, TypeInv', Write
  PROVE  EpisodicInv'
<1> DEFINE s0 == SessionOf[path]
<1>0. TypeOK /\ TypeOK' /\ MaxLen \in Nat /\ path \in Paths /\ s0 \in Sessions
  BY EpisodicAssumption, TablesTyped DEF EpisodicInv, TypeInv, Write
<1>1. ~ Rebuilding /\ ~ Rebuilding' /\ pc' = "next" /\ db' = view'
      /\ UNCHANGED <<len, bad, queue, asked>>
  BY DEF Write, Rebuilding
<1>2. \A s \in Sessions :
        /\ view'.episode[s] = (IF s = s0 THEN [path |-> path, digest |-> digest]
                               ELSE view.episode[s])
        /\ view'.fact[s] = (IF s = s0 THEN len[path] ELSE view.fact[s])
        /\ view'.failure[s] = (IF s = s0 THEN len[path] ELSE view.failure[s])
  BY <1>0, WriteRows
<1>3. Reading'
  BY <1>1 DEF Reading
<1>4. Sound(view)'
  <2> SUFFICES ASSUME NEW s \in Sessions
               PROVE  /\ view'.fact[s] = view'.failure[s]
                      /\ Indexed(view, s)' <=> view'.fact[s] > 0
                      /\ Indexed(view, s)' =>
                           /\ view'.episode[s].path \in Paths
                           /\ SessionOf[view'.episode[s].path] = s
                           /\ view'.episode[s].digest <= view'.fact[s]
                           /\ view'.fact[s] <= len[view'.episode[s].path]
    BY <1>1 DEF Sound
  <2>1. CASE s = s0
    <3>1. Indexed(view, s)'
      BY <1>0, <1>2, <2>1, PathOfNoRow DEF Indexed
    <3>2. len[path] > 0 /\ len[path] \in Int /\ digest <= len[path]
      BY <1>0 DEF Write, EpisodicInv, Reading, TypeOK
    <3> QED BY <1>0, <1>2, <2>1, <3>1, <3>2
  <2>2. CASE s # s0
    BY <1>1, <1>2, <2>2 DEF EpisodicInv, Sound, Indexed
  <2> QED BY <2>1, <2>2
<1>5. Sound(db)' /\ OnlyDeleted' /\ WhyDeleted' /\ Rebuilds'
  BY <1>1, <1>4 DEF Sound, OnlyDeleted, WhyDeleted, Indexed, Rebuilds
<1>6. Ingested'
  <2> SUFFICES ASSUME asked # None, NEW p \in Paths, Behind(p)', asked[p] > 0
               PROVE  /\ view'.episode[SessionOf[p]].path = p
                      /\ asked[p] <= view'.fact[SessionOf[p]]
    BY <1>1 DEF EpisodicInv, Ingested
  <2>0. SessionOf[p] \in Sessions
    BY TablesTyped
  <2>1. CASE p = path
    <3>1. asked[p] <= len[p]
      BY DEF EpisodicInv, Ingested
    <3> QED BY <1>2, <2>0, <2>1, <3>1
  <2>2. CASE p # path
    <3>1. Behind(p)
      BY <1>1, <2>2 DEF Behind
    <3>2. view.episode[SessionOf[p]].path = p /\ asked[p] <= view.fact[SessionOf[p]]
      BY <3>1 DEF EpisodicInv, Ingested, Write
    <3>3. SessionOf[p] # s0
      BY <3>2, EpisodicAssumption DEF Write, NoRow
    <3> QED BY <1>2, <2>0, <3>2, <3>3
  <2> QED BY <2>1, <2>2
<1> QED BY <1>1, <1>3, <1>4, <1>5, <1>6 DEF EpisodicInv

LEMMA RebuildKeeps ==
  ASSUME EpisodicInv, TypeInv', Rebuild \/ RebuildFacts
  PROVE  EpisodicInv'
<1>1. Rebuilding' /\ Reading' /\ db' = view'
  BY DEF Rebuild, RebuildFacts, Rebuilding, Reading
<1>2. Rebuilds'
  BY <1>1 DEF Rebuild, RebuildFacts, EpisodicInv, TypeInv, TypeOK, Tables, Rebuilds
<1>3. Ingested'
  BY DEF Rebuild, RebuildFacts, EpisodicInv, Ingested
<1> QED BY <1>1, <1>2, <1>3 DEF EpisodicInv

LEMMA RebuildEpisodesKeeps ==
  ASSUME EpisodicInv, TypeInv', RebuildEpisodes
  PROVE  EpisodicInv'
<1>1. ~ Rebuilding' /\ Reading' /\ Rebuilds' /\ db' = Empty /\ view' = Empty
  BY DEF RebuildEpisodes, Rebuilding, Reading, Rebuilds
<1>2. Sound(db)' /\ Sound(view)' /\ OnlyDeleted' /\ WhyDeleted'
  BY <1>1 DEF Sound, OnlyDeleted, WhyDeleted, Indexed, Empty, Zero
<1>3. Ingested'
  <2>1. \A p \in Paths : len[p] <= len[p] /\ ~ Behind(p)'
    <3>1. \A p \in Paths : len[p] \in Int
      BY EpisodicAssumption DEF EpisodicInv, TypeInv, TypeOK
    <3> QED BY <3>1, EpisodicAssumption DEF RebuildEpisodes, Behind
  <2> QED BY <2>1 DEF RebuildEpisodes, Ingested
<1> QED BY <1>1, <1>2, <1>3 DEF EpisodicInv

LEMMA InvStep == NoRebuildCrash /\ EpisodicInv /\ [Next]_vars => EpisodicInv'
<1> SUFFICES ASSUME NoRebuildCrash, EpisodicInv, [Next]_vars PROVE EpisodicInv'
  OBVIOUS
<1>0. TypeInv'
  BY TypeStep DEF EpisodicInv
<1>1. CASE UNCHANGED vars
  BY <1>1 DEF vars, job, EpisodicInv, TypeInv, TypeOK, Reading, Known, Rebuilds, Rebuilding,
              Ingested, Behind, Sound, OnlyDeleted, WhyDeleted, Indexed
<1>2. CASE Next
  BY <1>0, <1>2, GrowKeeps, GoBadKeeps, IngestOneKeeps, IngestDirKeeps, SkipKeeps,
     HashKeeps, IngestRaisesKeeps, NoSessionKeeps, WriteKeeps, DoneKeeps, OpenMemoryKeeps,
     RebuildKeeps, RebuildEpisodesKeeps, CrashKeeps DEF Next
<1> QED BY <1>1, <1>2

\* The inductive invariant holds of every behaviour in which no crash splits
\* a rebuild.
THEOREM EpisodicInvariant == NoRebuildCrash => (Spec => []EpisodicInv)
<1> SUFFICES ASSUME NoRebuildCrash PROVE Spec => []EpisodicInv
  OBVIOUS
<1>1. EpisodicInv /\ [Next]_vars => EpisodicInv'
  BY InvStep
<1> QED BY InvInitial, <1>1, PTL DEF Spec

----------------------------------------------------------------------------
(* What the index promises.                                                *)

\* What is committed is never half a session.
THEOREM CommitsWholeSessions == NoRebuildCrash => (Spec => []SessionsWhole)
<1>1. EpisodicInv => SessionsWhole
  BY DEF EpisodicInv, SessionsWhole, Sound
<1> QED BY <1>1, EpisodicInvariant, PTL

\* The hash on record is never ahead of the rows, nor the rows of the ledger.
THEOREM HashesBeforeReading == NoRebuildCrash => (Spec => []DigestNotAhead)
<1>1. EpisodicInv => DigestNotAhead
  BY DEF EpisodicInv, DigestNotAhead, Sound
<1> QED BY <1>1, EpisodicInvariant, PTL

\* When ingest_dir has returned, what was in the ledgers at the call is in
\* the index: every ledger is behind it, nothing is pending that a readable
\* ledger did not replace.
LEMMA NothingPending ==
  ASSUME EpisodicInv, pc = "idle", NEW s \in Sessions, Indexed(view, s)
  PROVE  Indexed(db, s) /\ db.fact[s] = view.fact[s] /\ db.failure[s] = view.failure[s]
<1>1. ~ Rebuilding
  BY DEF Rebuilding
<1> QED BY <1>1 DEF EpisodicInv, OnlyDeleted, Sound, Indexed

THEOREM IngestsAll == NoRebuildCrash => (Spec => []IngestComplete)
<1>1. EpisodicInv => IngestComplete
  <2> SUFFICES ASSUME EpisodicInv, pc = "idle", asked # None, NEW p \in Paths
               PROVE  /\ asked[p] <= db.fact[SessionOf[p]]
                      /\ asked[p] <= db.failure[SessionOf[p]]
    BY DEF IngestComplete
  <2>0. ~ Rebuilding /\ TypeOK /\ MaxLen \in Nat /\ SessionOf[p] \in Sessions
    BY EpisodicAssumption, TablesTyped DEF Rebuilding, EpisodicInv, TypeInv
  <2>1. asked[p] \in Int /\ db.fact[SessionOf[p]] \in Nat /\ db.failure[SessionOf[p]] \in Nat
    BY <2>0 DEF TypeOK, Tables
  <2>2. CASE asked[p] > 0
    <3>1. Behind(p)
      BY DEF EpisodicInv, Reading, Behind
    <3>2. view.episode[SessionOf[p]].path = p /\ asked[p] <= view.fact[SessionOf[p]]
      BY <2>2, <3>1 DEF EpisodicInv, Ingested
    <3>3. Indexed(view, SessionOf[p])
      BY <3>2, EpisodicAssumption DEF Indexed, NoRow
    <3>4. /\ db.fact[SessionOf[p]] = view.fact[SessionOf[p]]
          /\ db.failure[SessionOf[p]] = db.fact[SessionOf[p]]
      BY <2>0, <3>3, NothingPending DEF EpisodicInv, Sound
    <3> QED BY <3>2, <3>4
  <2>3. CASE ~ (asked[p] > 0)
    BY <2>1, <2>3
  <2> QED BY <2>2, <2>3
<1> QED BY <1>1, EpisodicInvariant, PTL

----------------------------------------------------------------------------
(* What a step may not take away.                                          *)

Keeps == \A s \in Sessions : db'.fact[s] < db.fact[s] =>
           pc = "no_failure" \/ \E p \in bad : SessionOf[p] = s

\* Events leave the committed index only in a rebuild, or with a ledger that
\* cannot be read: a commit takes along the pending deletes, and each of them
\* is of such a session or of the one whose longer ledger is written.
LEMMA KeepsStep == NoRebuildCrash /\ EpisodicInv /\ [Next]_vars => Keeps
<1> SUFFICES ASSUME EpisodicInv, [Next]_vars, NEW s \in Sessions,
                    db'.fact[s] < db.fact[s], pc # "no_failure"
             PROVE  \E p \in bad : SessionOf[p] = s
  BY DEF Keeps
<1>0. TypeOK /\ TypeOK' /\ MaxLen \in Nat
  BY TypeStep, EpisodicAssumption DEF EpisodicInv, TypeInv
<1>1. db.fact[s] \in Int /\ db'.fact[s] \in Int /\ db.fact[s] > 0 /\ db' # db
  <2>1. db.fact[s] \in 0 .. MaxLen /\ db'.fact[s] \in 0 .. MaxLen
    BY <1>0 DEF TypeOK, Tables
  <2> QED BY <2>1, <1>0
<1>2. Write \/ OpenMemory \/ Rebuild \/ RebuildFacts \/ RebuildEpisodes
  BY <1>1 DEF Next, vars, Grow, GoBad, IngestOne, IngestDir, Skip, Hash, Drop, IngestRaises,
              NoSession, Done, Crash
<1>3. CASE Write
  <2>0. path \in Paths /\ SessionOf[path] \in Sessions /\ ~ Rebuilding
    BY <1>3, TablesTyped DEF EpisodicInv, TypeInv, Write, Rebuilding
  <2>1. db'.fact[s] = (IF s = SessionOf[path] THEN len[path] ELSE view.fact[s])
    BY <1>0, <1>3, <2>0, WriteRows DEF Write
  <2>2. Indexed(db, s) /\ db.fact[s] <= len[db.episode[s].path]
    BY <1>1, <2>0 DEF EpisodicInv, Sound
  <2>3. ~ Indexed(view, s)
    <3>1. CASE s = SessionOf[path]
      BY <1>3, <3>1 DEF Write, Indexed
    <3>2. CASE s # SessionOf[path]
      <4>1. view.fact[s] # db.fact[s]
        BY <1>1, <2>1, <3>2
      <4> QED BY <2>0, <4>1 DEF EpisodicInv, OnlyDeleted
    <3> QED BY <3>1, <3>2
  <2>4. db.episode[s].path # path
    <3>1. ASSUME db.episode[s].path = path PROVE FALSE
      <4>1. s = SessionOf[path]
        BY <2>0, <2>2, <3>1 DEF EpisodicInv, Sound
      <4>2. db'.fact[s] = len[path] /\ db.fact[s] <= len[path]
        BY <2>1, <2>2, <3>1, <4>1
      <4> QED BY <1>1, <4>2
    <3> QED BY <3>1
  <2> QED BY <2>0, <2>2, <2>3, <2>4 DEF EpisodicInv, WhyDeleted
<1>4. CASE OpenMemory
  <2>0. ~ Rebuilding /\ pc = "idle" /\ db' = view
    BY <1>4 DEF OpenMemory, Rebuilding
  <2>1. Indexed(db, s)
    BY <1>1, <2>0 DEF EpisodicInv, Sound
  <2>2. ~ Indexed(view, s)
    BY <1>1, <2>0 DEF EpisodicInv, OnlyDeleted
  <2> QED BY <2>0, <2>1, <2>2 DEF EpisodicInv, WhyDeleted
<1>5. CASE Rebuild
  <2>0. ~ Rebuilding /\ pc = "idle" /\ db'.fact = view.fact
    BY <1>0, <1>5 DEF Rebuild, Rebuilding, TypeOK, Tables
  <2>1. Indexed(db, s)
    BY <1>1, <2>0 DEF EpisodicInv, Sound
  <2>2. ~ Indexed(view, s)
    BY <1>1, <2>0 DEF EpisodicInv, OnlyDeleted
  <2> QED BY <2>0, <2>1, <2>2 DEF EpisodicInv, WhyDeleted
<1>6. CASE RebuildFacts
  BY <1>6 DEF RebuildFacts
<1>7. CASE RebuildEpisodes
  <2>1. db.fact[s] = 0
    BY <1>7 DEF RebuildEpisodes, EpisodicInv, Rebuilds, Rebuilding, Zero
  <2> QED BY <1>1, <2>1
<1> QED BY <1>2, <1>3, <1>4, <1>5, <1>6, <1>7

THEOREM IngestsKeepWhatWasRead == NoRebuildCrash => (Spec => IngestKeeps)
<1> SUFFICES ASSUME NoRebuildCrash PROVE Spec => IngestKeeps
  OBVIOUS
<1>1. EpisodicInv /\ [Next]_vars =>
        [\A s \in Sessions : db'.fact[s] < db.fact[s] =>
           pc = "no_failure" \/ \E p \in bad : SessionOf[p] = s]_vars
  BY KeepsStep DEF Keeps
<1> QED BY <1>1, EpisodicInvariant, PTL DEF Spec, IngestKeeps

----------------------------------------------------------------------------
(* With a crash between rebuild's deletes.                                 *)

\* What every table holds of a session then: its row, its facts and its
\* failures are gone or are from one reading of one of its own ledgers, and
\* nothing is left without the row.
SoundOrGone(t) ==
  \A s \in Sessions :
    /\ t.failure[s] = 0 \/ t.failure[s] = t.fact[s]
    /\ t.fact[s] > 0 => Indexed(t, s)
    /\ Indexed(t, s) =>
         LET row == t.episode[s]
         IN  /\ row.path \in Paths /\ SessionOf[row.path] = s
             /\ row.digest <= len[row.path] /\ t.fact[s] <= len[row.path]
             /\ t.fact[s] > 0 => row.digest <= t.fact[s]

\* How far rebuild has come.
Deleting ==
  /\ pc = "no_failure" => db = view /\ view.failure = Zero
  /\ pc = "no_fact" => db = view /\ view.failure = Zero /\ view.fact = Zero

GoneInv ==
  /\ TypeInv /\ SoundOrGone(db) /\ SoundOrGone(view)
  /\ pc = "read" => digest <= len[path]
  /\ Deleting

LEMMA GoneInitial == Init => GoneInv
<1> SUFFICES ASSUME Init PROVE GoneInv
  OBVIOUS
<1>1. TypeInv
  BY TypeInitial
<1>2. SoundOrGone(db) /\ SoundOrGone(view)
  BY DEF Init, SoundOrGone, Empty, Zero, Indexed
<1>3. pc = "idle"
  BY DEF Init
<1> QED  BY <1>1, <1>2, <1>3 DEF GoneInv, Deleting

\* Ledgers that only grow take nothing from what was read of them.
LEMMA GoneStays ==
  ASSUME GoneInv, TypeInv', UNCHANGED <<db, view>>, \A p \in Paths : len[p] <= len'[p]
  PROVE  SoundOrGone(db)' /\ SoundOrGone(view)'
<1>0. MaxLen \in Nat /\ TypeOK /\ TypeOK'
  BY EpisodicAssumption DEF GoneInv, TypeInv
<1>1. ASSUME NEW t \in Tables, SoundOrGone(t), NEW s \in Sessions, Indexed(t, s)
      PROVE  t.episode[s].digest <= len'[t.episode[s].path] /\ t.fact[s] <= len'[t.episode[s].path]
  <2>1. t.episode[s] \in Rows /\ t.fact[s] \in Int
    BY <1>0 DEF Tables
  <2>2. t.episode[s].digest \in Int
    BY <2>1 DEF Rows
  <2>3. /\ t.episode[s].path \in Paths
        /\ t.episode[s].digest <= len[t.episode[s].path]
        /\ t.fact[s] <= len[t.episode[s].path]
    BY <1>1 DEF SoundOrGone
  <2>4. /\ len[t.episode[s].path] \in Int /\ len'[t.episode[s].path] \in Int
        /\ len[t.episode[s].path] <= len'[t.episode[s].path]
    BY <1>0, <2>3 DEF TypeOK
  <2> QED  BY <2>1, <2>2, <2>3, <2>4
<1>2. SoundOrGone(db)'
  <2>1. db \in Tables /\ SoundOrGone(db)
    BY <1>0 DEF GoneInv, TypeOK
  <2> QED  BY <1>1, <2>1 DEF SoundOrGone, Indexed
<1>3. SoundOrGone(view)'
  <2>1. view \in Tables /\ SoundOrGone(view)
    BY <1>0 DEF GoneInv, TypeOK
  <2> QED  BY <1>1, <2>1 DEF SoundOrGone, Indexed
<1> QED  BY <1>2, <1>3

\* The deletes of an ingest take whole sessions.
LEMMA GoneHash ==
  ASSUME GoneInv, TypeInv', Hash
  PROVE  GoneInv'
<1>0. TypeOK /\ MaxLen \in Nat
  BY EpisodicAssumption DEF GoneInv, TypeInv
<1>1. /\ pc' = "read" /\ UNCHANGED <<len, bad, db>>
      /\ path' = Head(queue) /\ digest' = len[path'] /\ Head(queue) \in Paths
      /\ Drop(Head(queue))
  BY <1>0, QueueStep DEF Hash, Drop, TypeOK
<1>2. \A s \in Sessions :
        \/ /\ view'.episode[s] = view.episode[s]
           /\ view'.fact[s] = view.fact[s] /\ view'.failure[s] = view.failure[s]
        \/ view'.episode[s] = NoRow /\ view'.fact[s] = 0 /\ view'.failure[s] = 0
  <2>1. CASE view' = view
    BY <2>1
  <2>2. CASE view' # view
    <3>1. PICK u \in Sessions : view' = WithoutSession(view, u)
      BY <1>1, <2>2 DEF Drop, Known
    <3>2. view \in Tables
      BY <1>0 DEF TypeOK
    <3> QED  BY <3>1, <3>2, RowsAfter
  <2> QED  BY <2>1, <2>2
<1>3. SoundOrGone(view)'
  BY <1>1, <1>2 DEF GoneInv, SoundOrGone, Indexed
<1>4. SoundOrGone(db)'
  BY <1>1 DEF GoneInv, SoundOrGone, Indexed
<1>5. digest' <= len'[path']
  BY <1>0, <1>1 DEF TypeOK
<1>6. Deleting'
  BY <1>1 DEF Deleting
<1> QED  BY <1>3, <1>4, <1>5, <1>6 DEF GoneInv

LEMMA GoneWrite ==
  ASSUME GoneInv, TypeInv', Write
  PROVE  GoneInv'
<1> DEFINE s0 == SessionOf[path]
<1>0. TypeOK /\ MaxLen \in Nat /\ path \in Paths
  BY EpisodicAssumption DEF GoneInv, TypeInv, Write
<1>1. pc' = "next" /\ db' = view' /\ UNCHANGED len
  BY DEF Write
<1>2. ASSUME NEW s \in Sessions
      PROVE  /\ view'.episode[s] = (IF s = s0 THEN [path |-> path, digest |-> digest]
                                    ELSE view.episode[s])
             /\ view'.fact[s] = (IF s = s0 THEN len[path] ELSE view.fact[s])
             /\ view'.failure[s] = (IF s = s0 THEN len[path] ELSE view.failure[s])
  BY <1>0, WriteRows
<1>3. SoundOrGone(view)'
  <2> SUFFICES ASSUME NEW s \in Sessions
               PROVE  /\ view'.failure[s] = 0 \/ view'.failure[s] = view'.fact[s]
                      /\ view'.fact[s] > 0 => Indexed(view, s)'
                      /\ Indexed(view, s)' =>
                           /\ view'.episode[s].path \in Paths
                           /\ SessionOf[view'.episode[s].path] = s
                           /\ view'.episode[s].digest <= len[view'.episode[s].path]
                           /\ view'.fact[s] <= len[view'.episode[s].path]
                           /\ view'.fact[s] > 0 => view'.episode[s].digest <= view'.fact[s]
    BY <1>1 DEF SoundOrGone
  <2>1. CASE s = s0
    <3>1. Indexed(view, s)'
      BY <1>0, <1>2, <2>1, PathOfNoRow DEF Indexed
    <3>2. len[path] \in Int /\ digest <= len[path]
      BY <1>0 DEF Write, GoneInv, TypeOK
    <3> QED  BY <1>0, <1>2, <2>1, <3>1, <3>2
  <2>2. CASE s # s0
    BY <1>2, <2>2 DEF GoneInv, SoundOrGone, Indexed
  <2> QED  BY <2>1, <2>2
<1>4. SoundOrGone(db)'
  BY <1>1, <1>3 DEF SoundOrGone, Indexed
<1>5. Deleting'
  BY <1>1 DEF Deleting
<1> QED  BY <1>1, <1>3, <1>4, <1>5 DEF GoneInv

\* Each of rebuild's deletes empties a table, in the order that never leaves a
\* fact without its row.
LEMMA GoneRebuild ==
  ASSUME GoneInv, TypeInv', Rebuild \/ RebuildFacts \/ RebuildEpisodes
  PROVE  GoneInv'
<1>0. TypeOK /\ MaxLen \in Nat /\ view \in Tables
  BY EpisodicAssumption DEF GoneInv, TypeInv, TypeOK
<1>1. UNCHANGED len /\ db' = view' /\ pc' # "read"
  BY DEF Rebuild, RebuildFacts, RebuildEpisodes
<1>2. SoundOrGone(view)' /\ Deleting'
  <2>1. CASE Rebuild
    <3>1. pc' = "no_failure" /\ view'.failure = Zero
          /\ view'.episode = view.episode /\ view'.fact = view.fact
      BY <1>0, <2>1 DEF Rebuild, Tables
    <3>2. SoundOrGone(view)'
      BY <1>1, <3>1 DEF GoneInv, SoundOrGone, Indexed, Zero
    <3> QED  BY <1>1, <3>1, <3>2 DEF Deleting
  <2>2. CASE RebuildFacts
    <3>1. pc' = "no_fact" /\ view'.failure = Zero /\ view'.fact = Zero
          /\ view'.episode = view.episode
      BY <1>0, <2>2 DEF RebuildFacts, GoneInv, Deleting, Tables
    <3>2. \A p \in Paths : 0 <= len[p] /\ ~(0 > 0)
      BY <1>0 DEF TypeOK
    <3>3. SoundOrGone(view)'
      BY <1>1, <3>1, <3>2 DEF GoneInv, SoundOrGone, Indexed, Zero
    <3> QED  BY <1>1, <3>1, <3>3 DEF Deleting
  <2>3. CASE RebuildEpisodes
    <3>1. SoundOrGone(view)'
      BY <2>3 DEF RebuildEpisodes, SoundOrGone, Indexed, Empty, Zero
    <3> QED  BY <2>3, <3>1 DEF RebuildEpisodes, Deleting
  <2> QED  BY <2>1, <2>2, <2>3
<1>3. SoundOrGone(db)'
  BY <1>1, <1>2 DEF SoundOrGone, Indexed
<1> QED  BY <1>1, <1>2, <1>3 DEF GoneInv

LEMMA GoneStep == GoneInv /\ [Next]_vars => GoneInv'
<1> SUFFICES ASSUME GoneInv, [Next]_vars PROVE GoneInv'
  OBVIOUS
<1> USE DEF job
<1>0. TypeInv' /\ TypeOK /\ MaxLen \in Nat
  BY TypeStep, EpisodicAssumption DEF GoneInv, TypeInv
<1>1. CASE Hash
  BY <1>0, <1>1, GoneHash
<1>2. CASE Write
  BY <1>0, <1>2, GoneWrite
<1>3. CASE Rebuild \/ RebuildFacts \/ RebuildEpisodes
  BY <1>0, <1>3, GoneRebuild
<1>4. ASSUME NEW p \in Paths, Grow(p) PROVE GoneInv'
  <2>1. UNCHANGED <<db, view, pc, path, digest>> /\ \A q \in Paths : len[q] <= len'[q]
    BY <1>0, <1>4 DEF Grow, TypeOK
  <2>2. SoundOrGone(db)' /\ SoundOrGone(view)'
    BY <1>0, <2>1, GoneStays
  <2>3. pc = "read" => digest <= len'[path]
    <3> SUFFICES ASSUME pc = "read" PROVE digest <= len'[path]
      OBVIOUS
    <3>1. path \in Paths /\ digest <= len[path]
      BY DEF GoneInv, TypeInv
    <3>2. digest \in Int /\ len[path] \in Int /\ len'[path] \in Int
      BY <1>0, <3>1 DEF TypeInv, TypeOK
    <3> QED  BY <2>1, <3>1, <3>2
  <2> QED  BY <1>0, <2>1, <2>2, <2>3 DEF GoneInv, Deleting
<1>5. CASE OpenMemory \/ Crash
  <2>1. /\ UNCHANGED len /\ db' = view' /\ (view' = view \/ view' = db)
        /\ pc' = "idle"
    BY <1>5 DEF OpenMemory, Crash, Raise
  <2> QED  BY <1>0, <2>1 DEF GoneInv, SoundOrGone, Indexed, Deleting
<1>6. CASE /\ UNCHANGED <<len, db, view>>
           /\ \/ pc' = pc /\ UNCHANGED <<path, digest>>
              \/ pc' \in {"idle", "next"}
  BY <1>0, <1>6 DEF GoneInv, SoundOrGone, Indexed, Deleting
<1>7. ASSUME NEW p \in Paths, GoBad(p) \/ IngestOne(p) PROVE GoneInv'
  BY <1>6, <1>7 DEF GoBad, IngestOne
<1>8. CASE IngestDir \/ Skip \/ IngestRaises \/ NoSession \/ Done \/ UNCHANGED vars
  BY <1>6, <1>8 DEF IngestDir, Skip, IngestRaises, Raise, NoSession, Done, vars
<1> QED  BY <1>1, <1>2, <1>3, <1>4, <1>5, <1>7, <1>8 DEF Next

\* Whatever crashes, the index is never wrong, only short: what it has of a
\* session is one reading of one of its own ledgers and still stands there,
\* with its row; a rebuild that dies loses facts and failures and leaves none
\* that is stale or without an episode (rebuild()).
THEOREM RebuildOnlyLoses == Spec => [](SoundOrGone(db) /\ SoundOrGone(view))
<1>1. GoneInv => SoundOrGone(db) /\ SoundOrGone(view)
  BY DEF GoneInv
<1>2. GoneInv /\ [Next]_vars => GoneInv'
  BY GoneStep
<1> QED  BY <1>1, <1>2, GoneInitial, PTL DEF Spec
=============================================================================
