------------------------------ MODULE Episodic ------------------------------
(***************************************************************************)
(* The episodic index of memory/episodic.py: a database derived from the   *)
(* session ledgers, filled one ledger at a time while the ledgers grow.    *)
(*                                                                         *)
(* The content of a ledger is its length, and its hash is its content: an  *)
(* append-only file is a prefix of every later state of itself.  A table   *)
(* holds, for a session, the length its rows were read from; 0 is no row.  *)
(* `db` is what is committed and `view` what the connection sees; they     *)
(* differ inside a transaction, which sqlite3 opens at the first change    *)
(* and only commit() or executescript() ends.                              *)
(***************************************************************************)
EXTENDS Integers, Sequences, FiniteSets

CONSTANTS
  Paths,      \* the ledger files under the sessions directory
  SessionOf,  \* the session id a ledger's events carry
  PathOrder,  \* the paths, sorted as ingest_dir sorts them
  None,
  Faults,     \* which of FaultKinds the environment commits
  MaxLen      \* bound on the length of a ledger

(***************************************************************************)
(* "crash"          the indexing process dies during an ingest             *)
(* "rebuild_crash"  ... or between two of rebuild's deletes                *)
(* "bad_line"       a ledger holds a line that read_events refuses         *)
(***************************************************************************)
FaultKinds == {"crash", "rebuild_crash", "bad_line"}

Sessions == {SessionOf[p] : p \in Paths}

ASSUME EpisodicAssumption ==
  /\ PathOrder \in Seq(Paths)
  /\ \A p \in Paths : \E k \in DOMAIN PathOrder : PathOrder[k] = p
  /\ SessionOf \in [Paths -> Sessions]
  /\ Faults \subseteq FaultKinds
  /\ MaxLen \in Nat
  /\ None \notin Paths

VARIABLES
  len,    \* the length of each ledger now; 0 is a file without events
  bad,    \* the ledgers with a line that does not parse
  db,     \* the committed tables
  view,   \* the tables as the connection sees them
  pc,     \* "idle", "next", "read", or how far rebuild's deletes have come
  path,   \* the ledger being ingested, or None
  digest, \* _sha256_file of it
  queue,  \* the ledgers ingest_dir has still to do
  asked   \* history: len when ingest_dir was called and nothing has failed
          \* since, else None

job == <<path, digest, queue>>
vars == <<len, bad, db, view, pc, job, asked>>

NoRow == [path |-> None, digest |-> 0]
Rows == [path : Paths \cup {None}, digest : 0 .. MaxLen]
Tables ==
  [episode : [Sessions -> Rows], fact : [Sessions -> 0 .. MaxLen],
   failure : [Sessions -> 0 .. MaxLen]]
Zero == [s \in Sessions |-> 0]
Empty == [episode |-> [s \in Sessions |-> NoRow], fact |-> Zero, failure |-> Zero]

Init ==
  /\ len = [p \in Paths |-> 0]
  /\ bad = {}
  /\ db = Empty /\ view = Empty
  /\ pc = "idle"
  /\ path = None /\ digest = 0 /\ queue = <<>>
  /\ asked = None

----------------------------------------------------------------------------
(* The ledgers, written by running sessions.                               *)

Grow(p) ==
  /\ len[p] < MaxLen /\ p \notin bad
  /\ len' = [len EXCEPT ![p] = @ + 1]
  /\ UNCHANGED <<bad, db, view, pc, job, asked>>

GoBad(p) ==
  /\ "bad_line" \in Faults
  /\ bad' = bad \cup {p}
  /\ UNCHANGED <<len, db, view, pc, job, asked>>

----------------------------------------------------------------------------
(* ingest_ledger and ingest_dir.                                           *)

\* The session whose episode row names this path, as a set.
Known(p) == {s \in Sessions : view.episode[s].path = p}

\* A mutant: _delete_session leaves the failures.
WithoutSessionPartly(t, s) ==
  [t EXCEPT !.episode[s] = NoRow, !.fact[s] = 0]

WithoutSession(t, s) ==
  [episode |-> [t.episode EXCEPT ![s] = NoRow],
   fact    |-> [t.fact EXCEPT ![s] = 0],
   failure |-> [t.failure EXCEPT ![s] = 0]]

\* Mutants: the rows claim an event too many; the hash is taken after the read.
WithSessionLong(t, s, p, hash, n) ==
  [episode |-> [t.episode EXCEPT ![s] = [path |-> p, digest |-> hash]],
   fact    |-> [t.fact EXCEPT ![s] = n + 1],
   failure |-> [t.failure EXCEPT ![s] = n + 1]]

WithSessionLateHash(t, s, p, hash, n) ==
  [episode |-> [t.episode EXCEPT ![s] = [path |-> p, digest |-> n]],
   fact    |-> [t.fact EXCEPT ![s] = hash],
   failure |-> [t.failure EXCEPT ![s] = hash]]

WithSession(t, s, p, hash, n) ==
  [episode |-> [t.episode EXCEPT ![s] = [path |-> p, digest |-> hash]],
   fact    |-> [t.fact EXCEPT ![s] = n],
   failure |-> [t.failure EXCEPT ![s] = n]]

\* An exception leaves the call; the transaction stays open on the connection.
Raise ==
  /\ pc' = "idle"
  /\ path' = None /\ digest' = 0 /\ queue' = <<>>
  /\ asked' = None

IngestOne(p) ==
  /\ pc = "idle"
  /\ pc' = "next"
  /\ queue' = <<p>>
  /\ asked' = None
  /\ UNCHANGED <<len, bad, db, view, path, digest>>

IngestDir ==
  /\ pc = "idle"
  /\ pc' = "next"
  /\ queue' = PathOrder
  /\ asked' = len
  /\ UNCHANGED <<len, bad, db, view, path, digest>>

\* A mutant: a ledger that was read once is never read again.
UpToDateOnce(p) == Known(p) # {}

\* The hash is the one on record; a bad line changes it.
UpToDate(p) == p \notin bad /\ \E s \in Known(p) : view.episode[s].digest = len[p]

Skip ==
  /\ pc = "next" /\ queue # <<>>
  /\ UpToDate(Head(queue))
  /\ queue' = Tail(queue)
  /\ UNCHANGED <<len, bad, db, view, pc, path, digest, asked>>

\* A mutant: the delete is committed before the ledger is read.
DropCommitted(p) ==
  /\ view' = IF Known(p) = {} THEN view
              ELSE WithoutSession(view, CHOOSE s \in Known(p) : TRUE)
  /\ db' = view'

\* fetchone() takes one of the rows; there is at most one.
Drop(p) ==
  /\ view' = IF Known(p) = {} THEN view
              ELSE WithoutSession(view, CHOOSE s \in Known(p) : TRUE)
  /\ UNCHANGED db

\* The hash is new: the session that was read from this path goes.
Hash ==
  /\ pc = "next" /\ queue # <<>>
  /\ LET p == Head(queue)
     IN  /\ ~UpToDate(p)
         /\ path' = p
         /\ digest' = len[p]
         /\ Drop(p)
  /\ queue' = Tail(queue)
  /\ pc' = "read"
  /\ UNCHANGED <<len, bad, asked>>

\* A line does not parse, or the session has a row from another path and the
\* INSERT breaks its key.
IngestRaises ==
  /\ pc = "read"
  /\ \/ path \in bad
     \/ len[path] > 0 /\ view.episode[SessionOf[path]] # NoRow
  /\ Raise
  /\ UNCHANGED <<len, bad, db, view>>

\* A file without events has no session: None, and no commit.
NoSession ==
  /\ pc = "read"
  /\ path \notin bad /\ len[path] = 0
  /\ pc' = "next"
  /\ path' = None /\ digest' = 0
  /\ UNCHANGED <<len, bad, db, view, queue, asked>>

\* The whole file as it is by now, written and committed.
Write ==
  /\ pc = "read"
  /\ path \notin bad /\ len[path] > 0
  /\ view.episode[SessionOf[path]] = NoRow
  /\ view' = WithSession(view, SessionOf[path], path, digest, len[path])
  /\ db' = view'
  /\ pc' = "next"
  /\ path' = None /\ digest' = 0
  /\ UNCHANGED <<len, bad, queue, asked>>

Done ==
  /\ pc = "next" /\ queue = <<>>
  /\ pc' = "idle"
  /\ UNCHANGED <<len, bad, db, view, job, asked>>

----------------------------------------------------------------------------
(* rebuild: executescript commits what is pending and then runs each       *)
(* delete in a transaction of its own; then the directory is ingested.     *)

Rebuild ==
  /\ pc = "idle"
  /\ view' = [view EXCEPT !.failure = Zero]
  /\ db' = view'
  /\ pc' = "no_failure"
  /\ asked' = None
  /\ UNCHANGED <<len, bad, job>>

RebuildFacts ==
  /\ pc = "no_failure"
  /\ view' = [view EXCEPT !.fact = Zero]
  /\ db' = view'
  /\ pc' = "no_fact"
  /\ UNCHANGED <<len, bad, job, asked>>

RebuildEpisodes ==
  /\ pc = "no_fact"
  /\ view' = Empty
  /\ db' = view'
  /\ pc' = "next"
  /\ queue' = PathOrder
  /\ asked' = len
  /\ UNCHANGED <<len, bad, path, digest>>

\* FailureMemory or CostModel on the same connection: its executescript
\* commits whatever a raised ingest left pending.
OpenMemory ==
  /\ pc = "idle"
  /\ db # view
  /\ db' = view
  /\ UNCHANGED <<len, bad, view, pc, job, asked>>

Rebuilding == pc \in {"no_failure", "no_fact"}

\* The process dies; the next one opens the committed tables.
Crash ==
  /\ IF Rebuilding THEN "rebuild_crash" \in Faults ELSE "crash" \in Faults
  /\ Raise
  /\ view' = db
  /\ UNCHANGED <<len, bad, db>>

Next ==
  \/ \E p \in Paths : Grow(p) \/ GoBad(p) \/ IngestOne(p)
  \/ IngestDir
  \/ Skip \/ Hash \/ IngestRaises \/ NoSession \/ Write \/ Done
  \/ OpenMemory
  \/ Rebuild \/ RebuildFacts \/ RebuildEpisodes
  \/ Crash

Spec == Init /\ [][Next]_vars

----------------------------------------------------------------------------
(* Type correctness of the files, the tables and the job.                  *)
TypeOK ==
  /\ len \in [Paths -> 0 .. MaxLen]
  /\ bad \subseteq Paths
  /\ db \in Tables /\ view \in Tables
  /\ pc \in {"idle", "next", "read", "no_failure", "no_fact"}
  /\ path \in Paths \cup {None}
  /\ digest \in 0 .. MaxLen
  /\ queue \in Seq(Paths)
  /\ asked \in [Paths -> 0 .. MaxLen] \cup {None}

Indexed(t, s) == t.episode[s] # NoRow

\* What is committed is never half a session: an episode row, its facts and
\* its failures come from one reading of one ledger, or there are none of
\* them, wherever an ingest was interrupted (ingest_ledger()).
SessionsWhole ==
  ~Rebuilding =>
    \A s \in Sessions :
      /\ db.fact[s] = db.failure[s]
      /\ Indexed(db, s) <=> db.fact[s] > 0

\* The hash on record is never ahead of the rows: it is taken before the read,
\* so a ledger that grew in between is read again and no event stays out of
\* the index for ever.
DigestNotAhead ==
  ~Rebuilding =>
    \A s \in Sessions : Indexed(db, s) =>
      /\ db.episode[s].digest <= db.fact[s]
      /\ db.fact[s] <= len[db.episode[s].path]
      /\ SessionOf[db.episode[s].path] = s

\* When ingest_dir returns, every event that was in a ledger when it was
\* called is in the index: a rebuild gives at least what an incremental
\* ingest gives and the other way round ("must give the same result").
IngestComplete ==
  pc = "idle" /\ asked # None =>
    \A p \in Paths : asked[p] <= db.fact[SessionOf[p]] /\ asked[p] <= db.failure[SessionOf[p]]

\* An ingest moves a session's rows forward or leaves them: events leave the
\* committed index only in a rebuild, or when a ledger of the session cannot
\* be read any more (the delete of a raised ingest_ledger() stays pending and
\* the next commit takes it along).
IngestKeeps ==
  [][\A s \in Sessions : db'.fact[s] < db.fact[s] =>
       pc = "no_failure" \/ \E p \in bad : SessionOf[p] = s]_vars
=============================================================================
