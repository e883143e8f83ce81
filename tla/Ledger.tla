------------------------------- MODULE Ledger -------------------------------
(***************************************************************************)
(* The event file of ledger.py: one handle that appends, the operating     *)
(* system's copy of the file, and the part of it that a power loss cannot  *)
(* take back.  append() is write, flush, fsync, then `_seq += 1`; each can *)
(* fail or be the last thing the process does, and Ledger(dir) is what     *)
(* picks the file up again.                                                *)
(***************************************************************************)
EXTENDS Integers, Sequences, FiniteSets

CONSTANTS
  Types,     \* the event types a caller appends, "composition" among them
  Faults,    \* which of FaultKinds the environment commits
  MaxLines   \* bound on the lines of the file and of the buffer together

(***************************************************************************)
(* "death"        the process ends without close()                         *)
(* "power_loss"   the machine stops: what was not synced may be gone       *)
(* "torn"         a line can be on disk in part when one of these happens  *)
(* "flush_error"  the write() behind flush() fails, the buffer keeps it    *)
(* "fsync_error"  fsync() raises                                           *)
(***************************************************************************)
FaultKinds == {"death", "power_loss", "torn", "flush_error", "fsync_error"}

ASSUME LedgerAssumption ==
  /\ "composition" \in Types
  /\ Faults \subseteq FaultKinds
  /\ MaxLines \in Nat

VARIABLES
  file,     \* the lines of events.jsonl as any reader sees them now
  durable,  \* how many of them are synced
  buf,      \* lines in the handle's buffer
  seq,      \* Ledger._seq
  mode,     \* "closed"; "open"; "flushed": append() between flush and fsync
  acked,    \* history: the events whose append() returned, and their place
  failed    \* history: some append() has raised after its write()

vars == <<file, durable, buf, seq, mode, acked, failed>>

\* What is left of a torn line has no newline: "bare" lacks nothing else, a
\* "garbage" line does not parse.  A "broken" line ends, and does not parse.
Forms == {"whole", "bare", "garbage", "broken"}
Torn == {"bare", "garbage"}
Line(n, type) == [seq |-> n, type |-> type, form |-> "whole"]
Lines == [seq : Nat, type : Types, form : Forms]
Acks == [seq : Nat, type : Types, place : Nat]

Synced == SubSeq(file, 1, durable)

\* read_events: one bad line stops the read.
Readable(line) == line.form \in {"whole", "bare"}
Parses == \A i \in DOMAIN file : Readable(file[i])

\* A mutant: the file is opened with "w".
JoinTruncates(lines, more) == more

\* Appended text continues a last line that has no newline.
Join(lines, more) ==
  IF lines # <<>> /\ more # <<>> /\ lines[Len(lines)].form \in Torn
  THEN [lines EXCEPT ![Len(lines)].form = "broken"] \o Tail(more)
  ELSE lines \o more

Init ==
  /\ file = <<>> /\ durable = 0
  /\ buf = <<>> /\ seq = 0
  /\ mode = "closed"
  /\ acked = <<>> /\ failed = FALSE

\* Mutants: _resume without the + 1, and a count that starts anew.
NextSeqShort ==
  IF file = <<>> THEN -1
  ELSE CHOOSE n \in {file[i].seq : i \in DOMAIN file} :
         \A i \in DOMAIN file : file[i].seq <= n
NextSeqAnew == 0

\* _resume: the highest seq in the file, plus one.
NextSeq ==
  IF file = <<>> THEN 0
  ELSE 1 + (CHOOSE n \in {file[i].seq : i \in DOMAIN file} :
              \A i \in DOMAIN file : file[i].seq <= n)

Open ==
  /\ mode = "closed"
  /\ Parses
  /\ seq' = NextSeq
  /\ mode' = "open"
  /\ UNCHANGED <<file, durable, buf, acked, failed>>

\* A mutant: event 0 may be anything.
MayAppendAny(type) == type \in Types

MayAppend(type) == seq = 0 => type = "composition"

\* write() and flush(): the lines leave the buffer for the file.
Flush(type) ==
  /\ mode = "open"
  /\ Len(file) + Len(buf) < MaxLines
  /\ MayAppend(type)
  /\ file' = Join(file, Append(buf, Line(seq, type)))
  /\ buf' = <<>>
  /\ mode' = "flushed"
  /\ UNCHANGED <<durable, seq, acked, failed>>

\* write() reaches the buffer and flush() raises.
FlushFails(type) ==
  /\ "flush_error" \in Faults
  /\ mode = "open"
  /\ Len(file) + Len(buf) < MaxLines
  /\ MayAppend(type)
  /\ buf' = Append(buf, Line(seq, type))
  /\ failed' = TRUE
  /\ UNCHANGED <<file, durable, seq, mode, acked>>

\* A mutant: append() returns without fsync.
FsyncSkipped == durable' = durable

Fsync == durable' = Len(file)

\* fsync(), the increment, and the return of the sequence number.
Sync ==
  /\ mode = "flushed"
  /\ Fsync
  /\ seq' = seq + 1
  /\ acked' = Append(acked, [seq |-> seq, type |-> file[Len(file)].type,
                             place |-> Len(file)])
  /\ mode' = "open"
  /\ UNCHANGED <<file, buf, failed>>

\* append() raises after its line is in the file.
SyncFails ==
  /\ "fsync_error" \in Faults
  /\ mode = "flushed"
  /\ mode' = "open"
  /\ failed' = TRUE
  /\ UNCHANGED <<file, durable, buf, seq, acked>>

\* close() flushes what the buffer still holds and syncs nothing.
Close ==
  /\ mode = "open"
  /\ file' = Join(file, buf)
  /\ buf' = <<>>
  /\ mode' = "closed"
  /\ UNCHANGED <<durable, seq, acked, failed>>

\* A part of line l, when lines can tear.
Pieces(l) ==
  IF "torn" \in Faults
  THEN {<<>>} \cup {<<[l EXCEPT !.form = f]>> : f \in Torn}
  ELSE {<<>>}

\* The operating system keeps what it was given; the buffer is gone, but a
\* failed flush may have put a part of it into the file.
Death ==
  /\ "death" \in Faults
  /\ mode # "closed"
  /\ \E piece \in IF buf = <<>> THEN {<<>>} ELSE Pieces(buf[1]) :
       file' = Join(file, piece)
  /\ buf' = <<>>
  /\ mode' = "closed"
  /\ UNCHANGED <<durable, seq, acked, failed>>

\* Any part of what was not synced is lost, from the end; what is found
\* after the restart stays.
PowerLoss ==
  /\ "power_loss" \in Faults
  /\ \E n \in durable .. Len(file) :
       \E piece \in IF n = Len(file) THEN {<<>>} ELSE Pieces(file[n + 1]) :
         file' = SubSeq(file, 1, n) \o piece
  /\ durable' = Len(file')
  /\ buf' = <<>>
  /\ mode' = "closed"
  /\ UNCHANGED <<seq, acked, failed>>

Next ==
  \/ Open
  \/ \E type \in Types : Flush(type) \/ FlushFails(type)
  \/ Sync \/ SyncFails
  \/ Close \/ Death \/ PowerLoss

Spec == Init /\ [][Next]_vars

----------------------------------------------------------------------------
(* Type correctness of the file, the handle and the history.               *)
TypeOK ==
  /\ file \in Seq(Lines)
  /\ durable \in 0 .. Len(file)
  /\ buf \in Seq(Lines)
  /\ seq \in Nat
  /\ mode \in {"closed", "open", "flushed"}
  /\ acked \in Seq(Acks)
  /\ failed \in BOOLEAN

\* An event whose append() returned is on disk, whole and at the place it was
\* acknowledged at, whatever failed or stopped since: "a power loss costs
\* nothing more than the step in progress" (append()).
AckedSurvives ==
  \A k \in DOMAIN acked :
    /\ acked[k].place \in 1 .. durable
    /\ file[acked[k].place] = Line(acked[k].seq, acked[k].type)

\* No two acknowledged events share a sequence number, and later ones have
\* higher numbers and later places, across failed appends and resumptions
\* (_seq and _resume()).
AckedInOrder ==
  \A k, l \in DOMAIN acked :
    k < l => acked[k].seq < acked[l].seq /\ acked[k].place < acked[l].place

\* As long as no append() has raised, an event's number is its place in the
\* file, with crashes and resumptions in between: what "stop at event n" and
\* the ingest's (session, seq) key rely on.
SeqIsPlace ==
  ~failed =>
    /\ \A i \in DOMAIN file : file[i].seq = i - 1
    /\ mode = "open" => seq = Len(file)

\* Event 0 is the composition, of the file as it is and of what is buffered.
CompositionFirst ==
  /\ file # <<>> => file[1].type = "composition"
  /\ file = <<>> /\ buf # <<>> => buf[1].type = "composition"

IsPrefixOf(s, t) == Len(s) <= Len(t) /\ s = SubSeq(t, 1, Len(s))

\* What is synced stays as it is: the durable part of the file only grows.
DurableGrows == [][IsPrefixOf(Synced, Synced')]_vars

\* "Continue after a crash": a file that was left behind can be read again.
Resumable == mode = "closed" => Parses
=============================================================================
