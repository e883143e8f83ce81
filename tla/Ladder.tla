------------------------------- MODULE Ladder -------------------------------
(***************************************************************************)
(* The validation ladder (validate.py).  Of a value only what the rungs    *)
(* tell apart is kept:                                                     *)
(*   "null"      JSON null                                                 *)
(*   "mistyped"  of another type, or not in the enum                       *)
(*   "outside"   well typed, outside the range or length the schema gives  *)
(*   "invented"  in range; the second path, or the input text, disagrees   *)
(*   "true"      in range, and nothing disagrees                           *)
(* A record is a function from field names to values, or NotAnObject (the  *)
(* schema asks for an object); a node below is a field named by its path.  *)
(***************************************************************************)
EXTENDS Naturals, FiniteSets

CONSTANTS
  NotAnObject,
  Schema   \* [properties, required, nullable, checked, spans : sets of names,
           \*  closed, text : BOOLEAN]; `text` says if the input is text

Values == {"null", "mistyped", "outside", "invented", "true"}

ASSUME SchemaAssumption ==
  /\ Schema.nullable \subseteq Schema.properties
  /\ \A f \in {"closed", "text"} : Schema[f] \in BOOLEAN

Fail(level, path) == [level |-> level, path |-> path]

\* Level 2: the type, what is missing, what does not belong.
Mistyped(record) ==
  {n \in DOMAIN record \cap Schema.properties :
     record[n] = "mistyped" \/ (record[n] = "null" /\ n \notin Schema.nullable)}

SchemaFailures(record) ==
  {Fail(2, n) : n \in Mistyped(record) \cup (Schema.required \ DOMAIN record)
                 \cup (IF Schema.closed THEN DOMAIN record \ Schema.properties ELSE {})}

\* Level 3: only of a value whose type is right.
RangeFailures(record) ==
  {Fail(3, n) : n \in {m \in DOMAIN record \cap Schema.properties : record[m] = "outside"}}

Lowest(failures) ==
  {f \in failures : \A g \in failures : f.level <= g.level}

\* Schema.check: both levels in one pass, the lower reported.
Check(record) ==
  IF record = NotAnObject THEN {Fail(2, "root")}
  ELSE Lowest(SchemaFailures(record) \cup RangeFailures(record))

\* CrossChecks.run: a null is an abstention and is not compared, and a span
\* is asked of a text alone.
CrossFailures(record) ==
  {Fail(4, n) : n \in {m \in DOMAIN record \cap (Schema.checked \cup Schema.spans) :
                         record[m] = "invented"}}

\* A mutant: the cross-checks come first.
VerdictCrossFirst(record) ==
  IF record # NotAnObject /\ Schema.text /\ CrossFailures(record) # {}
  THEN CrossFailures(record) ELSE Check(record)

\* ladder: level 4 only of what passed the levels below, and only against
\* a text.
Verdict(record) ==
  CASE Check(record) # {} -> Check(record)
    [] Check(record) = {} /\ record # NotAnObject /\ Schema.text -> CrossFailures(record)
    [] OTHER -> {}

\* Result.level and Result.kind.
Level(failures) ==
  CHOOSE l \in {f.level : f \in failures} : \A f \in failures : l <= f.level

Kind(failures) ==
  CASE Level(failures) = 2 -> "schema"
    [] Level(failures) = 3 -> "range"
    [] Level(failures) = 4 -> "crosscheck"
=============================================================================
