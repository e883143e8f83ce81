---------------------------- MODULE TaskContract ----------------------------
(***************************************************************************)
(* What Runtime.run promises its caller, with none of the machinery: the   *)
(* steps of a plan are settled one at a time and in plan order, each       *)
(* either as a committed fact or as missing and never again; the run may   *)
(* be cut short, and then the step it was cut at is missing; and it ends   *)
(* in one outcome that agrees with what was settled.                       *)
(***************************************************************************)
EXTENDS Naturals, Sequences, FiniteSets

CONSTANTS None, Plans

VARIABLES
  phase,      \* "idle" before a run and after it, "running" in between
  todo,       \* the plan's step ids that are not settled, in plan order
  committed,  \* the steps settled with a fact
  missing,    \* the steps settled without one
  cut,        \* was the run stopped before the end of its plan
  outcome     \* what the caller was given, None before that

vars == <<phase, todo, committed, missing, cut, outcome>>

Init ==
  /\ phase = "idle"
  /\ todo = <<>>
  /\ committed = {} /\ missing = {}
  /\ cut = FALSE
  /\ outcome = None

Begin ==
  /\ phase = "idle"
  /\ phase' = "running"
  /\ \E plan \in Plans : todo' = [k \in DOMAIN plan |-> plan[k].id]
  /\ committed' = {} /\ missing' = {}
  /\ cut' = FALSE
  /\ outcome' = None

\* The next step leaves the list: with a fact, without one, or as the place
\* where the run was cut.
Commit ==
  /\ phase = "running" /\ ~cut /\ todo # <<>>
  /\ committed' = committed \cup {Head(todo)}
  /\ todo' = Tail(todo)
  /\ UNCHANGED <<phase, missing, cut, outcome>>

Miss ==
  /\ phase = "running" /\ ~cut /\ todo # <<>>
  /\ missing' = missing \cup {Head(todo)}
  /\ todo' = Tail(todo)
  /\ cut' \in BOOLEAN
  /\ UNCHANGED <<phase, committed, outcome>>

Return(status) ==
  /\ phase = "running"
  /\ todo = <<>> \/ cut
  /\ status = "answered" => missing = {}
  /\ status = "partial" => missing # {}
  /\ phase' = "idle"
  /\ outcome' = [status |-> status, missing |-> missing]
  /\ UNCHANGED <<todo, committed, missing, cut>>

\* An exception leaves run(), or the process dies: no outcome is delivered
\* and what the run held in memory is gone.
Abandon ==
  /\ phase' = "idle"
  /\ todo' = <<>>
  /\ committed' = {} /\ missing' = {}
  /\ cut' = FALSE
  /\ outcome' = None

Next ==
  \/ Begin
  \/ Commit
  \/ Miss
  \/ \E status \in {"answered", "partial", "declined"} : Return(status)
  \/ Abandon

Spec == Init /\ [][Next]_vars
=============================================================================
