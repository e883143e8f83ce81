------------------------------- MODULE Scope -------------------------------
(***************************************************************************)
(* The scope of one load (adapters/base.py): what was registered is undone *)
(* in reverse, every undo is attempted, failures are reported at the end.  *)
(***************************************************************************)
EXTENDS Sequences, SequencesExt

VARIABLES
  undos,    \* _undos: the labels still registered
  failed,   \* unwind's list of failures
  tried     \* history: the labels whose undo was attempted, in order

scope == <<undos, failed, tried>>

NewScope == undos' = <<>> /\ failed' = <<>> /\ tried' = <<>>

Register(label) == undos' = Append(undos, label) /\ UNCHANGED <<failed, tried>>

\* A mutant: the undos run in the order of registration.
UndoFirst(raises) ==
  /\ undos # <<>>
  /\ undos' = Tail(undos)
  /\ tried' = Append(tried, Head(undos))
  /\ failed' = IF raises THEN Append(failed, Head(undos)) ELSE failed

\* One turn of the loop in unwind.  An undo that raises does not end it.
Undo(raises) ==
  /\ undos # <<>>
  /\ undos' = Front(undos)
  /\ tried' = Append(tried, Last(undos))
  /\ failed' = IF raises THEN Append(failed, Last(undos)) ELSE failed

\* The loop ends when nothing is left, and not before.
Unwound == undos = <<>>
=============================================================================
