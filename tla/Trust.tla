------------------------------- MODULE Trust -------------------------------
(***************************************************************************)
(* The trust labels of trust.py: three levels, an order that says which is *)
(* worst, and the comparison with a ceiling.                               *)
(***************************************************************************)
EXTENDS Naturals, FiniteSets

\* "T0" the user, "T1" outside the system, "T2" the system itself.
TrustLevels == {"T0", "T1", "T2"}

\* The sort order for "which of these is worst".
TrustOrder == [T2 |-> 0, T0 |-> 1, T1 |-> 2]

\* What a provider that decides may have read.
ControlSafe == {"T0", "T2"}

\* Level a may reach a reader whose ceiling is level b.
Within(a, b) == TrustOrder[a] <= TrustOrder[b]
=============================================================================
