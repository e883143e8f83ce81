----------------------------- MODULE MCEpisodic -----------------------------
(***************************************************************************)
(* Ledgers for TLC: "a" and "b" are two sessions, "c" is a second file of  *)
(* the first session, such as a copy of its directory.                     *)
(***************************************************************************)
EXTENDS Episodic

MCSessionOf == [p \in Paths |-> IF p = "b" THEN "sb" ELSE "sa"]
MCPathOrder == SelectSeq(<<"a", "b", "c">>, LAMBDA p : p \in Paths)
=============================================================================
