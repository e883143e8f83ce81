--------------------------- MODULE MCMeasurements ---------------------------
(***************************************************************************)
(* Two models and two schemas for TLC.  One history is empty; in the other *)
(* the small model has one slow call in nine, a sample where the slowest   *)
(* call stops being the p90 with the next one.                             *)
(***************************************************************************)
EXTENDS Measurements, TLC

Model(order) ==
  [kind |-> "gguf", implements |-> {"extract@1"}, produces |-> {}, modality |-> {},
   ceiling |-> [default |-> "T1", listed |-> <<>>], control |-> {}, order |-> order]

MCManifest == [small |-> Model(1), large |-> Model(2)]

MCRequests ==
  {[cap |-> "extract@1", schema |-> s, trust |-> "T1", mime |-> "text/plain"] :
     s \in {"log", "disk"}}

Made(p, s, ending, took, n) ==
  [provider |-> p, schema |-> s, ending |-> ending, took |-> took] :> n

Out(ending, took) == [ending |-> ending, took |-> took]

MCOutcomes == {Out("fact", 1), Out("fact", 3), Out("refused", 1), Out("raised", 3),
               Out("rejected", 1)}

MCHistories ==
  {EmptyBag,
   Made("small", "log", "fact", 1, 8) (+) Made("small", "log", "fact", 3, 1)}
=============================================================================
