----------------------------- MODULE MCRuntime -----------------------------
(***************************************************************************)
(* A small installation for TLC: two tools as in tools.py, two readers of  *)
(* log output (a parser and a model), one of any output that reads T2 only *)
(* (the disk tool's), and an answer provider.                              *)
(***************************************************************************)
EXTENDS Recall, TLC

MCTools ==
  [read_log  |-> [trust |-> "T1", reducer |-> "extract@1", schema |-> "log",
                  mime |-> "text/plain"],
   read_disk |-> [trust |-> "T2", reducer |-> "extract@1", schema |-> "disk",
                  mime |-> "text/plain"]]

Scalar(level) == [default |-> level, listed |-> <<>>]

Reader(kind, produces, ceiling, order) ==
  [kind |-> kind, implements |-> {"extract@1"}, produces |-> produces,
   modality |-> {"text/plain"}, ceiling |-> ceiling, control |-> {}, order |-> order]

MCManifest ==
  [parser |-> Reader("code", {"log"}, Scalar("T1"), 1),
   model  |-> Reader("gguf", {"log"}, Scalar("T1"), 2),
   df     |-> Reader("code", {}, Scalar("T2"), 3),
   teller |-> [kind |-> "code", implements |-> {"answer@1"}, produces |-> {},
               modality |-> {}, ceiling |-> [default |-> "T2", listed |-> <<>>],
               control |-> {}, order |-> 4]]

\* The disk tool's reader takes up to T0 instead.
MCManifestT0 == [MCManifest EXCEPT !.df.ceiling = Scalar("T0")]

MCProviders == DOMAIN MCManifest

\* The model is measured as slow; the parsers have never run.
MCRows == <<"model", None>> :> [p90 |-> 2, rate |-> 90]

S(id, tool) == [id |-> id, tool |-> tool]

\* The ids are reused with tools of another trust level.
SinglePlans == {<<S("s1", "read_log")>>, <<S("s1", "read_disk")>>, <<S("s2", "read_disk")>>}
SwapPlans == {<<S("s1", "read_log")>>, <<S("s1", "read_disk")>>,
              <<S("s2", "read_log"), S("s1", "read_disk")>>}

\* One plan that fits the breaker, one longer, and one with an unknown tool.
LongPlans == {<<S("s1", "read_log"), S("s2", "read_disk")>>,
              <<S("s1", "read_log"), S("s2", "read_disk"), S("s3", "read_log")>>,
              <<S("s1", "ghost"), S("s2", "read_log"), S("s3", "read_disk")>>}
=============================================================================
