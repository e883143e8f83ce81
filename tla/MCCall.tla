------------------------------- MODULE MCCall -------------------------------
(***************************************************************************)
(* A small installation for TLC.  The schema "log" has two fields: a count *)
(* that is checked against a second path, and a host that may be null and  *)
(* must be in the input.  A parser and a model read a log; one version of  *)
(* the model also routes, another one only routes and says of nothing what *)
(* it produces.                                                            *)
(***************************************************************************)
EXTENDS Call

MCSchema ==
  [properties |-> {"count", "host"}, required |-> {"count"}, nullable |-> {"host"},
   checked |-> {"count"}, spans |-> {"host"}, closed |-> TRUE, text |-> TRUE]

MCRecords ==
  {NotAnObject} \cup UNION {[names -> Values] : names \in SUBSET {"count", "host"}}
  \cup {[n \in {"count", "other"} |-> "true"]}

\* The adapter has a second schema with the same fields.
Fields == [properties |-> {"count", "host"}, required |-> {"count"}]
MCRules == [log |-> Fields, old |-> Fields]

Prose(schema, covers, parameters, prose) ==
  [schema |-> schema, covers |-> covers, parameters |-> parameters, prose |-> prose]

\* Prompts that fit "log", that are for its older version, that leave a field
\* out, that lack the schema or a parameter's declaration, and one with a
\* parameter.
LogPrompt == Prose("log", {"count", "host"}, {}, <<"schema">>)

SitePrompt == Prose("log", {"count"}, {"site"}, <<"schema", "site">>)

MCPrompts ==
  {LogPrompt, SitePrompt,
   Prose("old", {"count", "host"}, {}, <<"schema">>),
   Prose("log", {"host"}, {}, <<"schema">>),
   Prose("log", {"count"}, {}, <<>>),
   Prose("log", {"count"}, {}, <<"schema", "site">>)}

Intent(id, kind, implements, produces, ceiling, control, pin, order) ==
  [id |-> id, kind |-> kind, implements |-> implements, produces |-> produces,
   ceiling |-> ceiling, control |-> control, pin |-> pin, stray |-> FALSE, order |-> order]

Parser == Intent("parser", "code", {"extract"}, {"log"}, None, None, None, 1)

Model ==
  Intent("model", "gguf", {"extract", "route"}, {"log"},
         [extract |-> "T1", route |-> "T0"], {"route"}, None, 2)

Router == Intent("model", "gguf", {"route"}, {}, [every |-> "T0"], {Every}, SitePrompt, 2)

MCIntents == {Parser, Model, Router}

MCDeclarations == {<<"extract", FALSE>>, <<"route", TRUE>>, <<"route", FALSE>>}

\* The model on the slow machine, and the router with the parser on the fast.
Installed(manifests, adapterKinds) ==
  [capabilities |-> [extract |-> FALSE, route |-> TRUE], adapters |-> adapterKinds,
   providers |-> [p \in {m.id : m \in manifests} |-> CHOOSE m \in manifests : m.id = p]]

MCServed ==
  {<<"slow", Installed({Model}, {"gguf"})>>, <<"fast", Installed({Router, Parser}, Kinds)>>}

Request(cap, schema, trust) ==
  [cap |-> cap, schema |-> schema, trust |-> trust, mime |-> "text/plain",
   exclude |-> {}, floor |-> None, ms |-> None]

\* The last asks for a schema that the gguf adapter does not have.
MCRequests ==
  {Request(cap, "log", trust) : cap \in {"extract", "route"}, trust \in {"T0", "T1"}}
  \cup {Request("extract", "old", "T2"), Request("route", "disk", "T2")}

\* On the fast machine the model is measured, on the other nothing is.
MCSnapshot ==
  [slow |-> <<>>,
   fast |-> [k \in {<<"model", None>>} |-> [p90 |-> 1, rate |-> None]]]
=============================================================================
