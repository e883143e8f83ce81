------------------------------- MODULE Prompt -------------------------------
(***************************************************************************)
(* The instruction record that a gguf provider is prompted with            *)
(* (prompt.py).  Of its prose only the tokens <<name>> are kept, in order; *)
(* a parameter is known by its name, because the adapter renders with no   *)
(* values and never comes to the type or trust of one.                     *)
(***************************************************************************)
EXTENDS Sequences, FiniteSets, Functions

CONSTANT Rules  \* the gguf adapter's schemas: id -> [properties, required]

\* [schema, covers, parameters, prose]
Uses(i) == Range(i.prose)

Placed(i) == {k \in DOMAIN i.prose : i.prose[k] = "schema"}

\* A mutant: the fields are compared, the schema they belong to is not.
AuditNameless(i, id) ==
  /\ i.covers \subseteq Rules[id].properties
  /\ Rules[id].required \subseteq i.covers
  /\ Cardinality(Placed(i)) = 1
  /\ Uses(i) \ {"schema"} \subseteq i.parameters
  /\ i.parameters \subseteq Uses(i)

\* audit finds no problem with prompting for the schema.
Audit(i, id) ==
  /\ i.schema = id
  /\ i.covers \subseteq Rules[id].properties
  /\ Rules[id].required \subseteq i.covers
  /\ Cardinality(Placed(i)) = 1
  /\ Uses(i) \ {"schema"} \subseteq i.parameters
  /\ i.parameters \subseteq Uses(i)

\* render() with no values: a parameter is an InstructionError, any token but
\* <<schema>> a KeyError.
Renders(i) == i.parameters = {} /\ Uses(i) \subseteq {"schema"}

\* What it gives: the tokens with the rules of the schema put in.
Render(i, id) ==
  [k \in DOMAIN i.prose |-> IF i.prose[k] = "schema" THEN <<id>> ELSE i.prose[k]]
=============================================================================
