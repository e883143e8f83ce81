----------------------------- MODULE HookChain -----------------------------
(***************************************************************************)
(* The waterfall at one hook point (Hooks.run).  Listener k runs in frame  *)
(* k on the stack; it may pass control on with next(), return a value, or  *)
(* raise; and, being code, catch what next() raises.                       *)
(***************************************************************************)
EXTENDS Naturals, Sequences

CONSTANTS
  Count,   \* the number of listeners at the point
  Running  \* no result yet

Raises == {"rejected", "error"}  \* Rejected; HookError or anything else

ASSUME CountAssumption == Count \in Nat
ASSUME RunningAssumption == Running \notin Raises \cup {"value"}

VARIABLES
  depth,   \* the frames on the stack, 0 when run() is not under way
  called,  \* the frames whose listener has called next()
  ran,     \* history: the listeners that were called, in order
  result   \* what run() ends with: "value", a member of Raises, or Running

chain == <<depth, called, ran, result>>

\* Behind run(): its locals are gone.
Forget == depth' = 0 /\ called' = {} /\ ran' = <<>> /\ result' = Running

Start ==
  /\ depth = 0
  /\ called' = {}
  /\ IF Count = 0
     THEN depth' = 0 /\ ran' = <<>> /\ result' = "value"
     ELSE depth' = 1 /\ ran' = <<1>> /\ result' = Running

\* A mutant: next() may be called again.
FreeAlways == depth > 0

\* The listener in the top frame has not called next() yet.
Free == depth > 0 /\ depth \notin called

\* next(): the listener behind this one is called; behind the last there is
\* nobody and next() gives the value back.
CallNext ==
  /\ Free
  /\ called' = called \cup {depth}
  /\ depth' = IF depth < Count THEN depth + 1 ELSE depth
  /\ ran' = IF depth < Count THEN Append(ran, depth + 1) ELSE ran
  /\ UNCHANGED result

\* A mutant: whichever listener returns ends the chain.
ReturnAll ==
  /\ depth > 0
  /\ depth' = depth - 1
  /\ result' = "value"
  /\ UNCHANGED <<called, ran>>

\* The listener returns, with or without having called next().
Return ==
  /\ depth > 0
  /\ depth' = depth - 1
  /\ result' = IF depth = 1 THEN "value" ELSE Running
  /\ UNCHANGED <<called, ran>>

\* An exception leaves the listener; the listener in frame `to`, which waits
\* in its next(), catches it, or nobody does (0).  A second next() is one way
\* to raise "error".
Raise(kind, to) ==
  /\ to < depth
  /\ depth' = to
  /\ result' = IF to = 0 THEN kind ELSE Running
  /\ UNCHANGED <<called, ran>>

\* Each listener is called at most once per phase and in the order of
\* registration, and none before everybody in front of it has passed control
\* on, whatever the listeners return, raise or catch (Hooks.run).
OnceInOrder ==
  /\ \A k \in DOMAIN ran : ran[k] = k
  /\ \A k \in 2 .. Len(ran) : k - 1 \in called
=============================================================================
