-------------------------------- MODULE Call --------------------------------
(***************************************************************************)
(* One provider call in the small: Runtime._call with the adapter's load,  *)
(* run and unload and their scope, the confidence floor, the ladder, and   *)
(* the on_commit listeners; and timed_probe, the other user of adapters.   *)
(* Runtime takes all this as one step with a free outcome.  The provider   *)
(* is one that the installation of Registry chooses.                       *)
(***************************************************************************)
EXTENDS Registry, Prompt, Ladder, Scope, HookChain

CONSTANTS
  Prompts,    \* the instructions that a prompt file may hold
  MaxTaken,   \* bound on what one load takes (both adapters here take one)
  Records,    \* what a provider may answer
  ProbeRuns,  \* timed_probe's `runs`
  MaxCalls,   \* bound on calls and probes
  MaxSwaps,   \* bound on how often the weights file is replaced
  Served      \* bound: the calls are made over these installations

ASSUME CallAssumption ==
  /\ Kinds \subseteq {"code", "gguf"}
  /\ NotAnObject \in Records
  /\ ProbeRuns \in Nat \ {0}
  /\ None \notin {"semantic", "schema", "range", "crosscheck"}
  /\ \A i \in Prompts : i.prose \in Seq(STRING)

Ending(type, kind) == [type |-> type, kind |-> kind]

VARIABLES
  pc,      \* idle, load, run, unload, judge, commit
  user,    \* who makes the call: "loop" or "probe"
  provider,\* the provider called, or None
  asked,   \* the schema it is asked for, or None
  handle,  \* the instruction that load read into the handle, or None
  runs,    \* the probe's runs that are left
  warm,    \* is this the probe's second load
  answer,  \* what the last run gave: [how, record, sure], or None
  ending,  \* how the last call ended, or None
  held,    \* the resources that are really taken
  stuck,   \* those whose undo raised
  weights, \* the weights file: is it the pinned one, and its size and mtime
  checked, \* GgufAdapter._checked: size and mtime -> what the hash said
  count    \* the calls and probes so far

who == <<user, provider, asked>>
place == <<runs, warm>>
progress == <<who, handle, place>>
files == <<weights, checked>>
callVars == <<pc, progress, answer, ending, held, stuck, files, count, scope, chain>>
vars == <<install, callVars>>

Manifest == providers[provider]

\* The call is of a gguf provider.
OfModel == pc # "idle" /\ Manifest.kind = "gguf"

\* record: a value came back; refused: ProviderError; raised: anything else.
Answer(how, record, sure) == [how |-> how, record |-> record, sure |-> sure]

Init ==
  /\ InstallInit
  /\ pc = "idle" /\ user = "loop" /\ provider = None /\ asked = None /\ handle = None
  /\ runs = 0 /\ warm = FALSE /\ answer = None /\ ending = None
  /\ held = {} /\ stuck = {} /\ count = 0
  /\ weights = [pinned |-> TRUE, stamp |-> 0] /\ checked = <<>>
  /\ undos = <<>> /\ failed = <<>> /\ tried = <<>>
  /\ depth = 0 /\ called = {} /\ ran = <<>> /\ result = Running

\* The call, or the probe, is over.
End(type, why) ==
  /\ pc' = "idle" /\ provider' = None /\ asked' = None /\ handle' = None
  /\ ending' = Ending(type, why)
  /\ UNCHANGED <<user, answer>>

MayBegin ==
  /\ stage \in {"built", "serving"} /\ pc = "idle" /\ count < MaxCalls
  /\ recorded = None /\ <<machine, Document>> \in Served

Begin(p, schema, by) ==
  /\ MayBegin
  /\ stage' = "serving"
  /\ pc' = "load" /\ user' = by /\ provider' = p /\ asked' = schema /\ handle' = None
  /\ runs' = (IF by = "probe" THEN ProbeRuns ELSE 1)
  /\ warm' = FALSE /\ answer' = None /\ ending' = None
  /\ count' = count + 1
  /\ NewScope
  /\ UNCHANGED <<registrations, machine, recorded, held, stuck, files, chain>>

\* The loop calls what select() chooses; a gap makes no call.
Call(r) == MayBegin /\ Chosen(r) # None /\ Begin(Chosen(r), r.schema, "loop")

\* probe() asks for what the manifest produces, the code adapter for a
\* placeholder if that is nothing.
Probe(p) ==
  \/ \E schema \in providers[p].produces : Begin(p, schema, "probe")
  \/ providers[p].produces = {} /\ providers[p].kind = "code" /\ Begin(p, None, "probe")

----------------------------------------------------------------------------
(* load.                                                                   *)

LoadRaises ==
  /\ pc = "load" /\ undos = <<>>
  /\ End("escaped", None)
  /\ UNCHANGED <<install, place, held, stuck, weights, count, scope, chain>>

\* No entrypoint, or one that does not resolve.
CodeLoadRaises == ~ OfModel /\ LoadRaises /\ UNCHANGED checked

\* A mutant: the answer is kept by path alone.
StampOfPath == 0

\* _verify asks the cache by size and mtime, and hashes what it does not know.
Stamp == weights.stamp
Found == IF Stamp \in DOMAIN checked THEN checked[Stamp] ELSE weights.pinned
Verify == checked' = Extend(checked, Stamp, Found)

\* Weights or a prompt that are not the pinned ones, a prompt that does not
\* fit, or llama.cpp.  All of it comes before anything is taken.
GgufLoadRaises == OfModel /\ LoadRaises /\ (Verify \/ UNCHANGED checked)

\* _instruction lets the file's content pass: it is the pinned one, and fits
\* each schema the manifest produces that the adapter has; no schema, no audit.
Passes(i) ==
  /\ Manifest.pin \in {None, i}
  /\ \A id \in Manifest.produces \cap DOMAIN Rules : Audit(i, id)

ReadPrompt(i) ==
  /\ pc = "load" /\ undos = <<>> /\ handle = None
  /\ OfModel /\ Verify /\ Found /\ Passes(i)
  /\ handle' = i
  /\ UNCHANGED <<install, pc, who, place, answer, ending, held, stuck, weights, count, scope, chain>>

\* The adapter takes something and registers how to give it back.
Take ==
  /\ pc = "load" /\ Len(undos) < MaxTaken
  /\ OfModel => handle # None
  /\ LET label == [call |-> count, warm |-> warm, nth |-> Len(undos) + 1]
     IN  /\ held' = held \cup {label}
         /\ Register(label)
  /\ UNCHANGED <<install, pc, progress, answer, ending, stuck, files, count, chain>>

\* The probe's second load is followed by its unload.
Loaded ==
  /\ pc = "load" /\ undos # <<>>
  /\ pc' = (IF warm THEN "unload" ELSE "run")
  /\ UNCHANGED <<install, progress, answer, ending, held, stuck, files, count, scope, chain>>

----------------------------------------------------------------------------
(* run.                                                                    *)

\* A mutant: no `finally`, what leaves run leaves the handle loaded.
AfterNoFinally(a) ==
  IF a.how = "record"
  THEN pc' = (IF runs > 1 THEN "run" ELSE "unload") /\ runs' = runs - 1 /\ UNCHANGED ending
  ELSE pc' = "idle" /\ runs' = runs - 1 /\ ending' = Ending("escaped", None)

\* The probe runs again unless something was raised; then comes `finally`.
After(a) ==
  /\ pc' = (IF a.how = "record" /\ runs > 1 THEN "run" ELSE "unload")
  /\ runs' = runs - 1
  /\ UNCHANGED ending

RunEnds(a) ==
  /\ answer' = a
  /\ After(a)
  /\ UNCHANGED <<install, who, handle, warm, held, stuck, files, count, scope, chain>>

\* The gguf adapter asks the model only for a schema that it has and with a
\* prompt that renders, and reports no confidence.
Known == OfModel => asked \in DOMAIN Rules
Prompted == OfModel /\ Known => Renders(handle)

RunReturns(record, sure) ==
  /\ pc = "run"
  /\ Known /\ Prompted
  /\ OfModel => sure
  /\ RunEnds(Answer("record", record, sure))

\* The code adapter turns whatever the provider raises into a ProviderError;
\* the gguf adapter only output that is not JSON and an unknown schema.
RunRefuses == pc = "run" /\ Prompted /\ RunEnds(Answer("refused", None, TRUE))

\* An InstructionError or KeyError of the prompt, or llama.cpp.
GgufRunRaises ==
  /\ pc = "run" /\ OfModel /\ Known
  /\ RunEnds(Answer("raised", None, TRUE))

----------------------------------------------------------------------------
(* unload.                                                                 *)

GiveBack(raises) ==
  /\ pc = "unload" /\ ~Unwound
  /\ Undo(raises)
  /\ held' = (IF raises THEN held ELSE held \ {Last(undos)})
  /\ stuck' = (IF raises THEN stuck \cup {Last(undos)} ELSE stuck)
  /\ UNCHANGED <<install, pc, progress, answer, ending, files, count, chain>>

\* A mutant: an UnwindError is swallowed.
UnwindSilent == FALSE

\* unwind raises after the loop; in a `finally` this replaces what run gave.
UnwindRaises == failed # <<>>

\* Behind unload: the loop goes on to judge a record, records a ProviderError
\* and lets the rest escape; the probe loads once more if its runs are done.
Unloaded ==
  /\ pc = "unload" /\ Unwound
  /\ \/ /\ UnwindRaises \/ answer.how = "raised"
        /\ End("escaped", None)
        /\ UNCHANGED <<place, scope>>
     \/ /\ ~UnwindRaises /\ answer.how = "refused"
        /\ IF user = "loop" THEN End("tool_failed", "tool_error") ELSE End("escaped", None)
        /\ UNCHANGED <<place, scope>>
     \/ /\ ~UnwindRaises /\ user = "loop" /\ answer.how = "record"
        /\ pc' = "judge" /\ handle' = None
        /\ UNCHANGED <<who, place, answer, ending, scope>>
     \/ /\ ~UnwindRaises /\ user = "probe" /\ answer.how = "record" /\ ~warm
        /\ pc' = "load" /\ warm' = TRUE /\ handle' = None
        /\ NewScope
        /\ UNCHANGED <<who, runs, answer, ending>>
     \/ /\ ~UnwindRaises /\ warm
        /\ End("probed", None)
        /\ UNCHANGED <<place, scope>>
  /\ UNCHANGED <<install, held, stuck, files, count, chain>>

----------------------------------------------------------------------------
(* The verdict, and on_commit.                                             *)

Quiet == UNCHANGED <<install, place, held, stuck, files, count, scope>>

\* A provider that gives no confidence, or enough, is `sure`.
BelowFloor ==
  /\ pc = "judge" /\ ~answer.sure
  /\ End("validation_failed", "semantic")
  /\ Quiet /\ UNCHANGED chain

Refused ==
  /\ pc = "judge" /\ answer.sure /\ Verdict(answer.record) # {}
  /\ End("validation_failed", Kind(Verdict(answer.record)))
  /\ Quiet /\ UNCHANGED chain

Valid ==
  /\ pc = "judge" /\ answer.sure /\ Verdict(answer.record) = {}
  /\ pc' = "commit"
  /\ Start
  /\ Quiet /\ UNCHANGED <<who, handle, answer, ending>>

Listen ==
  /\ pc = "commit" /\ result = Running
  /\ \/ CallNext
     \/ Return
     \/ \E why \in Raises, to \in 0 .. Count : Raise(why, to)
  /\ Quiet /\ UNCHANGED <<pc, who, handle, answer, ending>>

\* run() catches Rejected and nothing else.
Listened ==
  /\ pc = "commit" /\ result # Running
  /\ CASE result = "value"    -> End("fact_added", None)
       [] result = "rejected" -> End("rejected", None)
       [] result = "error"    -> End("escaped", None)
  /\ Quiet /\ Forget

\* The file is replaced by another one, which has another size or mtime.
\* Bound: once it has been read, and not during a call.
ReplaceWeights(pinned) ==
  /\ pc = "idle" /\ weights.stamp < MaxSwaps /\ checked # <<>>
  /\ weights' = [pinned |-> pinned, stamp |-> weights.stamp + 1]
  /\ UNCHANGED <<install, pc, progress, answer, ending, held, stuck, checked, count, scope, chain>>

Next ==
  \/ InstallNext /\ UNCHANGED callVars
  \/ \E r \in Requests : Call(r)
  \/ \E p \in DOMAIN providers : Probe(p)
  \/ CodeLoadRaises \/ GgufLoadRaises
  \/ \E i \in Prompts : ReadPrompt(i)
  \/ Take \/ Loaded
  \/ \E record \in Records, sure \in BOOLEAN : RunReturns(record, sure)
  \/ RunRefuses \/ GgufRunRaises
  \/ \E raises \in BOOLEAN : GiveBack(raises)
  \/ Unloaded
  \/ \E pinned \in BOOLEAN : ReplaceWeights(pinned)
  \/ BelowFloor \/ Refused \/ Valid \/ Listen \/ Listened

Spec == Init /\ [][Next]_vars

----------------------------------------------------------------------------
(* What must be true.                                                      *)

Phases == {"idle", "load", "run", "unload", "judge", "commit"}
EndingTypes == {"fact_added", "validation_failed", "tool_failed", "rejected",
                "escaped", "probed"}

\* Type correctness.
TypeOK ==
  /\ InstallTypeOK
  /\ pc \in Phases /\ user \in {"loop", "probe"} /\ handle \in Prompts \cup {None}
  /\ pc # "idle" => provider \in DOMAIN providers
  /\ runs \in 0 .. ProbeRuns + 1 /\ warm \in BOOLEAN
  /\ answer # None => answer.how \in {"record", "refused", "raised"}
  /\ ending # None => ending.type \in EndingTypes
  /\ stuck \subseteq held
  /\ depth \in 0 .. Count /\ called \subseteq 1 .. Count
  /\ result \in {"value", Running} \cup Raises
  /\ pc = "commit" => (depth = 0 <=> result # Running)

\* "Every load unwinds, including on failure": between calls nothing is held
\* but what its own undo failed to give back, however the calls and probes
\* before ended (_call, timed_probe, Scope.unwind).
NothingStranded == pc = "idle" => held = stuck /\ undos = <<>>

\* "Undos run in reverse order, because a later registration can depend on an
\* earlier one", also past undos that raise (Scope.unwind).
UndoneInReverse ==
  \A i, j \in DOMAIN tried : i < j => tried[i].nth > tried[j].nth

\* A failed unwinding is never silent: a call that is recorded with any event,
\* or a probe that reports, gave everything back (_call's finally).
UnwindIsLoud ==
  ending # None /\ ending.type # "escaped" =>
    \A label \in stuck : label.call # count

\* A model that answers for a provider which says what it produces was shown
\* the rules of the schema it was asked for, exactly once and with no token
\* left, in a prose written for that schema that covers each required field
\* and no other: what load audited is what run renders, though load does not
\* know what run will ask (select's filter on `produces`, _instruction, run).
PromptFits ==
  (/\ pc \in {"run", "unload"} /\ ~ warm /\ answer # None
   /\ OfModel /\ Manifest.produces # {} /\ answer.how = "record")
  => LET text == Render(handle, asked)
     IN  /\ text = << <<asked>> >>
         /\ handle.schema = asked
         /\ Rules[asked].required \subseteq handle.covers
         /\ handle.covers \subseteq Rules[asked].properties

\* A model that runs was loaded from the weights its manifest pins, although
\* the file is hashed once and may have been replaced between two calls: the
\* hash that is kept is asked for by what a replacement changes (_verify).
RunsThePinned == pc \in {"run", "unload"} /\ OfModel => weights.pinned

WellFormed(record) ==
  /\ record # NotAnObject
  /\ Schema.required \subseteq DOMAIN record
  /\ Schema.closed => DOMAIN record \subseteq Schema.properties
  /\ \A n \in DOMAIN record \cap Schema.properties :
       record[n] # "mistyped" /\ (record[n] = "null" => n \in Schema.nullable)

InRange(record) ==
  \A n \in DOMAIN record \cap Schema.properties : record[n] # "outside"

Confirmed(record) ==
  Schema.text =>
    \A n \in DOMAIN record \cap (Schema.checked \cup Schema.spans) : record[n] # "invented"

\* The rung that the ledger names is the first one the answer fails on, and an
\* answer that reaches on_commit failed on none, in _reduce's order of
\* confidence floor, schema, range and cross-check (_reduce, ladder,
\* Result.kind).  What a listener makes of the answer is held to nothing.
RungNamed ==
  ending # None /\ ending.type \in {"fact_added", "rejected", "validation_failed"} =>
    LET r == answer.record
    IN  CASE ending.kind = None         -> answer.sure /\ WellFormed(r) /\ InRange(r) /\ Confirmed(r)
          [] ending.kind = "semantic"   -> ~ answer.sure
          [] ending.kind = "schema"     -> answer.sure /\ ~ WellFormed(r)
          [] ending.kind = "range"      -> answer.sure /\ WellFormed(r) /\ ~ InRange(r)
          [] ending.kind = "crosscheck" -> answer.sure /\ WellFormed(r) /\ InRange(r) /\ ~ Confirmed(r)
=============================================================================
