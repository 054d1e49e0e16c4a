-------------------------- MODULE RegistryOverride --------------------------
(***************************************************************************)
(* The operator registries of schema/: dictionaries shared by all threads, *)
(* written under the reentrant REGISTRY_LOCK by override_registry          *)
(* (schema/base.py) and by the loaders, and read by Validator._get_schema  *)
(* (validation/schema_validator.py) without it.  A call of a dict method   *)
(* is one step, as the interpreter runs it.                                *)
(*                                                                         *)
(*   registries  the contents of each registry: schemas by operator        *)
(*   latencies   SASS_PIPELINE_LATENCIES, which the loader fills as it     *)
(*               reads                                                     *)
(*   frames      the calls each thread is in; it holds the lock while      *)
(*               there are any                                             *)
(*   waiting     the call each thread is about to lock for                 *)
(*   reading     the operator each thread has found and is about to fetch  *)
(*   base        what the loads outside every override made of a registry  *)
(*   ops         the calls made, at most MaxOps of each thread             *)
(***************************************************************************)
EXTENDS Integers, Sequences, SequencesExt

CONSTANTS
  Thread, Op, Schema, None,
  Reg,        \* the registries; "onnx" is loaded in one piece
  Initial,    \* their contents once the modules are imported
  Override,   \* the arguments of override_registry: reg, overrides, clear
  File,       \* the catalogs: sequences of name, schema, latency; None is malformed
  Default,    \* the catalog that is found when no path is given
  Canonical, CanonicalLatency,  \* what it is replaced with when it is missing or empty
  MaxOps

Contents == UNION {[names -> Schema] : names \in SUBSET Op}
Entry == [name : Op, schema : Schema, latency : Nat]

ASSUME InitialAssumption == {"sass", "onnx"} \subseteq Reg /\ Initial \in [Reg -> Contents]
ASSUME OverrideAssumption == Override \subseteq [reg : Reg, overrides : Contents, clear : BOOLEAN]
ASSUME FileAssumption == \A file \in DOMAIN File : File[file] \in Seq(Entry \cup {None})
ASSUME CanonicalAssumption == Canonical \in Contents
ASSUME NoneAssumption == None \notin Entry

VARIABLES registries, latencies, frames, waiting, reading, base, ops

vars == <<registries, latencies, frames, waiting, reading, base, ops>>

Nothing == [op \in {} |-> None]

\* dict.update
Updated(contents, more) ==
  [op \in DOMAIN contents \cup DOMAIN more |-> IF op \in DOMAIN more THEN more[op] ELSE contents[op]]
With(contents, op, entry) == Updated(contents, [o \in {op} |-> entry])

Init ==
  /\ registries = Initial /\ base = Initial /\ latencies = Nothing
  /\ frames = [t \in Thread |-> <<>>] /\ waiting = [t \in Thread |-> None]
  /\ reading = [t \in Thread |-> None] /\ ops = [t \in Thread |-> 0]

-----------------------------------------------------------------------------
(* The lock.                                                               *)

\* MayLock of a lock that is not reentrant.
MayLockOnce(t) == \A u \in Thread : frames[u] = <<>>

\* MayLock of a call that takes no lock.
MayAlwaysLock(t) == TRUE

\* REGISTRY_LOCK is an RLock: its holder may take it again.
MayLock(t) == \A u \in Thread \ {t} : frames[u] = <<>>

Overrides(t, reg) == {i \in DOMAIN frames[t] : frames[t][i].what = "override" /\ frames[t][i].reg = reg}
Overridden(reg) == \E t \in Thread : Overrides(t, reg) # {}

\* A new call; in an override only once the overrides are applied, and no other call is open.
Free(t) == waiting[t] = None /\ reading[t] = None /\ (frames[t] # <<>> => Last(frames[t]).step = "inside")

Calls ==
  [what : {"override"}, args : Override] \cup [what : {"load"}, file : DOMAIN File] \cup [what : {"onnx"}]

Awaits(t, what) == waiting[t] # None /\ waiting[t].what = what

Request(t, call) ==
  /\ ops[t] < MaxOps /\ Free(t)
  /\ waiting' = [waiting EXCEPT ![t] = call] /\ ops' = [ops EXCEPT ![t] = @ + 1]
  /\ UNCHANGED <<registries, latencies, frames, reading, base>>

Push(t, frame) == frames' = [frames EXCEPT ![t] = Append(@, frame)] /\ waiting' = [waiting EXCEPT ![t] = None]
Pop(t) == frames' = [frames EXCEPT ![t] = Front(@)]
Goto(t, step) == frames' = [frames EXCEPT ![t][Len(frames[t])].step = step]

At(t, what, step) == frames[t] # <<>> /\ Last(frames[t]).what = what /\ Last(frames[t]).step = step

\* A registry is changed; outside every override this is what it is from now on.
Write(reg, contents) ==
  /\ registries' = [registries EXCEPT ![reg] = contents]
  /\ base' = IF Overridden(reg) THEN base ELSE [base EXCEPT ![reg] = contents]

-----------------------------------------------------------------------------
(* override_registry                                                       *)

EnterOverride(t) ==
  /\ Awaits(t, "override") /\ MayLock(t)
  /\ LET args == waiting[t].args
     IN  Push(t, [what |-> "override", reg |-> args.reg, saved |-> registries[args.reg],
                  args |-> args, step |-> IF args.clear THEN "clear" ELSE "update"])
  /\ UNCHANGED <<registries, latencies, reading, base, ops>>

ClearForOverride(t) ==
  /\ At(t, "override", "clear")
  /\ Write(Last(frames[t]).reg, Nothing) /\ Goto(t, "update")
  /\ UNCHANGED <<latencies, waiting, reading, ops>>

ApplyOverrides(t) ==
  /\ At(t, "override", "update")
  /\ Write(Last(frames[t]).reg, Updated(registries[Last(frames[t]).reg], Last(frames[t]).args.overrides))
  /\ Goto(t, "inside")
  /\ UNCHANGED <<latencies, waiting, reading, ops>>

\* ClearToRestore, but leaving in place what the block has added.
KeepToRestore(t) ==
  /\ At(t, "override", "inside") /\ Free(t) /\ Goto(t, "restore")
  /\ UNCHANGED <<registries, latencies, waiting, reading, base, ops>>

\* The block ends, or an exception leaves it.
ClearToRestore(t) ==
  /\ At(t, "override", "inside") /\ Free(t)
  /\ Write(Last(frames[t]).reg, Nothing) /\ Goto(t, "restore")
  /\ UNCHANGED <<latencies, waiting, reading, ops>>

Restore(t) ==
  /\ At(t, "override", "restore")
  /\ Write(Last(frames[t]).reg, Updated(registries[Last(frames[t]).reg], Last(frames[t]).saved)) /\ Pop(t)
  /\ UNCHANGED <<latencies, waiting, reading, ops>>

-----------------------------------------------------------------------------
(* Loaders.  _load_sass_schemas reads a catalog entry by entry.            *)

BeginLoad(t) ==
  /\ Awaits(t, "load") /\ MayLock(t)
  /\ Push(t, [what |-> "load", reg |-> "sass", file |-> waiting[t].file, at |-> 1, loaded |-> Nothing, step |-> "read"])
  /\ UNCHANGED <<registries, latencies, reading, base, ops>>

\* parse_op_schema_entry and _record_sass_latency; a malformed entry raises.
ReadEntry(t) ==
  LET frame == Last(frames[t])
      entry == File[frame.file][frame.at]
  IN  /\ At(t, "load", "read") /\ frame.at <= Len(File[frame.file])
      /\ IF entry = None
         THEN Pop(t) /\ UNCHANGED latencies
         ELSE /\ frames' = [frames EXCEPT ![t][Len(frames[t])] =
                   [frame EXCEPT !.at = @ + 1, !.loaded = With(@, entry.name, entry.schema)]]
              /\ latencies' = With(latencies, entry.name, entry.latency)
      /\ UNCHANGED <<registries, waiting, reading, base, ops>>

\* An empty catalog is replaced only if it is the one found without a path.
FinishLoad(t) ==
  LET frame == Last(frames[t])
  IN  /\ At(t, "load", "read") /\ frame.at > Len(File[frame.file])
      /\ \/ /\ frame.loaded # Nothing
            /\ Write("sass", Updated(registries["sass"], frame.loaded)) /\ Pop(t) /\ UNCHANGED latencies
         \/ /\ frame.loaded = Nothing /\ frame.file = Default
            /\ latencies' = Updated(latencies, CanonicalLatency) /\ Goto(t, "canonical")
            /\ UNCHANGED <<registries, base>>
         \/ /\ frame.loaded = Nothing /\ frame.file # Default
            /\ Pop(t) /\ UNCHANGED <<registries, latencies, base>>
      /\ UNCHANGED <<waiting, reading, ops>>

UpdateCanonical(t) ==
  /\ At(t, "load", "canonical")
  /\ Write("sass", Updated(registries["sass"], Canonical)) /\ Pop(t)
  /\ UNCHANGED <<latencies, waiting, reading, ops>>

\* load_onnx_schemas without a path: nothing to do unless the registry is empty.
BeginOnnxLoad(t) ==
  /\ Awaits(t, "onnx") /\ MayLock(t)
  /\ IF registries["onnx"] # Nothing
     THEN waiting' = [waiting EXCEPT ![t] = None] /\ UNCHANGED frames
     ELSE Push(t, [what |-> "onnx", step |-> "clear"])
  /\ UNCHANGED <<registries, latencies, reading, base, ops>>

ClearOnnx(t) ==
  /\ At(t, "onnx", "clear") /\ Write("onnx", Nothing) /\ Goto(t, "update")
  /\ UNCHANGED <<latencies, waiting, reading, ops>>

UpdateOnnx(t) ==
  /\ At(t, "onnx", "update") /\ Write("onnx", Updated(registries["onnx"], Initial["onnx"])) /\ Pop(t)
  /\ UNCHANGED <<latencies, waiting, reading, ops>>

-----------------------------------------------------------------------------
(* Validator._get_schema: "op in registry", then "registry[op]".           *)

CheckOperator(t, reg, op) ==
  /\ ops[t] < MaxOps /\ Free(t)
  /\ reading' = [reading EXCEPT ![t] = IF op \in DOMAIN registries[reg] THEN <<reg, op>> ELSE None]
  /\ ops' = [ops EXCEPT ![t] = @ + 1]
  /\ UNCHANGED <<registries, latencies, frames, waiting, base>>

\* The operator is there no more: KeyError.
Fails(t) == reading[t] # None /\ reading[t][2] \notin DOMAIN registries[reading[t][1]]

FetchSchema(t) ==
  /\ reading[t] # None
  /\ reading' = [reading EXCEPT ![t] = None]
  /\ UNCHANGED <<registries, latencies, frames, waiting, base, ops>>

-----------------------------------------------------------------------------

Proceed(t) ==
  \/ EnterOverride(t) \/ ClearForOverride(t) \/ ApplyOverrides(t)
  \/ ClearToRestore(t) \/ Restore(t)
  \/ BeginLoad(t) \/ ReadEntry(t) \/ FinishLoad(t) \/ UpdateCanonical(t)
  \/ BeginOnnxLoad(t) \/ ClearOnnx(t) \/ UpdateOnnx(t)
  \/ FetchSchema(t)

Next ==
  \E t \in Thread :
    \/ \E call \in Calls : Request(t, call)
    \/ \E reg \in Reg, op \in Op : CheckOperator(t, reg, op)
    \/ Proceed(t)

\* A thread that can go on does: the body of an override is code that ends.
Spec == Init /\ [][Next]_vars /\ \A t \in Thread : WF_vars(Proceed(t))

-----------------------------------------------------------------------------
(* Properties                                                              *)

\* When the last override of a registry is left, by whichever of nested blocks,
\* the registry is again what the loads outside overrides made of it.
OverridesAreUndone == \A reg \in Reg : ~Overridden(reg) => registries[reg] = base[reg]

\* While a thread is inside an override, only its own steps change the registry.
OverriddenByOneThread ==
  [][\A t \in Thread, reg \in Reg :
       Overrides(t, reg) # {} /\ registries'[reg] # registries[reg] => frames'[t] # frames[t]]_vars

\* No thread waits for the lock for ever, not even for one that it holds itself.
EveryCallIsServed == \A t \in Thread : waiting[t] # None ~> waiting[t] = None /\ frames[t] = <<>>

\* override_registry is "thread-safe": a schema that was found can be fetched.
FoundSchemasAreThere == \A t \in Thread : ~Fails(t)
=============================================================================
