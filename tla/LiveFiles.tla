----------------------------- MODULE LiveFiles -----------------------------
(***************************************************************************)
(* The files beside a live module through which the compile worker and the  *)
(* live host talk, each replaced as a whole (CompilerDriver.replaceFile):    *)
(*                                                                         *)
(*   stamp     <output>.live.stamp       key of the newest publication      *)
(*   summary   <output>.live.patch.json  its description without identities *)
(*   manifest  <output>.live.json        its full description               *)
(*   patch     <output>.hlp              its patch, if it has one           *)
(*   module    <output>                  the whole module                   *)
(*   identity  <output>.hli              the module's identity and revision *)
(*   full      <output>.live.full        marker: whose whole module is here *)
(*   refused   <output>.live.refused     what a strict host refused         *)
(*   state     <output>.live.state       the compiler's saved history       *)
(*                                                                         *)
(* A file's bytes are the revision and the program they were made for.      *)
(***************************************************************************)
EXTENDS CompilerState

VARIABLE disk

(* publicationKey: module identity and revision. *)
Key == [id : Nat, revision : Nat]
NoKey == [id |-> 0, revision |-> 0]
KeyOf(id, revision) == [id |-> id, revision |-> revision]

(* LiveDescription.  A build that requires a reload carries no patch, so one *)
(* field says both.                                                         *)
Description == [key : Key, base : Nat, patch : BOOLEAN]

(* A patch takes a module at revision `base` from program `from` to `to`. *)
PatchFile == [key : Key, base : Nat, from : MaybeProgram, to : MaybeProgram]
NoPatch == [key |-> NoKey, base |-> 0, from |-> NoProgram, to |-> NoProgram]

ModuleFile == [key : Key, program : MaybeProgram]

(* LiveRefusal. *)
Refusal == [id : Nat, running : Nat, refused : Nat]
NoRefusal == [id |-> 0, running |-> 0, refused |-> 0]

NoState == [marker |-> NoKey, compiler |-> Exported(NewCompiler(0))]

Files == [stamp    : Key,
          summary  : Description,
          manifest : Description,
          patch    : PatchFile,
          module   : ModuleFile,
          identity : Key,
          full     : Key,
          refused  : Refusal,
          state    : [marker : Key, compiler : SavedState]]

(* What a first build, which nothing can be patched from, leaves. *)
FirstPublication(key, program) ==
    LET description == [key |-> key, base |-> 0, patch |-> FALSE]
    IN  [stamp    |-> key,
         summary  |-> description,
         manifest |-> description,
         patch    |-> NoPatch,
         module   |-> [key |-> key, program |-> program],
         identity |-> key,
         full     |-> key,
         refused  |-> NoRefusal,
         state    |-> NoState]
============================================================================
