------------------------- MODULE LiveSessionProofs --------------------------
(***************************************************************************)
(* Proofs about LiveSession, for every set of programs, any number of         *)
(* modules and revisions and every interleaving of worker and host, with the  *)
(* worker lost at any step.                                                 *)
(***************************************************************************)
EXTENDS LiveSession, CompilerStateProofs

----------------------------------------------------------------------------
(* Type correctness.                                                        *)

LEMMA NothingType ==
    /\ NoKey \in Key
    /\ NoDescription \in Description
    /\ NoModule \in ModuleFile
    /\ NoPatch \in PatchFile
    /\ NoRefusal \in Refusal
    /\ NoResult \in Result
    /\ NoCompiler \in Compiler
    /\ NoState \in [marker : Key, compiler : SavedState]
  <1>1. NoKey \in Key
    BY DEF NoKey, Key
  <1>2. NoProgram \in MaybeProgram
    BY DEF MaybeProgram
  <1>3. NoCompiler \in Compiler /\ NewCompiler(0) \in Compiler
    BY NewCompilerType, 0 \in Nat DEF NoCompiler
  <1>4. Exported(NewCompiler(0)) \in SavedState
    BY <1>3, ExportedType
  <1>5. NoPatch \in PatchFile
    BY <1>1, <1>2 DEF NoPatch, PatchFile
  <1>6. NoResult \in Result
    BY <1>1, <1>2, <1>5 DEF NoResult, Result, Description, NoKey
  <1> QED
    BY <1>1, <1>2, <1>3, <1>4, <1>5, <1>6
       DEF NoDescription, Description, NoModule, ModuleFile, NoRefusal, Refusal, NoState

LEMMA KeyOfType ==
    ASSUME NEW id \in Nat, NEW r \in Nat
    PROVE  KeyOf(id, r) \in Key
  BY DEF KeyOf, Key

LEMMA IdleType == Idle \in [step : WorkerSteps, record : Refusal, build : Result]
  BY NothingType DEF Idle, WorkerSteps

(* A build describes what it made.                                           *)
LEMMA ResultOfType ==
    ASSUME NEW c \in Compiler, NEW p \in Program, NEW start \in Assembler,
           NEW patch \in BOOLEAN
    PROVE  ResultOf(c, p, start, patch) \in Result
  <1> DEFINE r == BuiltAssembler(c, p, start).revision
             k == KeyOf(c.id, r)
             made == [key |-> k, base |-> c.assembler.revision,
                      from |-> c.assembler.program, to |-> p]
             described == [key |-> k, base |-> c.baseline.revision, patch |-> patch]
  <1>1. BuiltAssembler(c, p, start) \in Assembler
    BY AssembledType DEF BuiltAssembler
  <1>2. r \in Nat
    BY <1>1 DEF Assembler
  <1>3. k \in Key
    BY <1>2, KeyOfType DEF Compiler
  <1>4. p \in MaybeProgram /\ c.assembler \in Assembler /\ c.baseline \in Baseline
    BY DEF MaybeProgram, Compiler
  <1> HIDE DEF k
  <1>5. made \in PatchFile
    BY <1>3, <1>4 DEF PatchFile, Assembler
  <1>6. described \in Description
    BY <1>3, <1>4 DEF Description, Baseline
  <1>7. ResultUnchanged(c, p, start) \in BOOLEAN
    BY DEF ResultUnchanged, AssemblesUnchanged, Compiler, Baseline
  <1> HIDE DEF made, described
  <1>8. (IF patch THEN made ELSE NoPatch) \in PatchFile
    BY <1>5, NothingType
  <1>9. ResultOf(c, p, start, patch)
          = [description |-> described, patch |-> IF patch THEN made ELSE NoPatch,
             program |-> p, unchanged |-> ResultUnchanged(c, p, start)]
    BY DEF ResultOf, made, described, k
  <1> QED
    BY <1>4, <1>6, <1>7, <1>8, <1>9 DEF Result

LEMMA PreparedType ==
    ASSUME TypeOK, NEW resume \in BOOLEAN, NEW fresh \in BOOLEAN
    PROVE  /\ Prepared(resume) \in Compiler
           /\ StartingAssembler(Prepared(resume), fresh) \in Assembler
  <1>1. Enabled(NewCompiler(modules + 1), 0, FALSE) \in Compiler
    <2>1. modules + 1 \in Nat
      BY BoundsAssumption DEF TypeOK, WorkerTypeOK
    <2> QED
      BY <2>1, NewCompilerType, EnabledType
  <1>2. Resumed(disk.state.compiler) \in Compiler
    BY ResumedType DEF TypeOK, Files
  <1>3. Prepared(resume) \in Compiler
    BY <1>1, <1>2 DEF Prepared, TypeOK, WorkerTypeOK
  <1>4. Prepared(resume).assembler \in Assembler
    BY <1>3 DEF Compiler
  <1>5. LastRevision(Prepared(resume).assembler) \in Nat
    BY <1>4, NumberingType, 0 \in Nat
  <1>6. FreshLayout(Prepared(resume).assembler) \in Assembler
    BY <1>4, <1>5, NumberingType
  <1> QED
    BY <1>3, <1>4, <1>6 DEF StartingAssembler

(* What a step of the worker leaves to prove.                                *)
WorkerSide == disk \in Files /\ WorkerTypeOK

LEMMA RequestType ==
    ASSUME TypeOK, NEW reset \in BOOLEAN, Request(reset)
    PROVE  WorkerSide'
  <1>1. /\ disk \in Files /\ compiler \in Compiler /\ unrecorded \in Key
        /\ worker \in [step : WorkerSteps, record : Refusal, build : Result]
    BY DEF TypeOK, WorkerTypeOK
  <1>2. disk.refused \in Refusal
    BY <1>1 DEF Files
  <1>3. worker' \in [step : WorkerSteps, record : Refusal, build : Result]
    BY <1>1, <1>2 DEF Request, Goto, WorkerSteps
  <1>4. compiler' \in Compiler /\ unrecorded' \in Key
    BY <1>1, NothingType DEF Request
  <1>5. disk' = disk /\ modules' = modules /\ published' = published
    BY DEF Request
  <1> QED
    BY <1>3, <1>4, <1>5 DEF TypeOK, WorkerTypeOK, WorkerSide

LEMMA TakeBackType ==
    ASSUME TypeOK, TakeBack
    PROVE  WorkerSide'
  <1>1. /\ disk \in Files /\ compiler \in Compiler
        /\ worker \in [step : WorkerSteps, record : Refusal, build : Result]
    BY DEF TypeOK, WorkerTypeOK
  <1>2. disk' \in Files
    BY <1>1, NothingType DEF TakeBack, Files
  <1>3. compiler' \in Compiler
    BY <1>1, RetractedType DEF TakeBack
  <1>4. worker' \in [step : WorkerSteps, record : Refusal, build : Result]
    BY <1>1, NothingType DEF TakeBack, WorkerSteps
  <1>5. modules' = modules /\ unrecorded' = unrecorded /\ published' = published
    BY DEF TakeBack
  <1> QED
    BY <1>2, <1>3, <1>4, <1>5 DEF TypeOK, WorkerTypeOK, WorkerSide

LEMMA CompileRequestType ==
    ASSUME TypeOK, NEW p \in Program, NEW resume \in BOOLEAN, NEW fresh \in BOOLEAN,
           NEW patch \in BOOLEAN, CompileRequest(p, resume, fresh, patch)
    PROVE  WorkerSide'
  <1> DEFINE c == Prepared(resume)
             start == StartingAssembler(c, fresh)
  <1>1. c \in Compiler /\ start \in Assembler
    BY PreparedType
  <1>2. worker \in [step : WorkerSteps, record : Refusal, build : Result]
    BY DEF TypeOK, WorkerTypeOK
  <1>3. /\ compiler' = Built(c, p, start)
        /\ worker' = [worker EXCEPT !.step = "withdraw", !.build = ResultOf(c, p, start, patch)]
    BY DEF CompileRequest
  <1> HIDE DEF c, start
  <1>4. compiler' \in Compiler
    BY <1>1, <1>3, BuiltType
  <1>5. ResultOf(c, p, start, patch) \in Result
    BY <1>1, ResultOfType
  <1>6. worker' \in [step : WorkerSteps, record : Refusal, build : Result]
    BY <1>2, <1>3, <1>5 DEF WorkerSteps
  <1>7. modules' \in 1..MaxModule
    BY BoundsAssumption DEF CompileRequest, TypeOK, WorkerTypeOK
  <1>8. disk' = disk /\ unrecorded' = unrecorded /\ published' = published
    BY DEF CompileRequest
  <1> QED
    BY <1>4, <1>6, <1>7, <1>8 DEF TypeOK, WorkerTypeOK, WorkerSide

(* The steps of a publication replace files with what was built.             *)
LEMMA PublishingType ==
    ASSUME TypeOK,
           \/ Withdraw \/ PromotePatch \/ PromoteSummary \/ PromoteManifest \/ Stamp
           \/ PromoteModule \/ PromoteIdentity \/ PromoteMarker
    PROVE  WorkerSide'
  <1> DEFINE b == worker.build
             made == [key |-> b.description.key, program |-> b.program]
  <1>1. /\ disk \in Files /\ compiler \in Compiler /\ modules \in 1..MaxModule
        /\ worker \in [step : WorkerSteps, record : Refusal, build : Result]
        /\ unrecorded \in Key /\ published \subseteq ModuleFile
    BY DEF TypeOK, WorkerTypeOK
  <1>2. /\ b.description \in Description /\ b.description.key \in Key
        /\ b.patch \in PatchFile /\ b.program \in MaybeProgram
    BY <1>1 DEF Result, Description
  <1>3. made \in ModuleFile
    BY <1>2 DEF ModuleFile
  <1> HIDE DEF b, made
  <1>4. disk' \in Files
    <2>1. CASE Withdraw
      BY <2>1, <1>1, NothingType DEF Withdraw, Files
    <2>2. CASE PromotePatch
      BY <2>2, <1>1, <1>2 DEF PromotePatch, Files, b
    <2>3. CASE PromoteSummary
      BY <2>3, <1>1, <1>2 DEF PromoteSummary, Files, b
    <2>4. CASE PromoteManifest
      BY <2>4, <1>1, <1>2 DEF PromoteManifest, Files, b
    <2>5. CASE Stamp
      BY <2>5, <1>1, <1>2 DEF Stamp, Files, b
    <2>6. CASE PromoteModule
      <3>1. disk' = [disk EXCEPT !.full = NoKey, !.module = made]
        BY <2>6 DEF PromoteModule, made, b
      <3> QED
        BY <3>1, <1>1, <1>3, NothingType DEF Files
    <2>7. CASE PromoteIdentity
      <3>1. disk' = [disk EXCEPT !.identity = b.description.key,
                                 !.patch = IF b.description.patch THEN disk.patch ELSE NoPatch]
        BY <2>7 DEF PromoteIdentity, b
      <3> QED
        BY <3>1, <1>1, <1>2, NothingType DEF Files
    <2>8. CASE PromoteMarker
      BY <2>8, <1>1, <1>2 DEF PromoteMarker, Files, b
    <2> QED
      BY <2>1, <2>2, <2>3, <2>4, <2>5, <2>6, <2>7, <2>8
  <1>5. worker' \in [step : WorkerSteps, record : Refusal, build : Result]
    BY <1>1, IdleType
       DEF Withdraw, PromotePatch, PromoteSummary, PromoteManifest, Stamp, PromoteModule,
           PromoteIdentity, PromoteMarker, Goto, WorkerSteps
  <1>6. compiler' \in Compiler
    BY <1>1, AcknowledgedType
       DEF Withdraw, PromotePatch, PromoteSummary, PromoteManifest, Stamp, PromoteModule,
           PromoteIdentity, PromoteMarker
  <1>7. published' \subseteq ModuleFile
    BY <1>1, <1>3
       DEF Withdraw, PromotePatch, PromoteSummary, PromoteManifest, Stamp, PromoteModule,
           PromoteIdentity, PromoteMarker, made, b
  <1>8. modules' = modules /\ unrecorded' \in Key
    BY <1>1, <1>2
       DEF Withdraw, PromotePatch, PromoteSummary, PromoteManifest, Stamp, PromoteModule,
           PromoteIdentity, PromoteMarker, b
  <1> QED
    BY <1>1, <1>4, <1>5, <1>6, <1>7, <1>8 DEF WorkerTypeOK, WorkerSide

LEMMA RecordStateType ==
    ASSUME TypeOK, RecordState
    PROVE  WorkerSide'
  <1>1. disk \in Files /\ compiler \in Compiler /\ unrecorded \in Key
    BY DEF TypeOK, WorkerTypeOK
  <1>2. Exported(compiler) \in SavedState
    BY <1>1, ExportedType
  <1>3. [marker |-> unrecorded, compiler |-> Exported(compiler)]
            \in [marker : Key, compiler : SavedState]
    BY <1>1, <1>2
  <1>4. disk' \in Files
    BY <1>1, <1>3 DEF RecordState, Files
  <1>5. unrecorded' \in Key
    BY NothingType DEF RecordState
  <1>6. /\ compiler' = compiler /\ modules' = modules
        /\ worker' = worker /\ published' = published
    BY DEF RecordState
  <1> QED
    BY <1>4, <1>5, <1>6 DEF TypeOK, WorkerTypeOK, WorkerSide

LEMMA LoseSessionType ==
    ASSUME TypeOK, LoseSession
    PROVE  WorkerSide'
  <1>1. /\ compiler' = NoCompiler /\ unrecorded' = NoKey /\ worker' = Idle
        /\ disk' = disk /\ modules' = modules /\ published' = published
    BY DEF LoseSession
  <1> QED
    BY <1>1, NothingType, IdleType DEF TypeOK, WorkerTypeOK, WorkerSide

LEMMA WorkerKeepsType ==
    ASSUME TypeOK, WorkerNext
    PROVE  WorkerSide'
  <1>1. CASE \E reset \in BOOLEAN : Request(reset)
    BY <1>1, RequestType
  <1>2. CASE TakeBack
    BY <1>2, TakeBackType
  <1>3. CASE \E p \in Program, resume, fresh, patch \in BOOLEAN :
                 CompileRequest(p, resume, fresh, patch)
    BY <1>3, CompileRequestType
  <1>4. CASE \/ Withdraw \/ PromotePatch \/ PromoteSummary \/ PromoteManifest \/ Stamp
             \/ PromoteModule \/ PromoteIdentity \/ PromoteMarker
    BY <1>4, PublishingType
  <1>5. CASE RecordState
    BY <1>5, RecordStateType
  <1>6. CASE LoseSession
    BY <1>6, LoseSessionType
  <1> QED
    BY <1>1, <1>2, <1>3, <1>4, <1>5, <1>6 DEF WorkerNext, WorkerStep

(* The end of a tick and the end of a reload keep a host a host.              *)
LEMMA TickType ==
    ASSUME NEW h \in Host
    PROVE  EndOfTick(h) \in Host /\ Read(h) \in Host
  <1>1. EndOfTick(h) \in Host
    BY NothingType DEF EndOfTick, Host, HostSteps
  <1>2. Read(h) \in Host
    BY NothingType DEF Read, Host
  <1> QED
    BY <1>1, <1>2

LEMMA RefuseType ==
    ASSUME TypeOK, NEW record \in BOOLEAN, Refuse(record)
    PROVE  host' \in Host /\ disk' \in Files
  <1>1. host \in Host /\ disk \in Files
    BY DEF TypeOK, HostTypeOK
  <1>2. [host EXCEPT !.rejected = host.candidate.key] \in Host
    BY <1>1 DEF Host, Description
  <1>3. host' \in Host
    BY <1>2, TickType DEF Refuse
  <1>4. [id |-> host.current.id, running |-> host.current.revision,
         refused |-> host.candidate.key.revision] \in Refusal
    BY <1>1 DEF Host, Description, Key, Refusal
  <1>5. disk' \in Files
    BY <1>1, <1>4 DEF Refuse, Files
  <1> QED
    BY <1>3, <1>5

(* Deciding on a publication.                                                *)
LEMMA DecidingType ==
    ASSUME TypeOK,
           \/ BootStamp \/ BootManifest \/ Poll \/ Describe \/ RefuseLostHistory
           \/ RefuseUnpatchable \/ DecidePatch \/ DecideReload \/ FailPatch \/ Complete
    PROVE  disk' \in Files /\ HostTypeOK'
  <1>1. /\ host \in Host /\ runtime \in ModuleFile /\ disk \in Files
        /\ host.candidate \in Description /\ host.candidate.key \in Key
    BY DEF TypeOK, HostTypeOK, Host, Description
  <1>2. CASE BootStamp
    BY <1>1, <1>2 DEF BootStamp, HostTypeOK, Host, HostSteps, Files
  <1>3. CASE BootManifest
    BY <1>1, <1>3 DEF BootManifest, HostTypeOK, Host, HostSteps, Files, Description
  <1>4. CASE Poll
    <2>1. [host EXCEPT !.step = "describe", !.polled = disk.stamp] \in Host
      BY <1>1 DEF Host, HostSteps, Files
    <2> QED
      BY <1>1, <1>4, <2>1, TickType DEF Poll, HostTypeOK
  <1>5. CASE Describe
    <2> DEFINE seen == [host EXCEPT !.stamp = host.polled, !.candidate = disk.summary]
    <2>1. seen \in Host
      BY <1>1 DEF Host, HostSteps, Files
    <2>2. [seen EXCEPT !.step = "decide"] \in Host
      BY <2>1 DEF Host, HostSteps
    <2>3. EndOfTick(seen) \in Host
      BY <2>1, TickType
    <2> QED
      BY <1>1, <1>5, <2>2, <2>3 DEF Describe, HostTypeOK
  <1>6. CASE RefuseLostHistory
    <2>1. [host EXCEPT !.rejected = host.candidate.key, !.lost = TRUE] \in Host
      BY <1>1 DEF Host
    <2> QED
      BY <1>1, <1>6, <2>1, TickType DEF RefuseLostHistory, HostTypeOK
  <1>7. CASE RefuseUnpatchable
    BY <1>1, <1>7, RefuseType DEF RefuseUnpatchable, HostTypeOK
  <1>8. CASE DecidePatch \/ DecideReload
    BY <1>1, <1>8 DEF DecidePatch, DecideReload, HostTypeOK, Host, HostSteps
  <1>9. CASE FailPatch
    <2>1. [host EXCEPT !.step = "complete"] \in Host
      BY <1>1 DEF Host, HostSteps
    <2>2. host' \in Host /\ disk' \in Files
      BY <1>1, <1>9, <2>1, RefuseType DEF FailPatch
    <2> QED
      BY <1>1, <1>9, <2>2 DEF FailPatch, HostTypeOK
  <1>10. CASE Complete
    <2>1. /\ [host EXCEPT !.pending = host.candidate.key] \in Host
          /\ [host EXCEPT !.rejected = host.candidate.key] \in Host
      BY <1>1 DEF Host
    <2>2. /\ EndOfTick([host EXCEPT !.pending = host.candidate.key]) \in Host
          /\ EndOfTick([host EXCEPT !.rejected = host.candidate.key]) \in Host
      BY <2>1, TickType
    <2> QED
      BY <1>1, <1>10, <2>2 DEF Complete, HostTypeOK
  <1> QED
    BY <1>2, <1>3, <1>4, <1>5, <1>6, <1>7, <1>8, <1>9, <1>10

(* Patching and loading.                                                     *)
LEMMA PatchingType ==
    ASSUME TypeOK, NEW complete \in BOOLEAN, ApplyPatch(complete)
    PROVE  disk' \in Files /\ HostTypeOK'
  <1> DEFINE adopted == [host EXCEPT !.current = host.candidate.key, !.rejected = NoKey]
  <1>1. /\ host \in Host /\ disk \in Files /\ disk.patch \in PatchFile
        /\ host.candidate.key \in Key
    BY DEF TypeOK, HostTypeOK, Host, Description, Files
  <1>2. Patched(disk.patch) \in ModuleFile
    BY <1>1 DEF Patched, PatchFile, ModuleFile, MaybeProgram
  <1>3. adopted \in Host
    BY <1>1, NothingType DEF Host
  <1>4. [adopted EXCEPT !.step = "complete"] \in Host
    BY <1>3 DEF Host, HostSteps
  <1>5. EndOfTick(adopted) \in Host
    BY <1>3, TickType
  <1> QED
    BY <1>1, <1>2, <1>4, <1>5 DEF ApplyPatch, HostTypeOK

LEMMA LoadingType ==
    ASSUME TypeOK,
           \/ ReadMarker \/ TrustModule \/ ReadModule \/ ReadIdentity \/ MarkerGone
           \/ Load \/ KeepModule \/ Stop
    PROVE  disk' \in Files /\ HostTypeOK'
  <1>1. /\ host \in Host /\ runtime \in ModuleFile /\ disk \in Files
        /\ disk.module \in ModuleFile /\ disk.identity \in Key /\ host.loading \in ModuleFile
        /\ host.pending \in Key
    BY DEF TypeOK, HostTypeOK, Host, Files
  <1>2. Unserved \in Host
    BY <1>1 DEF Unserved, Host, HostSteps
  <1>3. CASE ReadMarker
    BY <1>1, <1>2, <1>3 DEF ReadMarker, HostTypeOK, Host, HostSteps
  <1>4. CASE TrustModule
    BY <1>1, <1>4 DEF TrustModule, HostTypeOK, Host, HostSteps
  <1>5. CASE ReadModule
    <2>1. [host.loading EXCEPT !.program = disk.module.program] \in ModuleFile
      BY <1>1 DEF ModuleFile
    <2>2. host' = [host EXCEPT !.step = "identity",
                               !.loading = [host.loading EXCEPT !.program = disk.module.program]]
      BY <1>1, <1>5 DEF ReadModule, Host
    <2> QED
      BY <1>1, <1>5, <2>1, <2>2 DEF ReadModule, HostTypeOK, Host, HostSteps
  <1>6. CASE ReadIdentity
    <2>1. [host.loading EXCEPT !.key = disk.identity] \in ModuleFile
      BY <1>1 DEF ModuleFile
    <2>2. host' = [host EXCEPT !.step = "recheck",
                               !.loading = [host.loading EXCEPT !.key = disk.identity]]
      BY <1>1, <1>6 DEF ReadIdentity, Host
    <2> QED
      BY <1>1, <1>6, <2>1, <2>2 DEF ReadIdentity, HostTypeOK, Host, HostSteps
  <1>7. CASE MarkerGone
    BY <1>1, <1>2, <1>7, TickType DEF MarkerGone, HostTypeOK
  <1>8. CASE Load
    <2>1. [host EXCEPT !.step = "poll", !.current = host.pending,
                       !.pending = NoKey, !.rejected = NoKey] \in Host
      BY <1>1, NothingType DEF Host, HostSteps
    <2> QED
      BY <1>1, <1>8, <2>1, TickType DEF Load, HostTypeOK
  <1>9. CASE KeepModule
    <2>1. [host EXCEPT !.step = "poll", !.pending = NoKey, !.rejected = host.pending] \in Host
      BY <1>1, NothingType DEF Host, HostSteps
    <2> QED
      BY <1>1, <1>9, <2>1, TickType DEF KeepModule, HostTypeOK
  <1>10. CASE Stop
    <2>1. [host EXCEPT !.step = "stopped", !.pending = NoKey] \in Host
      BY <1>1, NothingType DEF Host, HostSteps
    <2> QED
      BY <1>1, <1>10, <2>1, TickType DEF Stop, HostTypeOK
  <1> QED
    BY <1>3, <1>4, <1>5, <1>6, <1>7, <1>8, <1>9, <1>10

LEMMA HostKeepsType ==
    ASSUME TypeOK, HostNext
    PROVE  disk' \in Files /\ HostTypeOK'
  <1>1. CASE \/ BootStamp \/ BootManifest \/ Poll \/ Describe \/ RefuseLostHistory
             \/ RefuseUnpatchable \/ DecidePatch \/ DecideReload \/ FailPatch \/ Complete
    BY <1>1, DecidingType
  <1>2. CASE \E complete \in BOOLEAN : ApplyPatch(complete)
    BY <1>2, PatchingType
  <1>3. CASE \/ ReadMarker \/ TrustModule \/ ReadModule \/ ReadIdentity \/ MarkerGone
             \/ Load \/ KeepModule \/ Stop
    BY <1>3, LoadingType
  <1> QED
    BY <1>1, <1>2, <1>3 DEF HostNext, HostStep

(* A step keeps the types.                                                   *)
LEMMA NextKeepsType ==
    ASSUME TypeOK, [Next]_vars
    PROVE  TypeOK'
  <1>1. CASE WorkerNext /\ UNCHANGED hostVars
    BY <1>1, WorkerKeepsType DEF TypeOK, WorkerSide, HostTypeOK, hostVars
  <1>2. CASE HostNext /\ UNCHANGED workerVars
    BY <1>2, HostKeepsType DEF TypeOK, WorkerTypeOK, workerVars
  <1>3. CASE UNCHANGED vars
    BY <1>3 DEF TypeOK, WorkerTypeOK, HostTypeOK, vars, workerVars, hostVars
  <1> QED
    BY <1>1, <1>2, <1>3 DEF Next

(* What an assembler holds after it assembled a program.                      *)
LEMMA AssembledRecord ==
    ASSUME NEW a \in Assembler, NEW p \in Program
    PROVE  Assembled(a, p) = [revision |-> LastRevision(a) + 1, floor |-> a.floor, program |-> p]
  <1> DEFINE next == Assembled(a, p)
  <1>1. next \in Assembler
    BY AssembledType
  <1>2. next.revision = LastRevision(a) + 1 /\ next.floor = a.floor /\ next.program = p
    BY DEF Assembled, Assembler
  <1> HIDE DEF next
  <1>3. next = [revision |-> LastRevision(a) + 1, floor |-> a.floor, program |-> p]
    BY <1>1, <1>2 DEF Assembler
  <1> QED
    BY <1>3 DEF next

(* The compiler of the first request has built a program and stamped it.     *)
LEMMA FirstBuild ==
    ASSUME NEW p \in Program
    PROVE  LET first == Built(Enabled(NewCompiler(1), 0, FALSE), p, NewAssembler)
           IN  /\ Acknowledged(first) \in Compiler
               /\ Acknowledged(first).id = 1
               /\ Acknowledged(first).phase = "ready"
               /\ Acknowledged(first).baseline = [revision |-> 1, available |-> TRUE]
               /\ Acknowledged(first).assembler = [revision |-> 1, floor |-> 0, program |-> p]
               /\ Acknowledged(first).semantic = p
  <1> DEFINE c == Enabled(NewCompiler(1), 0, FALSE)
             first == Built(c, p, NewAssembler)
             a == [revision |-> 1, floor |-> 0, program |-> p]
  <1>1. c \in Compiler /\ NewAssembler \in Assembler
    <2>1. NewCompiler(1) \in Compiler
      BY NewCompilerType, 1 \in Nat
    <2> QED
      BY <2>1, EnabledType, 0 \in Nat DEF NewAssembler, Assembler, MaybeProgram
  <1>2. /\ c.id = 1 /\ c.phase = "ready" /\ c.semantic = NoProgram
        /\ c.assembler = NewAssembler
    BY DEF Enabled, NewCompiler
  <1> HIDE DEF c, first
  <1>3. NewAssembler.revision = 0 /\ NewAssembler.floor = 0
    BY DEF NewAssembler
  <1>4. BuiltAssembler(c, p, NewAssembler) = a
    <2>1. ~AssemblesUnchanged(c, p)
      <3>1. c.assembler.revision = 0
        BY <1>3, <1>2
      <3> QED
        BY <3>1 DEF AssemblesUnchanged
    <2>2. LastRevision(NewAssembler) = 0
      BY <1>3 DEF LastRevision
    <2>3. Assembled(NewAssembler, p) = a
      BY <1>3, <1>1, <2>2, AssembledRecord
    <2> QED
      BY <2>1, <2>3 DEF BuiltAssembler
  <1>5. ~ResultUnchanged(c, p, NewAssembler)
    <2>1. c.assembler.revision = 0
      BY <1>3, <1>2
    <2> QED
      BY <2>1 DEF ResultUnchanged, AssemblesUnchanged
  <1> HIDE DEF a
  <1>6. first \in Compiler /\ Acknowledged(first) \in Compiler
    BY <1>1, BuiltType, AcknowledgedType DEF first
  <1>7. /\ first.id = 1 /\ first.phase = "pending" /\ first.assembler = a
        /\ first.semantic = p /\ first.pending.revision = a.revision
    BY <1>1, <1>2, <1>4, <1>5 DEF Built, Compiler, first
  <1>8. /\ Acknowledged(first).id = 1 /\ Acknowledged(first).phase = "ready"
        /\ Acknowledged(first).baseline = [revision |-> a.revision, available |-> TRUE]
        /\ Acknowledged(first).assembler = a /\ Acknowledged(first).semantic = p
    BY <1>6, <1>7 DEF Acknowledged, Compiler
  <1> QED
    BY <1>6, <1>8 DEF first, c, a

LEMMA InitType ==
    ASSUME Init
    PROVE  TypeOK
  <1>1. HostTypeOK
    BY NothingType DEF Init, HostInit, HostTypeOK, Host, HostSteps
  <1>2. PICK p \in Program : WorkerInit(p)
    BY DEF Init
  <1>3. KeyOf(1, 1) \in Key /\ p \in MaybeProgram
    BY KeyOfType DEF MaybeProgram
  <1> DEFINE key == KeyOf(1, 1)
             description == [key |-> key, base |-> 0, patch |-> FALSE]
             module == [key |-> key, program |-> p]
  <1>4. description \in Description /\ module \in ModuleFile
    BY <1>3 DEF Description, ModuleFile
  <1>5. disk = [stamp |-> key, summary |-> description, manifest |-> description,
                patch |-> NoPatch, module |-> module, identity |-> key, full |-> key,
                refused |-> NoRefusal, state |-> NoState]
    BY <1>2 DEF WorkerInit, FirstPublication
  <1>6. published = {module} /\ unrecorded = key /\ worker = Idle /\ modules = 1
    BY <1>2 DEF WorkerInit
  <1>7. compiler \in Compiler
    BY <1>2, FirstBuild DEF WorkerInit
  <1> HIDE DEF key, description, module
  <1>8. disk \in Files
    BY <1>3, <1>4, <1>5, NothingType DEF Files, key
  <1>9. WorkerTypeOK
    BY <1>3, <1>4, <1>6, <1>7, IdleType, BoundsAssumption DEF WorkerTypeOK, key
  <1> QED
    BY <1>1, <1>8, <1>9 DEF TypeOK

----------------------------------------------------------------------------
(* While the marker names a publication, every file is of that publication.   *)

Made(b) == [key |-> b.description.key, program |-> b.program]

(* The steps of a request that is publishing what it built, and those from     *)
(* which on the marker is gone, or the summary names the build.               *)
Unserving == {"patch", "summary", "manifest", "stamp", "module", "identity", "marker"}
Described == {"manifest", "stamp", "module", "identity", "marker"}
InFlight == {"withdraw"} \cup Unserving

FilesOK ==
    /\ disk.module \in published
    /\ disk.full # NoKey =>
           /\ disk.module.key = disk.full
           /\ disk.identity = disk.full
           /\ disk.manifest.key = disk.full
    /\ worker.step \in Unserving => disk.full = NoKey
    /\ worker.step \in Described => Made(worker.build) \in published
    /\ worker.step \in Described \ {"manifest"} =>
           disk.manifest.key = worker.build.description.key
    /\ worker.step \in {"identity", "marker"} => disk.module = Made(worker.build)
    /\ worker.step = "marker" => disk.identity = worker.build.description.key

LEMMA InitFiles ==
    ASSUME Init
    PROVE  FilesOK
  <1>1. PICK p \in Program : WorkerInit(p)
    BY DEF Init
  <1>2. disk = FirstPublication(KeyOf(1, 1), p)
    BY <1>1 DEF WorkerInit
  <1>3. /\ disk.module = [key |-> KeyOf(1, 1), program |-> p]
        /\ disk.identity = KeyOf(1, 1)
        /\ disk.full = KeyOf(1, 1)
        /\ disk.manifest.key = KeyOf(1, 1)
    BY <1>2 DEF FirstPublication
  <1>4. /\ published = {[key |-> KeyOf(1, 1), program |-> p]}
        /\ worker.step = "idle"
    BY <1>1 DEF WorkerInit, Idle
  <1> QED
    BY <1>3, <1>4 DEF FilesOK, Unserving, Described

(* A request publishes one file after the other, the marker first and last.   *)
LEMMA PublishingKeepsFiles ==
    ASSUME TypeOK, FilesOK,
           \/ Withdraw \/ PromotePatch \/ PromoteSummary \/ PromoteManifest \/ Stamp
           \/ PromoteModule \/ PromoteIdentity \/ PromoteMarker
    PROVE  FilesOK'
  <1>1. /\ disk \in Files
        /\ worker \in [step : WorkerSteps, record : Refusal, build : Result]
    BY DEF TypeOK, WorkerTypeOK
  <1>2. CASE Withdraw
    <2>1. /\ disk'.full = NoKey /\ disk'.module = disk.module
          /\ worker'.step \in {"patch", "summary"} /\ published' = published
      BY <1>1, <1>2 DEF Withdraw, Goto, Files
    <2> QED
      BY <2>1 DEF FilesOK, Unserving, Described
  <1>3. CASE PromotePatch
    <2>1. /\ disk'.full = disk.full /\ disk'.module = disk.module
          /\ disk.full = NoKey
          /\ worker'.step = "summary" /\ published' = published
      BY <1>1, <1>3 DEF PromotePatch, Goto, Files, At, FilesOK, Unserving
    <2> QED
      BY <2>1 DEF FilesOK, Unserving, Described
  <1>4. CASE PromoteSummary
    <2>1. /\ disk'.full = disk.full /\ disk'.module = disk.module
          /\ disk.full = NoKey
          /\ worker'.step = "manifest" /\ worker'.build = worker.build
      BY <1>1, <1>4 DEF PromoteSummary, Goto, Files, At, FilesOK, Unserving
    <2>2. published' = published \cup {Made(worker.build)}
      BY <1>4 DEF PromoteSummary, Made
    <2> QED
      BY <2>1, <2>2 DEF FilesOK, Unserving, Described, Made
  <1>5. CASE PromoteManifest
    <2>1. /\ disk'.full = disk.full /\ disk'.module = disk.module
          /\ disk'.manifest = worker.build.description
          /\ disk.full = NoKey /\ Made(worker.build) \in published
          /\ worker'.step = "stamp" /\ worker'.build = worker.build
          /\ published' = published
      BY <1>1, <1>5 DEF PromoteManifest, Goto, Files, At, FilesOK, Unserving, Described
    <2> QED
      BY <2>1 DEF FilesOK, Unserving, Described, Made
  <1>6. CASE Stamp
    <2>1. /\ disk'.full = disk.full /\ disk'.module = disk.module
          /\ disk'.manifest = disk.manifest
          /\ disk.manifest.key = worker.build.description.key
          /\ disk.full = NoKey /\ Made(worker.build) \in published
          /\ worker'.step = "module" /\ worker'.build = worker.build
          /\ published' = published
      BY <1>1, <1>6 DEF Stamp, Goto, Files, At, FilesOK, Unserving, Described
    <2> QED
      BY <2>1 DEF FilesOK, Unserving, Described, Made
  <1>7. CASE PromoteModule
    <2>1. /\ disk'.full = NoKey /\ disk'.manifest = disk.manifest
          /\ disk.manifest.key = worker.build.description.key
          /\ Made(worker.build) \in published
          /\ worker'.step = "identity" /\ worker'.build = worker.build
          /\ published' = published
      BY <1>1, <1>7 DEF PromoteModule, Goto, Files, At, FilesOK, Unserving, Described
    <2>2. disk'.module = Made(worker.build)
      BY <1>1, <1>7 DEF PromoteModule, Files, Made
    <2> QED
      BY <2>1, <2>2 DEF FilesOK, Unserving, Described, Made
  <1>8. CASE PromoteIdentity
    <2>1. /\ disk'.full = disk.full /\ disk'.manifest = disk.manifest
          /\ disk'.module = disk.module
          /\ disk'.identity = worker.build.description.key
          /\ worker'.step = "marker" /\ worker'.build = worker.build
          /\ published' = published
      BY <1>1, <1>8 DEF PromoteIdentity, Goto, Files
    <2>2. /\ disk.full = NoKey
          /\ disk.manifest.key = worker.build.description.key
          /\ disk.module = Made(worker.build)
          /\ Made(worker.build) \in published
      BY <1>8 DEF PromoteIdentity, At, FilesOK, Unserving, Described
    <2> QED
      BY <2>1, <2>2 DEF FilesOK, Unserving, Described, Made
  <1>9. CASE PromoteMarker
    <2>1. /\ disk'.full = worker.build.description.key
          /\ disk'.manifest = disk.manifest /\ disk'.module = disk.module
          /\ disk'.identity = disk.identity
          /\ worker'.step = "idle" /\ published' = published
      BY <1>1, <1>9 DEF PromoteMarker, Idle, Files
    <2>2. /\ disk.manifest.key = worker.build.description.key
          /\ disk.module = Made(worker.build)
          /\ disk.identity = worker.build.description.key
      BY <1>9 DEF PromoteMarker, At, FilesOK, Unserving, Described
    <2> QED
      BY <2>1, <2>2 DEF FilesOK, Unserving, Described, Made
  <1> QED
    BY <1>2, <1>3, <1>4, <1>5, <1>6, <1>7, <1>8, <1>9

(* Before it publishes, and when it is lost, a request leaves these files.    *)
LEMMA PreparingKeepsFiles ==
    ASSUME TypeOK, FilesOK,
           \/ \E reset \in BOOLEAN : Request(reset)
           \/ TakeBack
           \/ \E p \in Program, resume, fresh, patch \in BOOLEAN :
                  CompileRequest(p, resume, fresh, patch)
           \/ RecordState
           \/ LoseSession
    PROVE  FilesOK'
  <1>1. /\ disk \in Files
        /\ worker \in [step : WorkerSteps, record : Refusal, build : Result]
    BY DEF TypeOK, WorkerTypeOK
  <1>2. /\ disk'.module = disk.module /\ disk'.full = disk.full
        /\ disk'.identity = disk.identity /\ disk'.manifest = disk.manifest
    BY <1>1 DEF Request, TakeBack, CompileRequest, RecordState, LoseSession, Files
  <1>3. published' = published
    BY DEF Request, TakeBack, CompileRequest, RecordState, LoseSession
  <1>4. worker'.step \in {"idle", "takeBack", "compile", "withdraw"}
    <2>1. CASE \E reset \in BOOLEAN : Request(reset)
      BY <2>1, <1>1 DEF Request, Goto
    <2>2. CASE TakeBack
      BY <2>2, <1>1 DEF TakeBack
    <2>3. CASE \E p \in Program, resume, fresh, patch \in BOOLEAN :
                   CompileRequest(p, resume, fresh, patch)
      BY <2>3, <1>1 DEF CompileRequest
    <2>4. CASE RecordState
      BY <2>4 DEF RecordState, At
    <2>5. CASE LoseSession
      BY <2>5 DEF LoseSession, Idle
    <2> QED
      BY <2>1, <2>2, <2>3, <2>4, <2>5
  <1> QED
    BY <1>2, <1>3, <1>4 DEF FilesOK, Unserving, Described

(* The host writes one file, the record of what it refused.                   *)
LEMMA HostWritesRecord ==
    ASSUME TypeOK, HostNext
    PROVE  /\ ~Strict => disk' = disk
           /\ disk'.module = disk.module /\ disk'.identity = disk.identity
           /\ disk'.full = disk.full /\ disk'.manifest = disk.manifest
  <1>1. disk \in Files
    BY DEF TypeOK
  <1>2. CASE RefuseUnpatchable
    BY <1>1, <1>2 DEF RefuseUnpatchable, Refuse, Files
  <1>3. CASE FailPatch
    BY <1>1, <1>3 DEF FailPatch, Refuse, Files
  <1>4. CASE disk' = disk
    BY <1>4
  <1> QED
    BY <1>2, <1>3, <1>4
       DEF HostNext, HostStep, BootStamp, BootManifest, Poll, Describe, RefuseLostHistory,
           DecidePatch, DecideReload, ApplyPatch, Complete, ReadMarker, TrustModule,
           ReadModule, ReadIdentity, MarkerGone, Load, KeepModule, Stop

LEMMA NextKeepsFiles ==
    ASSUME TypeOK, FilesOK, [Next]_vars
    PROVE  FilesOK'
  <1>1. CASE WorkerNext
    BY <1>1, PublishingKeepsFiles, PreparingKeepsFiles DEF WorkerNext, WorkerStep
  <1>2. CASE HostNext /\ UNCHANGED workerVars
    <2>1. /\ disk'.module = disk.module /\ disk'.identity = disk.identity
          /\ disk'.full = disk.full /\ disk'.manifest = disk.manifest
      BY <1>2, HostWritesRecord
    <2>2. worker' = worker /\ published' = published
      BY <1>2 DEF workerVars
    <2> QED
      BY <2>1, <2>2 DEF FilesOK
  <1>3. CASE UNCHANGED vars
    BY <1>3 DEF FilesOK, vars, workerVars
  <1> QED
    BY <1>1, <1>2, <1>3 DEF Next

LEMMA AlwaysFiles == Spec => [](TypeOK /\ FilesOK)
  <1>1. Init => TypeOK /\ FilesOK
    BY InitType, InitFiles
  <1>2. TypeOK /\ FilesOK /\ [Next]_vars => (TypeOK /\ FilesOK)'
    BY NextKeepsType, NextKeepsFiles
  <1> QED
    BY <1>1, <1>2, PTL DEF Spec

(* Worker, files and host keep their shape, with any host.                    *)
THEOREM LiveTypeCorrect == Spec => []TypeOK
  BY AlwaysFiles, PTL

(* While the marker names a publication, the module, its identity and its      *)
(* description are of that publication and the module is one that was built,   *)
(* with any host (CompilerServer.hx, publishEarly and the promotion after it). *)
THEOREM MarkersVouch == Spec => []MarkerVouches
  <1>1. FilesOK => MarkerVouches
    BY DEF FilesOK, MarkerVouches
  <1> QED
    BY <1>1, AlwaysFiles, PTL

----------------------------------------------------------------------------
(* With a host that reloads, nothing is refused and nothing taken back: the   *)
(* keys of a module's builds only grow, in the publications, in the compiler  *)
(* and in the history it saves, so that a key names one program.  (A strict    *)
(* host makes the compiler go back, and a saved history forgets how far the    *)
(* numbers had come: there a key may name two.)                              *)

Own(c) == KeyOf(c.id, c.assembler.revision)
Keys(P) == {x.key : x \in P}

Reaches(key, K) == \A k \in K : k.id = key.id => k.revision <= key.revision
Exceeds(key, K) == \A k \in K : k.id = key.id => k.revision < key.revision

PublishedOK(P, m) ==
    /\ \A x \in P : /\ x.key \in [id : 1..m, revision : 1..MaxRevision]
                    /\ x.program \in Program
    /\ \A x, y \in P : x.key = y.key => x = y

(* A patch takes one published build to the next, published or about to be.   *)
PatchOK(f, P) ==
    f # NoPatch =>
        /\ f.key.revision = f.base + 1
        /\ [key |-> KeyOf(f.key.id, f.base), program |-> f.from] \in P
        /\ \A x \in P : x.key = f.key => x.program = f.to

DescriptionOK(d, P) == d.key \in Keys(P) /\ (d.patch => d.key.revision = d.base + 1)

(* The compiler knows the build it patches next.                             *)
Ready(c) ==
    /\ c.phase = "ready"
    /\ c.semantic = c.assembler.program
    /\ c.assembler.floor <= c.assembler.revision
    /\ c.baseline.revision = c.assembler.revision
    /\ c.assembler.revision > 0 => c.baseline.available

Serves(c) ==
    /\ Ready(c)
    /\ c.assembler.revision > 0
    /\ disk.full = Own(c)
    /\ disk.module = [key |-> Own(c), program |-> c.assembler.program]

(* A saved history is that of one publication.                               *)
HistoryOf(key, q) ==
    [id        |-> key.id,
     tracking  |-> TRUE,
     revision  |-> key.revision,
     backend   |-> TRUE,
     assembler |-> [revision |-> key.revision, floor |-> 0, program |-> q],
     semantic  |-> q]

StateOK(s, P) ==
    s.marker # NoKey =>
        \E q \in Program : /\ s.compiler = HistoryOf(s.marker, q)
                           /\ [key |-> s.marker, program |-> q] \in P

(* A build in flight, of compiler c, when P is published and f is the patch.   *)
BuildOK(b, c, P, f) ==
    /\ b.description.key = Own(c)
    /\ b.program = c.assembler.program
    /\ b.program \in Program
    /\ b.description.key.revision \in 1..MaxRevision
    /\ c.semantic = c.assembler.program
    /\ c.assembler.floor <= c.assembler.revision
    /\ Reaches(b.description.key, Keys(P) \cup {f.key})
    /\ f.key = b.description.key => f.to = b.program

BuiltPatchOK(b, c, P) ==
    IF b.description.patch
    THEN /\ ~b.unchanged
         /\ b.patch = [key |-> b.description.key, base |-> b.description.base,
                       from |-> b.patch.from, to |-> b.program]
         /\ b.description.base + 1 = b.description.key.revision
         /\ [key |-> KeyOf(c.id, b.description.base), program |-> b.patch.from] \in P
    ELSE b.patch = NoPatch

UnchangedOK(b, c) ==
    /\ Ready(c)
    /\ disk.module = Made(b)
    /\ disk.identity = b.description.key

ChangedOK(b, c) ==
    /\ worker.step \in {"withdraw", "patch", "summary", "manifest", "stamp"} =>
           /\ c.phase = "pending"
           /\ c.pending.revision = c.assembler.revision
    /\ worker.step \in {"module", "identity", "marker"} => Ready(c)
    /\ worker.step \in {"withdraw", "patch", "summary"} =>
           Exceeds(b.description.key, Keys(published))

FilesNumbered ==
    /\ PublishedOK(published, modules)
    /\ PatchOK(disk.patch, published)
    /\ DescriptionOK(disk.summary, published)
    /\ DescriptionOK(disk.manifest, published)
    /\ StateOK(disk.state, published)
    /\ disk.full # NoKey => Reaches(disk.full, Keys(published) \cup {disk.patch.key})

AtRest ==
    /\ disk.refused = NoRefusal
    /\ worker.record = NoRefusal
    /\ worker.step # "takeBack"
    /\ worker.step \notin InFlight /\ HasCompiler => Serves(compiler)

Building ==
    worker.step \in InFlight =>
        /\ compiler.id \in 1..modules
        /\ BuildOK(worker.build, compiler, published, disk.patch)
        /\ BuiltPatchOK(worker.build, compiler, published)
        /\ worker.build.unchanged => UnchangedOK(worker.build, compiler)
        /\ ~worker.build.unchanged => ChangedOK(worker.build, compiler)
        /\ worker.step = "patch" => worker.build.description.patch

Numbered == FilesNumbered /\ AtRest /\ Building

(* What a build of a compiler that knows what it patches leaves.              *)
LEMMA BuildOutcome ==
    ASSUME NEW c \in Compiler, Ready(c), NEW p \in Program, NEW fresh \in BOOLEAN,
           NEW start, start = StartingAssembler(c, fresh)
    PROVE  /\ Built(c, p, start) \in Compiler
           /\ Built(c, p, start).id = c.id
           /\ Built(c, p, start).semantic = p
           /\ Built(c, p, start).assembler = BuiltAssembler(c, p, start)
           /\ BuiltAssembler(c, p, start) \in Assembler
           /\ BuiltAssembler(c, p, start).program = p
           /\ BuiltAssembler(c, p, start).floor <= BuiltAssembler(c, p, start).revision
           /\ ResultUnchanged(c, p, start) =>
                  /\ c.assembler.revision > 0
                  /\ c.assembler.program = p
                  /\ BuiltAssembler(c, p, start) = c.assembler
                  /\ Ready(Built(c, p, start))
           /\ ~ResultUnchanged(c, p, start) =>
                  /\ BuiltAssembler(c, p, start).revision = c.assembler.revision + 1
                  /\ Built(c, p, start).phase = "pending"
                  /\ Built(c, p, start).pending.revision = c.assembler.revision + 1
           /\ MayCarryPatch(c, p, start) => ~ResultUnchanged(c, p, start)
  <1> DEFINE a == c.assembler
             next == BuiltAssembler(c, p, start)
             built == Built(c, p, start)
  <1>1. a \in Assembler /\ a.revision \in Nat /\ a.floor \in Nat /\ a.floor <= a.revision
    BY DEF Compiler, Assembler, Ready
  <1>2. LastRevision(a) = a.revision
    BY <1>1 DEF LastRevision
  <1>3. start \in Assembler /\ LastRevision(start) = a.revision /\ start.floor <= a.revision
    <2>1. CASE start = a
      BY <2>1, <1>1, <1>2
    <2>2. CASE start = FreshLayout(a)
      <3>1. start \in Assembler
        BY <2>2, <1>1, NumberingType
      <3>2. start = [NewAssembler EXCEPT !.floor = IF a.revision > NewAssembler.floor
                                                   THEN a.revision ELSE NewAssembler.floor]
        BY <2>2, <1>2 DEF FreshLayout, ContinueRevisions
      <3>3. NewAssembler.floor = 0 /\ NewAssembler.revision = 0
        BY DEF NewAssembler
      <3>4. NewAssembler \in Assembler
        BY DEF NewAssembler, Assembler, MaybeProgram
      <3>5. start.revision = 0 /\ start.floor = a.revision
        BY <1>1, <3>2, <3>3, <3>4 DEF Assembler
      <3> QED
        BY <3>1, <3>5, <1>1 DEF LastRevision
    <2> QED
      BY <2>1, <2>2 DEF StartingAssembler
  <1>4. built \in Compiler
    BY <1>3, BuiltType
  <1>5. next \in Assembler
    BY <1>1, <1>3, AssembledType DEF BuiltAssembler
  <1>6. Assembled(start, p) = [revision |-> a.revision + 1, floor |-> start.floor, program |-> p]
    BY <1>3, AssembledRecord
  <1>7. CASE ResultUnchanged(c, p, start)
    <2>1. /\ start = a /\ AssemblesUnchanged(c, p) /\ next = a
          /\ a.revision > 0 /\ a.program = p /\ c.semantic = p
      BY <1>7, <1>1 DEF ResultUnchanged, AssemblesUnchanged, BuiltAssembler
    <2>2. built = [c EXCEPT !.assembler = a, !.semantic = p]
      BY <1>7, <2>1 DEF Built
    <2> HIDE DEF next, built
    <2>3. /\ built.id = c.id /\ built.semantic = p /\ built.assembler = a
          /\ built.phase = c.phase /\ built.baseline = c.baseline
      BY <2>2 DEF Compiler
    <2>4. Ready(built)
      BY <2>1, <2>3 DEF Ready
    <2>5. ~MayCarryPatch(c, p, start)
      BY <2>1 DEF MayCarryPatch
    <2> QED
      BY <1>1, <1>4, <1>5, <1>7, <2>1, <2>3, <2>4, <2>5 DEF next, built
  <1>8. CASE ~ResultUnchanged(c, p, start)
    <2>1. ~(start = a /\ AssemblesUnchanged(c, p))
      <3> SUFFICES ASSUME start = a, AssemblesUnchanged(c, p) PROVE FALSE
        OBVIOUS
      <3>1. c.baseline.available /\ c.baseline.revision = c.assembler.revision
        BY DEF AssemblesUnchanged, Ready
      <3> QED
        BY <1>8, <3>1 DEF ResultUnchanged
    <2>2. next = Assembled(start, p)
      BY <2>1 DEF BuiltAssembler
    <2>3. next.revision = a.revision + 1 /\ next.floor = start.floor /\ next.program = p
      BY <1>6, <2>2
    <2>4. c.phase = "ready"
      BY DEF Ready
    <2> DEFINE adopted == [c EXCEPT !.assembler = next, !.semantic = p]
               waiting == [baseline |-> c.baseline, revision |-> next.revision,
                           snapshot |-> c.semantic, assembler |-> c.assembler]
    <2>5. built = [adopted EXCEPT !.phase = "pending", !.pending = waiting]
      BY <1>8, <2>4 DEF Built
    <2> HIDE DEF next, built
    <2>6. /\ built.id = c.id /\ built.semantic = p /\ built.assembler = next
          /\ built.phase = "pending" /\ built.pending = waiting
      BY <2>5 DEF Compiler
    <2>7. waiting.revision = next.revision
      OBVIOUS
    <2>8. next.floor <= next.revision
      BY <1>1, <1>3, <1>5, <2>3 DEF Assembler
    <2> QED
      BY <1>4, <1>5, <1>8, <2>3, <2>6, <2>7, <2>8 DEF next, built
  <1> QED
    BY <1>7, <1>8

(* A history that would be resumed is that of the module on disk.             *)
LEMMA ResumedServes ==
    ASSUME TypeOK, FilesOK, FilesNumbered, CanResume
    PROVE  Serves(Resumed(disk.state.compiler))
  <1> DEFINE key == disk.state.marker
  <1>1. disk \in Files /\ key \in Key /\ key # NoKey /\ disk.full = key
    BY DEF TypeOK, Files, CanResume
  <1>2. PICK q \in Program : /\ disk.state.compiler = HistoryOf(key, q)
                             /\ [key |-> key, program |-> q] \in published
    BY <1>1 DEF FilesNumbered, StateOK
  <1>3. disk.module \in published /\ disk.module.key = key
    BY <1>1 DEF FilesOK
  <1>4. key.revision \in Nat /\ key.revision > 0
    <2>1. [key |-> key, program |-> q].key = key
      OBVIOUS
    <2>2. key \in [id : 1..modules, revision : 1..MaxRevision]
      BY <1>2, <2>1 DEF FilesNumbered, PublishedOK
    <2> QED
      BY <2>2, BoundsAssumption
  <1>5. disk.module = [key |-> key, program |-> q]
    BY <1>2, <1>3 DEF FilesNumbered, PublishedOK
  <1> DEFINE s == HistoryOf(key, q)
             a == [revision |-> key.revision, floor |-> 0, program |-> q]
             c == Resumed(s)
  <1>6. /\ s.id = key.id /\ s.tracking /\ s.revision = key.revision /\ s.backend = TRUE
        /\ s.assembler = a /\ s.semantic = q
    BY DEF HistoryOf
  <1> HIDE DEF s, key
  <1>7. /\ c.id = key.id /\ c.phase = "ready" /\ c.assembler = a /\ c.semantic = q
        /\ c.baseline = [revision |-> key.revision, available |-> TRUE]
    BY <1>6 DEF Resumed, Enabled, NewCompiler
  <1>8. Own(c) = key
    <2>1. Own(c) = [id |-> key.id, revision |-> key.revision]
      BY <1>7 DEF Own, KeyOf
    <2> QED
      BY <1>1, <2>1 DEF Key
  <1>9. Ready(c)
    BY <1>4, <1>7 DEF Ready
  <1> HIDE DEF c
  <1>10. Serves(c)
    BY <1>1, <1>4, <1>5, <1>7, <1>8, <1>9 DEF Serves
  <1> QED
    BY <1>2, <1>10 DEF c, s

(* Nothing is numbered under a module that has not been created.              *)
LEMMA UsedKeys ==
    ASSUME TypeOK, FilesNumbered, NEW k \in Keys(published) \cup {disk.patch.key}
    PROVE  k \in Key /\ k.id <= modules
  <1>1. modules \in Nat /\ disk.patch \in PatchFile
    BY DEF TypeOK, WorkerTypeOK, Files
  <1>2. ASSUME NEW x \in published
        PROVE  x.key \in Key /\ x.key.id <= modules
    BY <1>1, <1>2 DEF FilesNumbered, PublishedOK, Key
  <1>3. CASE k \in Keys(published)
    BY <1>2, <1>3 DEF Keys
  <1>4. CASE k = disk.patch.key /\ disk.patch = NoPatch
    BY <1>1, <1>4, NothingType DEF NoPatch, NoKey
  <1>5. CASE k = disk.patch.key /\ disk.patch # NoPatch
    <2> DEFINE base == [key |-> KeyOf(k.id, disk.patch.base), program |-> disk.patch.from]
    <2>1. base \in published
      BY <1>5 DEF FilesNumbered, PatchOK
    <2>2. base.key.id = k.id
      BY DEF KeyOf
    <2> HIDE DEF base
    <2> QED
      BY <1>1, <1>2, <1>5, <2>1, <2>2 DEF PatchFile
  <1> QED
    BY <1>3, <1>4, <1>5

(* The compiler of a build knows what it patches: it is the one whose module    *)
(* is on disk, or new.                                                        *)
LEMMA PreparedReady ==
    ASSUME TypeOK, FilesOK, Numbered, At("compile"), NEW resume \in BOOLEAN,
           HasCompiler => ~resume, resume => CanResume
    PROVE  /\ Prepared(resume) \in Compiler
           /\ Ready(Prepared(resume))
           /\ \/ /\ HasCompiler \/ resume
                 /\ Serves(Prepared(resume))
              \/ /\ ~HasCompiler /\ ~resume
                 /\ Prepared(resume).id = modules + 1
                 /\ Prepared(resume).assembler.revision = 0
  <1>1. Prepared(resume) \in Compiler
    BY PreparedType
  <1>2. CASE HasCompiler
    <2>1. worker.step \notin InFlight
      BY DEF At, InFlight, Unserving
    <2>2. Serves(compiler)
      BY <1>2, <2>1 DEF Numbered, AtRest
    <2> QED
      BY <1>1, <1>2, <2>2 DEF Prepared, Serves
  <1>3. CASE ~HasCompiler /\ resume
    <2>1. Serves(Resumed(disk.state.compiler))
      BY <1>3, ResumedServes DEF Numbered
    <2> QED
      BY <1>1, <1>3, <2>1 DEF Prepared, Serves
  <1>4. CASE ~HasCompiler /\ ~resume
    <2> DEFINE c == Prepared(resume)
    <2>1. c = Enabled(NewCompiler(modules + 1), 0, FALSE)
      BY <1>4 DEF Prepared
    <2>2. /\ c.id = modules + 1 /\ c.phase = "ready" /\ c.semantic = NoProgram
          /\ c.assembler = NewAssembler /\ c.baseline = [revision |-> 0, available |-> FALSE]
      BY <2>1 DEF Enabled, NewCompiler
    <2>3. /\ NewAssembler.revision = 0 /\ NewAssembler.floor = 0
          /\ NewAssembler.program = NoProgram
      BY DEF NewAssembler
    <2> HIDE DEF c
    <2>4. Ready(c) /\ c.assembler.revision = 0
      BY <2>2, <2>3 DEF Ready
    <2> QED
      BY <1>1, <1>4, <2>2, <2>4 DEF c
  <1> QED
    BY <1>2, <1>3, <1>4

(* A build has the next key of its module, unless nothing changed.            *)
LEMMA BuildIsNumbered ==
    ASSUME TypeOK, FilesOK, FilesNumbered,
           NEW c \in Compiler, Ready(c),
           Serves(c) \/ (c.id = modules + 1 /\ c.assembler.revision = 0),
           NEW p \in Program, NEW fresh \in BOOLEAN,
           NEW start, start = StartingAssembler(c, fresh),
           NEW patch \in BOOLEAN, patch => MayCarryPatch(c, p, start),
           BuiltAssembler(c, p, start).revision <= MaxRevision,
           NEW b, b = ResultOf(c, p, start, patch),
           NEW built, built = Built(c, p, start)
    PROVE  /\ BuildOK(b, built, published, disk.patch)
           /\ BuiltPatchOK(b, built, published)
           /\ b.unchanged => UnchangedOK(b, built)
           /\ ~b.unchanged => /\ built.phase = "pending"
                              /\ built.pending.revision = built.assembler.revision
                              /\ Exceeds(b.description.key, Keys(published))
  <1> DEFINE next == BuiltAssembler(c, p, start)
             key == KeyOf(c.id, next.revision)
             used == Keys(published) \cup {disk.patch.key}
             fresher == ~ResultUnchanged(c, p, start)
  <1>1. /\ c.id \in Nat /\ c.assembler.revision \in Nat
        /\ c.baseline.revision = c.assembler.revision
    BY DEF Compiler, Assembler, Ready
  <1>2. /\ built \in Compiler /\ built.id = c.id /\ built.semantic = p
        /\ built.assembler = next /\ next \in Assembler /\ next.program = p
        /\ next.floor <= next.revision
        /\ ~fresher => /\ c.assembler.revision > 0 /\ c.assembler.program = p
                       /\ next = c.assembler /\ Ready(built)
        /\ fresher => /\ next.revision = c.assembler.revision + 1
                      /\ built.phase = "pending"
                      /\ built.pending.revision = c.assembler.revision + 1
        /\ patch => fresher
    BY BuildOutcome
  <1>3. /\ b.description = [key |-> key, base |-> c.baseline.revision, patch |-> patch]
        /\ b.patch = IF patch
                     THEN [key |-> key, base |-> c.assembler.revision,
                           from |-> c.assembler.program, to |-> p]
                     ELSE NoPatch
        /\ b.program = p
        /\ b.unchanged <=> ~fresher
    <2>1. b.unchanged = ResultUnchanged(c, p, start)
      BY DEF ResultOf
    <2>2. b.unchanged <=> ~fresher
      BY <2>1
    <2>3. /\ b.description = [key |-> key, base |-> c.baseline.revision, patch |-> patch]
          /\ b.patch = IF patch
                       THEN [key |-> key, base |-> c.assembler.revision,
                             from |-> c.assembler.program, to |-> p]
                       ELSE NoPatch
          /\ b.program = p
      BY DEF ResultOf
    <2> QED
      BY <2>2, <2>3
  <1>4. key.id = c.id /\ key.revision = next.revision
    BY DEF KeyOf
  <1>5. \A k \in used : k \in Key /\ k.id <= modules
    BY UsedKeys
  <1>6. Own(built) = key
    BY <1>2 DEF Own
  <1>7. modules \in Nat /\ next.revision \in Nat
    BY <1>2 DEF TypeOK, WorkerTypeOK, Assembler
  <1> HIDE DEF next, key, used, fresher
  <1>8. /\ b.description.key = key /\ b.description.base = c.assembler.revision
        /\ b.description.patch = patch
    BY <1>1, <1>3
  <1>9. /\ Serves(c) => /\ Own(c) = disk.full /\ disk.full # NoKey
                        /\ c.assembler.revision > 0
                        /\ Own(c).id = c.id /\ Own(c).revision = c.assembler.revision
                        /\ disk.module = [key |-> Own(c), program |-> c.assembler.program]
                        /\ disk.module \in published /\ disk.identity = Own(c)
        /\ Serves(c) => Reaches(Own(c), used)
    <2> SUFFICES ASSUME Serves(c)
                 PROVE  /\ Own(c) = disk.full /\ disk.full # NoKey
                        /\ c.assembler.revision > 0
                        /\ Own(c).id = c.id /\ Own(c).revision = c.assembler.revision
                        /\ disk.module = [key |-> Own(c), program |-> c.assembler.program]
                        /\ disk.module \in published /\ disk.identity = Own(c)
                        /\ Reaches(Own(c), used)
      OBVIOUS
    <2>1. /\ Own(c) = disk.full /\ c.assembler.revision > 0
          /\ disk.module = [key |-> Own(c), program |-> c.assembler.program]
      BY DEF Serves
    <2>2. Own(c).id = c.id /\ Own(c).revision = c.assembler.revision
      BY DEF Own, KeyOf
    <2>3. disk.full # NoKey
      BY <1>1, <2>1, <2>2 DEF NoKey
    <2>4. Reaches(disk.full, used)
      BY <2>3 DEF FilesNumbered, used
    <2>5. disk.module \in published /\ disk.identity = disk.full
      BY <2>3 DEF FilesOK
    <2> QED
      BY <2>1, <2>2, <2>3, <2>4, <2>5
  <1>10. fresher => \A k \in used : k.id = c.id => k.revision < next.revision
    <2> SUFFICES ASSUME fresher, NEW k \in used, k.id = c.id
                 PROVE  k.revision < next.revision
      OBVIOUS
    <2>1. k.revision \in Nat
      BY <1>5 DEF Key
    <2>2. CASE Serves(c)
      BY <1>1, <1>2, <1>9, <2>1, <2>2 DEF Reaches
    <2>3. CASE c.id = modules + 1
      BY <1>5, <1>7, <2>3
    <2> QED
      BY <2>2, <2>3
  <1>11. ~fresher => Serves(c) /\ key = Own(c)
    BY <1>1, <1>2 DEF Own, key
  <1>12. Reaches(key, used)
    <2>1. CASE fresher
      BY <1>4, <1>5, <1>7, <1>10, <2>1 DEF Reaches, Key
    <2>2. CASE ~fresher
      BY <1>9, <1>11, <2>2
    <2> QED
      BY <2>1, <2>2
  <1>13. disk.patch.key = key => disk.patch.to = p
    <2> SUFFICES ASSUME disk.patch.key = key PROVE disk.patch.to = p
      OBVIOUS
    <2>1. disk.patch.key \in used
      BY DEF used
    <2>2. ~fresher
      BY <1>4, <1>7, <1>10, <2>1
    <2>3. disk.patch # NoPatch
      BY <1>1, <1>2, <1>4, <2>2 DEF NoPatch, NoKey
    <2>4. disk.module.key = key /\ disk.module \in published /\ disk.module.program = p
      BY <1>2, <1>9, <1>11, <2>2
    <2> QED
      BY <2>3, <2>4 DEF FilesNumbered, PatchOK
  <1>14. key.revision \in 1..MaxRevision
    <2>1. next.revision >= 1
      BY <1>1, <1>2, <1>7
    <2> QED
      BY <1>4, <1>7, <2>1, BoundsAssumption DEF next
  <1>15. BuildOK(b, built, published, disk.patch)
    <2>1. b.description.key = Own(built) /\ b.program = built.assembler.program
      BY <1>2, <1>3, <1>6, <1>8
    <2>2. built.semantic = built.assembler.program /\ built.assembler.floor <= built.assembler.revision
      BY <1>2
    <2>3. Reaches(b.description.key, Keys(published) \cup {disk.patch.key})
      BY <1>8, <1>12 DEF used
    <2> QED
      BY <1>3, <1>8, <1>13, <1>14, <2>1, <2>2, <2>3 DEF BuildOK
  <1>16. BuiltPatchOK(b, built, published)
    <2>1. CASE patch
      <3>1. b.patch = [key |-> key, base |-> c.assembler.revision,
                       from |-> c.assembler.program, to |-> p]
        BY <1>3, <2>1
      <3>2. b.patch.from = c.assembler.program
        BY <3>1
      <3>3. b.patch = [key |-> b.description.key, base |-> b.description.base,
                       from |-> b.patch.from, to |-> b.program]
        BY <1>3, <1>8, <3>1, <3>2
      <3>4. fresher /\ c.assembler.revision > 0
        BY <1>2, <2>1 DEF MayCarryPatch
      <3>5. Serves(c)
        BY <3>4
      <3>6. [key |-> Own(c), program |-> c.assembler.program] \in published
        BY <1>9, <3>5
      <3>7. [key |-> KeyOf(built.id, b.description.base), program |-> b.patch.from] \in published
        BY <1>2, <1>8, <3>2, <3>6 DEF Own
      <3>8. b.description.base + 1 = b.description.key.revision
        BY <1>2, <1>4, <1>8, <3>4
      <3>9. b.description.patch /\ ~b.unchanged
        BY <1>3, <1>8, <2>1, <3>4
      <3> QED
        BY <3>3, <3>7, <3>8, <3>9 DEF BuiltPatchOK
    <2>2. CASE ~patch
      BY <1>3, <1>8, <2>2 DEF BuiltPatchOK
    <2> QED
      BY <2>1, <2>2
  <1>17. b.unchanged => UnchangedOK(b, built)
    <2> SUFFICES ASSUME ~fresher PROVE UnchangedOK(b, built)
      BY <1>3
    <2>1. disk.module = [key |-> key, program |-> p] /\ disk.identity = key
      BY <1>2, <1>9, <1>11
    <2>2. Ready(built)
      BY <1>2
    <2> QED
      BY <1>3, <1>8, <2>1, <2>2 DEF UnchangedOK, Made
  <1>18. ~b.unchanged => /\ built.phase = "pending"
                         /\ built.pending.revision = built.assembler.revision
                         /\ Exceeds(b.description.key, Keys(published))
    <2> SUFFICES ASSUME fresher
                 PROVE  /\ built.phase = "pending"
                        /\ built.pending.revision = built.assembler.revision
                        /\ Exceeds(b.description.key, Keys(published))
      BY <1>3
    <2>1. built.phase = "pending" /\ built.pending.revision = built.assembler.revision
      BY <1>2
    <2>2. \A k \in Keys(published) : k.id = key.id => k.revision < key.revision
      BY <1>4, <1>10 DEF used
    <2> QED
      BY <1>8, <2>1, <2>2 DEF Exceeds
  <1> QED
    BY <1>15, <1>16, <1>17, <1>18

(* What is said of the files stays true while they, or what they are said of,  *)
(* stay.                                                                     *)
LEMMA SameFiles ==
    ASSUME FilesNumbered, published' = published, modules' = modules,
           disk'.patch = disk.patch, disk'.summary = disk.summary,
           disk'.manifest = disk.manifest, disk'.state = disk.state,
           disk'.full \in {disk.full, NoKey}
    PROVE  FilesNumbered'
  <1>1. PublishedOK(published, modules)'
    BY DEF FilesNumbered, PublishedOK
  <1>2. PatchOK(disk.patch, published)'
    BY DEF FilesNumbered, PatchOK
  <1>3. DescriptionOK(disk.summary, published)' /\ DescriptionOK(disk.manifest, published)'
    BY DEF FilesNumbered, DescriptionOK, Keys
  <1>4. StateOK(disk.state, published)'
    BY DEF FilesNumbered, StateOK
  <1>5. (disk.full # NoKey => Reaches(disk.full, Keys(published) \cup {disk.patch.key}))'
    BY DEF FilesNumbered, Reaches, Keys
  <1> QED
    BY <1>1, <1>2, <1>3, <1>4, <1>5 DEF FilesNumbered

(* A request, and the end of a session.                                      *)
LEMMA RequestKeepsNumbers ==
    ASSUME TypeOK, FilesOK, Numbered, NEW reset \in BOOLEAN, Request(reset)
    PROVE  Numbered'
  <1>1. /\ disk' = disk /\ modules' = modules /\ published' = published
        /\ disk.refused = NoRefusal /\ At("idle")
        /\ worker \in [step : WorkerSteps, record : Refusal, build : Result]
    BY DEF Request, Numbered, AtRest, TypeOK, WorkerTypeOK
  <1>2. worker'.step = "compile" /\ worker'.record = NoRefusal
    BY <1>1 DEF Request, Goto, Numbered, AtRest
  <1>3. HasCompiler' => HasCompiler /\ compiler' = compiler
    BY DEF Request, HasCompiler, NoCompiler, NewCompiler
  <1>4. "idle" \notin InFlight /\ "compile" \notin InFlight
    BY DEF InFlight, Unserving
  <1>5. HasCompiler => Serves(compiler)
    BY <1>1, <1>4 DEF Numbered, AtRest, At
  <1>6. HasCompiler' => Serves(compiler)'
    BY <1>1, <1>3, <1>5 DEF Serves
  <1>7. AtRest'
    BY <1>1, <1>2, <1>6 DEF AtRest
  <1>8. Building'
    BY <1>2, <1>4 DEF Building
  <1>9. FilesNumbered'
    BY <1>1, SameFiles DEF Numbered
  <1> QED
    BY <1>7, <1>8, <1>9 DEF Numbered

LEMMA LoseSessionKeepsNumbers ==
    ASSUME TypeOK, FilesOK, Numbered, LoseSession
    PROVE  Numbered'
  <1>1. /\ disk' = disk /\ modules' = modules /\ published' = published
        /\ worker'.step = "idle" /\ worker'.record = NoRefusal /\ compiler'.id = 0
    BY DEF LoseSession, Idle, NoCompiler, NewCompiler
  <1>2. "idle" \notin InFlight
    BY DEF InFlight, Unserving
  <1>3. ~HasCompiler'
    BY <1>1 DEF HasCompiler
  <1>4. AtRest' /\ Building'
    BY <1>1, <1>2, <1>3 DEF AtRest, Building, Numbered
  <1>5. FilesNumbered'
    BY <1>1, SameFiles DEF Numbered
  <1> QED
    BY <1>4, <1>5 DEF Numbered

(* What is recorded is the history of the publication on disk.               *)
LEMMA RecordStateKeepsNumbers ==
    ASSUME TypeOK, FilesOK, Numbered, RecordState
    PROVE  Numbered'
  <1>1. /\ disk \in Files /\ compiler \in Compiler
        /\ compiler' = compiler /\ modules' = modules /\ worker' = worker
        /\ published' = published /\ At("idle")
    BY DEF RecordState, TypeOK, WorkerTypeOK
  <1>2. "idle" \notin InFlight
    BY DEF InFlight, Unserving
  <1>3. /\ disk'.full = disk.full /\ disk'.module = disk.module /\ disk'.patch = disk.patch
        /\ disk'.summary = disk.summary /\ disk'.manifest = disk.manifest
        /\ disk'.refused = disk.refused
    BY <1>1 DEF RecordState, Files
  <1>4. HasCompiler => Serves(compiler)
    BY <1>1, <1>2 DEF Numbered, AtRest, At
  <1>5. Building'
    BY <1>1, <1>2 DEF Building, At
  <1>6. HasCompiler' => Serves(compiler)'
    BY <1>1, <1>3, <1>4 DEF Serves, HasCompiler
  <1>7. AtRest'
    BY <1>1, <1>3, <1>6 DEF AtRest, Numbered
  <1>8. StateOK(disk.state, published)'
    <2>1. CASE HasCompiler /\ disk.full = unrecorded
      <3> DEFINE q == compiler.assembler.program
                 s == [marker |-> unrecorded, compiler |-> Exported(compiler)]
      <3>1. disk'.state = s
        BY <1>1, <2>1 DEF RecordState, Files
      <3>2. /\ Ready(compiler) /\ compiler.assembler.revision > 0
            /\ unrecorded = Own(compiler)
            /\ disk.module = [key |-> Own(compiler), program |-> q]
        BY <1>4, <2>1 DEF Serves
      <3>3. disk.module \in published
        BY DEF FilesOK
      <3>4. q \in Program
        BY <3>2, <3>3 DEF Numbered, FilesNumbered, PublishedOK
      <3>5. /\ HasBackend(compiler) /\ compiler.phase = "ready"
            /\ compiler.baseline.revision = compiler.assembler.revision
            /\ compiler.semantic = q
        BY <3>2 DEF HasBackend, Ready
      <3>6. unrecorded.id = compiler.id /\ unrecorded.revision = compiler.assembler.revision
        BY <3>2 DEF Own, KeyOf
      <3>7. EncodedAssembler(compiler.assembler)
                = [revision |-> unrecorded.revision, floor |-> 0, program |-> q]
        <4> DEFINE e == EncodedAssembler(compiler.assembler)
        <4>1. compiler.assembler \in Assembler
          BY <1>1 DEF Compiler
        <4>2. /\ e \in Assembler /\ e.revision = compiler.assembler.revision
              /\ e.floor = 0 /\ e.program = q
          BY <4>1 DEF EncodedAssembler, Assembler
        <4> HIDE DEF e
        <4> QED
          BY <3>6, <4>2 DEF Assembler, e
      <3>8. Exported(compiler) = HistoryOf(unrecorded, q)
        BY <3>5, <3>6, <3>7 DEF Exported, HistoryOf
      <3>9. [key |-> unrecorded, program |-> q] \in published
        BY <3>2, <3>3
      <3>10. s.marker = unrecorded /\ s.compiler = HistoryOf(unrecorded, q)
        BY <3>8
      <3> HIDE DEF s, q
      <3> QED
        BY <1>1, <3>1, <3>4, <3>9, <3>10 DEF StateOK
    <2>2. CASE ~(HasCompiler /\ disk.full = unrecorded)
      <3>1. disk' = disk
        BY <2>2 DEF RecordState
      <3> QED
        BY <1>1, <3>1 DEF StateOK, Numbered, FilesNumbered
    <2> QED
      BY <2>1, <2>2
  <1>9. FilesNumbered'
    <2>1. PublishedOK(published, modules)' /\ PatchOK(disk.patch, published)'
      BY <1>1, <1>3 DEF Numbered, FilesNumbered, PublishedOK, PatchOK
    <2>2. DescriptionOK(disk.summary, published)' /\ DescriptionOK(disk.manifest, published)'
      BY <1>1, <1>3 DEF Numbered, FilesNumbered, DescriptionOK, Keys
    <2>3. (disk.full # NoKey => Reaches(disk.full, Keys(published) \cup {disk.patch.key}))'
      BY <1>1, <1>3 DEF Numbered, FilesNumbered, Reaches, Keys
    <2> QED
      BY <1>8, <2>1, <2>2, <2>3 DEF FilesNumbered
  <1> QED
    BY <1>5, <1>7, <1>9 DEF Numbered

(* A build of the next key, or of nothing new.                               *)
LEMMA CompileRequestKeepsNumbers ==
    ASSUME TypeOK, FilesOK, Numbered, NEW p \in Program, NEW resume \in BOOLEAN,
           NEW fresh \in BOOLEAN, NEW patch \in BOOLEAN,
           CompileRequest(p, resume, fresh, patch)
    PROVE  Numbered'
  <1> DEFINE c == Prepared(resume)
             start == StartingAssembler(c, fresh)
             b == ResultOf(c, p, start, patch)
             built == Built(c, p, start)
  <1>1. /\ At("compile")
        /\ HasCompiler => ~resume
        /\ resume => CanResume
        /\ disk' = disk /\ published' = published
        /\ worker \in [step : WorkerSteps, record : Refusal, build : Result]
        /\ modules \in Nat
    BY DEF CompileRequest, TypeOK, WorkerTypeOK
  <1>2. /\ compiler' = built
        /\ worker' = [worker EXCEPT !.step = "withdraw", !.build = b]
        /\ modules' = IF HasCompiler \/ resume THEN modules ELSE modules + 1
        /\ patch => MayCarryPatch(c, p, start)
        /\ compiler'.assembler.revision <= MaxRevision
    BY DEF CompileRequest
  <1>3. worker'.step = "withdraw" /\ worker'.build = b /\ worker'.record = worker.record
    BY <1>1, <1>2
  <1>4. c \in Compiler /\ Ready(c)
    BY <1>1, PreparedReady
  <1>5. \/ (HasCompiler \/ resume) /\ Serves(c)
        \/ ~HasCompiler /\ ~resume /\ c.id = modules + 1 /\ c.assembler.revision = 0
    BY <1>1, PreparedReady
  <1>6. /\ built.id = c.id
        /\ built.assembler = BuiltAssembler(c, p, start)
    BY <1>4, BuildOutcome
  <1>7. BuiltAssembler(c, p, start).revision <= MaxRevision
    BY <1>2, <1>6
  <1>8. FilesNumbered
    BY DEF Numbered
  <1> HIDE DEF c
  <1>9. /\ BuildOK(b, built, published, disk.patch)
        /\ BuiltPatchOK(b, built, published)
        /\ b.unchanged => UnchangedOK(b, built)
        /\ ~b.unchanged => /\ built.phase = "pending"
                           /\ built.pending.revision = built.assembler.revision
                           /\ Exceeds(b.description.key, Keys(published))
    BY <1>2, <1>4, <1>5, <1>7, <1>8, BuildIsNumbered
  <1> HIDE DEF start, b, built
  <1>10. compiler'.id \in 1..modules'
    <2>1. CASE (HasCompiler \/ resume) /\ Serves(c)
      <3>1. disk.module \in published /\ disk.module.key = Own(c)
        BY <2>1 DEF FilesOK, Serves
      <3>2. Own(c) \in [id : 1..modules, revision : 1..MaxRevision]
        BY <1>8, <3>1 DEF FilesNumbered, PublishedOK
      <3>3. Own(c).id = c.id
        BY DEF Own, KeyOf
      <3>4. c.id \in 1..modules
        BY <3>2, <3>3
      <3> QED
        BY <1>2, <1>6, <2>1, <3>4
    <2>2. CASE ~HasCompiler /\ ~resume /\ c.id = modules + 1
      BY <1>1, <1>2, <1>6, <2>2
    <2> QED
      BY <1>5, <2>1, <2>2
  <1>11. "withdraw" \in InFlight
    BY DEF InFlight
  <1>12. Building'
    <2>1. /\ BuildOK(worker.build, compiler, published, disk.patch)'
          /\ BuiltPatchOK(worker.build, compiler, published)'
      BY <1>1, <1>2, <1>3, <1>9
    <2>2. (worker.build.unchanged => UnchangedOK(worker.build, compiler))'
      BY <1>1, <1>2, <1>3, <1>9 DEF UnchangedOK
    <2>3. (~worker.build.unchanged => ChangedOK(worker.build, compiler))'
      BY <1>1, <1>2, <1>3, <1>9 DEF ChangedOK
    <2> QED
      BY <1>3, <1>10, <2>1, <2>2, <2>3 DEF Building
  <1>13. AtRest'
    BY <1>1, <1>3, <1>11 DEF AtRest, Numbered
  <1>14. FilesNumbered'
    <2>1. modules' >= modules /\ modules' \in Nat
      BY <1>1, <1>2
    <2>2. PublishedOK(published, modules)'
      BY <1>1, <1>8, <2>1 DEF FilesNumbered, PublishedOK
    <2>3. PatchOK(disk.patch, published)' /\ StateOK(disk.state, published)'
      BY <1>1, <1>8 DEF FilesNumbered, PatchOK, StateOK
    <2>4. DescriptionOK(disk.summary, published)' /\ DescriptionOK(disk.manifest, published)'
      BY <1>1, <1>8 DEF FilesNumbered, DescriptionOK, Keys
    <2>5. (disk.full # NoKey => Reaches(disk.full, Keys(published) \cup {disk.patch.key}))'
      BY <1>1, <1>8 DEF FilesNumbered, Reaches, Keys
    <2> QED
      BY <2>2, <2>3, <2>4, <2>5 DEF FilesNumbered
  <1> QED
    BY <1>12, <1>13, <1>14 DEF Numbered

(* What is known of a build in flight.                                       *)
LEMMA InFlightBuild ==
    ASSUME TypeOK, Numbered, worker.step \in InFlight, NEW b, b = worker.build
    PROVE  /\ compiler.id \in 1..modules
           /\ b.description.key \in Key
           /\ b.description.key.id = compiler.id
           /\ b.description.key = Own(compiler)
           /\ BuildOK(b, compiler, published, disk.patch)
           /\ BuiltPatchOK(b, compiler, published)
           /\ b.unchanged => UnchangedOK(b, compiler)
           /\ ~b.unchanged => ChangedOK(b, compiler)
           /\ worker.step = "patch" => b.description.patch
  <1>1. Building
    BY DEF Numbered
  <1>2. /\ compiler.id \in 1..modules
        /\ BuildOK(b, compiler, published, disk.patch)
        /\ BuiltPatchOK(b, compiler, published)
        /\ b.unchanged => UnchangedOK(b, compiler)
        /\ ~b.unchanged => ChangedOK(b, compiler)
        /\ worker.step = "patch" => b.description.patch
    BY <1>1 DEF Building
  <1>3. b.description.key = Own(compiler)
    BY <1>2 DEF BuildOK
  <1>4. b.description.key \in Key /\ b.description.key.id = compiler.id
    BY <1>3, KeyOfType DEF TypeOK, WorkerTypeOK, Compiler, Assembler, Own, KeyOf
  <1> QED
    BY <1>2, <1>3, <1>4

LEMMA WithdrawKeepsNumbers ==
    ASSUME TypeOK, FilesOK, Numbered, Withdraw
    PROVE  Numbered'
  <1> DEFINE b == worker.build
  <1>1. /\ disk \in Files /\ At("withdraw") /\ "withdraw" \in InFlight
        /\ worker \in [step : WorkerSteps, record : Refusal, build : Result]
        /\ compiler' = compiler /\ modules' = modules /\ published' = published
    BY DEF Withdraw, TypeOK, WorkerTypeOK, InFlight
  <1>2. /\ disk'.full = NoKey /\ disk'.patch = disk.patch /\ disk'.summary = disk.summary
        /\ disk'.manifest = disk.manifest /\ disk'.state = disk.state
        /\ disk'.module = disk.module /\ disk'.identity = disk.identity
        /\ disk'.refused = disk.refused
    BY <1>1 DEF Withdraw, Files
  <1>3. /\ worker'.step = IF b.description.patch THEN "patch" ELSE "summary"
        /\ worker'.build = b /\ worker'.record = worker.record
    BY <1>1 DEF Withdraw, Goto
  <1>4. worker'.step \in {"patch", "summary"} /\ worker'.step \in InFlight
    BY <1>3 DEF InFlight, Unserving
  <1>5. FilesNumbered'
    BY <1>1, <1>2, SameFiles DEF Numbered
  <1>6. AtRest'
    BY <1>2, <1>3, <1>4 DEF AtRest, Numbered
  <1>7. /\ compiler.id \in 1..modules
        /\ BuildOK(b, compiler, published, disk.patch)
        /\ BuiltPatchOK(b, compiler, published)
        /\ b.unchanged => UnchangedOK(b, compiler)
        /\ ~b.unchanged => ChangedOK(b, compiler)
    BY <1>1, InFlightBuild DEF At
  <1>8. Building'
    <2>1. /\ BuildOK(worker.build, compiler, published, disk.patch)'
          /\ BuiltPatchOK(worker.build, compiler, published)'
      BY <1>1, <1>2, <1>3, <1>7
    <2>2. (worker.build.unchanged => UnchangedOK(worker.build, compiler))'
      BY <1>1, <1>2, <1>3, <1>7 DEF UnchangedOK
    <2>3. (~worker.build.unchanged => ChangedOK(worker.build, compiler))'
      BY <1>1, <1>3, <1>4, <1>7 DEF ChangedOK, At
    <2>4. (worker.step = "patch" => worker.build.description.patch)'
      BY <1>3
    <2> QED
      BY <1>1, <1>7, <2>1, <2>2, <2>3, <2>4 DEF Building
  <1> QED
    BY <1>5, <1>6, <1>8 DEF Numbered

(* The patch file leads the summary.                                         *)
LEMMA PromotePatchKeepsNumbers ==
    ASSUME TypeOK, FilesOK, Numbered, PromotePatch
    PROVE  Numbered'
  <1> DEFINE b == worker.build
             key == b.description.key
  <1>1. /\ disk \in Files /\ At("patch") /\ "patch" \in InFlight
        /\ worker \in [step : WorkerSteps, record : Refusal, build : Result]
        /\ compiler' = compiler /\ modules' = modules /\ published' = published
    BY DEF PromotePatch, TypeOK, WorkerTypeOK, InFlight, Unserving
  <1>2. /\ disk'.full = disk.full /\ disk'.patch = b.patch /\ disk'.summary = disk.summary
        /\ disk'.manifest = disk.manifest /\ disk'.state = disk.state
        /\ disk'.module = disk.module /\ disk'.identity = disk.identity
        /\ disk'.refused = disk.refused
    BY <1>1 DEF PromotePatch, Files
  <1>3. worker'.step = "summary" /\ worker'.build = b /\ worker'.record = worker.record
    BY <1>1 DEF PromotePatch, Goto
  <1>4. disk.full = NoKey /\ "summary" \in InFlight
    BY <1>1 DEF FilesOK, At, Unserving, InFlight
  <1>5. /\ compiler.id \in 1..modules /\ key \in Key
        /\ BuildOK(b, compiler, published, disk.patch)
        /\ BuiltPatchOK(b, compiler, published)
        /\ ~b.unchanged => ChangedOK(b, compiler)
        /\ b.description.patch
        /\ key.id = compiler.id
    BY <1>1, InFlightBuild DEF At
  <1>6. /\ ~b.unchanged
        /\ b.patch = [key |-> key, base |-> b.description.base,
                      from |-> b.patch.from, to |-> b.program]
        /\ b.description.base + 1 = key.revision
        /\ [key |-> KeyOf(key.id, b.description.base), program |-> b.patch.from] \in published
    BY <1>5 DEF BuiltPatchOK
  <1>7. /\ b.patch.key = key /\ b.patch.base = b.description.base /\ b.patch.to = b.program
    BY <1>6
  <1>8. Exceeds(key, Keys(published))
    BY <1>1, <1>5, <1>6 DEF ChangedOK, At
  <1> HIDE DEF b, key
  <1>9. \A x \in published : x.key # key
    BY <1>5, <1>8 DEF Exceeds, Keys, Key
  <1>10. PatchOK(b.patch, published)
    BY <1>6, <1>7, <1>9 DEF PatchOK
  <1>11. FilesNumbered'
    <2>1. PublishedOK(published, modules)' /\ PatchOK(disk.patch, published)'
      BY <1>1, <1>2, <1>10 DEF Numbered, FilesNumbered
    <2>2. DescriptionOK(disk.summary, published)' /\ DescriptionOK(disk.manifest, published)'
      BY <1>1, <1>2 DEF Numbered, FilesNumbered
    <2>3. StateOK(disk.state, published)'
      BY <1>1, <1>2 DEF Numbered, FilesNumbered
    <2> QED
      BY <1>2, <1>4, <2>1, <2>2, <2>3 DEF FilesNumbered
  <1>12. AtRest'
    BY <1>2, <1>3, <1>4 DEF AtRest, Numbered
  <1>13. BuildOK(b, compiler, published, b.patch)
    <2>1. Reaches(key, Keys(published) \cup {b.patch.key})
      BY <1>5, <1>7, <1>8 DEF BuildOK, Reaches, Key, key
    <2> QED
      BY <1>5, <1>7, <2>1 DEF BuildOK, key
  <1>14. Building'
    <2>1. /\ BuildOK(worker.build, compiler, published, disk.patch)'
          /\ BuiltPatchOK(worker.build, compiler, published)'
      BY <1>1, <1>2, <1>3, <1>5, <1>13
    <2>2. ~worker'.build.unchanged
      BY <1>3, <1>6
    <2>3. ChangedOK(worker.build, compiler)'
      BY <1>1, <1>3, <1>5, <1>6 DEF ChangedOK, At
    <2> QED
      BY <1>1, <1>3, <1>5, <2>1, <2>2, <2>3 DEF Building
  <1> QED
    BY <1>11, <1>12, <1>14 DEF Numbered

(* What is said of the files stays true of more publications.                 *)
LEMMA MorePublished ==
    ASSUME NEW P, NEW Q, P \subseteq Q
    PROVE  /\ Keys(P) \subseteq Keys(Q)
           /\ \A d : DescriptionOK(d, P) => DescriptionOK(d, Q)
           /\ \A s : StateOK(s, P) => StateOK(s, Q)
  <1>1. Keys(P) \subseteq Keys(Q)
    BY DEF Keys
  <1>2. ASSUME NEW d, DescriptionOK(d, P)
        PROVE  DescriptionOK(d, Q)
    BY <1>1, <1>2 DEF DescriptionOK
  <1>3. ASSUME NEW s, StateOK(s, P)
        PROVE  StateOK(s, Q)
    BY <1>3 DEF StateOK
  <1> QED
    BY <1>1, <1>2, <1>3

(* A build is published under a key of its own.                              *)
LEMMA PromoteSummaryKeepsNumbers ==
    ASSUME TypeOK, FilesOK, Numbered, PromoteSummary
    PROVE  Numbered'
  <1> DEFINE b == worker.build
             key == b.description.key
             new == Made(b)
             P == published \cup {new}
  <1>1. /\ disk \in Files /\ At("summary") /\ "summary" \in InFlight
        /\ worker \in [step : WorkerSteps, record : Refusal, build : Result]
        /\ compiler' = compiler /\ modules' = modules
    BY DEF PromoteSummary, TypeOK, WorkerTypeOK, InFlight, Unserving
  <1>2. /\ disk'.full = disk.full /\ disk'.patch = disk.patch /\ disk'.summary = b.description
        /\ disk'.manifest = disk.manifest /\ disk'.state = disk.state
        /\ disk'.module = disk.module /\ disk'.identity = disk.identity
        /\ disk'.refused = disk.refused
    BY <1>1 DEF PromoteSummary, Files
  <1>3. worker'.step = "manifest" /\ worker'.build = b /\ worker'.record = worker.record
    BY <1>1 DEF PromoteSummary, Goto
  <1>4. published' = P /\ published \subseteq P
    BY DEF PromoteSummary, Made
  <1>5. disk.full = NoKey /\ "manifest" \in InFlight
    BY <1>1 DEF FilesOK, At, Unserving, InFlight
  <1>6. /\ compiler.id \in 1..modules /\ key \in Key /\ key.id = compiler.id
        /\ BuildOK(b, compiler, published, disk.patch)
        /\ BuiltPatchOK(b, compiler, published)
        /\ b.unchanged => UnchangedOK(b, compiler)
        /\ ~b.unchanged => ChangedOK(b, compiler)
    BY <1>1, InFlightBuild DEF At
  <1>7. /\ new.key = key /\ new.program = b.program
    BY DEF Made
  <1>8. /\ key.revision \in 1..MaxRevision /\ b.program \in Program
        /\ Reaches(key, Keys(published) \cup {disk.patch.key})
        /\ disk.patch.key = key => disk.patch.to = b.program
    BY <1>6 DEF BuildOK
  <1>9. FilesNumbered
    BY DEF Numbered
  <1>10. \A x \in published : x.key = key => x = new
    <2>1. CASE b.unchanged
      <3>1. new \in published
        BY <1>6, <2>1 DEF UnchangedOK, FilesOK
      <3> QED
        BY <1>7, <1>9, <3>1 DEF FilesNumbered, PublishedOK
    <2>2. CASE ~b.unchanged
      <3>1. Exceeds(key, Keys(published))
        BY <1>1, <1>6, <2>2 DEF ChangedOK, At
      <3> QED
        BY <1>6, <3>1 DEF Exceeds, Keys, Key
    <2> QED
      BY <2>1, <2>2
  <1> HIDE DEF b, key, new, P
  <1>11. key \in [id : 1..modules, revision : 1..MaxRevision]
    BY <1>6, <1>8 DEF Key
  <1>12. PublishedOK(P, modules)
    BY <1>7, <1>8, <1>9, <1>10, <1>11 DEF FilesNumbered, PublishedOK, P
  <1>13. PatchOK(disk.patch, P)
    BY <1>7, <1>8, <1>9 DEF FilesNumbered, PatchOK, P
  <1>14. DescriptionOK(b.description, P)
    <2>1. key \in Keys(P)
      BY <1>7 DEF Keys, P
    <2>2. b.description.patch => key.revision = b.description.base + 1
      BY <1>6 DEF BuiltPatchOK, key
    <2> QED
      BY <2>1, <2>2 DEF DescriptionOK, key
  <1>15. Keys(P) = Keys(published) \cup {key}
    BY <1>7 DEF Keys, P
  <1>16. FilesNumbered'
    <2>1. /\ DescriptionOK(disk.manifest, P) /\ StateOK(disk.state, P)
      BY <1>4, <1>9, MorePublished DEF FilesNumbered
    <2> QED
      BY <1>1, <1>2, <1>4, <1>5, <1>12, <1>13, <1>14, <2>1 DEF FilesNumbered
  <1>17. AtRest'
    BY <1>2, <1>3, <1>5 DEF AtRest, Numbered
  <1>18. BuildOK(b, compiler, P, disk.patch)
    <2>1. Reaches(key, Keys(P) \cup {disk.patch.key})
      BY <1>6, <1>8, <1>15 DEF Reaches, Key
    <2> QED
      BY <1>6, <2>1 DEF BuildOK, key
  <1>19. BuiltPatchOK(b, compiler, P)
    BY <1>4, <1>6 DEF BuiltPatchOK
  <1>20. Building'
    <2>1. /\ BuildOK(worker.build, compiler, published, disk.patch)'
          /\ BuiltPatchOK(worker.build, compiler, published)'
      BY <1>1, <1>2, <1>3, <1>4, <1>18, <1>19
    <2>2. (worker.build.unchanged => UnchangedOK(worker.build, compiler))'
      BY <1>1, <1>2, <1>3, <1>6 DEF UnchangedOK
    <2>3. (~worker.build.unchanged => ChangedOK(worker.build, compiler))'
      BY <1>1, <1>3, <1>6 DEF ChangedOK, At
    <2> QED
      BY <1>1, <1>3, <1>6, <2>1, <2>2, <2>3 DEF Building
  <1> QED
    BY <1>16, <1>17, <1>20 DEF Numbered

LEMMA PromoteManifestKeepsNumbers ==
    ASSUME TypeOK, FilesOK, Numbered, PromoteManifest
    PROVE  Numbered'
  <1> DEFINE b == worker.build
  <1>1. /\ disk \in Files /\ At("manifest") /\ "manifest" \in InFlight
        /\ worker \in [step : WorkerSteps, record : Refusal, build : Result]
        /\ compiler' = compiler /\ modules' = modules /\ published' = published
    BY DEF PromoteManifest, TypeOK, WorkerTypeOK, InFlight, Unserving
  <1>2. /\ disk'.full = disk.full /\ disk'.patch = disk.patch /\ disk'.summary = disk.summary
        /\ disk'.manifest = b.description /\ disk'.state = disk.state
        /\ disk'.module = disk.module /\ disk'.identity = disk.identity
        /\ disk'.refused = disk.refused
    BY <1>1 DEF PromoteManifest, Files
  <1>3. worker'.step = "stamp" /\ worker'.build = b /\ worker'.record = worker.record
    BY <1>1 DEF PromoteManifest, Goto
  <1>4. Made(b) \in published /\ "stamp" \in InFlight
    BY <1>1 DEF FilesOK, At, Described, InFlight, Unserving
  <1>5. /\ compiler.id \in 1..modules
        /\ BuildOK(b, compiler, published, disk.patch)
        /\ BuiltPatchOK(b, compiler, published)
        /\ b.unchanged => UnchangedOK(b, compiler)
        /\ ~b.unchanged => ChangedOK(b, compiler)
    BY <1>1, InFlightBuild DEF At
  <1> HIDE DEF b
  <1>6. DescriptionOK(b.description, published)
    <2>1. Made(b).key = b.description.key
      BY DEF Made
    <2>2. b.description.key \in Keys(published)
      BY <1>4, <2>1 DEF Keys
    <2>3. b.description.patch => b.description.key.revision = b.description.base + 1
      BY <1>5 DEF BuiltPatchOK
    <2> QED
      BY <2>2, <2>3 DEF DescriptionOK
  <1>7. FilesNumbered'
    BY <1>1, <1>2, <1>6 DEF Numbered, FilesNumbered
  <1>8. AtRest'
    BY <1>2, <1>3, <1>4 DEF AtRest, Numbered
  <1>9. Building'
    <2>1. /\ BuildOK(worker.build, compiler, published, disk.patch)'
          /\ BuiltPatchOK(worker.build, compiler, published)'
      BY <1>1, <1>2, <1>3, <1>5
    <2>2. (worker.build.unchanged => UnchangedOK(worker.build, compiler))'
      BY <1>1, <1>2, <1>3, <1>5 DEF UnchangedOK
    <2>3. (~worker.build.unchanged => ChangedOK(worker.build, compiler))'
      BY <1>1, <1>3, <1>5 DEF ChangedOK, At
    <2> QED
      BY <1>1, <1>3, <1>5, <2>1, <2>2, <2>3 DEF Building
  <1> QED
    BY <1>7, <1>8, <1>9 DEF Numbered

(* The acknowledged build is what the compiler patches next.                  *)
LEMMA StampKeepsNumbers ==
    ASSUME TypeOK, FilesOK, Numbered, Stamp
    PROVE  Numbered'
  <1> DEFINE b == worker.build
  <1>1. /\ disk \in Files /\ At("stamp") /\ "stamp" \in InFlight /\ compiler \in Compiler
        /\ worker \in [step : WorkerSteps, record : Refusal, build : Result]
        /\ compiler' = IF b.unchanged THEN compiler ELSE Acknowledged(compiler)
        /\ modules' = modules /\ published' = published
    BY DEF Stamp, TypeOK, WorkerTypeOK, InFlight, Unserving
  <1>2. /\ disk'.full = disk.full /\ disk'.patch = disk.patch /\ disk'.summary = disk.summary
        /\ disk'.manifest = disk.manifest /\ disk'.state = disk.state
        /\ disk'.module = disk.module /\ disk'.identity = disk.identity
        /\ disk'.refused = disk.refused
    BY <1>1 DEF Stamp, Files
  <1>3. worker'.step = "module" /\ worker'.build = b /\ worker'.record = worker.record
    BY <1>1 DEF Stamp, Goto
  <1>4. "module" \in InFlight
    BY DEF InFlight, Unserving
  <1>5. /\ compiler.id \in 1..modules
        /\ BuildOK(b, compiler, published, disk.patch)
        /\ BuiltPatchOK(b, compiler, published)
        /\ b.unchanged => UnchangedOK(b, compiler)
        /\ ~b.unchanged => ChangedOK(b, compiler)
    BY <1>1, InFlightBuild DEF At
  <1>6. FilesNumbered'
    BY <1>1, <1>2, SameFiles DEF Numbered
  <1>7. AtRest'
    BY <1>2, <1>3, <1>4 DEF AtRest, Numbered
  <1> HIDE DEF b
  <1>8. CASE b.unchanged
    <2>1. compiler' = compiler
      BY <1>1, <1>8
    <2>2. /\ BuildOK(worker.build, compiler, published, disk.patch)'
          /\ BuiltPatchOK(worker.build, compiler, published)'
      BY <1>1, <1>2, <1>3, <1>5, <2>1
    <2>3. UnchangedOK(worker.build, compiler)'
      BY <1>2, <1>3, <1>5, <1>8, <2>1 DEF UnchangedOK
    <2>4. Building'
      BY <1>1, <1>3, <1>5, <1>8, <2>1, <2>2, <2>3 DEF Building
    <2> QED
      BY <1>6, <1>7, <2>4 DEF Numbered
  <1>9. CASE ~b.unchanged
    <2> DEFINE c == Acknowledged(compiler)
    <2>1. compiler' = c
      BY <1>1, <1>9
    <2>2. compiler.pending.revision = compiler.assembler.revision
      BY <1>1, <1>5, <1>9 DEF ChangedOK, At
    <2>3. /\ c.id = compiler.id /\ c.phase = "ready" /\ c.assembler = compiler.assembler
          /\ c.semantic = compiler.semantic
          /\ c.baseline = [revision |-> compiler.pending.revision, available |-> TRUE]
      BY <1>1 DEF Acknowledged, Compiler
    <2> HIDE DEF c
    <2>4. Own(c) = Own(compiler)
      BY <2>3 DEF Own
    <2>5. /\ BuildOK(b, c, published, disk.patch)
          /\ BuiltPatchOK(b, c, published)
      BY <1>5, <2>3, <2>4 DEF BuildOK, BuiltPatchOK
    <2>6. Ready(c)
      <3>1. compiler.semantic = compiler.assembler.program
        BY <1>5 DEF BuildOK
      <3>2. compiler.assembler.floor <= compiler.assembler.revision
        BY <1>5 DEF BuildOK
      <3> QED
        BY <2>2, <2>3, <3>1, <3>2 DEF Ready
    <2>7. /\ BuildOK(worker.build, compiler, published, disk.patch)'
          /\ BuiltPatchOK(worker.build, compiler, published)'
      BY <1>1, <1>2, <1>3, <2>1, <2>5
    <2>8. ChangedOK(worker.build, compiler)'
      BY <1>3, <2>1, <2>6 DEF ChangedOK
    <2>9. ~worker'.build.unchanged /\ compiler'.id \in 1..modules'
      BY <1>1, <1>3, <1>5, <1>9, <2>1, <2>3
    <2>10. Building'
      BY <1>3, <2>7, <2>8, <2>9 DEF Building
    <2> QED
      BY <1>6, <1>7, <2>10 DEF Numbered
  <1> QED
    BY <1>8, <1>9

LEMMA PromoteModuleKeepsNumbers ==
    ASSUME TypeOK, FilesOK, Numbered, PromoteModule
    PROVE  Numbered'
  <1> DEFINE b == worker.build
  <1>1. /\ disk \in Files /\ At("module") /\ "module" \in InFlight
        /\ worker \in [step : WorkerSteps, record : Refusal, build : Result]
        /\ compiler' = compiler /\ modules' = modules /\ published' = published
    BY DEF PromoteModule, TypeOK, WorkerTypeOK, InFlight, Unserving
  <1>2. /\ disk'.full = NoKey /\ disk'.patch = disk.patch /\ disk'.summary = disk.summary
        /\ disk'.manifest = disk.manifest /\ disk'.state = disk.state
        /\ disk'.module = Made(b) /\ disk'.identity = disk.identity
        /\ disk'.refused = disk.refused
    BY <1>1 DEF PromoteModule, Files, Made
  <1>3. worker'.step = "identity" /\ worker'.build = b /\ worker'.record = worker.record
    BY <1>1 DEF PromoteModule, Goto
  <1>4. "identity" \in InFlight
    BY DEF InFlight, Unserving
  <1>5. /\ compiler.id \in 1..modules
        /\ BuildOK(b, compiler, published, disk.patch)
        /\ BuiltPatchOK(b, compiler, published)
        /\ b.unchanged => UnchangedOK(b, compiler)
        /\ ~b.unchanged => ChangedOK(b, compiler)
    BY <1>1, InFlightBuild DEF At
  <1>6. FilesNumbered'
    BY <1>1, <1>2, SameFiles DEF Numbered
  <1>7. AtRest'
    BY <1>2, <1>3, <1>4 DEF AtRest, Numbered
  <1> HIDE DEF b
  <1>8. Building'
    <2>1. /\ BuildOK(worker.build, compiler, published, disk.patch)'
          /\ BuiltPatchOK(worker.build, compiler, published)'
      BY <1>1, <1>2, <1>3, <1>5
    <2>2. (worker.build.unchanged => UnchangedOK(worker.build, compiler))'
      BY <1>1, <1>2, <1>3, <1>5 DEF UnchangedOK
    <2>3. (~worker.build.unchanged => ChangedOK(worker.build, compiler))'
      BY <1>1, <1>3, <1>5 DEF ChangedOK, At
    <2> QED
      BY <1>1, <1>3, <1>5, <2>1, <2>2, <2>3 DEF Building
  <1> QED
    BY <1>6, <1>7, <1>8 DEF Numbered

(* A patch of an earlier build goes with the identity of a build without one.  *)
LEMMA PromoteIdentityKeepsNumbers ==
    ASSUME TypeOK, FilesOK, Numbered, PromoteIdentity
    PROVE  Numbered'
  <1> DEFINE b == worker.build
             key == b.description.key
  <1>1. /\ disk \in Files /\ At("identity") /\ "identity" \in InFlight
        /\ worker \in [step : WorkerSteps, record : Refusal, build : Result]
        /\ compiler' = compiler /\ modules' = modules /\ published' = published
    BY DEF PromoteIdentity, TypeOK, WorkerTypeOK, InFlight, Unserving
  <1>2. /\ disk'.full = disk.full /\ disk'.patch \in {disk.patch, NoPatch}
        /\ disk'.summary = disk.summary
        /\ disk'.manifest = disk.manifest /\ disk'.state = disk.state
        /\ disk'.module = disk.module /\ disk'.identity = key
        /\ disk'.refused = disk.refused
    BY <1>1 DEF PromoteIdentity, Files
  <1>3. worker'.step = "marker" /\ worker'.build = b /\ worker'.record = worker.record
    BY <1>1 DEF PromoteIdentity, Goto
  <1>4. /\ "marker" \in InFlight
        /\ disk.full = NoKey /\ disk.module = Made(b)
    BY <1>1 DEF FilesOK, At, InFlight, Unserving
  <1>5. /\ compiler.id \in 1..modules /\ key \in Key /\ key.id = compiler.id
        /\ BuildOK(b, compiler, published, disk.patch)
        /\ BuiltPatchOK(b, compiler, published)
        /\ b.unchanged => UnchangedOK(b, compiler)
        /\ ~b.unchanged => ChangedOK(b, compiler)
    BY <1>1, InFlightBuild DEF At
  <1> HIDE DEF b, key
  <1>6. PatchOK(disk'.patch, published)
    BY <1>2 DEF Numbered, FilesNumbered, PatchOK
  <1>7. FilesNumbered'
    BY <1>1, <1>2, <1>4, <1>6 DEF Numbered, FilesNumbered
  <1>8. AtRest'
    BY <1>2, <1>3, <1>4 DEF AtRest, Numbered
  <1>9. BuildOK(b, compiler, published, disk'.patch)
    <2>1. NoPatch.key.id = 0 /\ NoPatch.key = NoKey
      BY DEF NoPatch, NoKey
    <2>2. key # NoKey /\ key.id # 0
      BY <1>5 DEF NoKey, TypeOK, WorkerTypeOK
    <2>3. Reaches(key, Keys(published) \cup {disk'.patch.key})
      BY <1>2, <1>5, <2>1, <2>2 DEF BuildOK, Reaches, key
    <2>4. disk'.patch.key = key => disk'.patch.to = b.program
      BY <1>2, <1>5, <2>1, <2>2 DEF BuildOK, key
    <2> QED
      BY <1>5, <2>3, <2>4 DEF BuildOK, key
  <1>10. Building'
    <2>1. /\ BuildOK(worker.build, compiler, published, disk.patch)'
          /\ BuiltPatchOK(worker.build, compiler, published)'
      BY <1>1, <1>3, <1>5, <1>9
    <2>2. (worker.build.unchanged => UnchangedOK(worker.build, compiler))'
      BY <1>1, <1>2, <1>3, <1>4, <1>5 DEF UnchangedOK, key
    <2>3. (~worker.build.unchanged => ChangedOK(worker.build, compiler))'
      BY <1>1, <1>3, <1>5 DEF ChangedOK, At
    <2> QED
      BY <1>1, <1>3, <1>5, <2>1, <2>2, <2>3 DEF Building
  <1> QED
    BY <1>7, <1>8, <1>10 DEF Numbered

(* The compiler of the publication serves it.                                *)
LEMMA PromoteMarkerKeepsNumbers ==
    ASSUME TypeOK, FilesOK, Numbered, PromoteMarker
    PROVE  Numbered'
  <1> DEFINE b == worker.build
             key == b.description.key
  <1>1. /\ disk \in Files /\ At("marker") /\ "marker" \in InFlight
        /\ compiler' = compiler /\ modules' = modules /\ published' = published
    BY DEF PromoteMarker, TypeOK, WorkerTypeOK, InFlight, Unserving
  <1>2. /\ disk'.full = key /\ disk'.patch = disk.patch
        /\ disk'.summary = disk.summary
        /\ disk'.manifest = disk.manifest /\ disk'.state = disk.state
        /\ disk'.module = disk.module /\ disk'.refused = disk.refused
    BY <1>1 DEF PromoteMarker, Files
  <1>3. worker'.step = "idle" /\ worker'.record = NoRefusal
    BY DEF PromoteMarker, Idle
  <1>4. "idle" \notin InFlight /\ disk.module = Made(b)
    BY <1>1 DEF FilesOK, At, InFlight, Unserving
  <1>5. /\ key = Own(compiler)
        /\ BuildOK(b, compiler, published, disk.patch)
        /\ b.unchanged => UnchangedOK(b, compiler)
        /\ ~b.unchanged => ChangedOK(b, compiler)
    BY <1>1, InFlightBuild DEF At
  <1>6. Ready(compiler)
    BY <1>1, <1>5 DEF UnchangedOK, ChangedOK, At
  <1> HIDE DEF b, key
  <1>7. key.revision = compiler.assembler.revision /\ key.revision \in 1..MaxRevision
    BY <1>5 DEF BuildOK, Own, KeyOf, key
  <1>8. Serves(compiler)'
    <2>1. compiler.assembler.revision > 0
      BY <1>7, BoundsAssumption
    <2>2. disk.module = [key |-> Own(compiler), program |-> compiler.assembler.program]
      BY <1>4, <1>5 DEF Made, BuildOK, key
    <2> QED
      BY <1>1, <1>2, <1>5, <1>6, <2>1, <2>2 DEF Serves
  <1>9. AtRest'
    BY <1>2, <1>3, <1>8 DEF AtRest, Numbered
  <1>10. Building'
    BY <1>3, <1>4 DEF Building
  <1>11. Reaches(key, Keys(published) \cup {disk.patch.key})
    BY <1>5 DEF BuildOK, key
  <1>12. FilesNumbered'
    BY <1>1, <1>2, <1>11 DEF Numbered, FilesNumbered
  <1> QED
    BY <1>9, <1>10, <1>12 DEF Numbered

LEMMA WorkerKeepsNumbers ==
    ASSUME TypeOK, FilesOK, Numbered, WorkerNext
    PROVE  Numbered'
  <1>1. CASE \E reset \in BOOLEAN : Request(reset)
    BY <1>1, RequestKeepsNumbers
  <1>2. CASE TakeBack
    BY <1>2 DEF TakeBack, Numbered, AtRest, At
  <1>3. CASE \E p \in Program, resume, fresh, patch \in BOOLEAN :
                 CompileRequest(p, resume, fresh, patch)
    BY <1>3, CompileRequestKeepsNumbers
  <1>4. CASE RecordState
    BY <1>4, RecordStateKeepsNumbers
  <1>5. CASE LoseSession
    BY <1>5, LoseSessionKeepsNumbers
  <1>6. CASE \/ Withdraw \/ PromotePatch \/ PromoteSummary \/ PromoteManifest \/ Stamp
             \/ PromoteModule \/ PromoteIdentity \/ PromoteMarker
    BY <1>6, WithdrawKeepsNumbers, PromotePatchKeepsNumbers, PromoteSummaryKeepsNumbers,
       PromoteManifestKeepsNumbers, StampKeepsNumbers, PromoteModuleKeepsNumbers,
       PromoteIdentityKeepsNumbers, PromoteMarkerKeepsNumbers
  <1> QED
    BY <1>1, <1>2, <1>3, <1>4, <1>5, <1>6 DEF WorkerNext, WorkerStep

LEMMA NextKeepsNumbers ==
    ASSUME ~Strict, TypeOK, FilesOK, Numbered, [Next]_vars
    PROVE  Numbered'
  <1>1. CASE WorkerNext
    BY <1>1, WorkerKeepsNumbers
  <1>2. CASE disk' = disk /\ UNCHANGED workerVars
    <2>1. /\ disk' = disk /\ worker' = worker /\ compiler' = compiler
          /\ modules' = modules /\ published' = published
      BY <1>2 DEF workerVars
    <2>2. FilesNumbered'
      BY <2>1, SameFiles DEF Numbered
    <2>3. AtRest'
      BY <2>1 DEF Numbered, AtRest, Serves, HasCompiler
    <2>4. Building'
      BY <2>1 DEF Numbered, Building, UnchangedOK, ChangedOK
    <2> QED
      BY <2>2, <2>3, <2>4 DEF Numbered
  <1>3. HostNext => disk' = disk
    BY HostWritesRecord
  <1> QED
    BY <1>1, <1>2, <1>3 DEF Next, vars, workerVars

(* The first request built and published a program.                          *)
LEMMA InitNumbers ==
    ASSUME Init
    PROVE  Numbered
  <1>1. PICK p \in Program : WorkerInit(p)
    BY DEF Init
  <1> DEFINE key == KeyOf(1, 1)
             module == [key |-> key, program |-> p]
  <1>2. disk = FirstPublication(key, p)
    BY <1>1 DEF WorkerInit
  <1>3. /\ published = {module} /\ worker.step = "idle" /\ worker.record = NoRefusal
        /\ modules = 1
    BY <1>1 DEF WorkerInit, Idle
  <1>4. /\ disk.module = module /\ disk.full = key /\ disk.patch = NoPatch
        /\ disk.summary.key = key /\ disk.summary.patch = FALSE
        /\ disk.manifest.key = key /\ disk.manifest.patch = FALSE
        /\ disk.refused = NoRefusal /\ disk.state.marker = NoKey
    BY <1>2 DEF FirstPublication, NoState
  <1>5. /\ compiler.id = 1 /\ compiler.phase = "ready"
        /\ compiler.baseline = [revision |-> 1, available |-> TRUE]
        /\ compiler.assembler = [revision |-> 1, floor |-> 0, program |-> p]
        /\ compiler.semantic = p
    BY <1>1, FirstBuild DEF WorkerInit
  <1>6. Own(compiler) = key /\ Ready(compiler)
    BY <1>5 DEF Own, Ready
  <1>7. Serves(compiler)
    BY <1>4, <1>5, <1>6 DEF Serves
  <1>8. AtRest
    BY <1>3, <1>4, <1>7 DEF AtRest
  <1>9. Building
    BY <1>3 DEF Building, InFlight, Unserving
  <1>10. key.id = 1 /\ key.revision = 1 /\ key \in [id : 1..1, revision : 1..MaxRevision]
    BY BoundsAssumption DEF KeyOf
  <1> HIDE DEF key
  <1>11. PublishedOK({module}, 1)
    BY <1>10 DEF PublishedOK
  <1>12. Keys({module}) = {key}
    BY DEF Keys
  <1> HIDE DEF module
  <1>13. FilesNumbered
    <2>1. PatchOK(disk.patch, published)
      BY <1>4 DEF PatchOK
    <2>2. DescriptionOK(disk.summary, published) /\ DescriptionOK(disk.manifest, published)
      BY <1>3, <1>4, <1>12 DEF DescriptionOK
    <2>3. StateOK(disk.state, published)
      BY <1>4 DEF StateOK
    <2>4. Reaches(disk.full, Keys(published) \cup {disk.patch.key})
      BY <1>3, <1>4, <1>10, <1>12 DEF Reaches, NoPatch, NoKey
    <2> QED
      BY <1>3, <1>11, <2>1, <2>2, <2>3, <2>4 DEF FilesNumbered
  <1> QED
    BY <1>8, <1>9, <1>13 DEF Numbered

LEMMA AlwaysNumbered ==
    ASSUME ~Strict
    PROVE  Spec => [](TypeOK /\ FilesOK /\ Numbered)
  <1>1. Init => TypeOK /\ FilesOK /\ Numbered
    BY InitType, InitFiles, InitNumbers
  <1>2. TypeOK /\ FilesOK /\ Numbered /\ [Next]_vars => (TypeOK /\ FilesOK /\ Numbered)'
    BY NextKeepsType, NextKeepsFiles, NextKeepsNumbers
  <1> QED
    BY <1>1, <1>2, PTL DEF Spec

(* With a host that reloads, a saved history that a worker would resume is     *)
(* that of the module on disk (CompilerSession.hx, resumeLiveModule), after    *)
(* any number of workers lost at any step.                                   *)
THEOREM ResumesWhatIsPublished ==
    ASSUME ~Strict
    PROVE  Spec => []ResumesPublishedModule
  <1>1. TypeOK /\ FilesOK /\ Numbered => ResumesPublishedModule
    <2> SUFFICES ASSUME TypeOK, FilesOK, Numbered, CanResume
                 PROVE  LET c == Resumed(disk.state.compiler)
                        IN  /\ KeyOf(c.id, c.baseline.revision) = disk.module.key
                            /\ c.baseline.available
                            /\ c.assembler.program = disk.module.program
      BY DEF ResumesPublishedModule
    <2>1. Serves(Resumed(disk.state.compiler))
      BY ResumedServes DEF Numbered
    <2> QED
      BY <2>1 DEF Serves, Ready, Own
  <1> QED
    BY <1>1, AlwaysNumbered, PTL

----------------------------------------------------------------------------
(* What a host that reloads takes the running module for.  Between the two     *)
(* times it reads the marker it may read the module of one publication and     *)
(* the identity of another; but a key is not published twice, so once the      *)
(* files have left the publication the marker named they never name it again,  *)
(* and the second look finds out.                                            *)

Reading == {"module", "identity", "recheck"}
BuildingKey(key) == worker.step \in InFlight /\ worker.build.description.key = key

(* The files are of another publication, for good.                           *)
Gone(key) == disk.module.key # key /\ ~BuildingKey(key)

(* What still replaces the files of a publication leaves them as they are.    *)
Steady(key) ==
    /\ BuildingKey(key) => worker.build.unchanged
    /\ disk.module.key = key => disk.identity = key

Poised(h, P) ==
    /\ h.trusted = FALSE
    /\ h.step \in {"marker"} \cup Reading => h.pending # NoKey
    /\ h.pending # NoKey => h.pending \in Keys(P)
    /\ h.step \in {"decide", "patch", "complete"} => DescriptionOK(h.candidate, P)

HostOK ==
    /\ Poised(host, published)
    /\ host.step = "patch" => CanPatch
    /\ Running => runtime.key = host.current /\ runtime \in published
    /\ ~Running => runtime = NoModule

ReadingOK ==
    /\ host.step \in Reading => Steady(host.pending)
    /\ host.step \in {"identity", "recheck"} =>
           \/ [key |-> host.pending, program |-> host.loading.program] \in published
           \/ Gone(host.pending)
    /\ host.step = "recheck" => host.loading.key = host.pending \/ Gone(host.pending)

(* Published builds stay published.                                          *)
LEMMA PublishedStays ==
    ASSUME WorkerNext
    PROVE  published \subseteq published'
  BY DEF WorkerNext, WorkerStep, Request, TakeBack, CompileRequest, Withdraw, PromotePatch,
         PromoteSummary, PromoteManifest, Stamp, PromoteModule, PromoteIdentity,
         PromoteMarker, RecordState, LoseSession

(* The steps that leave the module, its identity and the build in flight.     *)
LEMMA LeavesModule ==
    ASSUME TypeOK,
           \/ \E reset \in BOOLEAN : Request(reset)
           \/ TakeBack \/ Withdraw \/ PromotePatch \/ PromoteSummary \/ PromoteManifest
           \/ Stamp \/ PromoteMarker \/ RecordState \/ LoseSession
    PROVE  /\ disk'.module = disk.module /\ disk'.identity = disk.identity
           /\ worker'.step \in InFlight =>
                  worker.step \in InFlight /\ worker'.build = worker.build
  <1>1. /\ disk \in Files
        /\ worker \in [step : WorkerSteps, record : Refusal, build : Result]
    BY DEF TypeOK, WorkerTypeOK
  <1>2. CASE \E reset \in BOOLEAN : Request(reset)
    <2>1. disk' = disk /\ worker'.step \in {"compile", "takeBack"}
      BY <1>1, <1>2 DEF Request, Goto
    <2> QED
      BY <2>1 DEF InFlight, Unserving
  <1>3. CASE TakeBack
    <2>1. /\ disk'.module = disk.module /\ disk'.identity = disk.identity
          /\ worker'.step = "compile"
      BY <1>1, <1>3 DEF TakeBack, Files
    <2> QED
      BY <2>1 DEF InFlight, Unserving
  <1>4. CASE Withdraw \/ PromotePatch \/ PromoteSummary \/ PromoteManifest \/ Stamp
    <2>1. disk'.module = disk.module /\ disk'.identity = disk.identity
      BY <1>1, <1>4
         DEF Withdraw, PromotePatch, PromoteSummary, PromoteManifest, Stamp, Files
    <2>2. worker'.build = worker.build
      BY <1>1, <1>4
         DEF Withdraw, PromotePatch, PromoteSummary, PromoteManifest, Stamp, Goto
    <2>3. worker.step \in InFlight
      BY <1>4 DEF Withdraw, PromotePatch, PromoteSummary, PromoteManifest, Stamp, At,
                  InFlight, Unserving
    <2> QED
      BY <2>1, <2>2, <2>3
  <1>5. CASE PromoteMarker
    <2>1. /\ disk'.module = disk.module /\ disk'.identity = disk.identity
          /\ worker'.step = "idle"
      BY <1>1, <1>5 DEF PromoteMarker, Files, Idle
    <2> QED
      BY <2>1 DEF InFlight, Unserving
  <1>6. CASE RecordState
    <2>1. /\ disk'.module = disk.module /\ disk'.identity = disk.identity
          /\ worker' = worker
      BY <1>1, <1>6 DEF RecordState, Files
    <2> QED
      BY <2>1
  <1>7. CASE LoseSession
    <2>1. disk' = disk /\ worker'.step = "idle"
      BY <1>7 DEF LoseSession, Idle
    <2> QED
      BY <2>1 DEF InFlight, Unserving
  <1> QED
    BY <1>2, <1>3, <1>4, <1>5, <1>6, <1>7

(* The worker never puts the files of a publication that is gone back, and    *)
(* what it does to the files of another leaves them as they are.              *)
LEMMA WorkerKeepsReading ==
    ASSUME TypeOK, FilesOK, Numbered, Numbered', WorkerNext, NEW K, K \in Keys(published)
    PROVE  /\ Gone(K) => Gone(K)'
           /\ Steady(K) => Steady(K)'
  <1>1. /\ disk \in Files
        /\ worker \in [step : WorkerSteps, record : Refusal, build : Result]
    BY DEF TypeOK, WorkerTypeOK
  <1>2. CASE \/ \E reset \in BOOLEAN : Request(reset)
             \/ TakeBack \/ Withdraw \/ PromotePatch \/ PromoteSummary \/ PromoteManifest
             \/ Stamp \/ PromoteMarker \/ RecordState \/ LoseSession
    <2>1. /\ disk'.module = disk.module /\ disk'.identity = disk.identity
          /\ worker'.step \in InFlight =>
                 worker.step \in InFlight /\ worker'.build = worker.build
      BY <1>2, LeavesModule
    <2> QED
      BY <2>1 DEF Gone, Steady, BuildingKey
  <1>3. CASE \E p \in Program, resume, fresh, patch \in BOOLEAN :
                 CompileRequest(p, resume, fresh, patch)
    <2> DEFINE b == worker'.build
    <2>1. /\ disk' = disk /\ published' = published
          /\ worker.step \notin InFlight /\ worker'.step = "withdraw"
      BY <1>1, <1>3 DEF CompileRequest, At, InFlight, Unserving
    <2>2. /\ worker'.build.unchanged => UnchangedOK(worker.build, compiler)'
          /\ ~worker'.build.unchanged => ChangedOK(worker.build, compiler)'
      BY <2>1 DEF Numbered, Building, InFlight
    <2>3. b.unchanged => disk.module.key = b.description.key /\ disk.identity = disk.module.key
      BY <2>1, <2>2 DEF UnchangedOK, Made
    <2>4. /\ Building' /\ worker'.step \in InFlight
          /\ compiler' \in Compiler
      BY <1>3, <2>1, CompileRequestType DEF Numbered, InFlight, WorkerSide, WorkerTypeOK
    <2>5. b.description.key \in Key
      BY <2>4, KeyOfType DEF Building, BuildOK, Own, Compiler, Assembler
    <2>6. ~b.unchanged => b.description.key # K
      <3>1. ~b.unchanged => Exceeds(b.description.key, Keys(published))
        BY <2>1, <2>2 DEF ChangedOK
      <3> QED
        BY <2>5, <3>1 DEF Exceeds, Key
    <2> QED
      BY <2>1, <2>3, <2>6 DEF Gone, Steady, BuildingKey
  <1>4. CASE PromoteModule
    <2> DEFINE b == worker.build
    <2>1. /\ worker.step \in InFlight /\ worker'.step \in InFlight /\ worker'.build = b
      BY <1>1, <1>4 DEF PromoteModule, Goto, At, InFlight, Unserving
    <2>2. disk'.module = Made(b) /\ disk'.identity = disk.identity
      BY <1>1, <1>4 DEF PromoteModule, Made, Files
    <2>3. b.unchanged => disk.module = Made(b)
      BY <2>1, InFlightBuild DEF UnchangedOK
    <2>4. Made(b).key = b.description.key
      BY DEF Made
    <2> QED
      BY <2>1, <2>2, <2>3, <2>4 DEF Gone, Steady, BuildingKey
  <1>5. CASE PromoteIdentity
    <2> DEFINE b == worker.build
    <2>1. /\ worker.step \in InFlight /\ worker'.step \in InFlight /\ worker'.build = b
      BY <1>1, <1>5 DEF PromoteIdentity, Goto, At, InFlight, Unserving
    <2>2. disk'.module = disk.module /\ disk'.identity = b.description.key
      BY <1>1, <1>5 DEF PromoteIdentity, Files
    <2>3. disk.module.key = b.description.key
      BY <1>5 DEF PromoteIdentity, At, FilesOK, Made
    <2> QED
      BY <2>1, <2>2, <2>3 DEF Gone, Steady, BuildingKey
  <1> QED
    BY <1>2, <1>3, <1>4, <1>5 DEF WorkerNext, WorkerStep

LEMMA WorkerKeepsHost ==
    ASSUME TypeOK, FilesOK, Numbered, Numbered', HostOK, ReadingOK, WorkerNext,
           UNCHANGED hostVars
    PROVE  HostOK' /\ ReadingOK'
  <1>1. host' = host /\ runtime' = runtime /\ published \subseteq published'
    BY PublishedStays DEF hostVars
  <1>2. PICK Q : Q = host.pending
    OBVIOUS
  <1>3. /\ Keys(published) \subseteq Keys(published')
        /\ \A d : DescriptionOK(d, published) => DescriptionOK(d, published')
    BY <1>1, MorePublished
  <1>4. HostOK'
    <2>1. Poised(host, published)'
      BY <1>1, <1>3 DEF HostOK, Poised
    <2>2. (host.step = "patch" => CanPatch)'
      BY <1>1 DEF HostOK, CanPatch
    <2>3. /\ (Running => runtime.key = host.current /\ runtime \in published)'
          /\ (~Running => runtime = NoModule)'
      BY <1>1 DEF HostOK, Running
    <2> QED
      BY <2>1, <2>2, <2>3 DEF HostOK
  <1>5. ReadingOK'
    <2>1. CASE host.step \notin Reading
      BY <1>1, <2>1 DEF ReadingOK, Reading
    <2>2. CASE host.step \in Reading
      <3>1. Q \in Keys(published)
        BY <1>2, <2>2 DEF HostOK, Poised
      <3>2. (Gone(Q) => Gone(Q)') /\ (Steady(Q) => Steady(Q)')
        BY <3>1, WorkerKeepsReading
      <3>3. Steady(Q) => Steady(host.pending)'
        BY <1>1, <1>2, <3>2 DEF Steady, BuildingKey
      <3>4. Gone(Q) => Gone(host.pending)'
        BY <1>1, <1>2, <3>2 DEF Gone, BuildingKey
      <3> QED
        BY <1>1, <1>2, <3>3, <3>4 DEF ReadingOK
    <2> QED
      BY <2>1, <2>2
  <1> QED
    BY <1>4, <1>5

(* A build is adopted forward only.                                          *)
Forwards(build) ==
    \/ runtime = NoModule
    \/ runtime.key.id # build.key.id
    \/ runtime.key.revision < build.key.revision

LEMMA TickPoised ==
    ASSUME NEW h \in Host, NEW P, h.trusted = FALSE,
           h.pending # NoKey => h.pending \in Keys(P)
    PROVE  /\ Poised(EndOfTick(h), P)
           /\ EndOfTick(h).step \in {"poll", "marker"}
           /\ EndOfTick(h).current = h.current
  <1>1. /\ EndOfTick(h).step = IF h.pending = NoKey THEN "poll" ELSE "marker"
        /\ EndOfTick(h).current = h.current /\ EndOfTick(h).pending = h.pending
        /\ EndOfTick(h).trusted = h.trusted
    BY DEF EndOfTick, Host
  <1> QED
    BY <1>1 DEF Poised, Reading

(* The steps that neither start to read a module nor change the one that runs. *)
LEMMA QuietStep ==
    ASSUME HostOK, UNCHANGED workerVars, runtime' = runtime,
           host'.current = host.current, Poised(host', published),
           host'.step \notin Reading \cup {"patch"}
    PROVE  HostOK' /\ ReadingOK'
  <1>1. published' = published
    BY DEF workerVars
  <1>2. Poised(host, published)'
    BY <1>1
  <1>3. HostOK'
    BY <1>1, <1>2 DEF HostOK, Running
  <1>4. ReadingOK'
    BY DEF ReadingOK, Reading
  <1> QED
    BY <1>3, <1>4

LEMMA DecidingKeepsHost ==
    ASSUME ~Strict, TypeOK, FilesNumbered, HostOK, UNCHANGED workerVars,
           \/ BootStamp \/ BootManifest \/ Poll \/ Describe \/ RefuseLostHistory
           \/ RefuseUnpatchable \/ DecidePatch \/ DecideReload \/ FailPatch \/ Complete
    PROVE  HostOK' /\ ReadingOK' /\ runtime' = runtime
  <1>1. /\ host \in Host /\ Poised(host, published) /\ host.trusted = FALSE
        /\ host.pending # NoKey => host.pending \in Keys(published)
    BY DEF TypeOK, HostTypeOK, HostOK, Poised
  <1>2. /\ DescriptionOK(disk.summary, published) /\ DescriptionOK(disk.manifest, published)
    BY DEF FilesNumbered
  <1>3. runtime' = runtime
    BY DEF BootStamp, BootManifest, Poll, Describe, RefuseLostHistory, RefuseUnpatchable,
           DecidePatch, DecideReload, FailPatch, Complete
  <1>4. CASE BootStamp
    <2>1. /\ host'.step = "manifest" /\ host'.current = host.current
          /\ host'.pending = host.pending /\ host'.trusted = host.trusted
      BY <1>1, <1>4 DEF BootStamp, Host
    <2> QED
      BY <1>1, <1>3, <2>1, QuietStep DEF Poised, Reading
  <1>5. CASE BootManifest
    <2>1. /\ host'.step = "marker" /\ host'.current = host.current
          /\ host'.pending = disk.manifest.key /\ host'.trusted = host.trusted
      BY <1>1, <1>5 DEF BootManifest, Host
    <2>2. host'.pending \in Keys(published)
      BY <1>2, <2>1 DEF DescriptionOK
    <2>3. host'.pending # NoKey
      BY <2>2 DEF FilesNumbered, PublishedOK, Keys, NoKey
    <2> QED
      BY <1>1, <1>3, <2>1, <2>2, <2>3, QuietStep DEF Poised, Reading
  <1>6. CASE Poll
    <2>1. CASE host' = EndOfTick(host)
      BY <1>1, <1>3, <2>1, TickPoised, QuietStep DEF Reading
    <2>2. CASE host' = [host EXCEPT !.step = "describe", !.polled = disk.stamp]
      <3>1. /\ host'.step = "describe" /\ host'.current = host.current
            /\ host'.pending = host.pending /\ host'.trusted = host.trusted
        BY <1>1, <2>2 DEF Host
      <3> QED
        BY <1>1, <1>3, <3>1, QuietStep DEF Poised, Reading
    <2> QED
      BY <1>6, <2>1, <2>2 DEF Poll
  <1>7. CASE Describe
    <2> DEFINE seen == [host EXCEPT !.stamp = host.polled, !.candidate = disk.summary]
    <2>1. seen \in Host
      BY <1>1 DEF Host, HostSteps, TypeOK, Files
    <2>2. /\ seen.trusted = FALSE /\ seen.pending = host.pending
          /\ seen.current = host.current /\ seen.candidate = disk.summary
      BY <1>1 DEF Host
    <2>3. host' = EndOfTick(seen) \/ host' = [seen EXCEPT !.step = "decide"]
      BY <1>7 DEF Describe
    <2> HIDE DEF seen
    <2>4. CASE host' = EndOfTick(seen)
      BY <1>1, <1>3, <2>1, <2>2, <2>4, TickPoised, QuietStep DEF Reading
    <2>5. CASE host' = [seen EXCEPT !.step = "decide"]
      <3>1. /\ host'.step = "decide" /\ host'.current = host.current
            /\ host'.pending = host.pending /\ host'.trusted = FALSE
            /\ host'.candidate = disk.summary
        BY <2>1, <2>2, <2>5 DEF Host
      <3> QED
        BY <1>1, <1>2, <1>3, <3>1, QuietStep DEF Poised, Reading
    <2> QED
      BY <2>3, <2>4, <2>5
  <1>8. CASE DecidePatch
    <2>1. /\ host'.step = "patch" /\ host'.current = host.current
          /\ host'.pending = host.pending /\ host'.trusted = host.trusted
          /\ host'.candidate = host.candidate /\ host.step = "decide" /\ CanPatch
      BY <1>1, <1>8 DEF DecidePatch, Host, HostAt
    <2>2. published' = published
      BY DEF workerVars
    <2>3. Poised(host, published)'
      BY <1>1, <2>1, <2>2 DEF Poised, Reading
    <2>4. CanPatch'
      BY <2>1 DEF CanPatch
    <2>5. HostOK'
      BY <1>3, <2>1, <2>2, <2>3, <2>4 DEF HostOK, Running
    <2>6. ReadingOK'
      BY <2>1 DEF ReadingOK, Reading
    <2> QED
      BY <1>3, <2>5, <2>6
  <1>9. CASE DecideReload \/ FailPatch
    <2>1. host' = [host EXCEPT !.step = "complete"] /\ host.step \in {"decide", "patch"}
      BY <1>9 DEF DecideReload, FailPatch, HostAt
    <2>2. /\ host'.step = "complete" /\ host'.current = host.current
          /\ host'.pending = host.pending /\ host'.trusted = host.trusted
          /\ host'.candidate = host.candidate
      BY <1>1, <2>1 DEF Host
    <2> QED
      BY <1>1, <1>3, <2>1, <2>2, QuietStep DEF Poised, Reading
  <1>10. CASE Complete
    <2> DEFINE key == host.candidate.key
               next == IF disk.manifest.key = key THEN [host EXCEPT !.pending = key]
                                                  ELSE [host EXCEPT !.rejected = key]
    <2>1. host' = EndOfTick(next)
      BY <1>10 DEF Complete
    <2>2. key \in Key
      BY <1>1 DEF Host, Description
    <2>3. next \in Host /\ next.trusted = FALSE /\ next.current = host.current
      BY <1>1, <2>2 DEF Host
    <2>4. next.pending \in {host.pending, disk.manifest.key}
      BY <1>1 DEF Host
    <2>5. next.pending # NoKey => next.pending \in Keys(published)
      BY <1>1, <1>2, <2>4 DEF DescriptionOK
    <2> HIDE DEF next
    <2> QED
      BY <1>3, <2>1, <2>3, <2>5, TickPoised, QuietStep DEF Reading
  <1> QED
    BY <1>4, <1>5, <1>6, <1>7, <1>8, <1>9, <1>10 DEF RefuseLostHistory, RefuseUnpatchable

(* The patch file may be of a newer build than the description; but a patch    *)
(* that applies takes the module that runs to the next revision, and there is  *)
(* one build of it.                                                          *)
LEMMA PatchingKeepsHost ==
    ASSUME ~Strict, TypeOK, FilesNumbered, HostOK, UNCHANGED workerVars,
           NEW complete \in BOOLEAN, ApplyPatch(complete)
    PROVE  /\ HostOK' /\ ReadingOK'
           /\ runtime' \in published /\ Forwards(runtime')
  <1> DEFINE f == disk.patch
             d == host.candidate
  <1>1. /\ host \in Host /\ runtime \in ModuleFile /\ f \in PatchFile /\ d \in Description
        /\ d.key \in Key /\ f.key \in Key /\ host.current \in Key /\ runtime.key \in Key
    BY DEF TypeOK, HostTypeOK, Host, Files, Description, PatchFile, ModuleFile
  <1>2. /\ host.step = "patch" /\ Applicable(f) /\ runtime' = Patched(f)
    BY DEF ApplyPatch, HostAt
  <1>3. /\ Poised(host, published) /\ CanPatch /\ DescriptionOK(d, published)
        /\ host.trusted = FALSE
        /\ host.pending # NoKey => host.pending \in Keys(published)
    BY <1>2 DEF HostOK, Poised
  <1>4. /\ d.key \in Keys(published) /\ d.key.revision = d.base + 1
        /\ d.key.id = host.current.id /\ d.base = host.current.revision
    BY <1>3 DEF DescriptionOK, CanPatch
  <1>5. PICK x \in published : x.key = d.key
    BY <1>4 DEF Keys
  <1>6. x.key # NoKey /\ x.key.id # 0 /\ x \in ModuleFile
    BY <1>5 DEF FilesNumbered, PublishedOK, NoKey, TypeOK, WorkerTypeOK
  <1>7. Running
    BY <1>4, <1>5, <1>6 DEF Running, NoKey
  <1>8. runtime.key = host.current /\ runtime \in published
    BY <1>7 DEF HostOK
  <1>9. /\ f # NoPatch /\ f.key.id = runtime.key.id /\ f.base = runtime.key.revision
    BY <1>2 DEF Applicable
  <1>10. /\ f.key.revision = f.base + 1
         /\ [key |-> KeyOf(f.key.id, f.base), program |-> f.from] \in published
         /\ \A y \in published : y.key = f.key => y.program = f.to
    BY <1>9 DEF FilesNumbered, PatchOK
  <1>11. f.key = d.key
    BY <1>1, <1>4, <1>8, <1>9, <1>10 DEF Key
  <1>12. runtime.program = f.from
    <2> DEFINE base == [key |-> KeyOf(f.key.id, f.base), program |-> f.from]
    <2>1. KeyOf(f.key.id, f.base) = runtime.key
      BY <1>1, <1>9 DEF KeyOf, Key
    <2>2. base.key = runtime.key /\ base \in published /\ base.program = f.from
      BY <1>10, <2>1
    <2> HIDE DEF base
    <2> QED
      BY <1>8, <2>2 DEF FilesNumbered, PublishedOK
  <1>13. runtime' = x
    <2>1. runtime' = [key |-> d.key, program |-> f.to]
      BY <1>2, <1>11, <1>12 DEF Patched
    <2>2. x.program = f.to
      BY <1>5, <1>10, <1>11
    <2> QED
      BY <1>5, <1>6, <2>1, <2>2 DEF ModuleFile
  <1>14. Forwards(x)
    BY <1>1, <1>4, <1>5, <1>8 DEF Forwards, Key
  <1> DEFINE adopted == [host EXCEPT !.current = d.key, !.rejected = NoKey]
  <1>15. adopted \in Host
    BY <1>1, NothingType DEF Host
  <1>16. /\ adopted.trusted = FALSE /\ adopted.pending = host.pending
         /\ adopted.current = d.key /\ adopted.candidate = d
    BY <1>1, <1>3 DEF Host
  <1>17. host' = EndOfTick(adopted) \/ host' = [adopted EXCEPT !.step = "complete"]
    BY DEF ApplyPatch
  <1> HIDE DEF adopted
  <1>18. /\ Poised(host', published) /\ host'.current = d.key
         /\ host'.step \in {"poll", "marker", "complete"}
    <2>1. CASE host' = EndOfTick(adopted)
      BY <1>3, <1>15, <1>16, <2>1, TickPoised
    <2>2. CASE host' = [adopted EXCEPT !.step = "complete"]
      <3>1. /\ host'.step = "complete" /\ host'.current = d.key /\ host'.trusted = FALSE
            /\ host'.pending = host.pending /\ host'.candidate = d
        BY <1>15, <1>16, <2>2 DEF Host
      <3> QED
        BY <1>3, <3>1 DEF Poised, Reading
    <2> QED
      BY <1>17, <2>1, <2>2
  <1>19. published' = published
    BY DEF workerVars
  <1>20. HostOK'
    <2>1. Poised(host, published)'
      BY <1>18, <1>19
    <2>2. runtime'.key = host'.current /\ runtime' \in published' /\ host'.current # NoKey
      BY <1>5, <1>6, <1>13, <1>18, <1>19
    <2> QED
      BY <1>18, <2>1, <2>2 DEF HostOK, Running
  <1>21. ReadingOK'
    BY <1>18 DEF ReadingOK, Reading
  <1> QED
    BY <1>13, <1>14, <1>20, <1>21

(* A host reads a module between two looks at the marker.                     *)
LEMMA ReadingKeepsHost ==
    ASSUME TypeOK, FilesOK, Numbered, HostOK, ReadingOK,
           UNCHANGED workerVars, disk' = disk, ~TrustMissing,
           ReadMarker \/ TrustModule \/ ReadModule \/ ReadIdentity
    PROVE  HostOK' /\ ReadingOK' /\ runtime' = runtime
  <1>1. PICK Q : Q = host.pending
    OBVIOUS
  <1>2. /\ host \in Host /\ Poised(host, published) /\ host.trusted = FALSE
        /\ host.pending # NoKey => host.pending \in Keys(published)
    BY DEF TypeOK, HostTypeOK, HostOK, Poised
  <1>3. runtime' = runtime /\ published' = published /\ worker' = worker
    BY DEF ReadMarker, TrustModule, ReadModule, ReadIdentity, workerVars
  <1>4. disk.module \in published /\ disk.module \in ModuleFile
    BY DEF FilesOK, TypeOK, Files
  <1>5. ASSUME host'.step \in Reading, host'.pending = Q, host'.current = host.current,
               host'.trusted = FALSE, Q # NoKey
        PROVE  HostOK'
    <2>1. Poised(host, published)'
      BY <1>1, <1>2, <1>3, <1>5 DEF Poised, Reading
    <2> QED
      BY <1>1, <1>3, <1>5, <2>1 DEF HostOK, Running, Reading
  <1>6. CASE ReadMarker /\ disk.full # Q
    <2>1. host' = Unserved
      BY <1>1, <1>6 DEF ReadMarker
    <2>2. /\ host'.step \in {"poll", "manifest"} /\ host'.current = host.current
          /\ host'.pending = Q /\ host'.trusted = FALSE
      BY <1>1, <1>2, <2>1 DEF Unserved, Host
    <2> QED
      BY <1>1, <1>2, <1>3, <2>2, QuietStep DEF Poised, Reading
  <1>7. CASE ReadMarker /\ disk.full = Q
    <2>1. host.step = "marker" /\ host' = [host EXCEPT !.step = "module"]
      BY <1>1, <1>7 DEF ReadMarker, HostAt
    <2>2. /\ host'.step = "module" /\ host'.current = host.current
          /\ host'.pending = Q /\ host'.trusted = FALSE
      BY <1>1, <1>2, <2>1 DEF Host
    <2>3. Q # NoKey /\ Q \in Keys(published)
      BY <1>1, <1>2, <2>1 DEF Poised
    <2>4. disk.module.key = Q /\ disk.identity = Q /\ worker.step \notin Unserving
      BY <1>1, <1>7, <2>3 DEF FilesOK
    <2>5. BuildingKey(Q) => worker.build.unchanged
      <3> SUFFICES ASSUME BuildingKey(Q), ~worker.build.unchanged
                   PROVE  FALSE
        OBVIOUS
      <3>1. worker.step \in InFlight /\ worker.step = "withdraw"
        BY <1>1, <2>4 DEF BuildingKey, InFlight
      <3>2. worker.build.description.key \in Key /\ ChangedOK(worker.build, compiler)
        BY <1>1, <3>1, InFlightBuild
      <3>3. Exceeds(Q, Keys(published)) /\ Q \in Key
        BY <1>1, <3>1, <3>2 DEF ChangedOK, BuildingKey
      <3> QED
        BY <1>1, <2>3, <3>3 DEF Exceeds, Key
    <2>6. Steady(Q)
      BY <1>1, <2>4, <2>5 DEF Steady
    <2>7. HostOK'
      BY <1>1, <1>5, <2>2, <2>3 DEF Reading
    <2>8. Steady(host.pending)'
      BY <1>1, <1>3, <2>2, <2>6 DEF Steady, BuildingKey
    <2>9. ReadingOK'
      BY <1>1, <2>2, <2>8 DEF ReadingOK, Reading
    <2> QED
      BY <1>1, <1>3, <2>7, <2>9
  <1>8. CASE ReadModule \/ ReadIdentity
    <2>1. host.step \in {"module", "identity"} /\ Q # NoKey /\ Steady(Q)
      BY <1>1, <1>2, <1>8 DEF ReadModule, ReadIdentity, HostAt, ReadingOK, Poised, Reading
    <2>2. disk.module.key # Q => Gone(Q)
      <3> SUFFICES ASSUME BuildingKey(Q)
                   PROVE  disk.module.key = Q
        BY DEF Gone
      <3>1. worker.step \in InFlight /\ worker.build.unchanged
        BY <1>1, <2>1 DEF Steady, BuildingKey
      <3>2. disk.module = Made(worker.build)
        BY <1>1, <3>1, InFlightBuild DEF UnchangedOK
      <3> QED
        BY <1>1, <3>2 DEF Made, BuildingKey
    <2>3. CASE ReadModule
      <3>1. /\ host'.step = "identity" /\ host'.current = host.current
            /\ host'.pending = Q /\ host'.trusted = FALSE
            /\ host'.loading.program = disk.module.program
        BY <1>1, <1>2, <2>3 DEF ReadModule, Host, ModuleFile
      <3>2. disk.module.key = Q => [key |-> Q, program |-> host'.loading.program] \in published
        <4>1. disk.module = [key |-> disk.module.key, program |-> disk.module.program]
          BY <1>1, <1>4 DEF ModuleFile
        <4> QED
          BY <1>1, <1>4, <3>1, <4>1
      <3>3. HostOK'
        BY <1>1, <1>5, <2>1, <3>1 DEF Reading
      <3>4. Steady(host.pending)' /\ (Gone(Q) => Gone(host.pending)')
        BY <1>1, <1>3, <2>1, <3>1 DEF Steady, Gone, BuildingKey
      <3>5. ReadingOK'
        BY <1>1, <1>3, <2>2, <3>1, <3>2, <3>4 DEF ReadingOK, Reading
      <3> QED
        BY <1>1, <1>3, <3>3, <3>5
    <2>4. CASE ReadIdentity
      <3>1. /\ host.step = "identity" /\ host'.step = "recheck"
            /\ host'.current = host.current
            /\ host'.pending = Q /\ host'.trusted = FALSE
            /\ host'.loading.program = host.loading.program
            /\ host'.loading.key = disk.identity
        BY <1>1, <1>2, <2>4 DEF ReadIdentity, Host, ModuleFile, HostAt
      <3>2. disk.module.key = Q => disk.identity = Q
        BY <1>1, <2>1 DEF Steady
      <3>3. [key |-> Q, program |-> host.loading.program] \in published \/ Gone(Q)
        BY <1>1, <3>1 DEF ReadingOK
      <3>4. HostOK'
        BY <1>1, <1>5, <2>1, <3>1 DEF Reading
      <3>5. Steady(host.pending)' /\ (Gone(Q) => Gone(host.pending)')
        BY <1>1, <1>3, <2>1, <3>1 DEF Steady, Gone, BuildingKey
      <3>6. ReadingOK'
        BY <1>1, <1>3, <2>2, <3>1, <3>2, <3>3, <3>5 DEF ReadingOK, Reading
      <3> QED
        BY <1>1, <1>3, <3>4, <3>6
    <2> QED
      BY <1>1, <1>8, <2>3, <2>4
  <1> QED
    BY <1>1, <1>6, <1>7, <1>8 DEF TrustModule

(* The second look at the marker finds what was read to be of one build.      *)
LEMMA LoadedIsPublished ==
    ASSUME TypeOK, FilesOK, Numbered, HostOK, ReadingOK, MayLoad
    PROVE  /\ host.pending # NoKey /\ host.loading.key = host.pending
           /\ host.loading \in published
           /\ host.loading = runtime \/ Forwards(host.loading)
  <1> DEFINE Q == host.pending
             loading == host.loading
  <1>1. /\ host.step = "recheck" /\ host.trusted = FALSE
        /\ Q # NoKey /\ disk.full = Q
    BY DEF MayLoad, HostAt, HostOK, Poised, Reading
  <1>2. disk.module.key = Q
    BY <1>1 DEF FilesOK
  <1>3. loading.key = Q /\ [key |-> Q, program |-> loading.program] \in published
    BY <1>1, <1>2 DEF ReadingOK, Gone
  <1>4. loading \in ModuleFile
    BY DEF TypeOK, HostTypeOK, Host
  <1>5. loading \in published
    <2>1. loading = [key |-> loading.key, program |-> loading.program]
      BY <1>4 DEF ModuleFile
    <2> QED
      BY <1>3, <2>1
  <1>6. Reaches(Q, Keys(published) \cup {disk.patch.key}) /\ PublishedOK(published, modules)
    BY <1>1 DEF Numbered, FilesNumbered
  <1>7. runtime \in published => loading = runtime \/ Forwards(loading)
    <2> SUFFICES ASSUME runtime \in published
                 PROVE  loading = runtime \/ Forwards(loading)
      OBVIOUS
    <2>1. runtime.key \in Keys(published) /\ runtime.key \in Key /\ Q \in Key
      BY <1>3, <1>4 DEF Keys, TypeOK, HostTypeOK, ModuleFile
    <2>2. runtime.key.id = Q.id => runtime.key.revision <= Q.revision
      BY <1>6, <2>1 DEF Reaches
    <2>3. runtime.key = Q => runtime = loading
      BY <1>3, <1>5, <1>6 DEF PublishedOK
    <2>4. runtime.key.id = Q.id /\ runtime.key.revision = Q.revision => runtime.key = Q
      BY <2>1 DEF Key
    <2>5. runtime = loading \/ runtime.key.id # Q.id \/ runtime.key.revision < Q.revision
      BY <2>1, <2>2, <2>3, <2>4 DEF Key
    <2> QED
      BY <1>3, <2>5 DEF Forwards
  <1>8. runtime = NoModule => Forwards(loading)
    BY DEF Forwards
  <1> QED
    BY <1>1, <1>3, <1>5, <1>7, <1>8 DEF HostOK

LEMMA LoadingKeepsHost ==
    ASSUME TypeOK, FilesOK, Numbered, HostOK, ReadingOK,
           UNCHANGED workerVars, disk' = disk,
           MarkerGone \/ Load \/ KeepModule \/ Stop
    PROVE  /\ HostOK' /\ ReadingOK'
           /\ runtime' = runtime \/ (runtime' \in published /\ Forwards(runtime'))
  <1>1. /\ host \in Host /\ Poised(host, published) /\ host.trusted = FALSE
        /\ host.pending # NoKey => host.pending \in Keys(published)
    BY DEF TypeOK, HostTypeOK, HostOK, Poised
  <1>2. published' = published
    BY DEF workerVars
  <1>3. CASE MarkerGone
    <2>1. host' = Read(Unserved) /\ runtime' = runtime
      BY <1>3 DEF MarkerGone
    <2>2. /\ host'.step \in {"poll", "manifest"} /\ host'.current = host.current
          /\ host'.pending = host.pending /\ host'.trusted = FALSE
      BY <1>1, <2>1 DEF Unserved, Read, Host
    <2> QED
      BY <1>1, <2>1, <2>2, QuietStep DEF Poised, Reading
  <1>4. CASE Load
    <2>1. MayLoad /\ runtime' = host.loading
      BY <1>4 DEF Load
    <2>2. /\ host.pending # NoKey /\ host.loading.key = host.pending
          /\ host.loading \in published
          /\ host.loading = runtime \/ Forwards(host.loading)
      BY <2>1, LoadedIsPublished
    <2>3. /\ host'.step = "poll" /\ host'.current = host.pending
          /\ host'.pending = NoKey /\ host'.trusted = FALSE
      BY <1>1, <1>4 DEF Load, Read, Host
    <2>4. Poised(host, published)'
      BY <2>3 DEF Poised, Reading
    <2>5. runtime'.key = host'.current /\ runtime' \in published' /\ host'.current # NoKey
      BY <1>2, <2>1, <2>2, <2>3
    <2>6. HostOK'
      BY <2>3, <2>4, <2>5 DEF HostOK, Running
    <2>7. ReadingOK'
      BY <2>3 DEF ReadingOK, Reading
    <2> QED
      BY <2>1, <2>2, <2>6, <2>7
  <1>5. CASE KeepModule \/ Stop
    <2>1. /\ runtime' = runtime
          /\ host'.step \in {"poll", "stopped"} /\ host'.current = host.current
          /\ host'.pending = NoKey /\ host'.trusted = FALSE
      BY <1>1, <1>5 DEF KeepModule, Stop, Read, Host
    <2> QED
      BY <2>1, QuietStep DEF Poised, Reading
  <1> QED
    BY <1>3, <1>4, <1>5

LEMMA HostKeepsHost ==
    ASSUME ~Strict, ~TrustMissing, TypeOK, FilesOK, Numbered, HostOK, ReadingOK,
           HostNext, UNCHANGED workerVars
    PROVE  /\ HostOK' /\ ReadingOK'
           /\ runtime' = runtime \/ (runtime' \in published /\ Forwards(runtime'))
  <1>1. disk' = disk /\ FilesNumbered
    BY HostWritesRecord DEF Numbered
  <1>2. CASE \/ BootStamp \/ BootManifest \/ Poll \/ Describe \/ RefuseLostHistory
             \/ RefuseUnpatchable \/ DecidePatch \/ DecideReload \/ FailPatch \/ Complete
    BY <1>1, <1>2, DecidingKeepsHost
  <1>3. CASE \E complete \in BOOLEAN : ApplyPatch(complete)
    BY <1>1, <1>3, PatchingKeepsHost
  <1>4. CASE ReadMarker \/ TrustModule \/ ReadModule \/ ReadIdentity
    BY <1>1, <1>4, ReadingKeepsHost
  <1>5. CASE MarkerGone \/ Load \/ KeepModule \/ Stop
    BY <1>1, <1>5, LoadingKeepsHost
  <1> QED
    BY <1>2, <1>3, <1>4, <1>5 DEF HostNext, HostStep

LEMMA InitHost ==
    ASSUME Init
    PROVE  HostOK /\ ReadingOK
  <1>1. /\ host.step = "boot" /\ host.current = NoKey /\ host.pending = NoKey
        /\ host.trusted = FALSE /\ runtime = NoModule
    BY DEF Init, HostInit
  <1> QED
    BY <1>1 DEF HostOK, ReadingOK, Poised, Reading, Running

LEMMA NextKeepsHost ==
    ASSUME ~Strict, ~TrustMissing, TypeOK, FilesOK, Numbered, Numbered',
           HostOK, ReadingOK, [Next]_vars
    PROVE  HostOK' /\ ReadingOK'
  <1>1. CASE WorkerNext /\ UNCHANGED hostVars
    BY <1>1, WorkerKeepsHost
  <1>2. CASE HostNext /\ UNCHANGED workerVars
    BY <1>2, HostKeepsHost
  <1>3. CASE UNCHANGED vars
    <2>1. /\ disk' = disk /\ worker' = worker /\ published' = published
          /\ host' = host /\ runtime' = runtime
      BY <1>3 DEF vars, workerVars, hostVars
    <2> QED
      BY <2>1 DEF HostOK, ReadingOK, Running, CanPatch, Gone, Steady, BuildingKey
  <1> QED
    BY <1>1, <1>2, <1>3 DEF Next

LEMMA AlwaysKnown ==
    ASSUME ~Strict, ~TrustMissing
    PROVE  Spec => [](TypeOK /\ FilesOK /\ Numbered /\ HostOK /\ ReadingOK)
  <1>1. Init => TypeOK /\ FilesOK /\ Numbered /\ HostOK /\ ReadingOK
    BY InitType, InitFiles, InitNumbers, InitHost
  <1>2. TypeOK /\ FilesOK /\ Numbered /\ HostOK /\ ReadingOK /\ [Next]_vars
            => (TypeOK /\ FilesOK /\ Numbered /\ HostOK /\ ReadingOK)'
    BY NextKeepsType, NextKeepsFiles, NextKeepsNumbers, NextKeepsHost
  <1> QED
    BY <1>1, <1>2, PTL DEF Spec

(* A host that reloads, and does not take files without their marker, always   *)
(* knows which published build runs, whatever lands between its reads          *)
(* (LiveHost.hx, applyDescription and readFullModule).                        *)
THEOREM HostAlwaysKnows ==
    ASSUME ~Strict, ~TrustMissing
    PROVE  Spec => []HostKnowsWhatRuns
  <1>1. HostOK => HostKnowsWhatRuns
    BY DEF HostOK, HostKnowsWhatRuns
  <1> QED
    BY <1>1, AlwaysKnown, PTL

----------------------------------------------------------------------------
(* The abstract program: a build is published under a new key, or adopted      *)
(* forward.                                                                   *)

LEMMA InitRefines ==
    ASSUME Init
    PROVE  Application!Init
  <1>1. PICK p \in Program : WorkerInit(p)
    BY DEF Init
  <1> DEFINE first == [key |-> KeyOf(1, 1), program |-> p]
  <1>2. published = {first}
    BY <1>1 DEF WorkerInit
  <1>3. KeyOf(1, 1) \in [id : 1..MaxModule, revision : 1..MaxRevision]
    BY BoundsAssumption DEF KeyOf
  <1>4. first \in Application!Build
    BY <1>3 DEF Application!Build
  <1>5. runtime = NoModule
    BY DEF Init, HostInit
  <1> HIDE DEF first
  <1> QED
    BY <1>2, <1>4, <1>5 DEF Application!Init

(* A build is numbered above all that is published of its module, or is the     *)
(* one that is published already.                                            *)
LEMMA PromoteSummaryRefines ==
    ASSUME TypeOK, FilesOK, Numbered, PromoteSummary, runtime' = runtime
    PROVE  Application!Publish \/ published' = published
  <1> DEFINE b == worker.build
             new == Made(b)
  <1>1. worker.step = "summary" /\ "summary" \in InFlight
    BY DEF PromoteSummary, At, InFlight, Unserving
  <1>2. published' = published \cup {new} /\ new.key = b.description.key
    BY DEF PromoteSummary, Made
  <1>3. /\ compiler.id \in 1..modules /\ b.description.key \in Key
        /\ b.description.key.id = compiler.id
        /\ BuildOK(b, compiler, published, disk.patch)
        /\ b.unchanged => UnchangedOK(b, compiler)
        /\ ~b.unchanged => ChangedOK(b, compiler)
    BY <1>1, InFlightBuild
  <1>4. CASE b.unchanged
    <2>1. new \in published
      BY <1>3, <1>4 DEF UnchangedOK, FilesOK
    <2> QED
      BY <1>2, <2>1
  <1>5. CASE ~b.unchanged
    <2>1. Exceeds(new.key, Keys(published))
      BY <1>1, <1>2, <1>3, <1>5 DEF ChangedOK
    <2>2. \A other \in published :
              other.key.id = new.key.id => other.key.revision < new.key.revision
      BY <2>1 DEF Exceeds, Keys
    <2>3. new.key.id \in 1..MaxModule /\ new.key.revision \in 1..MaxRevision
      BY <1>2, <1>3, BoundsAssumption DEF BuildOK, TypeOK, WorkerTypeOK
    <2>4. new.key \in [id : 1..MaxModule, revision : 1..MaxRevision]
      BY <1>2, <1>3, <2>3 DEF Key
    <2>5. b.program \in Program /\ new = [key |-> new.key, program |-> b.program]
      BY <1>3 DEF BuildOK, Made
    <2>6. new \in Application!Build
      BY <2>4, <2>5 DEF Application!Build
    <2> HIDE DEF new
    <2> QED
      BY <1>2, <2>2, <2>6 DEF Application!Publish
  <1> QED
    BY <1>4, <1>5

LEMMA NextRefines ==
    ASSUME ~Strict, ~TrustMissing, TypeOK, FilesOK, Numbered, HostOK, ReadingOK,
           [Next]_vars
    PROVE  [Application!Next]_<<published, runtime>>
  <1>1. CASE PromoteSummary /\ UNCHANGED hostVars
    <2>1. runtime' = runtime
      BY <1>1 DEF hostVars
    <2> QED
      BY <1>1, <2>1, PromoteSummaryRefines DEF Application!Next
  <1>2. CASE WorkerNext /\ ~PromoteSummary /\ UNCHANGED hostVars
    <2>1. published' = published
      BY <1>2 DEF WorkerNext, WorkerStep, Request, TakeBack, CompileRequest, Withdraw,
                  PromotePatch, PromoteManifest, Stamp, PromoteModule, PromoteIdentity,
                  PromoteMarker, RecordState, LoseSession
    <2> QED
      BY <1>2, <2>1 DEF hostVars
  <1>3. CASE HostNext /\ UNCHANGED workerVars
    <2>1. runtime' = runtime \/ (runtime' \in published /\ Forwards(runtime'))
      BY <1>3, HostKeepsHost
    <2>2. published' = published
      BY <1>3 DEF workerVars
    <2> QED
      BY <2>1, <2>2
         DEF Application!Next, Application!Adopt, Application!Forward, Forwards
  <1>4. CASE UNCHANGED vars
    BY <1>4 DEF vars, workerVars, hostVars
  <1> QED
    BY <1>1, <1>2, <1>3, <1>4 DEF Next

(* A session with a host that reloads, and does not take files without their   *)
(* marker, implements LiveProgram: the application runs whole published        *)
(* builds, forward only, and no key is published twice.                       *)
THEOREM RefinesLiveProgram ==
    ASSUME ~Strict, ~TrustMissing
    PROVE  Spec => ImplementsLiveProgram
  <1>1. Init => Application!Init
    BY InitRefines
  <1>2. TypeOK /\ FilesOK /\ Numbered /\ HostOK /\ ReadingOK /\ [Next]_vars
            => [Application!Next]_<<published, runtime>>
    BY NextRefines
  <1> QED
    BY <1>1, <1>2, AlwaysKnown, PTL DEF Spec, ImplementsLiveProgram, Application!Spec
============================================================================
