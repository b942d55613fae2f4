--------------------------- MODULE MCPublication ---------------------------
(***************************************************************************)
(* The publication protocol, explored in one run from three starting points: *)
(* one compiler through every operation (CompilerPublication), a compiler     *)
(* that is restarted, and the compiler of a live session, with its worker,    *)
(* its files and its host (LiveSession).  What is not explored stays as it    *)
(* starts.                                                                   *)
(***************************************************************************)
EXTENDS CompilerPublication, LiveSession, TLC

CONSTANTS p1, p2

MCPrograms == {p1, p2}

(* Programs are interchangeable: no definition names one. *)
MCSymmetry == Permutations(MCPrograms)

VARIABLE explored  \* "operations", "restarts" or "session"

(* Two modules, and one publication that can be taken back. *)
Restarting == INSTANCE CompilerPublication WITH
    Retractable <- 1, RevisionCap <- 2, ModuleCap <- 2

MCInit ==
    /\ explored \in {"operations", "restarts", "session"}
    /\ PublicationInit
    /\ Init

MCNext ==
    /\ UNCHANGED explored
    /\ \/ explored = "operations" /\ PublicationNext /\ UNCHANGED vars
       \/ explored = "restarts" /\ Restarting!PublicationNext /\ UNCHANGED vars
       \/ explored = "session" /\ Next /\ UNCHANGED publicationVars

MCSpec == MCInit /\ [][MCNext]_<<publicationVars, vars, explored>>

(* The compiler, its saved state and its publications keep their shape, and   *)
(* so do the files, the worker and the host of a session.                     *)
LiveTypeOK == PublicationTypeOK /\ TypeOK
============================================================================
