---------------------------- MODULE LiveProgram ----------------------------
(***************************************************************************)
(* What a live session promises: builds are published under keys of their    *)
(* own, and the application runs one published build at a time, as a whole.   *)
(* It moves to another build of the same module only forward.                 *)
(***************************************************************************)
EXTENDS Integers

CONSTANTS
    Program,   \* what a build can hold
    Key,       \* keys of publications: a module's id and a revision of it
    Nothing    \* no build runs yet

VARIABLES
    published,  \* builds: [key : [id, revision], program]
    running     \* the build the application runs, Nothing before it starts

Build == [key : Key, program : Program]

Init ==
    /\ \E first \in Build : published = {first}
    /\ running = Nothing

(* A key names one build, and a module's revisions are numbered upwards. *)
Publish ==
    /\ \E build \in Build :
           /\ \A other \in published :
                  other.key.id = build.key.id =>
                      other.key.revision < build.key.revision
           /\ published' = published \cup {build}
    /\ UNCHANGED running

Forward(build) ==
    \/ running = Nothing
    \/ running.key.id # build.key.id
    \/ running.key.revision < build.key.revision

Adopt ==
    /\ \E build \in published : Forward(build) /\ running' = build
    /\ UNCHANGED published

Next == Publish \/ Adopt

Spec == Init /\ [][Next]_<<published, running>>
============================================================================
