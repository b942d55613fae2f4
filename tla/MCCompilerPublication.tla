----------------------- MODULE MCCompilerPublication -----------------------
(* Instances of CompilerPublication for TLC. *)
EXTENDS CompilerPublication, TLC

CONSTANTS p1, p2, p3

MCTwoPrograms == {p1, p2}
MCThreePrograms == {p1, p2, p3}

(* Programs are interchangeable: no definition names one. *)
MCSymmetry == Permutations(Program)
============================================================================
