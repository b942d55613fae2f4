--------------------------- MODULE MCLiveSession ---------------------------
EXTENDS LiveSession, TLC

CONSTANTS p1, p2

MCTwoPrograms == {p1, p2}
MCSymmetry == Permutations(MCTwoPrograms)
============================================================================
