------------------------------ MODULE MCIntake ------------------------------
EXTENDS Intake, TLC

CONSTANTS p1, p2, r1, r2

MCProcesses == {p1, p2}
MCRuns == {r1, r2}

Symmetry == Permutations(MCProcesses) \cup Permutations(MCRuns)
=============================================================================
