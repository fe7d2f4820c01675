-------------------------- MODULE MCTaskDependencies --------------------------
EXTENDS TaskDependencies, TLC
Symmetry == Permutations(Tasks)
=============================================================================
