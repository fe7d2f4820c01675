---------------------------- MODULE MCProcessLock ----------------------------
\* Instances of ProcessLock: no PID is special.
EXTENDS ProcessLock, TLC

Symmetry == Permutations(Pids)
=============================================================================
