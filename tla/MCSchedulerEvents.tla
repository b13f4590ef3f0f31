-------------------------- MODULE MCSchedulerEvents --------------------------
EXTENDS SchedulerEvents, TLC

\* Objects are only compared with each other.
ObjectSymmetry == Permutations(Objects)
=============================================================================
