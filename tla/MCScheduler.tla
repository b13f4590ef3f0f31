----------------------------- MODULE MCScheduler -----------------------------
EXTENDS SchedulerRefinement
=============================================================================
