---------------------------- MODULE MCScheduler -----------------------------
EXTENDS Scheduler
=============================================================================
