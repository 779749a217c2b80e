------------------------------- MODULE MCNoSlot -------------------------------
(***************************************************************************)
(* An instance of SchedulerClients for TLC in which every program runs.    *)
(***************************************************************************)
EXTENDS SchedulerClients

MCApiConfigs == [dryrun : BOOLEAN, fallback : BOOLEAN]

=============================================================================
