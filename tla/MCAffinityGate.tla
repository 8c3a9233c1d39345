---------------------------- MODULE MCAffinityGate ----------------------------
(* One hot CPU per worker, one for everything else.                          *)
EXTENDS AffinityGate

MCHelpers == {"helper 1"}
MCHousekeeping == {0}
==============================================================================
