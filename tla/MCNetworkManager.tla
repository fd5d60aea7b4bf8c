-------------------------- MODULE MCNetworkManager --------------------------
(* NetworkManager.tla on small sets.  Requests share the budget, the modes *)
(* and nothing else, and their entries grow old each for itself, so a      *)
(* behaviour has one of two things (its slice): requests of both kinds, or *)
(* entries that grow old.                                                  *)
EXTENDS NetworkManager

VARIABLE slice

MCInit == Init /\ slice \in {"traffic", "ageing"}

MCNext ==
  /\ Next
  /\ slice = "traffic" => old' = {}
  /\ slice = "ageing"  => told' \cap DataUrls = {}
  /\ UNCHANGED slice

MCSpec == MCInit /\ [][MCNext]_<<vars, slice>> /\ Fairness
=============================================================================
