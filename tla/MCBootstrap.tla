----------------------------- MODULE MCBootstrap ----------------------------
(* Two administrators and a third account, one match, two workers.  Either  *)
(* two requests overlap, or one at a time beside the starts of the workers. *)
EXTENDS Bootstrap, TLC

VARIABLE part

vars == <<bootstrapVars, part>>

Symmetric == Permutations(Slots) \cup Permutations(Workers)

OneAtATime == Cardinality({s \in Slots : work[s].at # "idle"}) <= 1

RequestsOverlap == part = "requests" /\ Requests /\ UNCHANGED <<bootVars, part>>

WorkersStart ==
  part = "starts" /\ (BootNext \/ Administer) /\ OneAtATime' /\ UNCHANGED part

MCInit == BootstrapInit /\ part \in {"requests", "starts"}

MCSpec == MCInit /\ [][RequestsOverlap \/ WorkersStart]_vars
=============================================================================
