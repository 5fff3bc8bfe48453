--------------------------- MODULE MCEngagementLoop ---------------------------
(* EngagementLoop with the inputs that matter to its liveness: the health of the *)
(* system, and a car that moves off from preEnabled or overrides.                *)
EXTENDS EngagementLoop

MCInputs ==
  {[car |-> car, canValid |-> ok[1], processesOk |-> ok[2], allChecks |-> ok[3],
    bigModel |-> "idle", panda |-> "allowed"] :
     car \in {{}, {"preEnableStandstill"}},
     ok  \in {<<TRUE, TRUE, TRUE>>, <<TRUE, TRUE, FALSE>>, <<TRUE, FALSE, TRUE>>, <<FALSE, TRUE, FALSE>>}}
=============================================================================
