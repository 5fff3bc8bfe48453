---------------------------- MODULE MCEngagement ----------------------------
(***************************************************************************)
(* Engagement on frames that carry few car events at a time: one event of  *)
(* each kind, alone or together with the driver's request to engage.       *)
(***************************************************************************)
EXTENDS Engagement

MCCar ==
  LET alone == {"preEnableStandstill", "steerOverride", "pcmDisable", "speedTooLow", "doorOpen"}
  IN {{}, {"pcmEnable"}, {"pcmEnable", "belowEngageSpeed"}}
     \cup {{e} : e \in alone}
     \cup {{"pcmEnable", e} : e \in alone}

MCInputs ==
  [car : MCCar, canValid : BOOLEAN, allChecks : BOOLEAN, processesOk : BOOLEAN,
   bigModel : {"idle", "loading", "settling"}, panda : {"allowed", "denied", "elm327", "silent"}]
=============================================================================
