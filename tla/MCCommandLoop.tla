---------------------------- MODULE MCCommandLoop ----------------------------
(***************************************************************************)
(* Instances of CommandLoop for TLC.                                       *)
(***************************************************************************)
EXTENDS CommandLoop

MCKeySeq == <<"chargeRate", "dischargeRate", "fw_version", "gain">>
MCForgedBase == 900

AllScenarios == Scenario
KeylessScenarios == Scenario \ {"A2v"}
=============================================================================
