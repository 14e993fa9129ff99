-------------------------- MODULE MCLogicAnalyzer --------------------------
(* Instances of LogicAnalyzer for TLC.                                     *)
EXTENDS LogicAnalyzer

Configuration(mode, divisor, depth, pretrigger) ==
  [enable |-> TRUE, auto_readout |-> FALSE, trigger_mode |-> mode,
   sample_divisor |-> divisor, capture_depth |-> depth, pretrigger_depth |-> pretrigger]

MCConfigs ==
  {Configuration("rising", 1, 3, 1), Configuration("falling", 2, 2, 1),
   [Configuration("disabled", 1, 1, 0) EXCEPT !.auto_readout = TRUE]}

MCCommands == {{"arm"}, {"stop"}, {"clear"}, {"force_trigger"}, {"start_readout"}}

HangConfigs == {Configuration("level", 1, 3, 0)}

HangCommands == {{"arm"}, {"start_readout"}}
=============================================================================
