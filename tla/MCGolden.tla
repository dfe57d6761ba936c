----------------------------- MODULE MCGolden -----------------------------
(* The golden models for TLC: the capture models beside the core (part      *)
(* capture) and trigger_model beside the trigger engine (part sequencer).   *)
EXTENDS ScopeCosim, TriggerCosim, TLC

VARIABLE part

Unit(m, v, em, ep) == [mask |-> m, value |-> v, edgeMask |-> em, edgePol |-> ep]

\* A level with a rising edge, or falling and rising edges of two bits; every
\* way to enable, combine and count the stages.
UnitSettings ==
  {0 :> Unit({0}, {0}, {}, {}) @@ 1 :> Unit({}, {}, {0, 1}, {0}),
   0 :> Unit({0, 1}, {1}, {1}, {1}) @@ 1 :> Unit({1}, {}, {1}, {})}
StageSettings == [sel : SUBSET {0, 1}, all : BOOLEAN, cnt : {0, 2}]
AllSettings ==
  [0 .. Stages - 1 -> {s \in StageSettings : s.all => s.sel = {0, 1}}]
OneSetting == [0 .. Stages - 1 -> {[sel |-> {0}, all |-> FALSE, cnt |-> 0]}]

MCInit ==
  /\ part \in {"capture", "sequencer"}
  /\ units \in UnitSettings
  /\ stages \in IF part = "sequencer" THEN AllSettings ELSE OneSetting
  /\ part = "capture" => units = CHOOSE u \in UnitSettings : TRUE
  /\ CosimInit /\ SequencerInit

MCNext ==
  /\ \/ part = "capture" /\ CosimNext /\ UNCHANGED sequencerVars
     \/ part = "sequencer" /\ SequencerNext /\ UNCHANGED cosimVars
  /\ UNCHANGED part

MCSpec == MCInit /\ [][MCNext]_<<cosimVars, sequencerVars, part>>
=============================================================================
