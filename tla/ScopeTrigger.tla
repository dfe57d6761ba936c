---------------------------- MODULE ScopeTrigger ----------------------------
(***************************************************************************)
(* rtl/scope_trigger.sv: comparators, stages and sequencer, all registered.*)
(* One step is one clock edge.  A probe word is the set of its bits that   *)
(* are 1, so x & mask is an intersection.  run is state == ARMED.          *)
(* force_trig and trig_ext_i, which join the fire pulse in trig, are in    *)
(* CaptureDomain.                                                          *)
(***************************************************************************)
EXTENDS Integers

CONSTANTS
  Bits,      \* bits of a probe word
  Units,     \* the comparators, 0 .. NUM_CMP - 1
  Stages     \* SEQ_STAGES

ASSUME StagesAssumption == Stages \in Nat \ {0}

VARIABLES
  units,     \* [Units -> [mask, value, edgeMask, edgePol]]
  stages,    \* [0 .. Stages - 1 -> [sel, all, cnt]]: TRIG_COMBINE and SEQ_CNT
  dly,       \* <<dly[0], dly[1]>>: the probe one and two cycles ago
  hitQ,      \* cmp_hit_q, the set of comparators
  cur, occ, fired, trigSeq

settings    == <<units, stages>>
triggerVars == <<settings, dly, hitQ, cur, occ, fired, trigSeq>>

Words == SUBSET Bits

\* Level and edge condition of a comparator for a word after prev.
LevelHit(u, word) == word \cap u.mask = u.value
EdgeHit(u, prev, word) ==
  LET rise == word \ prev
      fall == prev \ word
  IN u.edgeMask = {} \/ u.edgeMask \cap ((u.edgePol \cap rise) \cup (fall \ u.edgePol)) # {}

StageHit(n) ==
  IF stages[n].all THEN stages[n].sel \subseteq hitQ ELSE hitQ \cap stages[n].sel # {}

Target(n) == IF stages[n].cnt = 0 THEN 1 ELSE stages[n].cnt

\* first_en_from: the lowest enabled stage from n on, or Stages.
FirstEnabled(n) ==
  LET enabled == {i \in n .. Stages - 1 : stages[i].sel # {}}
  IN IF enabled = {} THEN Stages ELSE CHOOSE i \in enabled : \A j \in enabled : i <= j

\* Terms of one edge.
CurHit    == cur < Stages /\ StageHit(cur)
StageDone == CurHit /\ occ + 1 >= Target(cur)
NextStage == FirstEnabled(cur + 1)
FireNow   == ~fired /\ StageDone /\ NextStage = Stages

\* What INTERFACES.md lets TRIG_CMP, TRIG_COMBINE and SEQ_CNT hold.
Settings ==
  /\ units \in [Units -> [mask : Words, value : Words, edgeMask : Words, edgePol : Words]]
  /\ stages \in [0 .. Stages - 1 -> [sel : SUBSET Units, all : BOOLEAN, cnt : Nat]]

TriggerInit ==
  /\ Settings
  /\ dly = <<{}, {}>> /\ hitQ = {}
  /\ cur = Stages /\ occ = 0 /\ fired = FALSE /\ trigSeq = FALSE

\* A defect the checks must notice: no delay line for the last stage.
ObserveEarly(probe) ==
  /\ dly' = <<probe, probe>>
  /\ hitQ' = {k \in Units : LevelHit(units[k], probe) /\ EdgeHit(units[k], dly[1], probe)}

\* The probe pipeline.
Observe(probe) ==
  /\ dly' = <<probe, dly[1]>>
  /\ hitQ' = {k \in Units : LevelHit(units[k], probe) /\ EdgeHit(units[k], dly[1], probe)}

\* run low: parked at the first enabled stage.
Park == cur' = FirstEnabled(0) /\ occ' = 0 /\ fired' = FALSE /\ trigSeq' = FALSE

\* A defect the checks must notice: occurrences kept for the next stage.
AdvanceKeepsCount ==
  /\ trigSeq' = FireNow
  /\ fired' = (fired \/ FireNow)
  /\ cur' = IF ~fired /\ StageDone /\ ~FireNow THEN NextStage ELSE cur
  /\ occ' = IF ~fired /\ CurHit /\ ~StageDone THEN occ + 1 ELSE occ

\* run high.
Advance ==
  /\ trigSeq' = FireNow
  /\ fired' = (fired \/ FireNow)
  /\ cur' = IF ~fired /\ StageDone /\ ~FireNow THEN NextStage ELSE cur
  /\ occ' = IF fired \/ FireNow \/ ~CurHit THEN occ ELSE IF StageDone THEN 0 ELSE occ + 1

TriggerEdge(probe, run) ==
  /\ Observe(probe)
  /\ IF run THEN Advance ELSE Park
  /\ UNCHANGED settings
=============================================================================
