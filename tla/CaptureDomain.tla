--------------------------- MODULE CaptureDomain ---------------------------
(***************************************************************************)
(* The probe clock domain of rtl/scope_top.sv: the capture core together   *)
(* with what produces its inputs, which are the CTRL strobes and the       *)
(* pending force of rtl/scope_csr.sv, the one-shot fire of the sequencer   *)
(* of rtl/scope_trigger.sv, the external trigger, and the sample enable of *)
(* decimation and storage qualification with the trigger held between two  *)
(* samples.  One step is one clock edge.  RLE_EN = 0: the sample stream    *)
(* reaches the core as it is.                                              *)
(*                                                                         *)
(* Whether the sequencer completes and whether a cycle qualifies for       *)
(* storage are functions of the probe, hence free here.                    *)
(***************************************************************************)
EXTENDS ScopeCore

CONSTANT MaxDecim   \* greatest value of SMPL_CTRL.DECIM (2^24 - 1)

ASSUME MaxDecimAssumption == MaxDecim \in Nat

VARIABLES
  decim, qualEn,   \* SMPL_CTRL: store one sample in decim + 1, qualified only
  decCnt,          \* cycles to the next decimation tick
  trigPend,        \* a trigger waits for the next stored sample
  forcePend,       \* CTRL.force_trig, held for the core
  trigSeq,         \* trig_seq_q: the sequencer's registered fire
  fired,           \* the sequencer has fired since the core was armed
  raised,          \* history: when the trigger now waiting was last raised
  cause            \* history: when the accepted trigger was raised

sampling   == <<decim, qualEn>>
pacing     == <<decCnt, trigPend>>
domainVars == <<vars, sampling, pacing, forcePend, trigSeq, fired, raised, cause>>

Ctrl   == {"arm", "disarm", "force_trig", "soft_rst"}
Origin == {"none", "before", "filling", "armed"}

----------------------------------------------------------------------------
(* Combinational terms.  ext is trig_ext_i, match the realigned hit of the *)
(* qualifying comparator.                                                  *)

SampleEn(match) == decCnt = 0 /\ (qualEn => match)
Trig(ext) == trigSeq \/ forcePend \/ ext
TrigFire(ext, match) == (Trig(ext) \/ trigPend) /\ SampleEn(match)

\* A write to CTRL sets any of its four bits; soft_rst also disarms.
Stops(ctrl) == ctrl \cap {"disarm", "soft_rst"} # {}

Core(ctrl, ext, match) ==
  Edge(SampleEn(match), TrigFire(ext, match), "arm" \in ctrl, Stops(ctrl))

----------------------------------------------------------------------------
\* Defects the checks must notice: an interval never counted down; a trigger
\* held for one cycle only, or kept until it is accepted.
PaceStuck(ext, match) ==
  /\ decCnt' = IF decCnt = 0 THEN decim ELSE decCnt
  /\ trigPend' = (~SampleEn(match) /\ (trigPend \/ Trig(ext)))
PaceForgets(ext, match) ==
  /\ decCnt' = IF decCnt = 0 THEN decim ELSE decCnt - 1
  /\ trigPend' = (~SampleEn(match) /\ Trig(ext))
PaceKeeps(ext, match) ==
  /\ decCnt' = IF decCnt = 0 THEN decim ELSE decCnt - 1
  /\ trigPend' = ((trigPend \/ Trig(ext)) /\ ~(st = "ARMED" /\ SampleEn(match)))

\* decCnt runs on whatever the core does and reloads only at zero; neither
\* it nor trigPend knows of arm, disarm or soft_rst.
Pace(ext, match) ==
  /\ decCnt' = IF decCnt = 0 THEN decim ELSE decCnt - 1
  /\ trigPend' = (~SampleEn(match) /\ (trigPend \/ Trig(ext)))

\* hit: the last enabled stage of the sequencer completes in this cycle.
Sequence(hit) ==
  /\ trigSeq' = (st = "ARMED" /\ ~fired /\ hit)
  /\ fired' = (st = "ARMED" /\ (fired \/ hit))

\* Defects: a force latched in any state, or not held.
HoldForceAnyState(ctrl) ==
  forcePend' = (~Stops(ctrl) /\ (forcePend \/ "force_trig" \in ctrl))
HoldForceNotHeld(ctrl) ==
  forcePend' = (/\ ~Stops(ctrl)
                /\ st \in {"FILLING", "ARMED"} /\ "force_trig" \in ctrl)

HoldForce(ctrl) ==
  forcePend' = (/\ ~Stops(ctrl)
                /\ st \in {"FILLING", "ARMED"}
                /\ forcePend \/ "force_trig" \in ctrl)

\* Bookkeeping for the properties: where in the life of the window the
\* trigger was raised that waits, or that the core accepted.
Remember(ext, match) ==
  LET latest == IF ~Trig(ext) THEN raised
                ELSE IF st = "ARMED" THEN "armed"
                ELSE IF st = "FILLING" THEN "filling" ELSE "before"
      starts == st \in {"IDLE", "DONE"} /\ st' = "FILLING"
  IN /\ raised' = IF ~trigPend' THEN "none"
                  ELSE IF starts THEN "before" ELSE latest
     /\ cause' = IF starts THEN "none"
                 ELSE IF Accepts(SampleEn(match), TrigFire(ext, match)) THEN latest
                 ELSE cause

----------------------------------------------------------------------------
DomainInit ==
  /\ Init
  /\ decim = 0 /\ qualEn = FALSE
  /\ decCnt = 0 /\ trigPend = FALSE
  /\ forcePend = FALSE /\ trigSeq = FALSE /\ fired = FALSE
  /\ raised = "none" /\ cause = "none"

\* CTRL may be written in the very cycle of a reset.
DomainReset ==
  /\ \E match, stop \in BOOLEAN : Reset(SampleEn(match), stop)
  /\ decim' = 0 /\ qualEn' = FALSE
  /\ decCnt' = 0 /\ trigPend' = FALSE
  /\ forcePend' = FALSE /\ trigSeq' = FALSE /\ fired' = FALSE
  /\ raised' = "none" /\ cause' = "none"

\* A cycle in which the CSR bus is idle or writes CTRL.
Cycle(ctrl, ext, hit, match) ==
  /\ Core(ctrl, ext, match)
  /\ Pace(ext, match) /\ Sequence(hit) /\ HoldForce(ctrl) /\ Remember(ext, match)
  /\ UNCHANGED sampling

\* A cycle in which the bus writes a configuration register: the write takes
\* effect only in IDLE, where nothing else in the core moves.
ConfigWrite(write, ext, hit, match) ==
  /\ IF st = "IDLE" THEN write ELSE Core({}, ext, match) /\ UNCHANGED sampling
  /\ Pace(ext, match) /\ Sequence(hit) /\ HoldForce({}) /\ Remember(ext, match)

WriteSampling(n, q) == decim' = n /\ qualEn' = q /\ UNCHANGED vars

DomainNext ==
  \/ DomainReset
  \/ \E ext, hit, match \in BOOLEAN :
       \/ \E ctrl \in SUBSET Ctrl : Cycle(ctrl, ext, hit, match)
       \/ \E p \in Addresses :
            ConfigWrite(WritePretrig(p) /\ UNCHANGED sampling, ext, hit, match)
       \/ \E w \in 0 .. MaxWindows :
            ConfigWrite(WriteWindows(w) /\ UNCHANGED sampling, ext, hit, match)
       \/ \E n \in 0 .. MaxDecim, q \in BOOLEAN :
            ConfigWrite(WriteSampling(n, q), ext, hit, match)

DomainSpec == DomainInit /\ [][DomainNext]_domainVars
=============================================================================
