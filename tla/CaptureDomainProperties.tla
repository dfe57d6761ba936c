---------------------- MODULE CaptureDomainProperties ----------------------
(***************************************************************************)
(* What the trigger and sample-enable glue around the capture core may and *)
(* may not do to it.                                                       *)
(***************************************************************************)
EXTENDS CaptureDomain, ScopeCoreProperties

\* Types of the registers around the core; trigPend and the history variable
\* raised agree on whether a trigger waits (scope_top.sv 148-162).
DomainTypeOK ==
  /\ decim \in 0 .. MaxDecim /\ decCnt \in 0 .. MaxDecim
  /\ qualEn \in BOOLEAN /\ trigPend \in BOOLEAN /\ forcePend \in BOOLEAN
  /\ trigSeq \in BOOLEAN /\ fired \in BOOLEAN
  /\ raised \in Origin /\ cause \in Origin
  /\ trigPend <=> raised # "none"

\* The sequencer fires once per arm.  If the core is still ARMED after that,
\* the fire is on its way or held for the next sample: were it dropped, the
\* run could never trigger again (scope_trigger.sv 140-164, scope_top.sv 161).
SequencerFireInFlight == fired /\ st = "ARMED" => trigSeq \/ trigPend

\* A pending force belongs to the window that is waiting for a trigger, or it
\* is in its last cycle after acceptance: it never reaches into the next
\* window or the next run (scope_csr.sv 206-216).
ForceStaysInWindow ==
  forcePend => \/ st \in {"FILLING", "ARMED"}
               \/ st = "TRIGGERED" /\ SinceTrigger = 1

\* A trigger raised before its window was watching is accepted only in a run
\* that keeps no history: with PRETRIG_EFF > 0 filling stores a sample, and
\* that sample discards what was held (scope_top.sv 161-168).
EarlyTriggerNeedsNoHistory ==
  triggered /\ cause \in {"before", "filling"} => runPre = 0

\* Strengthens it: what waits in ARMED from before cannot wait there for long.
EarlyTriggerWaits == st = "ARMED" /\ raised \in {"before", "filling"} => runPre = 0

\* Once a window holds a sample, the next one is due within the configured
\* interval: only the first sample of a run can be late, when the counter is
\* still on the interval of the previous configuration (scope_top.sv 160).
OnGridAfterFirstSample ==
  st \in Capturing /\ (fillCnt > 0 \/ triggered) => decCnt <= decim

----------------------------------------------------------------------------
\* Without qualification the decimation ticks alone carry a window through
\* its filling and its post-trigger samples.
WindowProgresses ==
  (st \in {"FILLING", "TRIGGERED"} /\ ~qualEn)
    ~> st \in {"ARMED", "DONE", "IDLE"}

\* A pending force needs no comparator, no external trigger and no host: the
\* next sample tick triggers, or an abort drops the run (INTERFACES.md
\* "force_trig").
ForceTakesEffect ==
  (forcePend /\ ~qualEn) ~> st \in {"TRIGGERED", "IDLE"}

=============================================================================
