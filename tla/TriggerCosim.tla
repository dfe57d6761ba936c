---------------------------- MODULE TriggerCosim ----------------------------
(***************************************************************************)
(* sim/tb_trigger_seq.sv: trigger_model of sim/model/scope_ref.py beside   *)
(* the pipeline of scope_trigger.sv.  The model works in samples, one pass *)
(* of its loop for each sample the sequencer judges while run is high; a   *)
(* fall of run starts it anew.                                             *)
(***************************************************************************)
EXTENDS ScopeTrigger

VARIABLES
  ref,     \* local variables of trigger_model after its last pass
  running      \* the input run of the cycle before

sequencerVars == <<triggerVars, ref, running>>

----------------------------------------------------------------------------
(* trigger_model.  None is Stages for cur; fires is fired = i.             *)

RefEnabled == {n \in 0 .. Stages - 1 : stages[n].sel # {}}
NextEn(from) == {n \in RefEnabled : n >= from /\ \A m \in RefEnabled : m >= from => n <= m}

RefStart(prev0) == [cur |-> NextEn(0), occ |-> 0, fired |-> FALSE, fires |-> FALSE,
                    prev |-> prev0, hits |-> {}]

RefHits(prev, s) ==
  {k \in Units :
     LET u == units[k]
         toggled == {b \in u.edgeMask :
                       IF b \in u.edgePol THEN b \in s /\ b \notin prev
                       ELSE b \notin s /\ b \in prev}
     IN s \cap u.mask = u.value /\ (u.edgeMask # {} => toggled # {})}

RefTarget(n) == IF stages[n].cnt > 1 THEN stages[n].cnt ELSE 1

\* One pass of the loop over stim.
RefPass(s) ==
  LET hits  == RefHits(ref.prev, s)
      judge == {n \in ref.cur : ~ref.fired /\
                  IF stages[n].all THEN hits \cap stages[n].sel = stages[n].sel
                  ELSE hits \cap stages[n].sel # {}}
      done  == {n \in judge : ref.occ + 1 >= RefTarget(n)}
      next  == UNION {NextEn(n + 1) : n \in done}
      fires == done # {} /\ next = {}
  IN [cur |-> IF next = {} THEN ref.cur ELSE next,
      occ |-> IF next # {} THEN 0 ELSE IF judge # {} /\ ~fires THEN ref.occ + 1 ELSE ref.occ,
      fired |-> ref.fired \/ fires, fires |-> fires,
      prev |-> s, hits |-> hits]

----------------------------------------------------------------------------
SequencerInit ==
  /\ TriggerInit
  /\ ref = RefStart({}) /\ running = FALSE

\* A cycle: the sequencer judges the sample of the cycle before, dly[1].  run
\* is ARMED, so at least one edge after reset has parked the sequencer.
SequencerNext ==
  \E probe \in Words, r \in BOOLEAN :
    /\ r => running \/ cur = FirstEnabled(0)
    /\ TriggerEdge(probe, r)
    /\ ref' = IF r THEN RefPass(dly[1]) ELSE RefStart(dly[1])
    /\ running' = r

SequencerSpec == SequencerInit /\ [][SequencerNext]_sequencerVars

----------------------------------------------------------------------------
\* Sample by sample the pipeline agrees with trigger_model: comparator hits,
\* stage, occurrences and the fire pulse (scope_ref.py 245-269 against
\* scope_trigger.sv 88-167).
SequencerIsModel ==
  running =>
    /\ ref.cur = (IF cur = Stages THEN {} ELSE {cur})
    /\ ref.occ = occ /\ ref.fired = fired /\ ref.fires = trigSeq

\* In the trig cycle sample_o is the sample that satisfied the last enabled
\* stage: what the core stores as the trigger sample (scope_trigger.sv 23-29,
\* docs/INTERFACES.md "Trigger semantics").
TriggerSampleSatisfies ==
  trigSeq =>
    /\ dly[2] = ref.prev
    /\ LET last == CHOOSE n \in RefEnabled : \A m \in RefEnabled : m <= n
       IN IF stages[last].all THEN stages[last].sel \subseteq ref.hits
          ELSE stages[last].sel \cap ref.hits # {}
=============================================================================
