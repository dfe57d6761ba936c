------------------------ MODULE CaptureDomainProofs ------------------------
(***************************************************************************)
(* The capture clock domain is a refinement of the core alone, so IInv     *)
(* carries over; the glue's own invariants follow with its help.           *)
(***************************************************************************)
EXTENDS CaptureDomainProperties, ScopeCoreProofs

\* One clock edge outside reset, as the registers around the core see it: the
\* core takes an edge, or a configuration write finds it in IDLE.
DomainEdge(ctrl, ext, hit, match) ==
  /\ \/ Core(ctrl, ext, match) /\ UNCHANGED sampling
     \/ /\ st = "IDLE" /\ decim' \in 0 .. MaxDecim /\ qualEn' \in BOOLEAN
        /\ UNCHANGED <<st, run, fillCnt, triggered, post>>
  /\ Pace(ext, match) /\ Sequence(hit) /\ HoldForce(ctrl) /\ Remember(ext, match)

\* Every step of the domain is a reset or a clock edge with some CTRL write.
LEMMA DomainNextShape ==
  ASSUME DomainTypeOK, DomainNext
  PROVE  \/ DomainReset
         \/ \E ext, hit, match \in BOOLEAN : \E ctrl \in SUBSET Ctrl :
              DomainEdge(ctrl, ext, hit, match)
<1> SUFFICES ASSUME NEW ext \in BOOLEAN, NEW hit \in BOOLEAN, NEW match \in BOOLEAN,
                    \/ \E ctrl \in SUBSET Ctrl : Cycle(ctrl, ext, hit, match)
                    \/ \E p \in Addresses :
                         ConfigWrite(WritePretrig(p) /\ UNCHANGED sampling, ext, hit, match)
                    \/ \E w \in 0 .. MaxWindows :
                         ConfigWrite(WriteWindows(w) /\ UNCHANGED sampling, ext, hit, match)
                    \/ \E n \in 0 .. MaxDecim, q \in BOOLEAN :
                         ConfigWrite(WriteSampling(n, q), ext, hit, match)
             PROVE  \E ctrl \in SUBSET Ctrl : DomainEdge(ctrl, ext, hit, match)
  BY DEF DomainNext
<1>1. CASE \E ctrl \in SUBSET Ctrl : Cycle(ctrl, ext, hit, match)
  BY <1>1 DEF Cycle, DomainEdge
<1>2. {} \in SUBSET Ctrl
  OBVIOUS
<1>3. CASE \E p \in Addresses :
             ConfigWrite(WritePretrig(p) /\ UNCHANGED sampling, ext, hit, match)
  <2>1. DomainEdge({}, ext, hit, match)
    BY <1>3 DEF ConfigWrite, WritePretrig, DomainEdge, DomainTypeOK, sampling, window
  <2> QED
    BY <1>2, <2>1
<1>4. CASE \E w \in 0 .. MaxWindows :
             ConfigWrite(WriteWindows(w) /\ UNCHANGED sampling, ext, hit, match)
  <2>1. DomainEdge({}, ext, hit, match)
    BY <1>4 DEF ConfigWrite, WriteWindows, DomainEdge, DomainTypeOK, sampling, window
  <2> QED
    BY <1>2, <2>1
<1>5. CASE \E n \in 0 .. MaxDecim, q \in BOOLEAN :
             ConfigWrite(WriteSampling(n, q), ext, hit, match)
  <2>1. DomainEdge({}, ext, hit, match)
    BY <1>5 DEF ConfigWrite, WriteSampling, DomainEdge, sampling, vars
  <2> QED
    BY <1>2, <2>1
<1> QED
  BY <1>1, <1>3, <1>4, <1>5

----------------------------------------------------------------------------
\* With its trigger and sample-enable glue the core takes no step that its
\* own specification does not allow (scope_top.sv, scope_csr.sv cfg_locked).
THEOREM DomainImplementsCore == DomainSpec => Spec
<1>1. DomainInit => Init
  BY DEF DomainInit
<1>2. [DomainNext]_domainVars => [Next]_vars
  <2> SUFFICES ASSUME [DomainNext]_domainVars PROVE [Next]_vars
    OBVIOUS
  <2>1. CASE UNCHANGED domainVars
    BY <2>1 DEF domainVars
  <2>2. CASE DomainReset
    <3>1. PICK match \in BOOLEAN, stop \in BOOLEAN : Reset(SampleEn(match), stop)
      BY <2>2 DEF DomainReset
    <3>2. SampleEn(match) \in BOOLEAN
      BY DEF SampleEn
    <3> QED
      BY <3>1, <3>2 DEF Next
  <2>3. ASSUME NEW ctrl, NEW ext \in BOOLEAN, NEW match \in BOOLEAN,
               Core(ctrl, ext, match)
        PROVE  Next
    <3> DEFINE v == SampleEn(match)
               t == TrigFire(ext, match)
               a == "arm" \in ctrl
               d == Stops(ctrl)
    <3>1. v \in BOOLEAN /\ t \in BOOLEAN /\ a \in BOOLEAN /\ d \in BOOLEAN
      BY DEF SampleEn, TrigFire, Stops
    <3>2. Edge(v, t, a, d)
      BY <2>3 DEF Core
    <3> HIDE DEF v, t, a, d
    <3> QED
      BY <3>1, <3>2 DEF Next
  <2>4. ASSUME NEW ext \in BOOLEAN, NEW hit \in BOOLEAN, NEW match \in BOOLEAN,
               NEW ctrl \in SUBSET Ctrl, Cycle(ctrl, ext, hit, match)
        PROVE  Next
    BY <2>3, <2>4 DEF Cycle
  <2>5. ASSUME NEW ext \in BOOLEAN, NEW hit \in BOOLEAN, NEW match \in BOOLEAN,
               NEW p \in Addresses,
               ConfigWrite(WritePretrig(p) /\ UNCHANGED sampling, ext, hit, match)
        PROVE  Next
    <3>1. WritePretrig(p) \/ Core({}, ext, match)
      BY <2>5 DEF ConfigWrite
    <3> QED
      BY <2>3, <3>1 DEF Next
  <2>6. ASSUME NEW ext \in BOOLEAN, NEW hit \in BOOLEAN, NEW match \in BOOLEAN,
               NEW w \in 0 .. MaxWindows,
               ConfigWrite(WriteWindows(w) /\ UNCHANGED sampling, ext, hit, match)
        PROVE  Next
    <3>1. WriteWindows(w) \/ Core({}, ext, match)
      BY <2>6 DEF ConfigWrite
    <3> QED
      BY <2>3, <3>1 DEF Next
  <2>7. ASSUME NEW ext \in BOOLEAN, NEW hit \in BOOLEAN, NEW match \in BOOLEAN,
               NEW n \in 0 .. MaxDecim, NEW q \in BOOLEAN,
               ConfigWrite(WriteSampling(n, q), ext, hit, match)
        PROVE  [Next]_vars
    <3>1. UNCHANGED vars \/ Core({}, ext, match)
      BY <2>7 DEF ConfigWrite, WriteSampling
    <3> QED
      BY <2>3, <3>1
  <2> QED
    BY <2>1, <2>2, <2>4, <2>5, <2>6, <2>7 DEF DomainNext
<1> QED
  BY <1>1, <1>2, PTL DEF DomainSpec, Spec
----------------------------------------------------------------------------
(* The glue's invariants, one lemma per invariant.                         *)

DomainInv ==
  /\ DomainTypeOK /\ SequencerFireInFlight /\ ForceStaysInWindow
  /\ EarlyTriggerNeedsNoHistory /\ EarlyTriggerWaits /\ OnGridAfterFirstSample

\* The invariant of the glue holds after power-up.
LEMMA DomainInitInv == DomainInit => DomainInv
<1> SUFFICES ASSUME DomainInit PROVE DomainInv
  OBVIOUS
<1>1. decim \in 0 .. MaxDecim /\ decCnt \in 0 .. MaxDecim
  BY MaxDecimAssumption DEF DomainInit
<1>2. /\ qualEn \in BOOLEAN /\ trigPend \in BOOLEAN /\ forcePend \in BOOLEAN
      /\ trigSeq \in BOOLEAN /\ fired \in BOOLEAN
      /\ trigPend <=> raised # "none"
  BY DEF DomainInit
<1>3. raised \in Origin /\ cause \in Origin
  BY DEF DomainInit, Origin
<1>4. st = "IDLE" /\ ~triggered /\ ~forcePend
  BY DEF DomainInit, Init
<1>5. DomainTypeOK
  BY <1>1, <1>2, <1>3 DEF DomainTypeOK
<1> QED
  BY <1>4, <1>5
  DEF DomainInv, SequencerFireInFlight, ForceStaysInWindow,
      EarlyTriggerNeedsNoHistory, EarlyTriggerWaits, OnGridAfterFirstSample,
      Capturing

\* A reset establishes the invariant of the glue.
LEMMA DomainResetInv == DomainReset => DomainInv'
<1> SUFFICES ASSUME DomainReset PROVE DomainInv'
  OBVIOUS
<1>1. decim' \in 0 .. MaxDecim /\ decCnt' \in 0 .. MaxDecim
  BY MaxDecimAssumption DEF DomainReset
<1>2. /\ qualEn' \in BOOLEAN /\ trigPend' \in BOOLEAN /\ forcePend' \in BOOLEAN
      /\ trigSeq' \in BOOLEAN /\ fired' \in BOOLEAN
      /\ trigPend' <=> raised' # "none"
  BY DEF DomainReset
<1>3. raised' \in Origin /\ cause' \in Origin
  BY DEF DomainReset, Origin
<1>4. st' = "IDLE" /\ ~triggered' /\ ~forcePend'
  BY DEF DomainReset, Reset
<1>5. DomainTypeOK'
  BY <1>1, <1>2, <1>3 DEF DomainTypeOK
<1> QED
  BY <1>4, <1>5
  DEF DomainInv, SequencerFireInFlight, ForceStaysInWindow,
      EarlyTriggerNeedsNoHistory, EarlyTriggerWaits, OnGridAfterFirstSample,
      Capturing

\* The kinds of edge a core can take.
LEMMA EdgeKinds ==
  ASSUME NEW ctrl, NEW ext, NEW match, Core(ctrl, ext, match)
  PROVE  LET v == SampleEn(match)  t == TrigFire(ext, match)
         IN Disarm(v, t) \/ Fill(v, t) \/ Watch(v, t) \/ Collect(v, t)
            \/ Arm \/ NextWindow \/ Rest
BY DEF Core, Edge

\* The registers of the glue keep their types in a clock cycle.
LEMMA DomainTypeStep ==
  ASSUME DomainTypeOK, NEW ext \in BOOLEAN, NEW hit \in BOOLEAN,
         NEW match \in BOOLEAN, NEW ctrl \in SUBSET Ctrl,
         DomainEdge(ctrl, ext, hit, match)
  PROVE  DomainTypeOK'
<1>1. decim' \in 0 .. MaxDecim /\ qualEn' \in BOOLEAN
  BY DEF DomainEdge, DomainTypeOK, sampling
<1>2. decCnt' \in 0 .. MaxDecim
  BY MaxDecimAssumption DEF DomainEdge, Pace, DomainTypeOK
<1>3. trigPend' \in BOOLEAN /\ forcePend' \in BOOLEAN
      /\ trigSeq' \in BOOLEAN /\ fired' \in BOOLEAN
  BY DEF DomainEdge, Pace, HoldForce, Sequence
<1>4. raised' \in Origin /\ cause' \in Origin
  BY DEF DomainEdge, Remember, DomainTypeOK, Origin
<1>5. trigPend' <=> raised' # "none"
  BY DEF DomainEdge, Remember, Pace, DomainTypeOK
<1> QED
  BY <1>1, <1>2, <1>3, <1>4, <1>5 DEF DomainTypeOK

\* A cycle drops no fire of the sequencer.
LEMMA SequencerStep ==
  ASSUME SequencerFireInFlight, NEW ext \in BOOLEAN, NEW hit \in BOOLEAN,
         NEW match \in BOOLEAN, NEW ctrl \in SUBSET Ctrl,
         DomainEdge(ctrl, ext, hit, match)
  PROVE  SequencerFireInFlight'
<1> SUFFICES ASSUME fired', st' = "ARMED", ~trigSeq' PROVE trigPend'
  BY DEF SequencerFireInFlight
<1>1. st = "ARMED" /\ fired
  BY DEF DomainEdge, Sequence
<1>2. Trig(ext) \/ trigPend
  BY <1>1 DEF SequencerFireInFlight, Trig
<1>3. ~SampleEn(match)
  <2> SUFFICES ASSUME SampleEn(match) PROVE FALSE
    OBVIOUS
  <2>1. Accepts(SampleEn(match), TrigFire(ext, match))
    BY <1>1, <1>2 DEF Accepts, TrigFire
  <2>2. Core(ctrl, ext, match)
    BY <1>1 DEF DomainEdge
  <2> QED
    BY <1>1, <2>1, <2>2, EdgeKinds
    DEF Disarm, Fill, Watch, Collect, Arm, NextWindow, Rest
<1> QED
  BY <1>2, <1>3 DEF DomainEdge, Pace

\* A cycle carries no pending force into another window.
LEMMA ForceStep ==
  ASSUME IInv, NEW ext \in BOOLEAN, NEW hit \in BOOLEAN, NEW match \in BOOLEAN,
         NEW ctrl \in SUBSET Ctrl, DomainEdge(ctrl, ext, hit, match)
  PROVE  ForceStaysInWindow'
<1> SUFFICES ASSUME forcePend'
             PROVE  \/ st' \in {"FILLING", "ARMED"}
                    \/ st' = "TRIGGERED" /\ SinceTrigger' = 1
  BY DEF ForceStaysInWindow
<1> DEFINE v == SampleEn(match)
           t == TrigFire(ext, match)
<1>1. st \in {"FILLING", "ARMED"} /\ ~Stops(ctrl)
  BY DEF DomainEdge, HoldForce
<1>2. Fill(v, t) \/ Watch(v, t)
  BY <1>1 DEF DomainEdge, Core, Edge, Collect, Arm, NextWindow, Rest
<1>3. CASE Fill(v, t)
  BY <1>3 DEF Fill
<1>4. CASE Watch(v, t) /\ ~Accepts(v, t)
  BY <1>4 DEF Watch
<1>5. CASE Watch(v, t) /\ Accepts(v, t)
  <2>1. post' = slice - 1 - PretrigEff /\ UNCHANGED <<slice, runPre>>
    BY <1>5 DEF Watch, Capture, run
  <2>2. runPre = PretrigEff /\ slice \in Int /\ runPre \in Int
    BY <1>5 DEF IInv, WindowBookkeeping, TypeOK, Watch
  <2> QED
    BY <1>5, <2>1, <2>2 DEF Watch, SinceTrigger
<1> QED
  BY <1>2, <1>3, <1>4, <1>5

\* A trigger from before ARMED comes to wait in ARMED only without history.
LEMMA EarlyWaitsStep ==
  ASSUME IInv, EarlyTriggerWaits, NEW ext \in BOOLEAN, NEW hit \in BOOLEAN,
         NEW match \in BOOLEAN, NEW ctrl \in SUBSET Ctrl,
         DomainEdge(ctrl, ext, hit, match)
  PROVE  EarlyTriggerWaits'
<1> SUFFICES ASSUME st' = "ARMED", raised' \in {"before", "filling"}
             PROVE  runPre' = 0
  BY DEF EarlyTriggerWaits
<1> DEFINE v == SampleEn(match)
           t == TrigFire(ext, match)
<1>1. Fill(v, t) \/ Watch(v, t)
  <2>1. Core(ctrl, ext, match)
    BY DEF DomainEdge
  <2> QED
    BY <2>1, EdgeKinds DEF Disarm, Collect, Arm, NextWindow, StartWindow, Rest, vars
<1>2. trigPend' /\ ~SampleEn(match)
  BY DEF DomainEdge, Remember, Pace
<1>3. runPre' = runPre
  BY <1>1 DEF Fill, Watch, run
<1>4. CASE Watch(v, t)
  <2>1. st = "ARMED"
    BY <1>4 DEF Watch
  <2>2. raised' = IF ~Trig(ext) THEN raised ELSE "armed"
    BY <1>2, <2>1 DEF DomainEdge, Remember
  <2> QED
    BY <1>3, <2>1, <2>2 DEF EarlyTriggerWaits
<1>5. CASE Fill(v, t)
  <2>1. st = "FILLING" /\ FillNext(v) = fillCnt
    BY <1>2, <1>5 DEF Fill, FillNext, Stores
  <2>2. /\ fillCnt = 0 \/ fillCnt < runPre
        /\ runPre = PretrigEff /\ runPre \in Nat /\ fillCnt \in Nat
    BY <2>1, DepthAssumption
    DEF IInv, FillShape, WindowBookkeeping, TypeOK
  <2>3. fillCnt >= PretrigEff
    BY <1>5, <2>1 DEF Fill
  <2> QED
    BY <1>3, <2>2, <2>3
<1> QED
  BY <1>1, <1>4, <1>5

\* A trigger from before ARMED is accepted only without history.
LEMMA EarlyAcceptStep ==
  ASSUME EarlyTriggerWaits, EarlyTriggerNeedsNoHistory, NEW ext \in BOOLEAN,
         NEW hit \in BOOLEAN, NEW match \in BOOLEAN, NEW ctrl \in SUBSET Ctrl,
         DomainEdge(ctrl, ext, hit, match)
  PROVE  EarlyTriggerNeedsNoHistory'
<1> SUFFICES ASSUME triggered', cause' \in {"before", "filling"}
             PROVE  runPre' = 0
  BY DEF EarlyTriggerNeedsNoHistory
<1> DEFINE v == SampleEn(match)
           t == TrigFire(ext, match)
<1>1. runPre' = runPre /\ ~(st \in {"IDLE", "DONE"} /\ st' = "FILLING")
  <2>1. CASE Core(ctrl, ext, match)
    BY <2>1, EdgeKinds
    DEF Disarm, Fill, Watch, Collect, Arm, NextWindow, StartWindow, Rest, run, vars
  <2> QED
    BY <2>1 DEF DomainEdge, run
<1>2. CASE Accepts(v, t)
  <2>1. st = "ARMED"
    BY <1>2 DEF Accepts
  <2>2. cause' = IF ~Trig(ext) THEN raised ELSE "armed"
    BY <1>1, <1>2, <2>1 DEF DomainEdge, Remember
  <2> QED
    BY <1>1, <2>1, <2>2 DEF EarlyTriggerWaits
<1>3. CASE ~Accepts(v, t)
  <2>1. cause' = cause
    BY <1>1, <1>3 DEF DomainEdge, Remember
  <2>2. triggered
    <3>1. CASE Core(ctrl, ext, match)
      BY <1>3, <3>1, EdgeKinds
      DEF Disarm, Fill, Watch, Collect, Capture, Arm, NextWindow, StartWindow,
          Rest, vars
    <3> QED
      BY <3>1 DEF DomainEdge
  <2> QED
    BY <1>1, <2>1, <2>2 DEF EarlyTriggerNeedsNoHistory
<1> QED
  BY <1>2, <1>3

\* A cycle keeps the decimation counter within its interval.
LEMMA GridStep ==
  ASSUME IInv, DomainTypeOK, OnGridAfterFirstSample, NEW ext \in BOOLEAN,
         NEW hit \in BOOLEAN, NEW match \in BOOLEAN, NEW ctrl \in SUBSET Ctrl,
         DomainEdge(ctrl, ext, hit, match)
  PROVE  OnGridAfterFirstSample'
<1> SUFFICES ASSUME st' \in Capturing, fillCnt' > 0 \/ triggered'
             PROVE  decCnt' <= decim'
  BY DEF OnGridAfterFirstSample
<1> DEFINE v == SampleEn(match)
           t == TrigFire(ext, match)
<1>1. Core(ctrl, ext, match) /\ decim' = decim
  BY DEF DomainEdge, Capturing, sampling
<1>2. /\ decCnt' = IF decCnt = 0 THEN decim ELSE decCnt - 1
      /\ decim \in Nat /\ decCnt \in Nat
  BY MaxDecimAssumption DEF DomainEdge, Pace, DomainTypeOK
<1>3. CASE decCnt = 0
  BY <1>1, <1>2, <1>3
<1>4. CASE decCnt # 0
  <2>1. ~v
    BY <1>4 DEF SampleEn
  <2>2. ~(fillCnt' > 0 \/ triggered') \/ Fill(v, t) \/ Watch(v, t) \/ Collect(v, t)
    <3>1. Arm \/ NextWindow => fillCnt' = 0 /\ ~triggered'
      BY DEF Arm, NextWindow, StartWindow
    <3>2. ~Disarm(v, t) /\ ~Rest
      BY DEF Disarm, Rest, Capturing, vars
    <3> QED
      BY <1>1, <3>1, <3>2, EdgeKinds
  <2>3. /\ st \in Capturing /\ fillCnt' = fillCnt /\ triggered' = triggered
    BY <2>1, <2>2
    DEF Fill, Watch, Collect, Capturing, Capture, Accepts, FillNext, Stores
  <2>4. decCnt <= decim
    BY <2>3 DEF OnGridAfterFirstSample
  <2> QED
    BY <1>1, <1>2, <1>4, <2>4
<1> QED
  BY <1>3, <1>4

----------------------------------------------------------------------------
\* Every invariant of the glue, for every buffer depth and decimation rate.
THEOREM DomainInvariant == DomainSpec => []DomainInv
<1>1. DomainInit => DomainInv
  BY DomainInitInv
<1>2. IInv /\ DomainInv /\ [DomainNext]_domainVars => DomainInv'
  <2> SUFFICES ASSUME IInv, DomainInv, [DomainNext]_domainVars PROVE DomainInv'
    OBVIOUS
  <2>1. CASE UNCHANGED domainVars
    BY <2>1
    DEF domainVars, vars, config, run, sampling, pacing, DomainInv, DomainTypeOK,
        SequencerFireInFlight, ForceStaysInWindow, SinceTrigger,
        EarlyTriggerNeedsNoHistory, EarlyTriggerWaits, OnGridAfterFirstSample,
        Capturing
  <2>2. CASE DomainReset
    BY <2>2, DomainResetInv
  <2>3. CASE DomainNext /\ ~DomainReset
    <3>1. PICK ext \in BOOLEAN, hit \in BOOLEAN, match \in BOOLEAN, ctrl \in SUBSET Ctrl :
            DomainEdge(ctrl, ext, hit, match)
      BY <2>3, DomainNextShape DEF DomainInv
    <3> QED
      BY <3>1, DomainTypeStep, SequencerStep, ForceStep, EarlyWaitsStep,
         EarlyAcceptStep, GridStep DEF DomainInv
  <2> QED
    BY <2>1, <2>2, <2>3
<1> QED
  BY <1>1, <1>2, DomainImplementsCore, Invariant, PTL DEF DomainSpec

\* A one-shot fire of the sequencer is never lost while the core waits for it.
THEOREM SequencerNeverLost == DomainSpec => []SequencerFireInFlight
BY DomainInvariant, PTL DEF DomainInv

\* A pending force never outlives the window it was strobed in.
THEOREM ForceNeverLeaks == DomainSpec => []ForceStaysInWindow
BY DomainInvariant, PTL DEF DomainInv

\* With PRETRIG_EFF > 0 every accepted trigger was raised while ARMED.
THEOREM EarlyTriggersAreDropped == DomainSpec => []EarlyTriggerNeedsNoHistory
BY DomainInvariant, PTL DEF DomainInv

\* After its first sample a run samples at the configured interval.
THEOREM SamplesOnGrid == DomainSpec => []OnGridAfterFirstSample
BY DomainInvariant, PTL DEF DomainInv

\* In the full capture domain too, no history sample is lost or overwritten.
THEOREM DomainHistoryIsIntact == DomainSpec => []HistoryIntact
BY DomainImplementsCore, HistoryIsIntact, PTL
=============================================================================
