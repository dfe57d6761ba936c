-------------------------- MODULE ScopeCoreProofs --------------------------
(***************************************************************************)
(* Proofs about the capture core for every buffer depth, window count and  *)
(* sample-number range.                                                    *)
(***************************************************************************)
EXTENDS ScopeCoreProperties, NaturalRecursion, SequenceTheorems

\* A slice count divides the depth into slices of two samples or more
\* (scope_core.sv 87-93, 173-174), and holds as many windows as were
\* validated (scope_csr.sv 122-127).
LEMMA SliceGeometry ==
  ASSUME NEW w \in Nat, w <= Depth \div 2
  PROVE  /\ EffectiveWindows(w) \in 1 .. Depth
         /\ Depth \div EffectiveWindows(w) \in 2 .. Depth
         /\ EffectiveWindows(w) * (Depth \div EffectiveWindows(w)) = Depth
         /\ w <= EffectiveWindows(w)
<1> DEFINE enough == {p \in Slicings : w <= p \/ p = Depth \div 2}
<1>1. Depth \div 2 \in enough
  BY DepthAssumption, Z3 DEF Slicings
<1>2. enough \in SUBSET Nat
  BY DepthAssumption DEF Slicings
<1>3. \E x \in enough : \A y \in enough : x <= y
  BY <1>1, <1>2, LeastNatural
<1>4. EffectiveWindows(w) \in enough
  BY <1>3 DEF EffectiveWindows
<1> DEFINE p == EffectiveWindows(w)
<1>5. PICK s \in 2 .. Depth : p * s = Depth
  BY <1>4 DEF Slicings
<1>6. p \in 1 .. Depth /\ w <= p
  BY <1>4 DEF Slicings
<1>7. Depth \div p = s
  <2> HIDE DEF p
  <2> QED BY <1>5, <1>6, DepthAssumption, Z3
<1> QED
  BY <1>5, <1>6, <1>7

\* PRETRIG scaled to a slice leaves room for the trigger sample.
LEMMA PretrigFits ==
  ASSUME NEW x \in Addresses, NEW p \in 1 .. Depth, NEW s \in 2 .. Depth,
         p * s = Depth
  PROVE  x \div p \in 0 .. s - 1
BY DepthAssumption, Z3 DEF Addresses

\* The write offset advances by one place on the ring of a slice.
LEMMA OffsetAdvance ==
  ASSUME NEW n \in Nat, NEW x \in 0 .. n - 1
  PROVE  (x + 1) % n = Ahead(x, 1, n)
BY Z3 DEF Ahead

----------------------------------------------------------------------------
\* The slice in use lies inside the buffer (scope_core.sv 105, 206).
LEMMA SliceInside ==
  ASSUME TypeOK, WindowBookkeeping, st # "IDLE"
  PROVE  /\ base + slice <= Depth
         /\ winIdx + 1 < weff => base + 2 * slice <= Depth
<1>1. winIdx + 1 <= weff
  BY DEF TypeOK, WindowBookkeeping, States, Capturing
<1>2. /\ winIdx \in Nat /\ weff \in Nat /\ slice \in Nat
      /\ base = winIdx * slice /\ weff * slice = Depth
  BY DepthAssumption, MaxWindowsAssumption DEF TypeOK, WindowBookkeeping
<1>3. \A a, b, n \in Nat : a <= b => a * n <= b * n
  BY Z3
<1>4. (winIdx + 1) * slice <= weff * slice
  BY <1>1, <1>2, <1>3
<1>5. winIdx + 1 < weff => (winIdx + 2) * slice <= weff * slice
  BY <1>2, <1>3
<1>6. /\ (winIdx + 1) * slice = winIdx * slice + slice
      /\ (winIdx + 2) * slice = winIdx * slice + 2 * slice
  BY <1>2, Z3
<1> QED
  BY <1>2, <1>4, <1>5, <1>6

\* The effective pre-trigger length leaves room for the trigger sample.
LEMMA PretrigEffFits == TypeOK => PretrigEff \in 0 .. slice - 1
BY PretrigFits DEF TypeOK, PretrigEff

\* Whatever the FSM does, the datapath keeps every register in range.
LEMMA CaptureTypes ==
  ASSUME TypeOK, WindowBookkeeping, FillShape,
         NEW v \in BOOLEAN, NEW t \in BOOLEAN, Capture(v, t)
  PROVE  /\ offset' \in 0 .. slice - 1 /\ now' \in Stamps
         /\ fillCnt' \in 0 .. Depth /\ post' \in 0 .. Depth
         /\ triggered' \in BOOLEAN /\ wrapped' \in BOOLEAN
         /\ trigIndex' \in Addresses /\ tsAtTrig' \in Stamps
         /\ buf' \in [Addresses -> Stamps \cup {NoSample}]
<1> USE DepthAssumption, StampAssumption DEF TypeOK
<1>1. offset' = IF Stores(v) THEN Ahead(offset, 1, slice) ELSE offset
  BY OffsetAdvance DEF Capture
<1>2. offset' \in 0 .. slice - 1
  BY <1>1 DEF Ahead
<1>3. now' \in Stamps
  BY DEF Capture, Ahead, Stamps
<1>4. Stores(v) => WrAddr \in Addresses
  BY SliceInside DEF Stores, WrAddr, Addresses
<1>5. fillCnt' \in 0 .. Depth
  BY DEF Capture, FillNext, Stores, FillShape
<1>6. post' \in 0 .. Depth
  BY PretrigEffFits DEF Capture, PostNext, Stores
<1>7. triggered' \in BOOLEAN /\ wrapped' \in BOOLEAN
  BY DEF Capture, WrappedNext
<1>8. trigIndex' \in Addresses /\ tsAtTrig' \in Stamps
  BY <1>4 DEF Capture, Accepts, Stores
<1>9. buf' \in [Addresses -> Stamps \cup {NoSample}]
  BY <1>4 DEF Capture
<1> QED
  BY <1>2, <1>3, <1>5, <1>6, <1>7, <1>8, <1>9

\* The store of an edge never lands on the trigger sample it must keep.
LEMMA CaptureKeepsTrigger ==
  ASSUME IInv, NEW v \in BOOLEAN, NEW t \in BOOLEAN, Capture(v, t)
  PROVE  TriggerSampleKept'
<1> USE DepthAssumption, StampAssumption DEF IInv, TypeOK
<1>1. Stores(v) => WrAddr \in Addresses
  BY SliceInside DEF Stores, WrAddr, Addresses
<1>2. CASE Accepts(v, t)
  <2>1. Stores(v) /\ buf' = [buf EXCEPT ![WrAddr] = now]
    BY <1>2 DEF Accepts, Stores, Capture
  <2> QED
    BY <1>1, <1>2, <2>1 DEF Capture, TriggerSampleKept
<1>3. CASE ~Accepts(v, t) /\ ~Stores(v)
  BY <1>3 DEF Capture, TriggerSampleKept
<1>4. CASE ~Accepts(v, t) /\ Stores(v) /\ triggered
  <2>1. st = "TRIGGERED" /\ post # 0
    BY <1>4 DEF Stores, TriggerShape
  <2>2. WrAddr # trigIndex
    BY <2>1 DEF BudgetEndsAtOldest, TriggerShape, SinceTrigger, Ahead, WrAddr,
                Addresses
  <2> QED
    BY <1>1, <1>4, <2>2 DEF Capture, TriggerSampleKept
<1>5. CASE ~Accepts(v, t) /\ ~triggered
  BY <1>5 DEF Capture, TriggerSampleKept
<1> QED
  BY <1>2, <1>3, <1>4, <1>5

\* One store prolongs the gapless history by one sample.
LEMMA CaptureKeepsHistory ==
  ASSUME IInv, NEW v \in BOOLEAN, NEW t \in BOOLEAN, Capture(v, t),
         st # "IDLE", UNCHANGED <<base, slice>>
  PROVE  \A k \in 1 .. Held' :
            buf'[base + Back(offset', k, slice)]
              = Back(IF Stores(v) THEN now ELSE Newest, k - 1, StampLimit)
<1> USE DepthAssumption, StampAssumption DEF IInv, TypeOK
<1>1. CASE ~Stores(v)
  <2>1. UNCHANGED <<offset, buf, wrapped>>
    BY <1>1 DEF Capture, WrappedNext
  <2> QED
    BY <1>1, <2>1 DEF HistoryIntact, Held
<1>2. CASE Stores(v)
  <2>1. offset' = Ahead(offset, 1, slice)
    BY <1>2, OffsetAdvance DEF Capture
  <2>2. WrAddr \in Addresses /\ buf' = [buf EXCEPT ![WrAddr] = now]
    BY <1>2, SliceInside DEF Stores, WrAddr, Addresses, Capture
  <2>3. wrapped' = (wrapped \/ offset = slice - 1)
    BY <1>2 DEF Capture, WrappedNext
  <2>4. now = Ahead(Newest, 1, StampLimit) /\ Newest \in Stamps
    BY <1>2, PretrigEffFits
    DEF Stores, Newest, Back, Ahead, Stamps, TriggerShape, BudgetEndsAtOldest,
        SinceTrigger
  <2> SUFFICES ASSUME NEW k \in 1 .. Held'
               PROVE  buf'[base + Back(offset', k, slice)]
                        = Back(now, k - 1, StampLimit)
    BY <1>2
  <2>5. Held' \in 0 .. slice
    BY <2>1, <2>3 DEF Held, Ahead
  <2>6. CASE k = 1
    <3>1. base + Back(offset', k, slice) = WrAddr
      BY <2>1, <2>6 DEF Back, Ahead, WrAddr
    <3>2. Back(now, k - 1, StampLimit) = now
      BY <2>6 DEF Back, Stamps
    <3> QED
      BY <2>2, <3>1, <3>2
  <2>7. CASE k # 1
    <3>1. k - 1 \in 1 .. Held /\ k - 1 < slice
      BY <2>1, <2>3, <2>5, <2>7 DEF Held, Ahead
    <3>2. Back(offset', k, slice) = Back(offset, k - 1, slice)
      BY <2>1, <2>5, <3>1 DEF Back, Ahead
    <3>3. base + Back(offset, k - 1, slice) # WrAddr
      BY <3>1 DEF Back, WrAddr, Addresses
    <3>4. base + Back(offset, k - 1, slice) \in Addresses
      BY <3>1, SliceInside DEF Back, Addresses
    <3>5. buf[base + Back(offset, k - 1, slice)]
            = Back(Newest, k - 2, StampLimit)
      BY <3>1 DEF HistoryIntact
    <3>6. Back(Newest, k - 2, StampLimit) = Back(now, k - 1, StampLimit)
      BY <2>4, <3>1 DEF Back, Ahead, Stamps
    <3> QED
      BY <2>2, <3>2, <3>3, <3>4, <3>5, <3>6
  <2> QED
    BY <2>6, <2>7
<1> QED
  BY <1>1, <1>2

----------------------------------------------------------------------------
(* The inductive invariant, one lemma per action.                          *)

\* The invariant holds after power-up.
LEMMA InitIInv == Init => IInv
<1> SUFFICES ASSUME Init PROVE IInv
  OBVIOUS
<1> USE DepthAssumption, MaxWindowsAssumption, StampAssumption DEF Init
<1>1. TypeOK
  <2>1. /\ pretrig \in Addresses /\ st \in States
        /\ windows \in 1 .. MaxWindows /\ windows <= Depth \div 2
        /\ slice \in 2 .. Depth /\ weff \in 1 .. Depth /\ weff * slice = Depth
    BY DEF Addresses, States
  <2>2. /\ offset \in 0 .. slice - 1 /\ base \in Addresses
        /\ winIdx \in 0 .. MaxWindows /\ windowsQ \in 1 .. MaxWindows
        /\ windowsDone \in 0 .. MaxWindows
        /\ fillCnt \in 0 .. Depth /\ post \in 0 .. Depth
        /\ runPre \in 0 .. slice - 1
    BY DEF Addresses
  <2>3. triggered \in BOOLEAN /\ wrapped \in BOOLEAN
    OBVIOUS
  <2>4. trigIndex \in Addresses /\ tsAtTrig \in Stamps /\ now \in Stamps
    BY DEF Addresses, Stamps
  <2>5. /\ buf \in [Addresses -> Stamps \cup {NoSample}]
        /\ meta \in [0 .. MaxWindows -> [wrapped : BOOLEAN, index : Addresses]]
    BY DEF Addresses, Stamps
  <2> QED
    BY ONLY <2>1, <2>2, <2>3, <2>4, <2>5 DEF TypeOK
<1>2. WindowBookkeeping
  BY DEF WindowBookkeeping, Capturing
<1> QED
  BY <1>1, <1>2
  DEF IInv, FillShape, HistoryBeforeTrigger, TriggerShape, BudgetEndsAtOldest,
      TriggerSampleKept, HistoryIntact

\* A reset preserves the invariant.
LEMMA ResetStep == ASSUME IInv, NEW v \in BOOLEAN, NEW d \in BOOLEAN, Reset(v, d) PROVE IInv'
<1> USE DepthAssumption, MaxWindowsAssumption, StampAssumption DEF Reset
<1>1. TypeOK'
  <2>1. /\ pretrig' \in Addresses /\ st' \in States
        /\ windows' \in 1 .. MaxWindows /\ windows' <= Depth \div 2
        /\ slice' \in 2 .. Depth /\ weff' \in 1 .. Depth /\ weff' * slice' = Depth
    <3>1. pretrig' = 0 /\ windows' = 1 /\ st' = "IDLE" /\ slice' = Depth /\ weff' = 1
      OBVIOUS
    <3> QED
      BY ONLY <3>1, DepthAssumption, MaxWindowsAssumption DEF Addresses, States
  <2>2. /\ offset' \in 0 .. slice' - 1 /\ base' \in Addresses
        /\ winIdx' \in 0 .. MaxWindows /\ windowsQ' \in 1 .. MaxWindows
        /\ windowsDone' \in 0 .. MaxWindows
        /\ fillCnt' \in 0 .. Depth /\ post' \in 0 .. Depth
        /\ runPre' \in 0 .. slice' - 1
    BY DEF IInv, TypeOK, Addresses
  <2>3. triggered' \in BOOLEAN /\ wrapped' \in BOOLEAN
    OBVIOUS
  <2>4. trigIndex' \in Addresses /\ tsAtTrig' \in Stamps /\ now' \in Stamps
    BY DEF IInv, TypeOK, Addresses, Stamps, Ahead
  <2>5. /\ buf' \in [Addresses -> Stamps \cup {NoSample}]
        /\ meta' \in [0 .. MaxWindows -> [wrapped : BOOLEAN, index : Addresses]]
    <3>1. now \in Stamps /\ WrappedNext(v) \in BOOLEAN /\ trigIndex \in Addresses
      BY DEF IInv, TypeOK, WrappedNext
    <3>2. /\ buf \in [Addresses -> Stamps \cup {NoSample}]
          /\ meta \in [0 .. MaxWindows -> [wrapped : BOOLEAN, index : Addresses]]
      BY DEF IInv, TypeOK
    <3> QED
      BY <3>1, <3>2
  <2> QED
    BY ONLY <2>1, <2>2, <2>3, <2>4, <2>5 DEF TypeOK
<1>2. WindowBookkeeping'
  BY DEF WindowBookkeeping, Capturing
<1> QED
  BY <1>1, <1>2
  DEF IInv, FillShape, HistoryBeforeTrigger, TriggerShape, BudgetEndsAtOldest,
      TriggerSampleKept, HistoryIntact

\* A write of PRETRIG in IDLE preserves the invariant.
LEMMA WritePretrigStep ==
  ASSUME IInv, NEW p \in Addresses, WritePretrig(p)
  PROVE  IInv'
<1> USE DEF WritePretrig, window, run
<1>1. TypeOK'
  BY DEF IInv, TypeOK
<1>2. WindowBookkeeping'
  BY DEF IInv, WindowBookkeeping, Capturing
<1>3. FillShape'
  BY DEF IInv, FillShape
<1>4. HistoryBeforeTrigger'
  BY DEF IInv, HistoryBeforeTrigger, Held
<1>5. TriggerShape'
  BY DEF IInv, TriggerShape, SinceTrigger
<1>6. BudgetEndsAtOldest'
  BY DEF IInv, BudgetEndsAtOldest, SinceTrigger
<1>7. TriggerSampleKept'
  BY DEF IInv, TriggerSampleKept
<1>8. HistoryIntact'
  BY DEF IInv, HistoryIntact
<1> QED
  BY <1>1, <1>2, <1>3, <1>4, <1>5, <1>6, <1>7, <1>8 DEF IInv

\* A write of WINDOWS in IDLE preserves the invariant.
LEMMA WriteWindowsStep ==
  ASSUME IInv, NEW w \in 0 .. MaxWindows, WriteWindows(w)
  PROVE  IInv'
<1> USE DEF WriteWindows, window, run
<1>1. TypeOK'
  <2>1. windows' \in 1 .. MaxWindows /\ windows' <= Depth \div 2
    BY DepthAssumption, MaxWindowsAssumption, Z3 DEF IInv, TypeOK
  <2> QED
    BY <2>1 DEF IInv, TypeOK
<1>2. WindowBookkeeping'
  BY DEF IInv, WindowBookkeeping, Capturing
<1> QED
  BY <1>1, <1>2
  DEF IInv, FillShape, HistoryBeforeTrigger, TriggerShape, BudgetEndsAtOldest,
      TriggerSampleKept, HistoryIntact, Held, SinceTrigger, Newest

\* A disarm preserves the invariant, in the cycle of a store too.
LEMMA DisarmStep ==
  ASSUME IInv, NEW v \in BOOLEAN, NEW t \in BOOLEAN, Disarm(v, t)
  PROVE  IInv'
<1> USE DEF Disarm, config, run
<1>1. Capture(v, t)
  OBVIOUS
<1>2. TypeOK'
  BY <1>1, CaptureTypes DEF IInv, TypeOK, States
<1>3. WindowBookkeeping'
  BY DEF IInv, WindowBookkeeping, Capturing
<1>4. TriggerSampleKept'
  BY <1>1, CaptureKeepsTrigger
<1> QED
  BY <1>2, <1>3, <1>4
  DEF IInv, FillShape, HistoryBeforeTrigger, TriggerShape, BudgetEndsAtOldest,
      HistoryIntact

\* arm and the automatic re-arm both start an empty window.
LEMMA ArmStep == IInv /\ Arm => IInv'
<1> SUFFICES ASSUME IInv, Arm PROVE IInv'
  OBVIOUS
<1>0. TypeOK
  BY DEF IInv
<1> USE DepthAssumption, MaxWindowsAssumption DEF Arm, StartWindow, config
<1>1. /\ weff' \in 1 .. Depth /\ slice' \in 2 .. Depth
      /\ weff' * slice' = Depth /\ windows <= weff'
  BY SliceGeometry DEF IInv, TypeOK
<1>2. runPre' \in 0 .. slice' - 1
  BY <1>1, PretrigFits DEF IInv, TypeOK
<1>3. TypeOK'
  <2>1. /\ base' \in Addresses /\ winIdx' \in 0 .. MaxWindows
        /\ windowsDone' \in 0 .. MaxWindows /\ windowsQ' \in 1 .. MaxWindows
    BY <1>0 DEF TypeOK, Addresses
  <2>2. /\ st' \in States /\ offset' \in 0 .. slice' - 1 /\ fillCnt' \in 0 .. Depth
    BY <1>1 DEF States
  <2>3. triggered' \in BOOLEAN /\ wrapped' \in BOOLEAN
    OBVIOUS
  <2>4. /\ pretrig' \in Addresses /\ post' \in 0 .. Depth
        /\ windows' \in 1 .. MaxWindows /\ windows' <= Depth \div 2
        /\ trigIndex' \in Addresses /\ tsAtTrig' \in Stamps /\ now' \in Stamps
        /\ buf' \in [Addresses -> Stamps \cup {NoSample}]
        /\ meta' \in [0 .. MaxWindows -> [wrapped : BOOLEAN, index : Addresses]]
    BY <1>0 DEF TypeOK
  <2> QED
    BY ONLY <1>1, <1>2, <2>1, <2>2, <2>3, <2>4 DEF TypeOK
<1>4. WindowBookkeeping'
  BY <1>1 DEF IInv, TypeOK, WindowBookkeeping, Capturing, PretrigEff
<1>5. Held' = 0
  BY DEF Held
<1> QED
  BY <1>3, <1>4, <1>5
  DEF IInv, FillShape, HistoryBeforeTrigger, TriggerShape, BudgetEndsAtOldest,
      TriggerSampleKept, HistoryIntact

\* Starting the next window preserves the invariant.
LEMMA NextWindowStep == IInv /\ NextWindow => IInv'
<1> SUFFICES ASSUME IInv, NextWindow PROVE IInv'
  OBVIOUS
<1>0. TypeOK
  BY DEF IInv
<1> USE DepthAssumption, MaxWindowsAssumption
    DEF NextWindow, StartWindow, config, run
<1>1. /\ base + slice \in 0 .. Depth - 1 /\ base + slice = (winIdx + 1) * slice
      /\ winIdx + 1 = windowsDone
  <2>1. winIdx + 1 < weff /\ winIdx + 1 = windowsDone
    BY DEF IInv, TypeOK, WindowBookkeeping
  <2>2. base + 2 * slice <= Depth
    BY <2>1, SliceInside DEF IInv
  <2>3. (winIdx + 1) * slice = winIdx * slice + slice
    BY Z3 DEF IInv, TypeOK
  <2> QED
    BY <2>1, <2>2, <2>3 DEF IInv, TypeOK, WindowBookkeeping, Addresses
<1>2. base' = base + slice
  <2>1. \A m, n \in Nat : m < n => m % n = m
    BY Z3
  <2> QED BY <1>1, <2>1
<1>3. TypeOK'
  <2>1. base' \in Addresses
    BY <1>1, <1>2 DEF Addresses
  <2>2. /\ winIdx' \in 0 .. MaxWindows /\ st' \in States
        /\ offset' \in 0 .. slice' - 1 /\ fillCnt' \in 0 .. Depth
    BY <1>0, <1>1 DEF TypeOK, States
  <2>3. triggered' \in BOOLEAN /\ wrapped' \in BOOLEAN
    OBVIOUS
  <2>4. /\ pretrig' \in Addresses /\ post' \in 0 .. Depth
        /\ windows' \in 1 .. MaxWindows /\ windows' <= Depth \div 2
        /\ slice' \in 2 .. Depth /\ weff' \in 1 .. Depth /\ weff' * slice' = Depth
        /\ windowsQ' \in 1 .. MaxWindows /\ windowsDone' \in 0 .. MaxWindows
        /\ trigIndex' \in Addresses /\ tsAtTrig' \in Stamps /\ now' \in Stamps
        /\ buf' \in [Addresses -> Stamps \cup {NoSample}]
        /\ meta' \in [0 .. MaxWindows -> [wrapped : BOOLEAN, index : Addresses]]
        /\ runPre' \in 0 .. slice' - 1
    BY <1>0 DEF TypeOK
  <2> QED
    BY ONLY <2>1, <2>2, <2>3, <2>4 DEF TypeOK
<1>4. WindowBookkeeping'
  BY <1>1, <1>2 DEF IInv, TypeOK, WindowBookkeeping, Capturing, PretrigEff
<1> QED
  BY <1>3, <1>4
  DEF IInv, TypeOK, FillShape, HistoryBeforeTrigger, TriggerShape,
      BudgetEndsAtOldest, TriggerSampleKept, HistoryIntact, Held

\* What every edge in a capturing state establishes, whatever the next state.
LEMMA CaptureStep ==
  ASSUME IInv, NEW v \in BOOLEAN, NEW t \in BOOLEAN, Capture(v, t),
         st \in Capturing, UNCHANGED <<config, base, run, winIdx>>
  PROVE  /\ TriggerSampleKept'
         /\ Held' >= Held /\ Held' \in 0 .. slice
         /\ \A k \in 1 .. Held' :
              buf'[base' + Back(offset', k, slice')]
                = Back(IF Stores(v) THEN now ELSE Newest, k - 1, StampLimit)
         /\ st' \in States /\ windowsDone' \in 0 .. MaxWindows
            /\ meta' \in [0 .. MaxWindows -> [wrapped : BOOLEAN, index : Addresses]]
            => TypeOK'
<1> USE DEF config, run, Capturing
<1>0. TypeOK /\ WindowBookkeeping /\ FillShape
  BY DEF IInv
<1>1. TriggerSampleKept'
  BY CaptureKeepsTrigger
<1>2. Held' >= Held /\ Held' \in 0 .. slice
  <2>1. offset' = IF Stores(v) THEN Ahead(offset, 1, slice) ELSE offset
    BY <1>0, OffsetAdvance DEF Capture, TypeOK
  <2>2. slice \in Nat /\ slice' = slice /\ offset \in 0 .. slice - 1
    BY <1>0, DepthAssumption DEF TypeOK
  <2>3. wrapped' <=> wrapped \/ (Stores(v) /\ offset = slice - 1)
    BY DEF Capture, WrappedNext
  <2>4. CASE wrapped
    <3>1. Held = slice /\ Held' = slice
      BY <2>2, <2>3, <2>4 DEF Held
    <3> QED
      BY <2>2, <3>1
  <2>5. CASE ~wrapped /\ Stores(v) /\ offset = slice - 1
    <3>1. Held = offset /\ Held' = slice
      BY <2>2, <2>3, <2>5 DEF Held
    <3> QED
      BY <2>2, <3>1
  <2>6. CASE ~wrapped /\ ~(Stores(v) /\ offset = slice - 1)
    <3>1. Held = offset /\ Held' = offset'
      BY <2>3, <2>6 DEF Held
    <3> QED
      BY <2>1, <2>2, <2>6, <3>1 DEF Ahead
  <2> QED
    BY <2>4, <2>5, <2>6
<1>3. \A k \in 1 .. Held' :
        buf'[base' + Back(offset', k, slice')]
          = Back(IF Stores(v) THEN now ELSE Newest, k - 1, StampLimit)
  BY CaptureKeepsHistory
<1>4. ASSUME st' \in States, windowsDone' \in 0 .. MaxWindows,
             meta' \in [0 .. MaxWindows -> [wrapped : BOOLEAN, index : Addresses]]
      PROVE  TypeOK'
  BY <1>0, <1>4, CaptureTypes DEF TypeOK
<1> QED
  BY <1>1, <1>2, <1>3, <1>4

\* An edge in FILLING preserves the invariant.
LEMMA FillStep ==
  ASSUME IInv, NEW v \in BOOLEAN, NEW t \in BOOLEAN, Fill(v, t)
  PROVE  IInv'
<1> USE DepthAssumption, StampAssumption
<1>0. TypeOK /\ Capture(v, t) /\ st = "FILLING" /\ st' \in {"FILLING", "ARMED"}
  BY DEF IInv, Fill
<1>1. /\ TypeOK' /\ TriggerSampleKept'
      /\ \A k \in 1 .. Held' :
           buf'[base' + Back(offset', k, slice')]
             = Back(IF Stores(v) THEN now ELSE Newest, k - 1, StampLimit)
  BY <1>0, CaptureStep DEF Fill, States, Capturing, TypeOK
<1>2. Newest' = IF Stores(v) THEN now ELSE Newest
  BY <1>0 DEF TypeOK, Capture, Newest, Stores, Capturing, Back, Ahead, Stamps
<1>3. HistoryIntact'
  BY <1>1, <1>2 DEF HistoryIntact
<1>4. WindowBookkeeping'
  BY <1>0 DEF Fill, IInv, WindowBookkeeping, Capturing, config, run, PretrigEff
<1>5. /\ ~wrapped' /\ offset' = fillCnt' /\ fillCnt' = FillNext(v)
      /\ runPre' = runPre /\ runPre = PretrigEff /\ fillCnt' \in Nat
  <2>1. /\ ~wrapped /\ offset = fillCnt /\ (fillCnt = 0 \/ fillCnt < runPre)
        /\ runPre = PretrigEff /\ runPre' = runPre
    BY <1>0 DEF IInv, FillShape, WindowBookkeeping, Fill, run
  <2>2. offset' = IF Stores(v) THEN Ahead(offset, 1, slice) ELSE offset
    BY <1>0, OffsetAdvance DEF Capture, TypeOK
  <2>3. offset + 1 < slice
    BY <1>0, <2>1 DEF TypeOK
  <2> QED
    BY <1>0, <2>1, <2>2, <2>3 DEF Capture, WrappedNext, FillNext, Stores, Ahead, TypeOK
<1>6. FillShape'
  BY <1>0, <1>5 DEF FillShape, Fill, TypeOK
<1>7. HistoryBeforeTrigger'
  BY <1>0, <1>5 DEF HistoryBeforeTrigger, Fill, Held
<1>8. TriggerShape' /\ BudgetEndsAtOldest'
  BY <1>0 DEF IInv, TriggerShape, BudgetEndsAtOldest, Capture, Accepts
<1> QED
  BY <1>1, <1>3, <1>4, <1>6, <1>7, <1>8 DEF IInv

\* An edge in ARMED preserves the invariant, with or without a trigger.
LEMMA WatchStep ==
  ASSUME IInv, NEW v \in BOOLEAN, NEW t \in BOOLEAN, Watch(v, t)
  PROVE  IInv'
<1> USE DepthAssumption, StampAssumption
<1>0. /\ TypeOK /\ Capture(v, t) /\ st = "ARMED"
      /\ st' = IF Accepts(v, t) THEN "TRIGGERED" ELSE "ARMED"
      /\ UNCHANGED <<base, slice, runPre>> /\ runPre = PretrigEff /\ Held >= runPre
      /\ ~triggered
  BY DEF IInv, Watch, run, WindowBookkeeping, HistoryBeforeTrigger, TriggerShape
<1>1. /\ TypeOK' /\ TriggerSampleKept' /\ Held' >= Held
      /\ \A k \in 1 .. Held' :
           buf'[base' + Back(offset', k, slice')]
             = Back(IF Stores(v) THEN now ELSE Newest, k - 1, StampLimit)
  BY <1>0, CaptureStep DEF Watch, States, Capturing, TypeOK
<1>2. Accepts(v, t) => /\ Stores(v) /\ post' = slice - 1 - runPre
                       /\ tsAtTrig' = now /\ trigIndex' = base + offset
  BY <1>0 DEF Accepts, Stores, Capture, WrAddr
<1>3. Newest' = IF Stores(v) THEN now ELSE Newest
  BY <1>0, <1>2
  DEF TypeOK, Capture, Newest, SinceTrigger, Stores, Capturing, Back, Ahead, Stamps
<1>4. HistoryIntact'
  BY <1>1, <1>3 DEF HistoryIntact
<1>5. WindowBookkeeping'
  BY <1>0 DEF Watch, IInv, WindowBookkeeping, Capturing, config, run, PretrigEff
<1>6. FillShape'
  BY <1>0 DEF FillShape
<1>7. HistoryBeforeTrigger'
  <2>1. Held \in Int /\ Held' \in Int /\ runPre \in Int
    BY <1>0, <1>1 DEF TypeOK, Held
  <2> QED
    BY <1>0, <1>1, <2>1 DEF HistoryBeforeTrigger
<1>8. offset' = IF Stores(v) THEN Ahead(offset, 1, slice) ELSE offset
  BY <1>0, OffsetAdvance DEF Capture, TypeOK
<1>9. TriggerShape'
  <2>1. CASE ~Accepts(v, t)
    BY <1>0, <2>1 DEF TriggerShape, Capture
  <2>2. CASE Accepts(v, t)
    <3>1. triggered'
      BY <1>0, <2>2 DEF Capture
    <3>2. now' = Ahead(now, 1, StampLimit)
      BY <1>0, <2>2 DEF Capture, Accepts, Capturing
    <3>3. ~wrapped' => ~wrapped /\ offset # slice - 1
      BY <1>0, <1>2, <2>2 DEF Capture, WrappedNext
    <3> QED
      BY <1>0, <1>2, <1>8, <2>2, <3>1, <3>2, <3>3
      DEF TriggerShape, SinceTrigger, Held, Ahead, TypeOK, Addresses
  <2> QED
    BY <2>1, <2>2
<1>10. BudgetEndsAtOldest'
  BY <1>0, <1>2, <1>8, PretrigEffFits
  DEF BudgetEndsAtOldest, SinceTrigger, TypeOK, Addresses
<1> QED
  BY <1>1, <1>4, <1>5, <1>6, <1>7, <1>9, <1>10 DEF IInv

\* An edge in TRIGGERED preserves the invariant.
LEMMA CollectStep ==
  ASSUME IInv, NEW v \in BOOLEAN, NEW t \in BOOLEAN, Collect(v, t)
  PROVE  IInv'
<1> USE DepthAssumption, StampAssumption
<1>0. /\ TypeOK /\ Capture(v, t) /\ st = "TRIGGERED"
      /\ st' = IF PostNext(v) = 0 THEN "DONE" ELSE "TRIGGERED"
      /\ UNCHANGED <<base, slice, runPre>> /\ Held >= runPre
      /\ ~Accepts(v, t) /\ post' = PostNext(v)
      /\ UNCHANGED <<trigIndex, tsAtTrig, triggered>> /\ triggered
  BY DEF IInv, TypeOK, Collect, run, HistoryBeforeTrigger, TriggerShape,
         Accepts, Capture
<1>1. /\ windowsDone' \in 0 .. MaxWindows
      /\ meta' \in [0 .. MaxWindows -> [wrapped : BOOLEAN, index : Addresses]]
  <2>1. windowsDone < windowsQ
    BY <1>0 DEF IInv, WindowBookkeeping, Capturing
  <2>2. [wrapped |-> WrappedNext(v), index |-> trigIndex]
          \in [wrapped : BOOLEAN, index : Addresses]
    BY <1>0 DEF TypeOK, WrappedNext
  <2>3. windowsDone' \in 0 .. MaxWindows
    BY <1>0, <2>1, MaxWindowsAssumption DEF Collect, TypeOK
  <2> QED
    BY <1>0, <2>2, <2>3 DEF Collect, TypeOK
<1>2. /\ TypeOK' /\ TriggerSampleKept' /\ Held' >= Held
      /\ \A k \in 1 .. Held' :
           buf'[base' + Back(offset', k, slice')]
             = Back(IF Stores(v) THEN now ELSE Newest, k - 1, StampLimit)
  BY <1>0, <1>1, CaptureStep DEF Collect, States, Capturing
<1>3. /\ SinceTrigger \in 1 .. slice
      /\ offset = Ahead(trigIndex - base, SinceTrigger, slice)
      /\ now = Ahead(tsAtTrig, SinceTrigger, StampLimit)
      /\ trigIndex - base \in 0 .. slice - 1
      /\ ~wrapped => /\ trigIndex - base >= runPre
                     /\ offset = trigIndex - base + SinceTrigger
  BY <1>0 DEF IInv, BudgetEndsAtOldest, TriggerShape
<1>4. SinceTrigger' = IF Stores(v) THEN SinceTrigger + 1 ELSE SinceTrigger
  BY <1>0 DEF SinceTrigger, PostNext, TypeOK
<1>5. Stores(v) => post > 0
  BY <1>0 DEF Stores, TypeOK
<1>6. Newest' = IF Stores(v) THEN now ELSE Newest
  BY <1>0, <1>3, <1>4 DEF Newest
<1>7. HistoryIntact'
  BY <1>2, <1>6 DEF HistoryIntact
<1>8. WindowBookkeeping'
  BY <1>0
  DEF Collect, IInv, TypeOK, WindowBookkeeping, Capturing, config, run, PretrigEff
<1>9. FillShape'
  BY <1>0 DEF FillShape
<1>10. HistoryBeforeTrigger'
  <2>1. Held \in Int /\ Held' \in Int /\ runPre \in Int
    BY <1>0, <1>2 DEF TypeOK, Held
  <2> QED
    BY <1>0, <1>2, <2>1 DEF HistoryBeforeTrigger
<1>11. offset' = IF Stores(v) THEN Ahead(offset, 1, slice) ELSE offset
  <2>1. slice \in Nat /\ offset \in 0 .. slice - 1
    BY <1>0 DEF TypeOK
  <2>2. (offset + 1) % slice = Ahead(offset, 1, slice)
    BY <2>1, OffsetAdvance
  <2> QED
    BY <1>0, <2>2 DEF Capture
<1>12. ~wrapped' => ~wrapped /\ (Stores(v) => offset # slice - 1)
  BY <1>0 DEF Capture, WrappedNext
<1>13. SinceTrigger' \in 1 .. slice
  BY <1>0, <1>3, <1>4, <1>5 DEF SinceTrigger, TypeOK
<1>14. ~wrapped' => offset' = trigIndex - base + SinceTrigger'
  <2> SUFFICES ASSUME ~wrapped' PROVE offset' = trigIndex - base + SinceTrigger'
    OBVIOUS
  <2>1. /\ offset = trigIndex - base + SinceTrigger
        /\ Stores(v) => offset # slice - 1
    BY <1>3, <1>12
  <2>2. /\ offset \in 0 .. slice - 1 /\ slice \in Nat /\ trigIndex - base \in Int
        /\ SinceTrigger \in Int
    BY <1>0, <1>3 DEF TypeOK
  <2> QED
    BY <1>4, <1>11, <2>1, <2>2 DEF Ahead
<1>15. TriggerShape'
  <2>2. st' = "TRIGGERED" => now' = Ahead(tsAtTrig, SinceTrigger', StampLimit)
    <3>1. st' = "TRIGGERED" => post # 0
      BY <1>0 DEF PostNext, Stores
    <3>2. st' = "TRIGGERED" =>
            now' = IF Stores(v) THEN Ahead(now, 1, StampLimit) ELSE now
      BY <1>0, <3>1 DEF Capture, Stores, Capturing
    <3> QED
      BY <1>0, <1>3, <1>4, <1>13, <3>2 DEF Ahead, TypeOK, Stamps
  <2> QED
    BY <1>0, <1>3, <1>12, <1>14, <2>2 DEF TriggerShape
<1>16. BudgetEndsAtOldest'
  <2>1. offset' = Ahead(trigIndex - base, SinceTrigger', slice)
    <3>1. /\ slice \in Nat /\ SinceTrigger \in 1 .. slice
          /\ trigIndex - base \in 0 .. slice - 1
      BY <1>0, <1>3 DEF TypeOK
    <3> QED
      BY <1>3, <1>4, <1>11, <1>13, <3>1 DEF Ahead
  <2>2. st' = "DONE" => post' = 0
    BY <1>0
  <2>3. st' = "DONE" => wrapped'
    <3> SUFFICES ASSUME st' = "DONE", ~wrapped' PROVE FALSE
      OBVIOUS
    <3>1. offset' = trigIndex - base + SinceTrigger'
      BY <1>14
    <3>2. SinceTrigger' = slice - runPre
      BY <1>0, <2>2 DEF SinceTrigger, TypeOK
    <3>3. offset' < slice
      BY <1>2, <1>0 DEF TypeOK
    <3>4. trigIndex - base >= runPre
      BY <1>3, <1>12
    <3>5. trigIndex - base \in Int /\ slice \in Int /\ runPre \in Int
      BY <1>0, <1>3 DEF TypeOK
    <3> QED
      BY <3>1, <3>2, <3>3, <3>4, <3>5
  <2> QED
    BY <1>0, <1>13, <2>1, <2>2, <2>3 DEF BudgetEndsAtOldest
<1> QED
  BY <1>2, <1>7, <1>8, <1>9, <1>10, <1>15, <1>16 DEF IInv

\* A step that changes no register preserves the invariant.
LEMMA StutterStep == IInv /\ UNCHANGED vars => IInv'
BY DEF vars, config, run, IInv, TypeOK, WindowBookkeeping, PretrigEff, FillShape,
       HistoryBeforeTrigger, TriggerShape, BudgetEndsAtOldest, SinceTrigger,
       TriggerSampleKept, HistoryIntact, Held, Newest, Capturing

----------------------------------------------------------------------------
\* Every step of the core keeps the invariant.
LEMMA CoreStep == IInv /\ [Next]_vars => IInv'
<1> SUFFICES ASSUME IInv, [Next]_vars PROVE IInv'
  OBVIOUS
<1>1. ASSUME NEW v \in BOOLEAN, NEW t \in BOOLEAN, NEW a \in BOOLEAN,
             NEW d \in BOOLEAN, Edge(v, t, a, d)
      PROVE  IInv'
  <2>1. CASE Disarm(v, t)   BY <2>1, DisarmStep
  <2>2. CASE Fill(v, t)     BY <2>2, FillStep
  <2>3. CASE Watch(v, t)    BY <2>3, WatchStep
  <2>4. CASE Collect(v, t)  BY <2>4, CollectStep
  <2>5. CASE Arm            BY <2>5, ArmStep
  <2>6. CASE NextWindow     BY <2>6, NextWindowStep
  <2>7. CASE Rest           BY <2>7, StutterStep DEF Rest
  <2> QED
    BY <1>1, <2>1, <2>2, <2>3, <2>4, <2>5, <2>6, <2>7 DEF Edge
<1>2. CASE \E p \in Addresses : WritePretrig(p)
  BY <1>2, WritePretrigStep
<1>3. CASE \E w \in 0 .. MaxWindows : WriteWindows(w)
  BY <1>3, WriteWindowsStep
<1>4. CASE \E v, d \in BOOLEAN : Reset(v, d)
  BY <1>4, ResetStep
<1>5. CASE UNCHANGED vars
  BY <1>5, StutterStep
<1> QED
  BY <1>1, <1>2, <1>3, <1>4, <1>5 DEF Next

\* The invariant holds in every state of the core, for every buffer depth.
THEOREM Invariant == Spec => []IInv
<1>1. Init => IInv
  BY InitIInv
<1>2. IInv /\ [Next]_vars => IInv'
  BY CoreStep
<1> QED
  BY <1>1, <1>2, PTL DEF Spec

\* No register leaves its width and the slice in use is always well formed.
THEOREM TypeCorrect == Spec => []TypeOK
BY Invariant, PTL DEF IInv

\* Formal property (a) of the repository, for every depth and any number of
\* windows: the trigger sample is stored where TRIG_INDEX says and stays.
THEOREM TriggerSampleIsKept == Spec => []TriggerSampleKept
BY Invariant, PTL DEF IInv

\* The buffer behind the write pointer is a gapless, ordered history.
THEOREM HistoryIsIntact == Spec => []HistoryIntact
BY Invariant, PTL DEF IInv

\* A trigger always finds its full pre-trigger history in the buffer.
THEOREM HistoryPrecedesTrigger == Spec => []HistoryBeforeTrigger
BY Invariant, PTL DEF IInv

\* The post-trigger budget ends exactly at the oldest sample, so a completed
\* window has always wrapped.
THEOREM BudgetIsExact == Spec => []BudgetEndsAtOldest
BY Invariant, PTL DEF IInv

\* Windows use disjoint slices that all lie inside the buffer.
THEOREM WindowsAreCounted == Spec => []WindowBookkeeping
BY Invariant, PTL DEF IInv

----------------------------------------------------------------------------
(* The refinement: with the mapping of ScopeCoreProperties every step of   *)
(* the core is a step of CaptureSpec or leaves it where it is.             *)

\* k places ahead on a ring of n, as the modulus the host computes.
LEMMA AheadIsModulus ==
  ASSUME NEW n \in Nat, NEW x \in 0 .. n - 1, NEW k \in 0 .. n
  PROVE  (x + k) % n = Ahead(x, k, n)
<1>1. CASE x + k < n
  BY <1>1, Z3 DEF Ahead
<1>2. CASE x + k >= n
  <2>1. x + k - n \in 0 .. n - 1
    BY <1>2
  <2>2. \A y, m \in Nat : m > 0 /\ y < m => (y + m) % m = y
    BY Z3
  <2>3. (x + k - n + n) % n = x + k - n
    BY <2>1, <2>2
  <2> QED
    BY <1>2, <2>1, <2>3 DEF Ahead
<1> QED
  BY <1>1, <1>2

\* Walking ahead k places and back n - k places on a ring of n meets.
LEMMA AheadMeetsBack ==
  ASSUME NEW n \in Nat, NEW x \in 0 .. n - 1, NEW k \in 0 .. n - 1
  PROVE  /\ Ahead(x, k, n) = Back(x, n - k, n)
         /\ Ahead(x, k, n) \in 0 .. n - 1
BY DEF Ahead, Back

\* Two different windows use disjoint addresses.
LEMMA SlicesDisjoint ==
  ASSUME NEW n \in Nat, NEW w \in Nat, NEW x \in Nat, w < x,
         NEW i \in 0 .. n - 1, NEW j \in 0 .. n - 1
  PROVE  w * n + i < x * n + j
<1>1. \A a, b \in Nat : a <= b => a * n <= b * n
  BY Z3
<1>2. (w + 1) * n <= x * n
  BY <1>1
<1>3. (w + 1) * n = w * n + n /\ w * n \in Nat /\ x * n \in Nat
  BY Z3
<1> QED
  BY <1>2, <1>3

\* No store of a later window reaches a recorded one.
LEMMA RecordedKept ==
  ASSUME IInv, NEW v \in BOOLEAN, NEW t \in BOOLEAN, Capture(v, t),
         UNCHANGED <<base, slice, runPre>>,
         NEW w \in 0 .. windowsDone - 1, meta'[w] = meta[w]
  PROVE  Restored(w)' = Restored(w)
<1> USE DepthAssumption, MaxWindowsAssumption
<1>a. TypeOK
  BY DEF IInv
<1>b. /\ slice \in 2 .. Depth /\ winIdx \in 0 .. MaxWindows
      /\ windowsDone \in 0 .. MaxWindows /\ offset \in 0 .. slice - 1
  BY <1>a DEF TypeOK
<1>0. /\ TypeOK /\ slice \in Nat /\ slice >= 2 /\ w \in Nat /\ winIdx \in Nat
      /\ offset \in 0 .. slice - 1
  BY <1>a, <1>b
<1>1. ASSUME NEW i \in 0 .. slice - 1
      PROVE  buf'[w * slice + i] = buf[w * slice + i]
  <2>1. CASE ~Stores(v)
    BY <2>1 DEF Capture
  <2>2. CASE Stores(v)
    <3>1. w < winIdx /\ base = winIdx * slice /\ WrAddr \in Addresses
      BY <1>0, <2>2, SliceInside
      DEF IInv, WindowBookkeeping, Stores, Capturing, TypeOK, WrAddr, Addresses
    <3>2. w * slice + i < WrAddr
      BY <1>0, <3>1, SlicesDisjoint DEF WrAddr
    <3>3. w * slice + i \in Nat
      BY <1>0, Z3
    <3>4. w * slice + i \in Addresses /\ w * slice + i # WrAddr
      BY <3>1, <3>2, <3>3 DEF Addresses
    <3>5. buf' = [buf EXCEPT ![WrAddr] = now] /\ buf \in [Addresses -> Stamps \cup {NoSample}]
      BY <1>0, <2>2 DEF Capture, TypeOK
    <3> QED
      BY <3>1, <3>4, <3>5
  <2> QED
    BY <2>1, <2>2
<1>2. SliceOf(w)' = SliceOf(w)
  BY <1>1 DEF SliceOf
<1> QED
  BY <1>2 DEF Restored, Ordered, Oldest

\* A number less than three laps of a ring, reduced to the ring.
LEMMA ThreeLaps ==
  ASSUME NEW n \in Nat, NEW x \in Nat, n > 0, x < 3 * n
  PROVE  x % n = IF x < n THEN x ELSE IF x < 2 * n THEN x - n ELSE x - 2 * n
<1>1. CASE x < n
  BY <1>1, Z3
<1>2. CASE x >= n /\ x < 2 * n
  BY <1>2, Z3
<1>3. CASE x >= 2 * n
  BY <1>3, Z3
<1> QED
  BY <1>1, <1>2, <1>3

\* The window completed by the last sample reads back in time order with the
\* trigger sample at its place.
LEMMA CompletedWindow ==
  ASSUME IInv, IInv', NEW v \in BOOLEAN, NEW t \in BOOLEAN, Collect(v, t),
         st' = "DONE"
  PROVE  Restored(winIdx)' = Promise!WindowAround(tsAtTrig)
<1> USE DepthAssumption, StampAssumption, MaxWindowsAssumption
<1>1. /\ UNCHANGED <<base, slice, runPre, winIdx, trigIndex, tsAtTrig>>
      /\ meta' = [meta EXCEPT ![winIdx] =
                    [wrapped |-> WrappedNext(v), index |-> trigIndex]]
      /\ wrapped' = WrappedNext(v)
  <2>1. ~Accepts(v, t)
    BY DEF Collect, Accepts
  <2>2. PostNext(v) = 0
    BY DEF Collect
  <2> QED
    BY <2>1, <2>2 DEF Collect, Capture, run
<1>2. /\ slice \in 2 .. Depth /\ winIdx \in 0 .. MaxWindows
      /\ meta \in [0 .. MaxWindows -> [wrapped : BOOLEAN, index : Addresses]]
      /\ runPre \in 0 .. slice - 1 /\ tsAtTrig \in Stamps
      /\ offset' \in 0 .. slice - 1
  BY <1>1 DEF IInv, TypeOK
<1>3. /\ wrapped' /\ post' = 0 /\ trigIndex - base \in 0 .. slice - 1
      /\ offset' = Ahead(trigIndex - base, slice - runPre, slice)
  BY <1>1, <1>2 DEF IInv, BudgetEndsAtOldest, TriggerShape, SinceTrigger
<1>4. base = winIdx * slice
  BY DEF IInv, WindowBookkeeping, Collect
<1>5. meta'[winIdx].wrapped /\ meta'[winIdx].index = trigIndex
  BY <1>1, <1>2, <1>3
<1>6. Oldest(slice, trigIndex - base, TRUE, runPre) = offset'
  <2>1. slice \in Nat /\ slice - runPre \in 0 .. slice
    BY <1>2
  <2>2. (trigIndex - base + (slice - runPre)) % slice = offset'
    BY <1>3, <2>1, AheadIsModulus
  <2> QED
    BY <2>2 DEF Oldest
<1>7. Restored(winIdx)' = Ordered([i \in 0 .. slice - 1 |-> buf'[base + i]], slice,
                                  trigIndex - base, TRUE, runPre)
  <2>1. Restored(winIdx)'
          = Ordered([i \in 0 .. slice' - 1 |-> buf'[winIdx' * slice' + i]], slice',
                    meta'[winIdx'].index - winIdx' * slice', meta'[winIdx'].wrapped,
                    runPre')
    BY DEF Restored, SliceOf
  <2>2. meta'[winIdx].wrapped = TRUE
    BY <1>2, <1>5
  <2> QED
    BY <1>1, <1>4, <1>5, <2>1, <2>2
<1>8. ASSUME NEW i \in 0 .. slice - 1
      PROVE  /\ (offset' + i) % slice \in 0 .. slice - 1
             /\ buf'[base + ((offset' + i) % slice)]
                  = (tsAtTrig + StampLimit - runPre + i) % StampLimit
  <2>1. (offset' + i) % slice = Ahead(offset', i, slice)
    BY <1>2, AheadIsModulus
  <2>2. /\ Ahead(offset', i, slice) = Back(offset', slice - i, slice)
        /\ Ahead(offset', i, slice) \in 0 .. slice - 1
    <3>1. slice \in Nat
      BY <1>2
    <3> QED
      BY <1>2, <3>1, AheadMeetsBack
  <2>3. Held' = slice
    BY <1>1, <1>3 DEF Held
  <2>4. buf'[base + Back(offset', slice - i, slice)]
          = Back(Newest', slice - i - 1, StampLimit)
    BY <1>1, <1>2, <2>3 DEF IInv, HistoryIntact
  <2>5. Newest' = Ahead(tsAtTrig, slice - runPre - 1, StampLimit)
    BY <1>1, <1>2, <1>3 DEF Newest, SinceTrigger
  <2>6. Back(Newest', slice - i - 1, StampLimit)
          = (tsAtTrig + StampLimit - runPre + i) % StampLimit
    <3> DEFINE x == tsAtTrig + StampLimit - runPre + i
    <3>1. x \in Nat /\ x < 3 * StampLimit /\ StampLimit \in Nat /\ StampLimit > 0
      BY <1>2 DEF Stamps
    <3>2. x % StampLimit = IF x < StampLimit THEN x
                           ELSE IF x < 2 * StampLimit THEN x - StampLimit
                           ELSE x - 2 * StampLimit
      BY <3>1, ThreeLaps
    <3> QED
      BY <1>2, <2>5, <3>2 DEF Back, Ahead, Stamps
  <2> QED
    BY <2>1, <2>2, <2>4, <2>6
<1>9. Restored(winIdx)'
        = [i \in 0 .. slice - 1 |->
             [j \in 0 .. slice - 1 |-> buf'[base + j]][(offset' + i) % slice]]
  BY ONLY <1>6, <1>7 DEF Ordered
<1>10. Restored(winIdx)'
         = [i \in 0 .. slice - 1 |-> (tsAtTrig + StampLimit - runPre + i) % StampLimit]
  BY ONLY <1>8, <1>9
<1> QED
  BY <1>10 DEF Promise!WindowAround

----------------------------------------------------------------------------
\* A sequence one longer is its beginning with the last element appended.
LEMMA AppendOne ==
  ASSUME NEW n \in Nat, NEW S, NEW s \in [1 .. n + 1 -> S]
  PROVE  Append([w \in 1 .. n |-> s[w]], s[n + 1]) = s
<1> DEFINE p == [w \in 1 .. n |-> s[w]]
<1>1. p \in Seq(S)
  BY SeqDef
<1>2. DOMAIN p = 1 .. n
  OBVIOUS
<1>3. Len(p) = n
  BY <1>1, <1>2, LenProperties, SMT
<1>4. Append(p, s[n + 1]) \in [1 .. n + 1 -> S]
  <2>1. s[n + 1] \in S
    OBVIOUS
  <2>2. Append(p, s[n + 1]) \in Seq(S) /\ Len(Append(p, s[n + 1])) = n + 1
    BY <1>1, <1>3, <2>1, AppendProperties
  <2> QED
    BY <2>2, LenProperties
<1>5. \A i \in 1 .. n + 1 : Append(p, s[n + 1])[i] = s[i]
  BY <1>1, <1>3, AppendProperties
<1> QED
  BY <1>4, <1>5

\* Power-up is an idle core with nothing recorded.
LEMMA RefinesInit == Init => Promise!Init
<1> SUFFICES ASSUME Init PROVE Promise!Init
  OBVIOUS
<1> USE DepthAssumption, StampAssumption DEF Init
<1>1. phaseBar = "off"
  BY DEF phaseBar
<1>2. [w \in 1 .. windowsDone |-> Restored(w - 1)] = << >>
  OBVIOUS
<1> QED
  BY <1>1, <1>2 DEF Promise!Init, Promise!Stamps

\* arm begins a run.
LEMMA RefinesArm == IInv /\ IInv' /\ Arm => Promise!Begin
<1> SUFFICES ASSUME IInv, IInv', Arm PROVE Promise!Begin
  OBVIOUS
<1> USE DepthAssumption, MaxWindowsAssumption DEF Arm, StartWindow
<1>1. phaseBar \in {"off", "done"} /\ phaseBar' = "filling"
  BY DEF phaseBar
<1>2. slice' \in 2 .. Depth /\ runPre' \in 0 .. slice' - 1
  BY DEF IInv, TypeOK
<1>3. windowsQ' \in 1 .. Depth
  BY DEF IInv, TypeOK
<1>4. [w \in 1 .. windowsDone' |-> Restored(w - 1)'] = << >>
  OBVIOUS
<1>5. Held' = 0
  BY DEF Held
<1> QED
  BY <1>1, <1>2, <1>3, <1>4, <1>5 DEF Promise!Begin

\* What an edge in a capturing state does to the held samples and the number
\* of the next sample.
LEMMA CaptureHeld ==
  ASSUME IInv, NEW v \in BOOLEAN, NEW t \in BOOLEAN, Capture(v, t),
         st \in Capturing, UNCHANGED slice
  PROVE  /\ Held' = IF Stores(v) THEN (IF Held = slice THEN slice ELSE Held + 1)
                                 ELSE Held
         /\ now' = IF v THEN Promise!Later(now, 1) ELSE now
         /\ v => now' # now
<1> USE DepthAssumption, StampAssumption
<1>0. TypeOK
  BY DEF IInv
<1>1. offset' = IF Stores(v) THEN Ahead(offset, 1, slice) ELSE offset
  BY <1>0, OffsetAdvance DEF Capture, TypeOK
<1>2. wrapped' <=> wrapped \/ (Stores(v) /\ offset = slice - 1)
  BY DEF Capture, WrappedNext
<1>3. slice \in Nat /\ slice' = slice /\ offset \in 0 .. slice - 1
      /\ wrapped \in BOOLEAN /\ wrapped' \in BOOLEAN
  BY <1>0, <1>2, CaptureTypes DEF TypeOK, IInv
<1>4. now' = IF v THEN Ahead(now, 1, StampLimit) ELSE now
  BY DEF Capture
<1>5. Ahead(now, 1, StampLimit) = Promise!Later(now, 1)
  BY <1>0, AheadIsModulus DEF TypeOK, Stamps, Promise!Later
<1>6. Ahead(now, 1, StampLimit) # now
  BY <1>0 DEF TypeOK, Stamps, Ahead
<1>7. Held' = IF Stores(v) THEN (IF Held = slice THEN slice ELSE Held + 1) ELSE Held
  <2>1. CASE wrapped
    BY <1>2, <1>3, <2>1 DEF Held
  <2>2. CASE ~wrapped /\ Stores(v) /\ offset = slice - 1
    BY <1>2, <1>3, <2>2 DEF Held
  <2>3. CASE ~wrapped /\ ~(Stores(v) /\ offset = slice - 1)
    BY <1>1, <1>2, <1>3, <2>3 DEF Held, Ahead
  <2> QED
    BY <2>1, <2>2, <2>3
<1> QED
  BY <1>4, <1>5, <1>6, <1>7

\* As long as no window completes, what was recorded stays as it is.
LEMMA RecordedUnchanged ==
  ASSUME IInv, NEW v \in BOOLEAN, NEW t \in BOOLEAN, Capture(v, t),
         UNCHANGED <<base, slice, runPre, windowsDone, meta>>
  PROVE  [w \in 1 .. windowsDone' |-> Restored(w - 1)']
           = [w \in 1 .. windowsDone |-> Restored(w - 1)]
<1>1. ASSUME NEW w \in 1 .. windowsDone
      PROVE  Restored(w - 1)' = Restored(w - 1)
  <2>1. w - 1 \in 0 .. windowsDone - 1
    BY DEF IInv, TypeOK
  <2> QED
    BY <2>1, RecordedKept
<1> QED
  BY <1>1

\* An edge in FILLING is a filling step.
LEMMA RefinesFill ==
  ASSUME IInv, IInv', NEW v \in BOOLEAN, NEW t \in BOOLEAN, Fill(v, t)
  PROVE  Promise!FillingStep
<1>1. /\ Capture(v, t) /\ st = "FILLING" /\ st \in Capturing
      /\ UNCHANGED <<base, slice, runPre, windowsDone, meta, windowsQ>>
      /\ st' = IF FillNext(v) >= runPre THEN "ARMED" ELSE "FILLING"
  BY DEF Fill, run, Capturing, IInv, WindowBookkeeping
<1>2. phaseBar = "filling"
      /\ phaseBar' = IF FillNext(v) >= runPre THEN "watching" ELSE "filling"
  BY <1>1 DEF phaseBar
<1>3. Held' = FillNext(v)
  <2>1. Held = fillCnt /\ fillCnt < slice /\ (fillCnt = 0 \/ fillCnt < runPre)
        /\ runPre < slice /\ slice > 0 /\ slice \in Int /\ fillCnt \in Int
    BY <1>1, DepthAssumption DEF IInv, TypeOK, FillShape, Held
  <2> QED
    BY <1>1, <2>1, CaptureHeld DEF FillNext, Stores
<1>4. /\ Held' = IF v THEN Promise!Hold ELSE Held
      /\ now' = IF v THEN Promise!Later(now, 1) ELSE now
  BY <1>1, CaptureHeld DEF Stores, Promise!Hold
<1>5. [w \in 1 .. windowsDone' |-> Restored(w - 1)']
        = [w \in 1 .. windowsDone |-> Restored(w - 1)]
  BY <1>1, RecordedUnchanged
<1>6. st \notin {"IDLE", "TRIGGERED", "DONE"} /\ st' \notin {"IDLE", "TRIGGERED", "DONE"}
  BY <1>1
<1> QED
  BY <1>1, <1>2, <1>3, <1>4, <1>5, <1>6 DEF Promise!FillingStep, Promise!config

\* An edge in ARMED is a watching step.
LEMMA RefinesWatch ==
  ASSUME IInv, IInv', NEW v \in BOOLEAN, NEW t \in BOOLEAN, Watch(v, t)
  PROVE  Promise!WatchingStep \/ UNCHANGED Promise!vars
<1>1. /\ Capture(v, t) /\ st = "ARMED" /\ st \in Capturing
      /\ UNCHANGED <<base, slice, runPre, windowsDone, meta, windowsQ>>
      /\ st' = IF Accepts(v, t) THEN "TRIGGERED" ELSE "ARMED"
  BY DEF Watch, run, Capturing
<1>2. /\ phaseBar = "watching"
      /\ phaseBar' = IF Accepts(v, t) THEN "collecting" ELSE "watching"
  BY <1>1 DEF phaseBar
<1>3. /\ Held' = IF v THEN Promise!Hold ELSE Held
      /\ now' = IF v THEN Promise!Later(now, 1) ELSE now
  BY <1>1, CaptureHeld DEF Stores, Promise!Hold
<1>4. [w \in 1 .. windowsDone' |-> Restored(w - 1)']
        = [w \in 1 .. windowsDone |-> Restored(w - 1)]
  BY <1>1, RecordedUnchanged
<1>5. Accepts(v, t) => v /\ tsAtTrig' = now /\ post' = slice - 1 - runPre
  BY <1>1 DEF Accepts, Capture, IInv, WindowBookkeeping
<1>6. CASE v
  BY <1>1, <1>2, <1>3, <1>4, <1>5, <1>6 DEF Promise!WatchingStep, Promise!config
<1>7. CASE ~v
  <2>1. ~Accepts(v, t)
    BY <1>7 DEF Accepts
  <2> QED
    BY <1>1, <1>2, <1>3, <1>4, <1>7, <2>1 DEF Promise!vars
<1> QED
  BY <1>6, <1>7

\* An edge in TRIGGERED is a collecting step, the last one included.
LEMMA RefinesCollect ==
  ASSUME IInv, IInv', NEW v \in BOOLEAN, NEW t \in BOOLEAN, Collect(v, t)
  PROVE  Promise!CollectingStep
<1>1. /\ Capture(v, t) /\ st = "TRIGGERED" /\ st \in Capturing /\ ~Accepts(v, t)
      /\ UNCHANGED <<base, slice, runPre, windowsQ, winIdx>>
      /\ st' = IF PostNext(v) = 0 THEN "DONE" ELSE "TRIGGERED"
      /\ post' = PostNext(v) /\ UNCHANGED tsAtTrig
  BY DEF Collect, run, Capturing, Accepts, Capture
<1>2. /\ phaseBar = "collecting"
      /\ phaseBar' = IF PostNext(v) = 0 THEN "done" ELSE "collecting"
  BY <1>1 DEF phaseBar
<1>3. /\ post \in Nat /\ winIdx = windowsDone /\ windowsDone \in Nat
      /\ winIdx \in 0 .. MaxWindows
      /\ meta \in [0 .. MaxWindows -> [wrapped : BOOLEAN, index : Addresses]]
  <2>1. /\ post \in Nat /\ windowsDone \in Nat /\ winIdx \in 0 .. MaxWindows
        /\ meta \in [0 .. MaxWindows -> [wrapped : BOOLEAN, index : Addresses]]
    <3>1. /\ post \in 0 .. Depth /\ windowsDone \in 0 .. MaxWindows /\ winIdx \in 0 .. MaxWindows
          /\ meta \in [0 .. MaxWindows -> [wrapped : BOOLEAN, index : Addresses]]
      BY Zenon DEF IInv, TypeOK
    <3> QED
      BY <3>1
  <2>2. winIdx = windowsDone
    BY <1>1 DEF IInv, WindowBookkeeping
  <2> QED
    BY <2>1, <2>2
<1>4. /\ Held' = IF v /\ post > 0 THEN Promise!Hold ELSE Held
      /\ now' = IF v THEN Promise!Later(now, 1) ELSE now
      /\ v <=> now' # now
      /\ post' = IF v /\ post > 0 THEN post - 1 ELSE post
  BY <1>1, <1>3, CaptureHeld DEF Stores, PostNext, Promise!Hold
<1>5. /\ now' \in {now, Promise!Later(now, 1)}
      /\ IF now' # now /\ post > 0
         THEN Held' = Promise!Hold /\ post' = post - 1
         ELSE UNCHANGED <<Held, post>>
  BY <1>4
<1>6. CASE PostNext(v) # 0
  <2>1. UNCHANGED <<windowsDone, meta>>
    BY <1>6 DEF Collect
  <2>2. [w \in 1 .. windowsDone' |-> Restored(w - 1)']
          = [w \in 1 .. windowsDone |-> Restored(w - 1)]
    BY <1>1, <2>1, RecordedUnchanged
  <2> QED
    BY <1>1, <1>2, <1>5, <1>6, <2>1, <2>2 DEF Promise!CollectingStep, Promise!config
<1>7. CASE PostNext(v) = 0
  <2>1. /\ windowsDone' = windowsDone + 1
        /\ meta' = [meta EXCEPT ![winIdx] =
                      [wrapped |-> WrappedNext(v), index |-> trigIndex]]
    BY <1>7 DEF Collect
  <2> DEFINE s == [w \in 1 .. windowsDone + 1 |-> Restored(w - 1)']
  <2>2. ASSUME NEW w \in 1 .. windowsDone
        PROVE  s[w] = Restored(w - 1)
    <3>1. w - 1 \in 0 .. windowsDone - 1 /\ meta'[w - 1] = meta[w - 1]
      BY <1>3, <2>1
    <3>2. Restored(w - 1)' = Restored(w - 1)
      BY <1>1, <3>1, RecordedKept
    <3> QED
      BY <1>3, <3>2
  <2>3. s[windowsDone + 1] = Promise!WindowAround(tsAtTrig)
    <3>1. Restored(winIdx)' = Promise!WindowAround(tsAtTrig)
      BY <1>1, <1>7, CompletedWindow
    <3> QED
      BY <1>1, <1>3, <3>1
  <2>4. s \in [1 .. windowsDone + 1 -> {s[w] : w \in 1 .. windowsDone + 1}]
    OBVIOUS
  <2>5. Append([w \in 1 .. windowsDone |-> s[w]], s[windowsDone + 1]) = s
    <3> HIDE DEF s
    <3> QED
      BY <1>3, <2>4, AppendOne
  <2>6. [w \in 1 .. windowsDone |-> s[w]] = [w \in 1 .. windowsDone |-> Restored(w - 1)]
    BY <2>2
  <2>7. [w \in 1 .. windowsDone' |-> Restored(w - 1)'] = s
    BY <2>1
  <2> QED
    BY <1>1, <1>2, <1>5, <1>7, <2>3, <2>5, <2>6, <2>7
    DEF Promise!CollectingStep, Promise!config
<1> QED
  BY <1>6, <1>7

\* The automatic re-arm starts the next window of the run.
LEMMA RefinesNextWindow == IInv /\ IInv' /\ NextWindow => Promise!NextWindow
<1> SUFFICES ASSUME IInv, IInv', NextWindow PROVE Promise!NextWindow
  OBVIOUS
<1> USE DEF NextWindow, StartWindow, run
<1>1. phaseBar = "done" /\ phaseBar' = "filling"
  BY DEF phaseBar
<1>2. windowsDone \in Nat /\ UNCHANGED <<slice, runPre, windowsQ, windowsDone, meta, buf, now>>
  BY MaxWindowsAssumption DEF IInv, TypeOK
<1>3. Len([w \in 1 .. windowsDone |-> Restored(w - 1)]) = windowsDone
  BY <1>2
<1>4. [w \in 1 .. windowsDone' |-> Restored(w - 1)']
        = [w \in 1 .. windowsDone |-> Restored(w - 1)]
  BY <1>2 DEF Restored, SliceOf
<1>5. Held' = 0
  BY DEF Held
<1> QED
  BY <1>1, <1>2, <1>3, <1>4, <1>5 DEF Promise!NextWindow, Promise!config

\* A disarm drops the window in flight and keeps the recorded ones.
LEMMA RefinesDisarm ==
  ASSUME IInv, IInv', NEW v \in BOOLEAN, NEW t \in BOOLEAN, Disarm(v, t)
  PROVE  Promise!Abort
<1>1. /\ Capture(v, t) /\ st' = "IDLE"
      /\ UNCHANGED <<base, slice, runPre, windowsDone, meta, windowsQ>>
  BY DEF Disarm, run
<1>2. phaseBar' = "off"
  BY <1>1 DEF phaseBar
<1>3. now' \in {now, Promise!Later(now, 1)}
  <2>1. CASE st \in Capturing
    BY <1>1, <2>1, CaptureHeld
  <2>2. CASE st \notin Capturing
    BY <1>1, <2>2 DEF Capture
  <2> QED
    BY <2>1, <2>2
<1>4. [w \in 1 .. windowsDone' |-> Restored(w - 1)']
        = [w \in 1 .. windowsDone |-> Restored(w - 1)]
  BY <1>1, RecordedUnchanged
<1> QED
  BY <1>1, <1>2, <1>3, <1>4 DEF Promise!Abort, Promise!config

\* rst forgets the run.
LEMMA RefinesReset ==
  ASSUME IInv, NEW v \in BOOLEAN, NEW d \in BOOLEAN, Reset(v, d) PROVE Promise!HardReset
<1> USE DEF Reset
<1>1. phaseBar' = "off"
  BY DEF phaseBar
<1>2. [w \in 1 .. windowsDone' |-> Restored(w - 1)'] = << >>
  OBVIOUS
<1>3. now' \in {now, Promise!Later(now, 1)}
  <2>1. now \in 0 .. StampLimit - 1 /\ StampLimit \in Nat /\ 1 \in 0 .. StampLimit
    BY DepthAssumption, StampAssumption DEF IInv, TypeOK, Stamps
  <2>2. (now + 1) % StampLimit = Ahead(now, 1, StampLimit)
    BY <2>1, AheadIsModulus
  <2>3. now' \in {now, Ahead(now, 1, StampLimit)}
    OBVIOUS
  <2> QED
    BY <2>2, <2>3 DEF Promise!Later
<1> QED
  BY <1>1, <1>2, <1>3 DEF Promise!HardReset

\* A write to a configuration register is not seen by the promise.
LEMMA RefinesStutter ==
  ASSUME UNCHANGED <<st, now, offset, wrapped, slice, runPre, windowsQ, windowsDone,
                     tsAtTrig, post, buf, meta>>
  PROVE  UNCHANGED Promise!vars
<1>1. phaseBar' = phaseBar
  BY DEF phaseBar
<1>2. Held' = Held
  BY DEF Held
<1>3. [w \in 1 .. windowsDone' |-> Restored(w - 1)']
        = [w \in 1 .. windowsDone |-> Restored(w - 1)]
  BY DEF Restored, SliceOf
<1> QED
  BY <1>1, <1>2, <1>3 DEF Promise!vars

\* Buffer, metadata and host reordering implement the capture promise, for
\* every depth, window count and run length.
THEOREM CoreRefines == Spec => Refines
<1>1. Init => Promise!Init
  BY RefinesInit
<1>2. IInv /\ IInv' /\ [Next]_vars => [Promise!Next]_(Promise!vars)
  <2> SUFFICES ASSUME IInv, IInv', [Next]_vars
               PROVE  Promise!Next \/ UNCHANGED Promise!vars
    OBVIOUS
  <2>1. ASSUME NEW v \in BOOLEAN, NEW t \in BOOLEAN, NEW a \in BOOLEAN,
               NEW d \in BOOLEAN, Edge(v, t, a, d)
        PROVE  Promise!Next \/ UNCHANGED Promise!vars
    <3>1. CASE Disarm(v, t)   BY <3>1, RefinesDisarm DEF Promise!Next
    <3>2. CASE Fill(v, t)     BY <3>2, RefinesFill DEF Promise!Next
    <3>3. CASE Watch(v, t)    BY <3>3, RefinesWatch DEF Promise!Next
    <3>4. CASE Collect(v, t)  BY <3>4, RefinesCollect DEF Promise!Next
    <3>5. CASE Arm            BY <3>5, RefinesArm DEF Promise!Next
    <3>6. CASE NextWindow     BY <3>6, RefinesNextWindow DEF Promise!Next
    <3>7. CASE Rest
      BY <3>7, RefinesStutter DEF Rest, vars, run
    <3> QED
      BY <2>1, <3>1, <3>2, <3>3, <3>4, <3>5, <3>6, <3>7 DEF Edge
  <2>2. CASE \E p \in Addresses : WritePretrig(p)
    BY <2>2, RefinesStutter DEF WritePretrig, window, run
  <2>3. CASE \E w \in 0 .. MaxWindows : WriteWindows(w)
    BY <2>3, RefinesStutter DEF WriteWindows, window, run
  <2>4. CASE \E v, d \in BOOLEAN : Reset(v, d)
    BY <2>4, RefinesReset DEF Promise!Next
  <2>5. CASE UNCHANGED vars
    BY <2>5, RefinesStutter DEF vars, run
  <2> QED
    BY <2>1, <2>2, <2>3, <2>4, <2>5 DEF Next
<1> QED
  BY <1>1, <1>2, Invariant, PTL DEF Spec, Refines, Promise!Spec

----------------------------------------------------------------------------
(* A run of one window. *)

\* One window takes the whole buffer.
LEMMA OneWindow == EffectiveWindows(1) = 1
<1> DEFINE enough == {p \in Slicings : 1 <= p \/ p = Depth \div 2}
           e == CHOOSE p \in enough : \A q \in enough : p <= q
<1>1. 1 \in Slicings
  <2>1. Depth \in 2 .. Depth /\ 1 * Depth = Depth /\ 1 \in 1 .. Depth
    BY DepthAssumption
  <2> QED
    BY <2>1 DEF Slicings
<1>2. \A p \in Slicings : p \in Nat /\ 1 <= p
  BY DEF Slicings
<1>3. 1 \in enough /\ \A q \in enough : 1 <= q
  BY <1>1, <1>2
<1>4. e \in enough /\ e <= 1
  BY <1>3
<1>5. EffectiveWindows(1) = e
  BY DEF EffectiveWindows
<1> HIDE DEF e
<1> QED
  BY <1>2, <1>4, <1>5

\* The core's buffer of one window, at rest, reads back in time order.
LEMMA WindowOfOne ==
  ASSUME IInv, st = "DONE", weff = 1
  PROVE  /\ wrapped /\ runPre \in 0 .. Depth - 1
         /\ \A i \in 0 .. Depth - 1 :
              Ordered(buf, Depth, trigIndex, wrapped, runPre)[i]
                = (tsAtTrig + StampLimit - runPre + i) % StampLimit
<1> USE DepthAssumption, StampAssumption, MaxWindowsAssumption
<1>1. slice = Depth
  BY DEF IInv, TypeOK
<1>2. base = 0 /\ winIdx = 0
  <2>1. /\ winIdx \in Nat /\ windowsDone \in Nat /\ windowsQ \in Nat /\ windowsQ <= 1
        /\ windowsDone <= windowsQ /\ winIdx + 1 = windowsDone /\ base = winIdx * slice
    BY DEF IInv, TypeOK, WindowBookkeeping
  <2>2. winIdx = 0
    BY <2>1
  <2> QED
    BY <1>1, <2>1, <2>2
<1>3. wrapped = TRUE /\ post = 0
  BY DEF IInv, BudgetEndsAtOldest, TypeOK
<1>4. /\ runPre \in 0 .. Depth - 1 /\ tsAtTrig \in Stamps /\ trigIndex \in 0 .. Depth - 1
      /\ offset \in 0 .. Depth - 1
  BY <1>1 DEF IInv, TypeOK, Addresses
<1>5. offset = Ahead(trigIndex, Depth - runPre, Depth)
  <2>1. SinceTrigger = Depth - runPre
    BY <1>1, <1>3, <1>4 DEF SinceTrigger
  <2>2. trigIndex - base = trigIndex
    BY <1>2, <1>4
  <2> QED
    BY <1>1, <2>1, <2>2 DEF IInv, BudgetEndsAtOldest
<1>6. Oldest(Depth, trigIndex, TRUE, runPre) = offset
  <2>1. Depth \in Nat /\ Depth - runPre \in 0 .. Depth
    BY <1>4
  <2>2. (trigIndex + (Depth - runPre)) % Depth = offset
    BY <1>4, <1>5, <2>1, AheadIsModulus
  <2> QED
    BY <2>2 DEF Oldest
<1>7. ASSUME NEW i \in 0 .. Depth - 1
      PROVE  buf[(offset + i) % Depth] = (tsAtTrig + StampLimit - runPre + i) % StampLimit
  <2>1. (offset + i) % Depth = Ahead(offset, i, Depth)
    BY <1>4, AheadIsModulus
  <2>2. Ahead(offset, i, Depth) = Back(offset, Depth - i, Depth)
    <3>1. Depth \in Nat
      OBVIOUS
    <3> QED
      BY <1>4, <3>1, AheadMeetsBack
  <2>3. Held = Depth
    BY <1>1, <1>3 DEF Held
  <2>4. buf[base + Back(offset, Depth - i, Depth)] = Back(Newest, Depth - i - 1, StampLimit)
    BY <1>1, <2>3 DEF IInv, HistoryIntact
  <2>5. base + Back(offset, Depth - i, Depth) = Back(offset, Depth - i, Depth)
    <3>1. Back(offset, Depth - i, Depth) \in Int
      BY <1>4 DEF Back
    <3> QED
      BY <1>2, <3>1
  <2>6. Newest = Ahead(tsAtTrig, Depth - runPre - 1, StampLimit)
    BY <1>1, <1>3, <1>4 DEF Newest, SinceTrigger
  <2>7. Back(Newest, Depth - i - 1, StampLimit)
          = (tsAtTrig + StampLimit - runPre + i) % StampLimit
    <3> DEFINE x == tsAtTrig + StampLimit - runPre + i
    <3>1. x \in Nat /\ x < 3 * StampLimit /\ StampLimit \in Nat /\ StampLimit > 0
      BY <1>4 DEF Stamps
    <3>2. x % StampLimit = IF x < StampLimit THEN x
                           ELSE IF x < 2 * StampLimit THEN x - StampLimit
                           ELSE x - 2 * StampLimit
      BY <3>1, ThreeLaps
    <3> QED
      BY <1>4, <2>6, <3>2 DEF Back, Ahead, Stamps
  <2> QED
    BY <2>1, <2>2, <2>4, <2>5, <2>7
<1>8. ASSUME NEW i \in 0 .. Depth - 1
      PROVE  Ordered(buf, Depth, trigIndex, TRUE, runPre)[i] = buf[(offset + i) % Depth]
  BY <1>6 DEF Ordered
<1> QED
  BY <1>3, <1>4, <1>7, <1>8
=============================================================================
