----------------------------- MODULE ScopeCore -----------------------------
(***************************************************************************)
(* rtl/scope_core.sv: the circular capture buffer with pre-trigger history *)
(* and the window FSM.  One step is one rising clock edge; its inputs are  *)
(* sample_valid (v), trig (t), arm (a) and disarm (d).  The PRETRIG and    *)
(* WINDOWS registers of rtl/scope_csr.sv, which are writable only while    *)
(* the core is idle, are part of the module: the core reads them live.     *)
(*                                                                         *)
(* Probe data is irrelevant to control, so a sample is represented by its  *)
(* number.  ts_at_trig is kept in the same unit: which sample it stamps.   *)
(***************************************************************************)
EXTENDS Integers

CONSTANTS
  Depth,        \* buffer length, 2^DEPTH_LOG2
  MaxWindows,   \* greatest WINDOWS value a write can carry (255)
  StampLimit,   \* sample numbers wrap here; bounds the state space only
  NoSample      \* contents of a RAM word that was never written

ASSUME DepthAssumption == Depth \in Nat /\ Depth >= 2 /\ Depth % 2 = 0
ASSUME MaxWindowsAssumption == MaxWindows \in Nat \ {0}
ASSUME StampAssumption == StampLimit \in Nat /\ StampLimit > Depth
ASSUME NoSampleAssumption == NoSample \notin 0 .. StampLimit - 1

VARIABLES
  pretrig, windows,     \* CSR registers PRETRIG and WINDOWS
  st,                   \* FSM state
  offset,               \* write offset within the slice
  base,                 \* first address of the slice
  slice,                \* samples per slice: slice_mask + 1
  weff,                 \* number of slices: 2^weff_log2_q
  winIdx, windowsQ, fillCnt, post,  \* post_remaining
  triggered, wrapped, windowsDone, trigIndex, tsAtTrig,
  buf,                  \* u_buf
  meta,                 \* u_win_meta
  now,                  \* number of the sample on sample_data
  runPre                \* history: PRETRIG_EFF of the run, the host's drain argument

config   == <<pretrig, windows>>
window   == <<offset, base, fillCnt, triggered, wrapped>>
run      == <<slice, weff, windowsQ, runPre>>
vars == <<config, st, offset, base, run, winIdx, fillCnt, post, triggered,
          wrapped, windowsDone, trigIndex, tsAtTrig, buf, meta, now>>

States    == {"IDLE", "FILLING", "ARMED", "TRIGGERED", "DONE"}
Capturing == {"FILLING", "ARMED", "TRIGGERED"}
Stamps    == 0 .. StampLimit - 1
Addresses == 0 .. Depth - 1

\* k places before and after x on a ring of n places, for k <= n.
Back(x, k, n)  == IF k <= x THEN x - k ELSE x - k + n
Ahead(x, k, n) == IF x + k < n THEN x + k ELSE x + k - n

----------------------------------------------------------------------------
(* Slicing.  Depth is a power of two, so the slice counts that leave at    *)
(* least two samples per slice are the divisors of Depth with a cofactor   *)
(* of two or more.                                                         *)

Slicings == {p \in 1 .. Depth : \E s \in 2 .. Depth : p * s = Depth}

\* 2^weff_log2_of(w): the least slice count that holds w windows, else the
\* greatest slice count.
EffectiveWindows(w) ==
  LET enough == {p \in Slicings : w <= p \/ p = Depth \div 2}
  IN CHOOSE p \in enough : \A q \in enough : p <= q

PretrigEff == pretrig \div weff

----------------------------------------------------------------------------
(* Datapath terms of one edge.                                             *)

\* A defect: no stop when the post-trigger budget is spent.
StoresPastBudget(v) == v /\ st \in Capturing

Stores(v) == v /\ (st \in {"FILLING", "ARMED"} \/ (st = "TRIGGERED" /\ post # 0))
Accepts(v, t) == t /\ v /\ st = "ARMED"

\* A defect: every window written to slice 0.
WrAddrNoBase == offset

\* base is a multiple of the power of two slice and offset is below it, so
\* the OR of the two is their sum.
WrAddr == base + offset

\* Defects: the budget counts down in the wrong state; wrapped compares against
\* the wrong mask.
PostNextFrozen(v) == IF Stores(v) /\ st = "ARMED" THEN post - 1 ELSE post
WrappedNextLate(v) == wrapped \/ (Stores(v) /\ offset = slice)

FillNext(v) == IF Stores(v) /\ st = "FILLING" THEN fillCnt + 1 ELSE fillCnt
PostNext(v) == IF Stores(v) /\ st = "TRIGGERED" THEN post - 1 ELSE post
WrappedNext(v) == wrapped \/ (Stores(v) /\ offset = slice - 1)

\* The part of an edge that happens in every state, aborted or not.
Capture(v, t) ==
  /\ now' = IF v /\ st \in Capturing THEN Ahead(now, 1, StampLimit) ELSE now
  /\ offset' = IF Stores(v) THEN (offset + 1) % slice ELSE offset
  /\ buf' = IF Stores(v) THEN [buf EXCEPT ![WrAddr] = now] ELSE buf
  /\ wrapped' = WrappedNext(v)
  /\ fillCnt' = FillNext(v)
  /\ IF Accepts(v, t)
     THEN /\ trigIndex' = WrAddr
          /\ tsAtTrig' = now
          /\ triggered' = TRUE
          /\ post' = slice - 1 - PretrigEff
     ELSE /\ post' = PostNext(v)
          /\ UNCHANGED <<trigIndex, tsAtTrig, triggered>>

StartWindow ==
  /\ st' = "FILLING"
  /\ offset' = 0 /\ fillCnt' = 0
  /\ triggered' = FALSE /\ wrapped' = FALSE

----------------------------------------------------------------------------
Init ==
  /\ pretrig = 0 /\ windows = 1
  /\ st = "IDLE"
  /\ offset = 0 /\ base = 0 /\ slice = Depth /\ weff = 1
  /\ winIdx = 0 /\ windowsQ = 1 /\ fillCnt = 0 /\ post = 0
  /\ triggered = FALSE /\ wrapped = FALSE
  /\ windowsDone = 0 /\ trigIndex = 0 /\ tsAtTrig = 0
  /\ buf = [a \in Addresses |-> NoSample]
  /\ meta = [w \in 0 .. MaxWindows |-> [wrapped |-> FALSE, index |-> 0]]
  /\ now = 0 /\ runPre = 0

\* rst clears the registers and neither RAM; their write enables do not know
\* of it, so the sample and the record of this very cycle are still written.
Reset(v, d) ==
  /\ pretrig' = 0 /\ windows' = 1
  /\ st' = "IDLE"
  /\ offset' = 0 /\ base' = 0 /\ slice' = Depth /\ weff' = 1
  /\ winIdx' = 0 /\ windowsQ' = 1 /\ fillCnt' = 0 /\ post' = 0
  /\ triggered' = FALSE /\ wrapped' = FALSE
  /\ windowsDone' = 0 /\ trigIndex' = 0 /\ tsAtTrig' = 0 /\ runPre' = 0
  /\ now' = IF v /\ st \in Capturing THEN Ahead(now, 1, StampLimit) ELSE now
  /\ buf' = IF Stores(v) THEN [buf EXCEPT ![WrAddr] = now] ELSE buf
  /\ meta' = IF st = "TRIGGERED" /\ PostNext(v) = 0 /\ ~d
             THEN [meta EXCEPT ![winIdx] =
                     [wrapped |-> WrappedNext(v), index |-> trigIndex]]
             ELSE meta

\* The edge that consumes an accepted CSR write to PRETRIG or WINDOWS.
WritePretrig(p) ==
  /\ st = "IDLE"
  /\ pretrig' = p
  /\ UNCHANGED <<windows, st, window, run, winIdx, post, windowsDone,
                 trigIndex, tsAtTrig, buf, meta, now>>

\* A write of 0 stores 1; more windows than two-sample slices is rejected.
WriteWindows(w) ==
  /\ st = "IDLE"
  /\ windows' = IF w = 0 THEN 1 ELSE IF w > Depth \div 2 THEN windows ELSE w
  /\ UNCHANGED <<pretrig, st, window, run, winIdx, post, windowsDone,
                 trigIndex, tsAtTrig, buf, meta, now>>

\* disarm outranks the FSM, so a window completing in this very cycle is
\* neither counted nor recorded; the datapath still takes its step.
Disarm(v, t) ==
  /\ Capture(v, t)
  /\ st' = "IDLE"
  /\ UNCHANGED <<config, base, run, winIdx, windowsDone, meta>>

\* arm is honoured at rest and also in the DONE cycle between two windows.
Arm ==
  /\ st \in {"IDLE", "DONE"}
  /\ StartWindow
  /\ base' = 0 /\ winIdx' = 0 /\ windowsDone' = 0
  /\ windowsQ' = windows
  /\ weff' = EffectiveWindows(windows)
  /\ slice' = Depth \div weff'
  /\ runPre' = pretrig \div weff'
  /\ UNCHANGED <<config, post, trigIndex, tsAtTrig, buf, meta, now>>

Fill(v, t) ==
  /\ st = "FILLING"
  /\ Capture(v, t)
  /\ st' = IF FillNext(v) >= PretrigEff THEN "ARMED" ELSE "FILLING"
  /\ UNCHANGED <<config, base, run, winIdx, windowsDone, meta>>

Watch(v, t) ==
  /\ st = "ARMED"
  /\ Capture(v, t)
  /\ st' = IF Accepts(v, t) THEN "TRIGGERED" ELSE "ARMED"
  /\ UNCHANGED <<config, base, run, winIdx, windowsDone, meta>>

Collect(v, t) ==
  /\ st = "TRIGGERED"
  /\ Capture(v, t)
  /\ IF PostNext(v) = 0
     THEN /\ st' = "DONE"
          /\ windowsDone' = windowsDone + 1
          /\ meta' = [meta EXCEPT ![winIdx] =
                        [wrapped |-> WrappedNext(v), index |-> trigIndex]]
     ELSE UNCHANGED <<st, windowsDone, meta>>
  /\ UNCHANGED <<config, base, run, winIdx>>

\* Windows remain: the next slice is armed without the host.
NextWindow ==
  /\ st = "DONE" /\ windowsDone < windowsQ
  /\ StartWindow
  /\ base' = (base + slice) % Depth
  /\ winIdx' = winIdx + 1
  /\ UNCHANGED <<config, run, post, windowsDone, trigIndex, tsAtTrig, buf,
                 meta, now>>

\* IDLE, or DONE after the last window: nothing moves.
Rest ==
  /\ st = "IDLE" \/ (st = "DONE" /\ windowsDone >= windowsQ)
  /\ UNCHANGED vars

----------------------------------------------------------------------------
\* One clock edge outside reset and without a configuration write.
Edge(v, t, a, d) ==
  \/ d /\ Disarm(v, t)
  \/ ~d /\ (Fill(v, t) \/ Watch(v, t) \/ Collect(v, t))
  \/ ~d /\ a /\ Arm
  \/ ~d /\ ~a /\ (NextWindow \/ Rest)

Next ==
  \/ \E v, t, a, d \in BOOLEAN : Edge(v, t, a, d)
  \/ \E p \in Addresses : WritePretrig(p)
  \/ \E w \in 0 .. MaxWindows : WriteWindows(w)
  \/ \E v, d \in BOOLEAN : Reset(v, d)

Spec == Init /\ [][Next]_vars

----------------------------------------------------------------------------
\* Every register stays within its width, the slice geometry latched at arm
\* is consistent and the slice lies inside the buffer (scope_core.sv 98-127).
TypeOK ==
  /\ pretrig \in Addresses
  /\ windows \in 1 .. MaxWindows /\ windows <= Depth \div 2
  /\ st \in States
  /\ slice \in 2 .. Depth /\ weff \in 1 .. Depth /\ weff * slice = Depth
  /\ offset \in 0 .. slice - 1 /\ base \in Addresses
  /\ winIdx \in 0 .. MaxWindows /\ windowsQ \in 1 .. MaxWindows
  /\ windowsDone \in 0 .. MaxWindows
  /\ fillCnt \in 0 .. Depth /\ post \in 0 .. Depth
  /\ triggered \in BOOLEAN /\ wrapped \in BOOLEAN
  /\ trigIndex \in Addresses /\ tsAtTrig \in Stamps /\ now \in Stamps
  /\ buf \in [Addresses -> Stamps \cup {NoSample}]
  /\ meta \in [0 .. MaxWindows -> [wrapped : BOOLEAN, index : Addresses]]
  /\ runPre \in 0 .. slice - 1
=============================================================================
