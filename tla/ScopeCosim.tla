----------------------------- MODULE ScopeCosim -----------------------------
(***************************************************************************)
(* The self-checking benches sim/tb_windows.sv and sim/tb_pretrig.sv: the  *)
(* golden models of sim/model/scope_ref.py and the core get the same       *)
(* stimulus, a sample on every cycle after arm, and triggers in the cycles *)
(* the model names.  They run in lock step here, over every trigger        *)
(* schedule, where the benches compare chosen schedules at the end.        *)
(***************************************************************************)
EXTENDS ScopeCore, ScopeRef, Sequences

CONSTANT DepthLog2

ASSUME DepthLog2Assumption == DepthLog2 \in Nat /\ Depth = TwoTo[DepthLog2]

VARIABLES
  cycle,   \* cycles since arm; -1 before it
  cap,     \* capture_model
  win,     \* windows_model
  opts     \* its loop constants: --windows, slice_mask + 1 and p_eff

cosimVars == <<vars, cycle, cap, win, opts>>

\* windows_model before its loop, with the registers as arguments.
Options ==
  LET parts == TwoTo[WeffLog2(windows, DepthLog2)]
  IN [windows |-> windows, slice |-> Depth \div parts, pEff |-> pretrig \div parts]

CosimInit ==
  /\ Init
  /\ cycle = -1 /\ opts = [windows |-> 1, slice |-> Depth, pEff |-> 0]
  /\ cap = CaptureStart(Depth, NoSample) /\ win = WindowsStart(Depth, NoSample)

Setup ==
  /\ cycle = -1
  /\ \/ \E p \in Addresses : WritePretrig(p)
     \/ \E w \in 0 .. MaxWindows : WriteWindows(w)
  /\ UNCHANGED <<cycle, cap, win, opts>>

Launch ==
  /\ cycle = -1
  /\ Edge(TRUE, FALSE, TRUE, FALSE)
  /\ cycle' = 0 /\ opts' = Options
  /\ UNCHANGED <<cap, win>>

\* One cycle of the bench; t may fall into any state of the core, and
\* windows_model names only ARMED cycles.  The run ends when the model does;
\* it is shorter than the range of sample numbers.
BenchCycle(t) ==
  /\ cycle >= 0 /\ win.st # "returned"
  /\ Edge(TRUE, t, FALSE, FALSE) /\ now' >= now
  /\ cycle' = cycle + 1
  /\ cap' = IF cap.st = "DONE" THEN cap
            ELSE CapturePass(cap, Depth, pretrig, now, t)
  /\ win' = WindowsPass(win, Depth, opts.slice, opts.windows, opts.pEff, cycle, now, t)
  /\ UNCHANGED opts

CosimNext == Setup \/ Launch \/ \E t \in BOOLEAN : BenchCycle(t)

CosimSpec == CosimInit /\ [][CosimNext]_cosimVars

----------------------------------------------------------------------------
(* The golden models are "cycle-exact vs rtl/scope_core.sv".               *)

Underway == cycle >= 0

\* capture_model and the core agree in every cycle of a single-window run on
\* the state, the buffer, the counters, the trigger address and the wrapped
\* flag (scope_ref.py 47-111 against scope_core.sv 105-191), also when a
\* trigger falls into FILLING.
CaptureModelExact ==
  Underway /\ opts.windows = 1 =>
    /\ cap.st = st /\ cap.buf = buf
    /\ cap.wptr = offset /\ cap.fill = fillCnt /\ cap.wrapped = wrapped
    /\ triggered => cap.index = trigIndex /\ cap.post = post

\* windows_model and the core agree in every cycle of a run of any number of
\* windows: slicing, the DONE cycle between two windows, the records of the
\* completed ones, and the trigger cycles the bench is told (the DONE cycles
\* before are no samples).  The model returns when the core is parked.
WindowsModelExact ==
  Underway =>
    /\ win.st = "returned" => st = "DONE" /\ windowsDone = windowsQ
    /\ win.st = IF st = "DONE" /\ win.st = "returned" THEN "returned" ELSE st
    /\ win.buf = buf /\ win.base = base /\ win.off = offset
    /\ opts.slice = slice /\ opts.pEff = runPre
    /\ triggered => win.index = trigIndex /\ win.cycle = tsAtTrig + winIdx
    /\ Len(win.meta) = windowsDone
    /\ \A w \in 1 .. windowsDone :
         /\ win.meta[w].index = meta[w - 1].index
         /\ win.meta[w].wrapped = meta[w - 1].wrapped
=============================================================================
