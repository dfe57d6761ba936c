------------------------ MODULE ScopeCoreProperties ------------------------
(***************************************************************************)
(* What the capture buffer must contain, and the proof by refinement that  *)
(* buffer, metadata and host reordering together implement CaptureSpec.    *)
(***************************************************************************)
EXTENDS ScopeCore, ReorderWindow, Sequences

\* Consecutive samples this window holds, at most a slice.
Held == IF wrapped THEN slice ELSE offset

\* Samples taken since the trigger, the trigger sample included.
SinceTrigger == slice - runPre - post

\* Number of the newest sample stored in this window.
Newest ==
  IF st \in {"FILLING", "ARMED"} THEN Back(now, 1, StampLimit)
  ELSE Ahead(tsAtTrig, SinceTrigger - 1, StampLimit)

\* While a window is being captured and when it is complete, walking back
\* from the write pointer finds its samples newest first without a gap, a
\* repetition or a leftover of an earlier run (scope_core.sv 105-112).
HistoryIntact ==
  st # "IDLE" =>
    \A k \in 1 .. Held :
      buf[base + Back(offset, k, slice)] = Back(Newest, k - 1, StampLimit)

\* A trigger is honoured only once its full pre-trigger history is stored
\* (scope_core.sv 180-185), and the history outlives the window.
HistoryBeforeTrigger ==
  st \in {"ARMED", "TRIGGERED", "DONE"} => Held >= runPre

\* The sample TRIG_INDEX points at is the trigger sample: nothing overwrites
\* it until the next window starts, an abort included (formal property (a)).
TriggerSampleKept == triggered => buf[trigIndex] = tsAtTrig

\* The write pointer is as far past the trigger as the spent post-trigger
\* budget, so the budget runs out exactly when the pointer has come round to
\* the oldest history sample: a completed window has always wrapped
\* (DESIGN.md "Host-side reconstruction").
BudgetEndsAtOldest ==
  /\ st \in {"TRIGGERED", "DONE"} =>
       /\ SinceTrigger \in 1 .. slice
       /\ offset = Ahead(trigIndex - base, SinceTrigger, slice)
  /\ st = "DONE" => wrapped /\ post = 0

\* Window number, slice base and completed-window count agree, and no window
\* starts outside the slices the run was given (scope_core.sv 168-208).
WindowBookkeeping ==
  /\ windowsDone <= windowsQ
  /\ st \in Capturing => winIdx = windowsDone /\ windowsDone < windowsQ
  /\ st = "DONE" => winIdx + 1 = windowsDone
  /\ st # "IDLE" => /\ base = winIdx * slice
                    /\ windowsQ <= weff
                    /\ runPre = PretrigEff

----------------------------------------------------------------------------
(* Strengthening that makes the invariants above inductive.                *)

\* FILLING starts from an empty slice and stops before it could wrap.
FillShape ==
  st = "FILLING" =>
    ~wrapped /\ offset = fillCnt /\ (fillCnt = 0 \/ fillCnt < runPre)

\* A window counts as triggered exactly in TRIGGERED and DONE, its trigger
\* address lies in its slice, and until the slice wraps the write pointer is
\* as far past it as samples were taken (scope_core.sv 152-158).
TriggerShape ==
  /\ st \in {"FILLING", "ARMED"} => ~triggered
  /\ st \in {"TRIGGERED", "DONE"} =>
       /\ triggered
       /\ trigIndex - base \in 0 .. slice - 1
       /\ ~wrapped => /\ trigIndex - base >= runPre
                      /\ offset = trigIndex - base + SinceTrigger
  /\ st = "TRIGGERED" => now = Ahead(tsAtTrig, SinceTrigger, StampLimit)

\* The inductive invariant: what one edge of the core needs to know of the
\* state to preserve the history, the trigger sample and the window count.
IInv ==
  /\ TypeOK /\ WindowBookkeeping
  /\ FillShape /\ HistoryBeforeTrigger /\ TriggerShape /\ BudgetEndsAtOldest
  /\ TriggerSampleKept /\ HistoryIntact

----------------------------------------------------------------------------
\* The contents of slice w in address order.
SliceOf(w) == [i \in 0 .. slice - 1 |-> buf[w * slice + i]]

\* Window w as the host restores it from its slice and its metadata record.
Restored(w) ==
  Ordered(SliceOf(w), slice, meta[w].index - w * slice, meta[w].wrapped, runPre)

phaseBar ==
  CASE st = "IDLE" -> "off"
    [] st = "FILLING" -> "filling"
    [] st = "ARMED" -> "watching"
    [] st = "TRIGGERED" -> "collecting"
    [] st = "DONE" -> "done"

\* What Scope.drain returns: decode_drain reorders the whole buffer with the
\* header's trig_index and wrapped, and ignores the per-window metadata.
Drained == Ordered(buf, Depth, trigIndex, wrapped, runPre)

Promise == INSTANCE CaptureSpec WITH
  phase    <- phaseBar,
  len      <- slice,
  pre      <- runPre,
  target   <- windowsQ,
  held     <- IF st = "IDLE" THEN 0 ELSE Held,
  cut      <- IF st \in {"TRIGGERED", "DONE"} THEN tsAtTrig ELSE -1,
  left     <- IF st \in {"TRIGGERED", "DONE"} THEN post ELSE 0,
  recorded <- [w \in 1 .. windowsDone |-> Restored(w - 1)]

\* The core with its buffer, per-window metadata and the host's reordering
\* implements CaptureSpec: every completed window reads back as consecutive
\* samples with the trigger at PRETRIG_EFF, and later windows, aborts and
\* idle-time reconfiguration leave recorded windows as they are.
Refines == Promise!Spec

----------------------------------------------------------------------------
\* Fairness: the clock runs, samples keep coming, and an armed core is in
\* the end offered a trigger (a force_trig strobe is held until accepted).
Fairness ==
  /\ WF_vars(Fill(TRUE, FALSE))
  /\ WF_vars(Watch(TRUE, TRUE))
  /\ WF_vars(Collect(TRUE, FALSE))
  /\ WF_vars(NextWindow)

Parked == st = "DONE" /\ windowsDone = windowsQ
Strobe == Arm \/ \E v, t \in BOOLEAN : Disarm(v, t)

\* Once the host leaves the core alone every run it started comes to rest
\* with all its windows recorded.
RunCompletes ==
  <>[][~Strobe]_vars => <>[](st = "IDLE" \/ Parked)

----------------------------------------------------------------------------
\* docs/DESIGN.md "Host-side reconstruction": the host reorders per window, so
\* a drained capture holds PRETRIG_EFF samples, the trigger sample and the
\* rest in time order.
DrainedInTimeOrder ==
  Parked => \A i \in 0 .. slice - 1 :
              Drained[i] = (tsAtTrig + StampLimit - runPre + i) % StampLimit
=============================================================================
