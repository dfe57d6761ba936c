------------------------------ MODULE ScopeRef ------------------------------
(***************************************************************************)
(* The capture models of sim/model/scope_ref.py, from which the test       *)
(* benches take their expected buffers: capture_model for one window and   *)
(* windows_model for several.  A pass of a model's sample loop is a        *)
(* function from one record of its local variables to the next.            *)
(*                                                                         *)
(* A model's depth is 2^depth_log2; a shift right by n is a division by    *)
(* 2^n, and base | off, with off below the slice that base is a multiple   *)
(* of, is their sum.                                                       *)
(***************************************************************************)
LOCAL INSTANCE Integers
LOCAL INSTANCE Sequences

\* 1 << n
TwoTo[n \in Nat] == IF n = 0 THEN 1 ELSE 2 * TwoTo[n - 1]

\* weff_log2_of: the first r with 2^r windows, at most depth_log2 - 1.
WeffLog2(w, depthLog2) ==
  LET first == CHOOSE r \in 0 .. w : w <= TwoTo[r] /\ \A n \in 0 .. r - 1 : TwoTo[n] < w
  IN IF first < depthLog2 - 1 THEN first ELSE depthLog2 - 1

\* A defect the checks must notice: samples stored past the budget.
RefWritesPastBudget(s) == s.st \in {"FILLING", "ARMED", "TRIGGERED"}

\* Whether a pass stores its sample, and the counters after it.
RefWrites(s) == s.st \in {"FILLING", "ARMED"} \/ (s.st = "TRIGGERED" /\ s.post # 0)
RefFill(s)   == IF RefWrites(s) /\ s.st = "FILLING" THEN s.fill + 1 ELSE s.fill
RefPost(s)   == IF RefWrites(s) /\ s.st = "TRIGGERED" THEN s.post - 1 ELSE s.post

\* Post-trigger samples after the trigger sample, which is the first of
\* length - pre.
RefBudget(length, pre) == length - 1 - pre

----------------------------------------------------------------------------
(* capture_model: buf is None everywhere before the first pass.            *)

CaptureStart(depth, none) ==
  [st |-> "FILLING", wptr |-> 0, fill |-> 0, post |-> 0, wrapped |-> FALSE,
   index |-> -1, buf |-> [a \in 0 .. depth - 1 |-> none]]

\* The pass that takes sample, with trig when it is the trig_sample-th.
CapturePass(s, depth, pretrig, sample, trig) ==
  LET accepted == trig /\ s.st = "ARMED"
  IN [st |-> CASE s.st = "FILLING" /\ RefFill(s) >= pretrig -> "ARMED"
              [] accepted -> "TRIGGERED"
              [] s.st = "TRIGGERED" /\ RefPost(s) = 0 -> "DONE"
              [] OTHER -> s.st,
      wptr |-> IF RefWrites(s) THEN (s.wptr + 1) % depth ELSE s.wptr,
      fill |-> RefFill(s),
      post |-> IF accepted THEN RefBudget(depth, pretrig) ELSE RefPost(s),
      wrapped |-> s.wrapped \/ (RefWrites(s) /\ s.wptr = depth - 1),
      index |-> IF accepted THEN s.wptr ELSE s.index,
      buf |-> IF RefWrites(s) THEN [s.buf EXCEPT ![s.wptr] = sample] ELSE s.buf]

----------------------------------------------------------------------------
(* windows_model: one DONE pass between two windows.                       *)

WindowsStart(depth, none) ==
  [st |-> "FILLING", base |-> 0, off |-> 0, fill |-> 0, post |-> 0,
   wrapped |-> FALSE, win |-> 0, index |-> -1, cycle |-> -1,
   meta |-> <<>>, buf |-> [a \in 0 .. depth - 1 |-> none]]

\* The pass of cycle k.  The trigger schedule trig_rel enters as now: whether
\* this ARMED cycle is the one that triggers.
SamplePass(s, slice, pEff, k, sample, now) ==
  LET accepted == now /\ s.st = "ARMED"
      address  == s.base + s.off
      index    == IF accepted THEN address ELSE s.index
      cycle    == IF accepted THEN k ELSE s.cycle
      wrapped  == s.wrapped \/ (RefWrites(s) /\ s.off = slice - 1)
      complete == s.st = "TRIGGERED" /\ RefPost(s) = 0
  IN [s EXCEPT
      !.st = CASE s.st = "FILLING" /\ RefFill(s) >= pEff -> "ARMED"
               [] accepted -> "TRIGGERED"
               [] complete -> "DONE"
               [] OTHER -> s.st,
      !.off = IF RefWrites(s) THEN (s.off + 1) % slice ELSE s.off,
      !.fill = RefFill(s),
      !.post = IF accepted THEN RefBudget(slice, pEff) ELSE RefPost(s),
      !.wrapped = wrapped, !.index = index, !.cycle = cycle,
      !.meta = IF complete
               THEN Append(s.meta, [cycle |-> s.cycle, index |-> s.index,
                                    wrapped |-> wrapped])
               ELSE s.meta,
      !.buf = IF RefWrites(s) THEN [s.buf EXCEPT ![address] = sample] ELSE s.buf]

\* The pass in DONE: the next slice, or the return.
DonePass(s, depth, slice, windows) ==
  IF s.win + 1 < windows
  THEN [s EXCEPT !.st = "FILLING", !.win = s.win + 1,
                 !.base = (s.base + slice) % depth,
                 !.off = 0, !.fill = 0, !.wrapped = FALSE]
  ELSE [s EXCEPT !.st = "returned", !.win = s.win + 1]

WindowsPass(s, depth, slice, windows, pEff, k, sample, now) ==
  CASE s.st = "returned" -> s
    [] s.st = "DONE" -> DonePass(s, depth, slice, windows)
    [] OTHER -> SamplePass(s, slice, pEff, k, sample, now)
=============================================================================
