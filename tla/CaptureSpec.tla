---------------------------- MODULE CaptureSpec ----------------------------
(***************************************************************************)
(* What the capture core promises, without a buffer: a run records, window *)
(* after window, `len' consecutive samples of which exactly `pre' precede  *)
(* the trigger sample, and a recorded window never changes until the next  *)
(* run starts or the core is reset.                                        *)
(*                                                                         *)
(* Samples are identified by their number, counted modulo StampLimit.      *)
(***************************************************************************)
LOCAL INSTANCE Integers
LOCAL INSTANCE Sequences

CONSTANTS
  Depth,       \* samples the buffer can hold: no window is longer
  StampLimit   \* sample numbers wrap at this value

VARIABLES
  phase,       \* "off", "filling", "watching", "collecting" or "done"
  now,         \* number of the sample about to be offered
  len,         \* samples per window
  pre,         \* of which before the trigger sample
  target,      \* windows per run
  held,        \* consecutive samples held for this window, at most len
  cut,         \* trigger sample of this window, -1 before the trigger
  left,        \* samples still to collect after the trigger
  recorded     \* the windows recorded by this run, each [0..len-1 -> sample]

vars == <<phase, now, len, pre, target, held, cut, left, recorded>>
config == <<len, pre, target>>

Stamps == 0 .. StampLimit - 1
Later(n, k) == (n + k) % StampLimit

\* len consecutive samples with the trigger sample at position pre.
WindowAround(trigger) ==
  [i \in 0 .. len - 1 |-> (trigger + StampLimit - pre + i) % StampLimit]

Hold == IF held = len THEN len ELSE held + 1

Init ==
  /\ phase = "off" /\ recorded = << >>
  /\ now \in Stamps
  /\ len = Depth /\ pre = 0 /\ target = 1
  /\ held = 0 /\ cut = -1 /\ left = 0

\* A fresh run: whatever was recorded before is gone.
Begin ==
  /\ phase \in {"off", "done"}
  /\ phase' = "filling"
  /\ \E n \in 2 .. Depth : len' = n /\ pre' \in 0 .. n - 1
  /\ target' \in 1 .. Depth
  /\ held' = 0 /\ cut' = -1 /\ left' = 0 /\ recorded' = << >>
  /\ UNCHANGED now

\* Until pre samples are held no trigger is honoured.
FillingStep ==
  /\ phase = "filling"
  /\ \/ held' = Hold /\ now' = Later(now, 1)
     \/ UNCHANGED <<held, now>>
  /\ phase' = IF held' >= pre THEN "watching" ELSE "filling"
  /\ UNCHANGED <<config, cut, left, recorded>>

WatchingStep ==
  /\ phase = "watching"
  /\ held' = Hold /\ now' = Later(now, 1)
  /\ \/ UNCHANGED <<phase, cut, left>>
     \/ phase' = "collecting" /\ cut' = now /\ left' = len - 1 - pre
  /\ UNCHANGED <<config, recorded>>

\* The window is recorded when its last sample arrives; if the trigger sample
\* was the last one, the next step records it, whatever sample passes by.
CollectingStep ==
  /\ phase = "collecting"
  /\ now' \in {now, Later(now, 1)}
  /\ IF now' # now /\ left > 0
     THEN held' = Hold /\ left' = left - 1
     ELSE UNCHANGED <<held, left>>
  /\ IF left' = 0
     THEN phase' = "done" /\ recorded' = Append(recorded, WindowAround(cut))
     ELSE UNCHANGED <<phase, recorded>>
  /\ UNCHANGED <<config, cut>>

NextWindow ==
  /\ phase = "done" /\ Len(recorded) < target
  /\ phase' = "filling"
  /\ held' = 0 /\ cut' = -1 /\ left' = 0
  /\ UNCHANGED <<now, config, recorded>>

\* disarm and soft reset: the window in flight is dropped, the recorded ones
\* stay readable.
Abort ==
  /\ phase' = "off"
  /\ now' \in {now, Later(now, 1)}
  /\ held' = 0 /\ cut' = -1 /\ left' = 0
  /\ UNCHANGED <<config, recorded>>

HardReset ==
  /\ phase' = "off" /\ recorded' = << >>
  /\ len' = Depth /\ pre' = 0 /\ target' = 1
  /\ held' = 0 /\ cut' = -1 /\ left' = 0
  /\ now' \in {now, Later(now, 1)}

Next ==
  \/ Begin \/ FillingStep \/ WatchingStep \/ CollectingStep
  \/ NextWindow \/ Abort \/ HardReset

Spec == Init /\ [][Next]_vars
=============================================================================
