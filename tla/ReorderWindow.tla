--------------------------- MODULE ReorderWindow ---------------------------
(***************************************************************************)
(* The host's time-order reconstruction of one capture window              *)
(* (host/fpgapa_scope/reorder.py): the core stores a circular slice and    *)
(* never reorders; the host rotates it using the trigger address, the      *)
(* wrapped flag and the effective pre-trigger length.                      *)
(***************************************************************************)
LOCAL INSTANCE Integers

\* A defect the checks must notice: the sample after the oldest.
OldestOffByOne(n, trigRel, wrapped, pre) ==
  IF wrapped THEN (trigRel + (n - pre) + 1) % n ELSE 0

\* Index, in address order, of the oldest sample of a slice of n samples.
Oldest(n, trigRel, wrapped, pre) ==
  IF wrapped THEN (trigRel + (n - pre)) % n ELSE 0

\* The samples in time order, 0-based like the Python list; slice is the
\* window's contents in address order, [0..n-1 -> sample].
Ordered(slice, n, trigRel, wrapped, pre) ==
  [i \in 0..n-1 |-> slice[(Oldest(n, trigRel, wrapped, pre) + i) % n]]

\* Where the trigger sample sits in the reordered window.
TrigPos(trigRel, wrapped, pre) == IF wrapped THEN pre ELSE trigRel
=============================================================================
