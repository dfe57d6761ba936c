------------------------------ MODULE FifoAsync ------------------------------
(***************************************************************************)
(* rtl/prim/prim_fifo_async.sv with its synchronisers prim_ff_sync.sv: the *)
(* only crossing between the probe clock and the transport clock.  A step  *)
(* is an edge of the write clock, of the read clock, or of both at once,   *)
(* in which case each bit of a synchroniser's first stage may come from    *)
(* before or after the other side's edge.                                  *)
(***************************************************************************)
EXTENDS Integers, Sequences

CONSTANTS
  DepthLog2,   \* DEPTH_LOG2
  Values       \* data words

ASSUME DepthLog2Assumption == DepthLog2 \in Nat \ {0}

VARIABLES
  mem, wbin, wgray, wfull, wqRgray,          \* write side; wqRgray holds two stages
  rbin, rgray, ramEmpty, outVld, rdData, rqWgray   \* read side

wside == <<mem, wbin, wgray, wfull, wqRgray>>
rside == <<rbin, rgray, ramEmpty, outVld, rdData, rqWgray>>
asyncVars == <<wside, rside>>

\* 2^i, as a recursive function that can be reasoned about.
TwoTo[i \in Nat] == IF i = 0 THEN 1 ELSE 2 * TwoTo[i - 1]

Slots    == TwoTo[DepthLog2]
Pointers == 2 * Slots
Word     == [0 .. DepthLog2 -> {0, 1}]

Bit(n, i) == (n \div TwoTo[i]) % 2

\* A defect the checks must notice: pointers cross as they are.
GrayBinary(n) == [i \in 0 .. DepthLog2 |-> Bit(n, i)]

\* (n >> 1) ^ n
Gray(n) == [i \in 0 .. DepthLog2 |-> (Bit(n, i) + Bit(n, i + 1)) % 2]

\* The write pointer is a whole buffer ahead: the top two bits are inverted.
Full(w) == w = [i \in 0 .. DepthLog2 |->
                  IF i >= DepthLog2 - 1 THEN 1 - wqRgray[2][i] ELSE wqRgray[2][i]]

Empty(r) == r = rqWgray[2]

----------------------------------------------------------------------------
Push(pushed) == pushed # <<>> /\ ~wfull
WNext(pushed) == (wbin + (IF Push(pushed) THEN 1 ELSE 0)) % Pointers

\* An edge of the write clock; pushed is the word offered, if any, and seen
\* what the synchroniser samples of the read pointer.
WriteEdge(pushed, seen) ==
  /\ mem' = IF Push(pushed) THEN [mem EXCEPT ![wbin % Slots] = pushed[1]] ELSE mem
  /\ wbin' = WNext(pushed) /\ wgray' = Gray(WNext(pushed))
  /\ wfull' = Full(Gray(WNext(pushed)))
  /\ wqRgray' = <<seen, wqRgray[1]>>

Fetches(ready) == ~ramEmpty /\ (~outVld \/ ready)
RNext(ready) == (rbin + (IF Fetches(ready) THEN 1 ELSE 0)) % Pointers

\* An edge of the read clock; a word moves to the output stage when it is
\* free or popped.
ReadEdge(ready, seen) ==
  /\ rbin' = RNext(ready) /\ rgray' = Gray(RNext(ready))
  /\ ramEmpty' = Empty(Gray(RNext(ready)))
  /\ rdData' = IF Fetches(ready) THEN mem[rbin % Slots] ELSE rdData
  /\ outVld' = (Fetches(ready) \/ (outVld /\ ~ready))
  /\ rqWgray' = <<seen, rqWgray[1]>>

\* Each bit is the old or the new one.
Torn(old, new) == {w \in Word : \A i \in DOMAIN w : w[i] \in {old[i], new[i]}}

----------------------------------------------------------------------------
\* The first cycle after both resets.
FifoAsyncInit ==
  /\ mem \in [0 .. Slots - 1 -> Values]
  /\ wbin = 0 /\ wgray = Gray(0) /\ wfull = TRUE /\ wqRgray = <<Gray(0), Gray(0)>>
  /\ rbin = 0 /\ rgray = Gray(0) /\ ramEmpty = TRUE /\ outVld = FALSE
  /\ rdData \in Values /\ rqWgray = <<Gray(0), Gray(0)>>

Offered == {<<>>} \cup {<<x>> : x \in Values}

WriteClock == \E pushed \in Offered : WriteEdge(pushed, rgray) /\ UNCHANGED rside
ReadClock  == \E ready \in BOOLEAN : ReadEdge(ready, wgray) /\ UNCHANGED wside
BothClocks ==
  \E pushed \in Offered, ready \in BOOLEAN :
    \E ws \in Torn(rgray, Gray(RNext(ready))), rs \in Torn(wgray, Gray(WNext(pushed))) :
      WriteEdge(pushed, ws) /\ ReadEdge(ready, rs)

FifoAsyncNext == WriteClock \/ ReadClock \/ BothClocks

FifoAsyncSpec == FifoAsyncInit /\ [][FifoAsyncNext]_asyncVars

----------------------------------------------------------------------------
\* The words in the ring, behind the word of the output stage.
Contents ==
  (IF outVld THEN <<rdData>> ELSE <<>>) \o
  [i \in 1 .. (wbin - rbin) % Pointers |-> mem[(rbin + i - 1) % Slots]]

Abstract == INSTANCE FifoSpec WITH queue <- Contents, Capacity <- Slots + 1

\* However the clocks drift and the synchronisers resolve, the ring and its
\* output stage are a queue of 2^DEPTH_LOG2 + 1 words (prim_fifo_async.sv
\* 11-17).
AsyncIsFifo == Abstract!Fifo

=============================================================================
