------------------------------ MODULE FifoSync ------------------------------
(***************************************************************************)
(* rtl/prim/prim_fifo_sync.sv over prim_ram_1r1w.sv: the FIFO behind the   *)
(* UART receiver.  One step is one clock edge.                             *)
(***************************************************************************)
EXTENDS Integers, Sequences

CONSTANTS
  Depth,     \* 2^DEPTH_LOG2
  Values     \* data words

ASSUME FifoDepthAssumption == Depth \in Nat \ {0}
ASSUME FifoValuesAssumption == Values # {}

VARIABLES mem, waddr, raddr, cnt, ramCnt, outVld, rdData

fifoVars == <<mem, waddr, raddr, cnt, ramCnt, outVld, rdData>>

Slots == 0 .. Depth - 1
After(a) == IF a = Depth - 1 THEN 0 ELSE a + 1

\* The place n words behind the read pointer.
Place(n) == IF raddr + n < Depth THEN raddr + n ELSE raddr + n - Depth

\* A defect the checks must notice: room judged by the RAM alone, the output
\* stage not counted.
WrReadyByRam == ramCnt # Depth
WrReady == cnt # Depth
Fetch(ready) == ramCnt # 0 /\ (~outVld \/ ready)

\* offered is the word on wr_data, if wr_valid; ready is rd_ready.
Push(offered) == offered # <<>> /\ WrReady
Pop(ready) == outVld /\ ready

Count(b) == IF b THEN 1 ELSE 0

FifoSyncInit ==
  /\ mem \in [Slots -> Values] /\ rdData \in Values
  /\ waddr = 0 /\ raddr = 0 /\ cnt = 0 /\ ramCnt = 0 /\ outVld = FALSE

Clock(offered, ready) ==
  /\ mem' = IF Push(offered) THEN [mem EXCEPT ![waddr] = offered[1]] ELSE mem
  /\ waddr' = IF Push(offered) THEN After(waddr) ELSE waddr
  /\ rdData' = IF Fetch(ready) THEN mem[raddr] ELSE rdData
  /\ raddr' = IF Fetch(ready) THEN After(raddr) ELSE raddr
  /\ outVld' = (Fetch(ready) \/ (outVld /\ ~ready))
  /\ cnt' = cnt + Count(Push(offered)) - Count(Pop(ready))
  /\ ramCnt' = ramCnt + Count(Push(offered)) - Count(Fetch(ready))

FifoSyncNext ==
  \E offered \in {<<>>} \cup {<<x>> : x \in Values}, ready \in BOOLEAN :
    Clock(offered, ready)

FifoSyncSpec == FifoSyncInit /\ [][FifoSyncNext]_fifoVars

----------------------------------------------------------------------------
\* The words in the RAM, behind the word of the output stage.
Contents ==
  (IF outVld THEN <<rdData>> ELSE <<>>) \o
  [i \in 1 .. ramCnt |-> mem[Place(i - 1)]]

Abstract == INSTANCE FifoSpec WITH queue <- Contents, Capacity <- Depth

\* RAM and output stage together are a queue of 2^DEPTH_LOG2 words
\* (prim_fifo_sync.sv 8-17).
SyncIsFifo == Abstract!Fifo

\* The counters tell the truth about the ring: no more words than places, the
\* pointers as far apart as there are words in the RAM, and wr_ready low
\* exactly when Depth words are held (prim_fifo_sync.sv 10-14).
CountersExact ==
  /\ cnt = ramCnt + Count(outVld) /\ cnt <= Depth
  /\ waddr = Place(ramCnt)
=============================================================================
