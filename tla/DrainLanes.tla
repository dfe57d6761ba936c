----------------------------- MODULE DrainLanes -----------------------------
(***************************************************************************)
(* The buffer on its way to the host: the drain engine opens a DRAIN_DATA  *)
(* frame (rtl/scope_drain.sv D_DF), gathers the 32-bit lanes of each       *)
(* stored word (D_LANE, D_NEXT) and emits its bytes (D_SBYTE);             *)
(* cmd_drain_data of sim/model/scope_ref.py says what frames to expect     *)
(* (sim/tb_drain_cdc.sv compares) and _unpack_samples of                   *)
(* host/fpgapa_scope/scope.py puts the words together again.  A byte of a  *)
(* word is named by its number, bytes beyond it in the top lane read as    *)
(* Zero.  The engine's indices have the width the code gives them:         *)
(* lane_q[3:0] and bidx_q[5:0].                                            *)
(***************************************************************************)
EXTENDS Integers, Sequences, SequencesExt

CONSTANTS
  WordBytes,     \* the values of NB = ceil(STORE_W / 8) to try
  Length,         \* words of the buffer
  Spf,           \* words in a frame
  Zero, Unknown  \* a byte that reads 0; a register bit never written

ASSUME FramesAssumption == Spf \in Nat \ {0} /\ Length \in Nat \ {0} /\ Length % Spf = 0

VARIABLES
  nb,            \* NB
  chunk, sample, \* chunk_q, samp_q
  laneQ, laneBuf,
  bidx,
  phase,         \* "frame" (D_DF), "lane" (D_LANE), "byte" (D_SBYTE) or "hunt"
  body,          \* bytes of the open frame after its chunk index
  frames         \* frames on the wire, [chunk, len, body]

lanesVars == <<nb, chunk, sample, laneQ, laneBuf, bidx, phase, body, frames>>

Chunks    == Length \div Spf
LaneCount == (nb + 3) \div 4
Word(s)   == [i \in 0 .. nb - 1 |-> <<s, i>>]

Frame(c, payload) == [chunk |-> c, len |-> 2 + Len(payload), body |-> payload]

\* What BUF_DATA returns for a lane: its four bytes.
BufData(s, lane) ==
  [j \in 0 .. 3 |-> IF 4 * lane + j < nb THEN Word(s)[4 * lane + j] ELSE Zero]

LanesInit ==
  /\ nb \in WordBytes
  /\ chunk = 0 /\ sample = 0 /\ laneQ = 0 /\ bidx = 0
  /\ laneBuf = [i \in 0 .. 4 * LaneCount - 1 |-> Unknown]
  /\ phase = "frame" /\ body = <<>> /\ frames = <<>>

\* D_DF to D_CHKL.
OpenFrame ==
  /\ phase = "frame"
  /\ sample' = 0 /\ laneQ' = 0 /\ body' = <<>> /\ phase' = "lane"
  /\ UNCHANGED <<nb, chunk, laneBuf, bidx, frames>>

\* lane_buf[32*lane_q[3:0] +: 32] <= rsp_q.
LaneAt(lane, buf, read) ==
  [i \in DOMAIN buf |-> IF i \div 4 = lane % 16 THEN read[i % 4] ELSE buf[i]]

GatherLane ==
  /\ phase = "lane" /\ laneQ < LaneCount
  /\ laneBuf' = LaneAt(laneQ, laneBuf, BufData(chunk * Spf + sample, laneQ))
  /\ laneQ' = laneQ + 1
  /\ UNCHANGED <<nb, chunk, sample, bidx, phase, body, frames>>

Gathered ==
  /\ phase = "lane" /\ laneQ = LaneCount
  /\ bidx' = 0 /\ phase' = "byte"
  /\ UNCHANGED <<nb, chunk, sample, laneQ, laneBuf, body, frames>>

\* emit_q <= lane_buf[8*bidx_q[5:0] +: 8].
EmitByte ==
  /\ phase = "byte" /\ bidx < nb
  /\ body' = Append(body, laneBuf[bidx % 64])
  /\ bidx' = bidx + 1
  /\ UNCHANGED <<nb, chunk, sample, laneQ, laneBuf, phase, frames>>

\* The chunk index the open frame carries.
Number == chunk

\* The word is out; with the last of a frame so is the frame, and the next
\* one opens unless it was the last.
SampleDone ==
  /\ phase = "byte" /\ bidx = nb
  /\ sample' = sample + 1 /\ laneQ' = 0
  /\ IF sample + 1 < Spf THEN phase' = "lane" /\ UNCHANGED <<chunk, frames>>
     ELSE /\ chunk' = chunk + 1 /\ frames' = Append(frames, Frame(Number, body))
          /\ phase' = IF chunk + 1 < Chunks THEN "frame" ELSE "hunt"
  /\ UNCHANGED <<nb, laneBuf, bidx, body>>

LanesNext == OpenFrame \/ GatherLane \/ Gathered \/ EmitByte \/ SampleDone

LanesSpec == LanesInit /\ [][LanesNext]_lanesVars

----------------------------------------------------------------------------
\* cmd_drain_data: the frames of the whole buffer.
DrainFrames ==
  [c \in 1 .. Chunks |->
     Frame(c - 1, FlattenSeq([s \in 1 .. Spf |->
       [j \in 1 .. nb |-> Word((c - 1) * Spf + s - 1)[j - 1]]]))]

\* A defect the checks must notice: the last word of a payload dropped.
StartsShort(n) == [k \in 1 .. (n - 1) \div nb |-> (k - 1) * nb]

\* range(0, len(body) - nb + 1, nb)
Starts(n) == [k \in 1 .. n \div nb |-> (k - 1) * nb]

\* _unpack_samples: the words, little-endian, as functions from byte number.
UnpackSamples(payload) ==
  [k \in DOMAIN Starts(Len(payload)) |->
     [j \in 0 .. nb - 1 |-> payload[Starts(Len(payload))[k] + j + 1]]]

\* The engine sends exactly the frames of the golden model: as many, numbered
\* from 0, of the same length, the words in address order and each least
\* significant byte first (scope_ref.py 500-519 against scope_drain.sv
\* 396-441); and the host gets every stored word back from them, whatever the
\* probe width (INTERFACES.md 315-317; PROBE_W is 1 to 512, and one more bit
\* with RLE).
WordsArrive ==
  phase = "hunt" =>
    /\ frames = DrainFrames
    /\ FlattenSeq([c \in DOMAIN frames |-> UnpackSamples(frames[c].body)]) =
         [k \in 1 .. Length |-> Word(k - 1)]
=============================================================================
