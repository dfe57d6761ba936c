----------------------------- MODULE BufferPort -----------------------------
(***************************************************************************)
(* The drain path of the CSR bus (rtl/scope_csr.sv): BUF_CTRL resets and   *)
(* BUF_DATA advances a pointer of sample address and 32-bit lane, and the  *)
(* buffer RAM answers one cycle after the address.  The capture is over,   *)
(* so a stored word is named by its address.  One step is one clock edge;  *)
(* the masters of the bus are the servicer of scope_top.sv, scope_axil.sv  *)
(* and scope_avalon.sv, which differ in the idle cycles between accesses.  *)
(***************************************************************************)
EXTENDS Integers

CONSTANTS
  Depth,      \* 2^DEPTH_LOG2
  Lanes,      \* BUF_LANES = ceil(STORE_W / 32)
  Spacing     \* idle cycles a master leaves after an access

ASSUME DepthAssumption == Depth \in Nat /\ Depth >= 2
ASSUME LanesAssumption == Lanes \in Nat \ {0}
ASSUME SpacingAssumption == Spacing \in Nat

VARIABLES
  drainAddr, drainLane,
  ramOut,     \* address whose word the RAM's output register holds
  idle,       \* cycles since the last access, up to Spacing; from -1 where the
              \* first BUF_DATA must not follow BUF_CTRL at once
  reads,      \* history: BUF_DATA reads since the pointer was cleared, modulo a whole buffer
  answer      \* history: what the last read returned, and as which read

portVars == <<drainAddr, drainLane, ramOut, idle, reads, answer>>

\* Reads are counted modulo a whole buffer.
NextRead(n) == IF n + 1 = Depth * Lanes THEN 0 ELSE n + 1

PortInit ==
  /\ drainAddr = 0 /\ drainLane = 0 /\ ramOut = 0
  /\ idle = Spacing /\ reads = 0
  /\ answer = [nth |-> 0, addr |-> 0, lane |-> 0]

\* The RAM reads in every cycle; the address it sees is the one before the edge.
Edge == ramOut' = drainAddr

NoAccess ==
  /\ Edge
  /\ idle' = IF idle < Spacing THEN idle + 1 ELSE idle
  /\ UNCHANGED <<drainAddr, drainLane, reads, answer>>

\* A write that clears the pointer, of 1 to BUF_CTRL or of soft_rst to CTRL; the
\* documented pause before the first read.
BufCtrlAccess ==
  /\ Edge
  /\ drainAddr' = 0 /\ drainLane' = 0
  /\ idle' = (IF Spacing = 0 THEN -1 ELSE 0) /\ reads' = 0
  /\ UNCHANGED answer

\* Lane, then address.
Advance ==
  IF drainLane = Lanes - 1
  THEN drainLane' = 0 /\ drainAddr' = (drainAddr + 1) % Depth
  ELSE drainLane' = drainLane + 1 /\ UNCHANGED drainAddr

\* A read of BUF_DATA: the lane is selected combinationally.
BufDataAccess ==
  /\ Edge /\ Advance
  /\ idle' = 0 /\ reads' = NextRead(reads)
  /\ answer' = [nth |-> reads, addr |-> ramOut, lane |-> drainLane]

\* A master that keeps its pauses.
BufCtrl == idle >= Spacing /\ BufCtrlAccess
BufData == idle >= Spacing /\ BufDataAccess

PortNext == NoAccess \/ BufCtrl \/ BufData

PortSpec == PortInit /\ [][PortNext]_portVars

\* The n-th read after BUF_CTRL or soft_rst returns lane n mod L of sample n div L, the
\* buffer starting again after the last (scope_csr.sv 31-34, INTERFACES.md
\* 191): no lane is skipped or returned twice, whatever the pauses.
LanesInOrder ==
  answer.addr * Lanes + answer.lane = answer.nth /\ answer.lane < Lanes
=============================================================================
