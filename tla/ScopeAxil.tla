----------------------------- MODULE ScopeAxil -----------------------------
(***************************************************************************)
(* The AXI4-Lite front-end (rtl/if/scope_axil.sv) between a master and the *)
(* buffer port of scope_csr: BUF_CTRL and BUF_DATA, and one register more  *)
(* in each direction that moves no pointer.  A step is a clock edge with   *)
(* whatever the master offers and accepts in that cycle.                   *)
(***************************************************************************)
EXTENDS BufferPort

VARIABLES
  axSt,            \* S_IDLE, S_WRESP, S_RRESP
  rdata,         \* rdata_q: the lane of a BUF_DATA read, or another value
  aw, w, ar,     \* what the master offers: address or Nothing, data, address
  handed          \* history: lanes handed over since BUF_CTRL

axilVars == <<portVars, axSt, rdata, aw, w, ar, handed>>

Nothing  == "none"
Other == "other"

\* A value of the other register.
NoLane == [addr |-> -1, lane |-> 0]

\* A write needs address and data; it goes before a read.
DoWrite == axSt = "S_IDLE" /\ aw # Nothing /\ w
DoRead  == axSt = "S_IDLE" /\ ~DoWrite /\ ar # Nothing

\* What the native bus does in this cycle.
Bus ==
  CASE DoWrite /\ aw = "BUF_CTRL" -> BufCtrlAccess
    [] DoRead /\ ar = "BUF_DATA"  -> BufDataAccess
    [] OTHER -> NoAccess

\* The value csr_rdata has in this cycle.
CsrRdata == IF ar = "BUF_DATA" THEN [addr |-> ramOut, lane |-> drainLane] ELSE NoLane

\* A defect the checks must notice: read data passed through and not kept.
LatchLate ==
  rdata' = IF axSt = "S_RRESP" \/ DoRead THEN CsrRdata ELSE rdata

\* The read is over with its address handshake; its value waits for R.
Latch == rdata' = IF DoRead THEN CsrRdata ELSE rdata

Respond(bready, rready) ==
  axSt' = CASE axSt = "S_IDLE" -> IF DoWrite THEN "S_WRESP" ELSE IF DoRead THEN "S_RRESP" ELSE axSt
          [] axSt = "S_WRESP" -> IF bready THEN "S_IDLE" ELSE axSt
          [] axSt = "S_RRESP" -> IF rready THEN "S_IDLE" ELSE axSt

\* The master keeps offering what has not been accepted.
MasterOffers ==
  /\ IF aw # Nothing /\ ~DoWrite THEN aw' = aw ELSE aw' \in {Nothing, "BUF_CTRL", Other}
  /\ IF w /\ ~DoWrite THEN w' = w ELSE w' \in BOOLEAN
  /\ IF ar # Nothing /\ ~DoRead THEN ar' = ar ELSE ar' \in {Nothing, "BUF_DATA", Other}

\* History: the master counts the lanes it is handed.
HandOver(rready) ==
  handed' = CASE DoWrite /\ aw = "BUF_CTRL" -> 0
             [] axSt = "S_RRESP" /\ rready /\ rdata # NoLane -> NextRead(handed)
             [] OTHER -> handed

Cycle(bready, rready) ==
  /\ Bus
  /\ Latch
  /\ Respond(bready, rready)
  /\ MasterOffers
  /\ HandOver(rready)

AxilInit ==
  /\ PortInit
  /\ axSt = "S_IDLE" /\ rdata = NoLane
  /\ aw = Nothing /\ w = FALSE /\ ar = Nothing /\ handed = 0

AxilNext == \E bready, rready \in BOOLEAN : Cycle(bready, rready)

\* The clock runs, and the master takes every response some time.
AxilSpec ==
  /\ AxilInit /\ [][AxilNext]_axilVars
  /\ WF_axilVars(Cycle(TRUE, TRUE))

----------------------------------------------------------------------------
\* Lane after lane is handed over in order and once, however long the master
\* leaves a response waiting and whatever it writes in between (scope_axil.sv
\* 11-12: "the combinational csr_rdata is latched that cycle (so the BUF_DATA
\* read pointer may advance underneath us)").
ReadDataInOrder ==
  axSt = "S_RRESP" /\ rdata # NoLane => rdata.addr * Lanes + rdata.lane = handed

\* The front-end always leaves a cycle between two accesses, which is all the
\* buffer port asks of its master.
AxilKeepsPauses == PortSpec

\* A write is answered whatever else is offered; a read, unless writes keep
\* coming before it for ever (write priority, scope_axil.sv 17).
RequestsAnswered ==
  /\ aw # Nothing /\ w ~> axSt = "S_WRESP"
  /\ []<>(axSt = "S_IDLE" /\ ~(aw # Nothing /\ w)) => (ar # Nothing ~> axSt = "S_RRESP")
=============================================================================
