---------------------------- MODULE ReadoutProofs ----------------------------
(***************************************************************************)
(* The ways out of the buffer, for every buffer length and every width of  *)
(* a stored word: the drain path behind any master that leaves at least    *)
(* one idle cycle; the download through the servicer and its FIFOs, for    *)
(* every FIFO capacity, where two idle cycles are left, so that the buffer *)
(* port may need one or two; through the AXI4-Lite front-end; and over     *)
(* JTAG, for all lengths of requests, answers and batches.  Last, the      *)
(* clock-crossing FIFO: for every depth and set of words it implements the *)
(* bounded queue of FifoSpec.                                              *)
(***************************************************************************)
EXTENDS CsrCrossing, ScopeAxil, JtagLink, FifoAsync, NaturalRecursion, SequenceTheorems

----------------------------------------------------------------------------
(* The drain path. *)

\* The pointer counts the reads, and one cycle after an access the RAM shows
\* the word it points to.
PortInv ==
  /\ drainAddr \in 0 .. Depth - 1 /\ drainLane \in 0 .. Lanes - 1
  /\ ramOut \in 0 .. Depth - 1
  /\ idle \in 0 .. Spacing
  /\ reads \in Nat
  /\ reads = drainAddr * Lanes + drainLane
  /\ idle >= 1 => ramOut = drainAddr
  /\ LanesInOrder

\* Multiplication by the number of lanes is strictly monotonic.
LEMMA LaneSpan ==
  ASSUME NEW a \in Nat, NEW b \in Nat, NEW n \in Nat, a < b
  PROVE  a * n + n <= b * n
<1> DEFINE k == b - a - 1
<1>1. k \in Nat /\ b = a + 1 + k
  OBVIOUS
<1>2. b * n = a * n + n + k * n
  BY <1>1, Z3
<1>3. k * n >= 0
  BY <1>1, Z3
<1>4. a * n \in Int /\ k * n \in Int
  BY <1>1, Z3
<1> QED
  BY <1>2, <1>3, <1>4

\* The reads wrap exactly when the pointer does.
LEMMA ReadsWrap ==
  ASSUME NEW a \in 0 .. Depth - 1, NEW l \in 0 .. Lanes - 1
  PROVE  /\ a * Lanes + l \in Nat
         /\ a * Lanes + l + 1 = Depth * Lanes <=> a = Depth - 1 /\ l = Lanes - 1
<1> USE DepthAssumption, LanesAssumption
<1>1. a * Lanes + Lanes <= Depth * Lanes
  BY LaneSpan
<1>2. a < Depth - 1 => (a + 1) * Lanes + Lanes <= Depth * Lanes
  BY LaneSpan
<1>3. (a + 1) * Lanes = a * Lanes + Lanes
  BY Z3
<1>4. a = Depth - 1 => a * Lanes + Lanes = Depth * Lanes
  BY <1>3
<1>5. a * Lanes \in Nat /\ Depth * Lanes \in Nat
  BY Z3
<1> QED
  BY <1>1, <1>2, <1>3, <1>4, <1>5

\* The invariant holds after reset.
LEMMA PortInvInit == PortInit => PortInv
<1> SUFFICES ASSUME PortInit PROVE PortInv
  OBVIOUS
<1>1. 0 * Lanes + 0 = 0
  BY LanesAssumption, Z3
<1> QED
  BY <1>1, DepthAssumption, LanesAssumption, SpacingAssumption DEF PortInit, PortInv, LanesInOrder

\* A clock edge of the port preserves the invariant, whatever the master does.
LEMMA PortInvStep ==
  ASSUME Spacing >= 1, PortInv, [PortNext]_portVars PROVE PortInv'
<1> USE DepthAssumption, LanesAssumption, SpacingAssumption
<1>1. CASE NoAccess
  BY <1>1 DEF NoAccess, Edge, PortInv, LanesInOrder
<1>2. CASE BufCtrl
  <2>1. 0 * Lanes + 0 = 0
    BY Z3
  <2> QED
    BY <1>2, <2>1 DEF BufCtrl, BufCtrlAccess, Edge, PortInv, LanesInOrder
<1>3. CASE BufData
  <2> USE <1>3 DEF BufData, BufDataAccess
  <2>1. ramOut = drainAddr /\ drainLane \in 0 .. Lanes - 1 /\ drainAddr \in 0 .. Depth - 1
    BY DEF PortInv
  <2>2. answer' = [nth |-> drainAddr * Lanes + drainLane, addr |-> drainAddr, lane |-> drainLane]
    BY <2>1 DEF PortInv
  <2>3. LanesInOrder'
    BY <2>1, <2>2 DEF LanesInOrder
  <2>4. /\ drainAddr' \in 0 .. Depth - 1 /\ drainLane' \in 0 .. Lanes - 1
        /\ reads' \in Nat /\ reads' = drainAddr' * Lanes + drainLane'
    <3>1. /\ reads = drainAddr * Lanes + drainLane
          /\ reads \in Nat
          /\ reads' = IF reads + 1 = Depth * Lanes THEN 0 ELSE reads + 1
      BY DEF PortInv, NextRead
    <3>2. reads + 1 = Depth * Lanes <=> drainAddr = Depth - 1 /\ drainLane = Lanes - 1
      BY <2>1, <3>1, ReadsWrap
    <3>3. CASE drainAddr = Depth - 1 /\ drainLane = Lanes - 1
      <4>1. reads' = 0
        BY <3>1, <3>2, <3>3
      <4>2. drainAddr' = 0 /\ drainLane' = 0
        BY <3>3 DEF Advance
      <4>3. 0 * Lanes + 0 = 0
        BY Z3
      <4> QED
        BY <4>1, <4>2, <4>3
    <3>4. CASE drainLane = Lanes - 1 /\ drainAddr # Depth - 1
      <4>1. reads' = drainAddr * Lanes + Lanes
        BY <2>1, <3>1, <3>2, <3>4
      <4>2. drainAddr' = drainAddr + 1 /\ drainLane' = 0
        BY <2>1, <3>4 DEF Advance
      <4>3. (drainAddr + 1) * Lanes = drainAddr * Lanes + Lanes
        BY <2>1, Z3
      <4> QED
        BY <2>1, <3>1, <3>2, <3>4, <4>1, <4>2, <4>3
    <3>5. CASE drainLane # Lanes - 1
      BY <2>1, <3>1, <3>2, <3>5 DEF Advance
    <3> QED
      BY <3>3, <3>4, <3>5
  <2>5. ramOut' \in 0 .. Depth - 1 /\ idle' = 0
    BY <2>1 DEF Edge
  <2>6. idle' \in 0 .. Spacing /\ (idle' >= 1 => ramOut' = drainAddr')
    BY ONLY <2>5, SpacingAssumption
  <2> QED
    BY ONLY <2>3, <2>4, <2>5, <2>6 DEF PortInv
<1>4. CASE UNCHANGED portVars
  BY <1>4 DEF portVars, PortInv, LanesInOrder
<1> QED
  BY <1>1, <1>2, <1>3, <1>4 DEF PortNext

\* Behind a master that leaves a cycle after every access, every read of
\* BUF_DATA returns the lane that is due (LanesInOrder), whatever the depth
\* and the number of lanes.
THEOREM PortLanesInOrder == Spacing >= 1 => (PortSpec => []LanesInOrder)
<1> SUFFICES ASSUME Spacing >= 1 PROVE PortSpec => []LanesInOrder
  OBVIOUS
<1>1. PortInv => LanesInOrder
  BY DEF PortInv
<1>2. PortInv /\ [PortNext]_portVars => PortInv'
  BY PortInvStep
<1> QED
  BY PortInvInit, <1>1, <1>2, PTL DEF PortSpec

----------------------------------------------------------------------------
(* The servicer and its FIFOs. *)

\* The answer r belongs to the command in progress, which has been executed.
Answers(r) ==
  IF command = "BUF_CTRL" THEN r = None /\ reads = 0
  ELSE /\ r.addr * Lanes + r.lane = delivered
       /\ reads = NextRead(delivered)

(* Where the one command is. *)
Free ==
  /\ st \in {"BETWEEN", "CSR_PUSH"} /\ sv = "SV_IDLE"
  /\ cmdFifo = <<>> /\ rspFifo = <<>> /\ delivered = reads
Sent ==
  /\ st = "CSR_WAIT" /\ sv = "SV_IDLE"
  /\ cmdFifo = <<command>> /\ rspFifo = <<>> /\ delivered = reads
Executing ==
  /\ st = "CSR_WAIT" /\ sv = "SV_EXEC" /\ svCmd = command
  /\ cmdFifo = <<>> /\ rspFifo = <<>> /\ delivered = reads
Executed ==
  /\ st = "CSR_WAIT" /\ sv = "SV_PUSH"
  /\ cmdFifo = <<>> /\ rspFifo = <<>> /\ Answers(svResult)
Answered ==
  /\ st = "CSR_WAIT" /\ sv = "SV_IDLE"
  /\ cmdFifo = <<>> /\ rspFifo = <<svResult>> /\ Answers(svResult)

OneCommand == Free \/ Sent \/ Executing \/ Executed \/ Answered

\* The pause already made when the servicer is at rest and when it strobes.
Paused ==
  /\ sv = "SV_IDLE" => idle >= 1
  /\ sv = "SV_EXEC" => idle >= Spacing

LastAnswer == rsp # None => NextRead(rsp.addr * Lanes + rsp.lane) = delivered

CrossingInv == PortInv /\ OneCommand /\ Paused /\ LastAnswer

\* The invariant holds after reset.
LEMMA CrossingInvInit ==
  ASSUME Spacing \in 1 .. 2, CrossingInit PROVE CrossingInv
<1>1. PortInv
  BY PortInvInit DEF CrossingInit
<1>2. Free
  BY DEF CrossingInit, PortInit, Free
<1>3. Paused
  BY DEF CrossingInit, PortInit, Paused
<1>4. LastAnswer
  BY DEF CrossingInit, LastAnswer
<1> QED
  BY <1>1, <1>2, <1>3, <1>4 DEF CrossingInv, OneCommand

\* Every step is one of the buffer port behind a master that keeps its pauses.
LEMMA StepsOfPort ==
  ASSUME Spacing \in 1 .. 2, CrossingInv, [CrossingNext]_crossingVars
  PROVE  [PortNext]_portVars
<1>1. CASE Engine
  BY <1>1 DEF Engine, Issue, CsrPush, CsrWait, portVars
<1>2. CASE Servicer
  <2>1. CASE SvIdle
    BY <2>1 DEF SvIdle, PortNext
  <2>2. CASE SvExec
    <3>1. idle >= Spacing
      BY <2>2 DEF SvExec, CrossingInv, Paused
    <3> QED
      BY <2>2, <3>1 DEF SvExec, PortNext, BufCtrl, BufData
  <2>3. CASE SvPush
    BY <2>3 DEF SvPush, PortNext
  <2> QED
    BY <1>2, <2>1, <2>2, <2>3 DEF Servicer
<1>3. CASE UNCHANGED crossingVars
  BY <1>3 DEF crossingVars, portVars
<1> QED
  BY <1>1, <1>2, <1>3 DEF CrossingNext

\* A step of engine or servicer preserves the invariant.
LEMMA CrossingInvStep ==
  ASSUME Spacing \in 1 .. 2, CrossingInv, [CrossingNext]_crossingVars
  PROVE  CrossingInv'
<1>1. PortInv'
  BY StepsOfPort, PortInvStep DEF CrossingInv
<1>2. CASE \E c \in Commands : Issue(c)
  <2>1. Free'
    BY <1>2 DEF Issue, CrossingInv, OneCommand, Free, Sent, Executing, Executed, Answered, portVars
  <2>2. Paused' /\ LastAnswer'
    BY <1>2 DEF Issue, CrossingInv, Paused, LastAnswer, portVars, NextRead
  <2> QED
    BY <1>1, <2>1, <2>2 DEF CrossingInv, OneCommand
<1>3. CASE CsrPush
  <2>1. Free
    BY <1>3 DEF CsrPush, CrossingInv, OneCommand, Free, Sent, Executing, Executed, Answered
  <2>2. Sent'
    BY <1>3, <2>1 DEF CsrPush, Free, Sent, portVars
  <2>3. Paused' /\ LastAnswer'
    BY <1>3 DEF CsrPush, CrossingInv, Paused, LastAnswer, portVars, NextRead
  <2> QED
    BY <1>1, <2>2, <2>3 DEF CrossingInv, OneCommand
<1>4. CASE CsrWait
  <2>1. Answered
    BY <1>4 DEF CsrWait, CrossingInv, OneCommand, Free, Sent, Executing, Executed, Answered
  <2>2. rsp' = svResult /\ rspFifo' = <<>> /\ st' = "BETWEEN"
    BY <1>4, <2>1 DEF CsrWait, Answered
  <2>3. /\ delivered' = reads
        /\ rsp' # None => NextRead(rsp'.addr * Lanes + rsp'.lane) = delivered'
    BY <1>4, <2>1, <2>2 DEF CsrWait, Answered, Answers
  <2>4. Free'
    BY <1>4, <2>1, <2>2, <2>3 DEF CsrWait, Answered, Free, portVars
  <2>5. LastAnswer'
    BY <2>3 DEF LastAnswer, NextRead
  <2>6. Paused'
    BY <1>4 DEF CsrWait, CrossingInv, Paused, portVars
  <2> QED
    BY <1>1, <2>4, <2>5, <2>6 DEF CrossingInv, OneCommand
<1>5. CASE Servicer
  <2>1. LastAnswer'
    BY <1>5 DEF Servicer, CrossingInv, LastAnswer, NextRead
  <2>2. CASE SvIdle
    <3>1. Free \/ Sent \/ Answered
      BY <2>2 DEF SvIdle, CrossingInv, OneCommand, Executing, Executed
    <3>2. reads' = reads
      BY <2>2 DEF SvIdle, NoAccess
    <3>3. OneCommand'
      <4>1. CASE Free
        BY <1>5, <2>2, <3>2, <4>1 DEF SvIdle, Servicer, Free, OneCommand
      <4>2. CASE Sent
        BY <1>5, <2>2, <3>2, <4>2 DEF SvIdle, Servicer, Sent, Executing, OneCommand
      <4>3. CASE Answered
        BY <1>5, <2>2, <3>2, <4>3 DEF SvIdle, Servicer, Answered, Answers, OneCommand, NextRead
      <4> QED
        BY <3>1, <4>1, <4>2, <4>3
    <3>4. idle \in 0 .. Spacing /\ idle >= 1
      BY <2>2 DEF SvIdle, CrossingInv, Paused, PortInv
    <3>5. Paused'
      BY <2>2, <3>4 DEF SvIdle, NoAccess, Paused
    <3> QED
      BY <1>1, <2>1, <3>3, <3>5 DEF CrossingInv
  <2>3. CASE SvExec
    <3>1. Executing
      BY <2>3 DEF SvExec, CrossingInv, OneCommand, Free, Sent, Executed, Answered
    <3>2. idle >= 1
      <4>1. idle \in Int /\ idle >= Spacing
        BY <2>3 DEF SvExec, CrossingInv, Paused, PortInv
      <4> QED
        BY <4>1
    <3>3. Answers(svResult)'
      <4>1. CASE command = "BUF_CTRL"
        <5>1. svResult' = None /\ reads' = 0
          BY <2>3, <3>1, <4>1 DEF SvExec, Executing, BufCtrlAccess
        <5> QED
          BY <1>5, <4>1, <5>1 DEF Servicer, Answers
      <4>2. CASE command # "BUF_CTRL"
        <5>1. /\ svResult' = [command |-> "BUF_DATA", addr |-> ramOut, lane |-> drainLane]
              /\ reads' = NextRead(reads)
          BY <2>3, <3>1, <4>2 DEF SvExec, Executing, BufDataAccess
        <5>2. reads = ramOut * Lanes + drainLane
          BY <3>2 DEF CrossingInv, PortInv
        <5>3. delivered = reads /\ delivered' = delivered /\ command' = command
          BY <1>5, <3>1 DEF Servicer, Executing
        <5> QED
          BY <4>2, <5>1, <5>2, <5>3 DEF Answers, NextRead
      <4> QED
        BY <4>1, <4>2
    <3>4. Executed'
      BY <1>5, <2>3, <3>1, <3>3 DEF Servicer, SvExec, Executing, Executed
    <3>5. Paused'
      BY <2>3 DEF SvExec, Paused
    <3> QED
      BY <1>1, <2>1, <3>4, <3>5 DEF CrossingInv, OneCommand
  <2>4. CASE SvPush
    <3>1. Executed
      BY <2>4 DEF SvPush, CrossingInv, OneCommand, Free, Sent, Executing, Answered
    <3>2. Len(rspFifo) < Capacity
      BY <3>1, CapacityAssumption DEF Executed
    <3>3. rspFifo' = <<svResult>> /\ sv' = "SV_IDLE"
      BY <2>4, <3>1, <3>2 DEF SvPush, Executed
    <3>4. Answers(svResult)'
      BY <1>5, <2>4, <3>1 DEF Servicer, SvPush, NoAccess, Executed, Answers, NextRead
    <3>5. Answered'
      BY <1>5, <2>4, <3>1, <3>3, <3>4 DEF Servicer, SvPush, Executed, Answered
    <3>6. idle \in 0 .. Spacing
      BY DEF CrossingInv, PortInv
    <3>7. Paused'
      BY <2>4, <3>3, <3>6 DEF SvPush, NoAccess, Paused
    <3> QED
      BY <1>1, <2>1, <3>5, <3>7 DEF CrossingInv, OneCommand
  <2> QED
    BY <1>5, <2>2, <2>3, <2>4 DEF Servicer
<1>6. CASE UNCHANGED crossingVars
  <2>1. OneCommand'
    BY <1>6 DEF crossingVars, portVars, CrossingInv, OneCommand, Free, Sent, Executing, Executed,
                Answered, Answers, NextRead
  <2>2. Paused' /\ LastAnswer'
    BY <1>6 DEF crossingVars, portVars, CrossingInv, Paused, LastAnswer, NextRead
  <2> QED
    BY <1>1, <2>1, <2>2 DEF CrossingInv
<1> QED
  BY <1>2, <1>3, <1>4, <1>5, <1>6 DEF CrossingNext, Engine

\* The engine receives the lanes of the buffer in order, each once.
THEOREM CrossingDownloadInOrder ==
  Spacing \in 1 .. 2 => (CrossingSpec => []DownloadInOrder)
<1> SUFFICES ASSUME Spacing \in 1 .. 2 PROVE CrossingSpec => []DownloadInOrder
  OBVIOUS
<1>1. CrossingInit => CrossingInv
  BY CrossingInvInit
<1>2. CrossingInv /\ [CrossingNext]_crossingVars => CrossingInv'
  BY CrossingInvStep
<1>3. CrossingInv => DownloadInOrder
  BY DEF CrossingInv, LastAnswer, DownloadInOrder
<1> QED
  BY <1>1, <1>2, <1>3, PTL DEF CrossingSpec

\* The composition implements the buffer port with a master that pauses: the
\* assumption under which the port is correct is one the servicer meets.
THEOREM CrossingImplementsPort ==
  Spacing \in 1 .. 2 => (CrossingSpec => ServicerKeepsPauses)
<1> SUFFICES ASSUME Spacing \in 1 .. 2 PROVE CrossingSpec => ServicerKeepsPauses
  OBVIOUS
<1>1. CrossingInit => CrossingInv /\ PortInit
  BY CrossingInvInit DEF CrossingInit
<1>2. CrossingInv /\ [CrossingNext]_crossingVars => CrossingInv'
  BY CrossingInvStep
<1>3. CrossingInv /\ [CrossingNext]_crossingVars => [PortNext]_portVars
  BY StepsOfPort
<1> QED
  BY <1>1, <1>2, <1>3, PTL DEF CrossingSpec, ServicerKeepsPauses, PortSpec

----------------------------------------------------------------------------
(* The AXI4-Lite front-end. *)

\* A lane waits to be handed over.
Waiting == axSt = "S_RRESP" /\ rdata # NoLane

\* At rest a cycle has passed since the last access; a lane that waits is the
\* last one read, otherwise all that were read have been handed over.
AxilInv ==
  /\ PortInv
  /\ axSt \in {"S_IDLE", "S_WRESP", "S_RRESP"}
  /\ axSt = "S_IDLE" => idle >= 1
  /\ Waiting => rdata.addr * Lanes + rdata.lane = handed /\ reads = NextRead(handed)
  /\ ~Waiting => reads = handed

\* The bus access of a cycle, by the state of the front-end.
LEMMA Accesses ==
  ASSUME NEW bready, NEW rready, Cycle(bready, rready)
  PROVE  /\ axSt = "S_IDLE" => BufCtrlAccess \/ BufDataAccess \/ NoAccess
         /\ axSt # "S_IDLE" => NoAccess
<1>1. axSt # "S_IDLE" => ~DoWrite /\ ~DoRead
  BY DEF DoWrite, DoRead
<1> QED
  BY <1>1 DEF Cycle, Bus

\* Every step is one of the buffer port behind a master that keeps its pauses.
LEMMA AxilStepsOfPort ==
  ASSUME Spacing = 1, AxilInv, [AxilNext]_axilVars
  PROVE  [PortNext]_portVars
<1>1. CASE AxilNext
  <2> PICK bready, rready \in BOOLEAN : Cycle(bready, rready)
    BY <1>1 DEF AxilNext
  <2>1. axSt = "S_IDLE" => idle >= Spacing
    BY DEF AxilInv
  <2> QED
    BY <2>1, Accesses DEF PortNext, BufCtrl, BufData
<1>2. CASE UNCHANGED axilVars
  BY <1>2 DEF axilVars, portVars
<1> QED
  BY <1>1, <1>2

\* The invariant holds after reset.
LEMMA AxilInvInit == ASSUME Spacing = 1, AxilInit PROVE AxilInv
<1>1. PortInv
  BY PortInvInit DEF AxilInit
<1>2. axSt = "S_IDLE" /\ idle = 1 /\ reads = 0 /\ handed = 0
  BY DEF AxilInit, PortInit
<1> QED
  BY <1>1, <1>2 DEF AxilInv, Waiting

\* A clock edge with any behaviour of the master preserves the invariant.
LEMMA AxilInvStep ==
  ASSUME Spacing = 1, AxilInv, [AxilNext]_axilVars
  PROVE  AxilInv'
<1>1. PortInv'
  BY AxilStepsOfPort, PortInvStep DEF AxilInv
<1>2. CASE AxilNext
  <2> PICK bready, rready \in BOOLEAN : Cycle(bready, rready)
    BY <1>2 DEF AxilNext
  <2>1. CASE axSt = "S_IDLE"
    <3>0. idle >= 1 /\ reads = handed /\ ~Waiting
      BY <2>1 DEF AxilInv, Waiting
    <3>1. CASE DoWrite
      <4>1. ~DoRead /\ axSt' = "S_WRESP"
        BY <2>1, <3>1 DEF Cycle, Respond, DoRead
      <4>2. CASE aw = "BUF_CTRL"
        <5>1. reads' = 0
          BY <3>1, <4>1, <4>2 DEF Cycle, Bus, BufCtrlAccess
        <5>2. handed' = 0
          BY <2>1, <3>1, <4>2 DEF Cycle, HandOver
        <5> QED
          BY <1>1, <4>1, <5>1, <5>2 DEF AxilInv, Waiting
      <4>3. CASE aw # "BUF_CTRL"
        <5>1. reads' = reads
          BY <4>1, <4>3 DEF Cycle, Bus, NoAccess
        <5>2. handed' = handed
          BY <2>1, <4>3 DEF Cycle, HandOver
        <5> QED
          BY <1>1, <3>0, <4>1, <5>1, <5>2 DEF AxilInv, Waiting
      <4> QED
        BY <4>2, <4>3
    <3>2. CASE DoRead
      <4>1. ~DoWrite /\ axSt' = "S_RRESP" /\ rdata' = CsrRdata
        BY <2>1, <3>2 DEF Cycle, Respond, Latch, DoRead
      <4>2. handed' = handed
        BY <2>1, <4>1 DEF Cycle, HandOver
      <4>3. CASE ar = "BUF_DATA"
        <5>1. reads' = NextRead(reads)
          BY <3>2, <4>1, <4>3 DEF Cycle, Bus, BufDataAccess
        <5>2. rdata' = [addr |-> ramOut, lane |-> drainLane]
          BY <4>1, <4>3 DEF CsrRdata
        <5>3. ramOut \in Nat /\ reads = ramOut * Lanes + drainLane
          BY <3>0 DEF AxilInv, PortInv
        <5>4. rdata'.addr * Lanes + rdata'.lane = handed' /\ reads' = NextRead(handed')
          BY <3>0, <4>2, <5>1, <5>2, <5>3
        <5>5. rdata' # NoLane
          <6>1. rdata'.addr = ramOut /\ NoLane.addr = -1
            BY <5>2 DEF NoLane
          <6>2. ramOut # -1
            BY <5>3
          <6> QED
            BY <6>1, <6>2
        <5>6. reads' = NextRead(handed)'
          BY <5>4 DEF NextRead
        <5> QED
          BY <1>1, <4>1, <5>4, <5>5, <5>6 DEF AxilInv, Waiting
      <4>4. CASE ar # "BUF_DATA"
        <5>1. reads' = reads
          BY <4>1, <4>4 DEF Cycle, Bus, NoAccess
        <5>2. rdata' = NoLane
          BY <4>1, <4>4 DEF CsrRdata
        <5> QED
          BY <1>1, <3>0, <4>1, <4>2, <5>1, <5>2 DEF AxilInv, Waiting, NoLane
      <4> QED
        BY <4>3, <4>4
    <3>3. CASE ~DoWrite /\ ~DoRead
      <4>1. reads' = reads /\ idle' = (IF idle < Spacing THEN idle + 1 ELSE idle)
        BY <3>3 DEF Cycle, Bus, NoAccess
      <4>2. handed' = handed /\ axSt' = "S_IDLE"
        BY <2>1, <3>3 DEF Cycle, HandOver, Respond
      <4>3. idle \in Int
        BY DEF AxilInv, PortInv
      <4>4. idle' >= 1
        BY ONLY <3>0, <4>1, <4>3, Spacing = 1
      <4> QED
        BY <1>1, <3>0, <4>1, <4>2, <4>4 DEF AxilInv, Waiting
    <3> QED
      BY <3>1, <3>2, <3>3
  <2>2. CASE axSt # "S_IDLE"
    <3>1. ~DoWrite /\ ~DoRead
      BY <2>2 DEF DoWrite, DoRead
    <3>2. reads' = reads /\ idle' = (IF idle < Spacing THEN idle + 1 ELSE idle)
      BY <2>2, Accesses DEF NoAccess
    <3>3. idle \in 0 .. 1
      BY DEF AxilInv, PortInv
    <3>4. idle' >= 1
      BY ONLY <3>2, <3>3, Spacing = 1
    <3>5. rdata' = rdata
      BY <3>1 DEF Cycle, Latch
    <3>6. CASE axSt = "S_WRESP"
      <4>1. axSt' \in {"S_IDLE", "S_WRESP"} /\ handed' = handed
        BY <3>1, <3>6 DEF Cycle, Respond, HandOver
      <4>2. ~Waiting /\ ~Waiting'
        BY <3>6, <4>1 DEF Waiting
      <4> QED
        BY <1>1, <3>2, <3>4, <4>1, <4>2 DEF AxilInv
    <3>7. CASE axSt = "S_RRESP" /\ ~rready
      <4>1. axSt' = axSt /\ handed' = handed
        BY <3>1, <3>7 DEF Cycle, Respond, HandOver
      <4>2. Waiting' <=> Waiting
        BY <3>5, <4>1 DEF Waiting, NoLane
      <4> QED
        BY <1>1, <3>2, <3>4, <3>5, <4>1, <4>2 DEF AxilInv, NextRead
    <3>8. CASE axSt = "S_RRESP" /\ rready
      <4>1. axSt' = "S_IDLE" /\ ~Waiting'
        BY <3>1, <3>8 DEF Cycle, Respond, Waiting
      <4>2. handed' = IF rdata # NoLane THEN NextRead(handed) ELSE handed
        BY <3>1, <3>8 DEF Cycle, HandOver
      <4>3. reads' = handed'
        BY <3>2, <3>8, <4>2 DEF AxilInv, Waiting
      <4> QED
        BY <1>1, <3>4, <4>1, <4>3 DEF AxilInv
    <3> QED
      BY <2>2, <3>6, <3>7, <3>8 DEF AxilInv
  <2> QED
    BY <2>1, <2>2
<1>3. CASE UNCHANGED axilVars
  BY <1>1, <1>3 DEF axilVars, portVars, AxilInv, Waiting, NextRead, NoLane
<1> QED
  BY <1>2, <1>3

\* The master is handed the lanes of the buffer in order, each once.
THEOREM AxilReadsInOrder == Spacing = 1 => (AxilSpec => []ReadDataInOrder)
<1> SUFFICES ASSUME Spacing = 1 PROVE AxilSpec => []ReadDataInOrder
  OBVIOUS
<1>1. AxilInit => AxilInv
  BY AxilInvInit
<1>2. AxilInv /\ [AxilNext]_axilVars => AxilInv'
  BY AxilInvStep
<1>3. AxilInv => ReadDataInOrder
  BY DEF AxilInv, Waiting, ReadDataInOrder
<1> QED
  BY <1>1, <1>2, <1>3, PTL DEF AxilSpec

\* The front-end is a master that pauses, as the buffer port needs it.
THEOREM AxilImplementsPort == Spacing = 1 => (AxilSpec => AxilKeepsPauses)
<1> SUFFICES ASSUME Spacing = 1 PROVE AxilSpec => AxilKeepsPauses
  OBVIOUS
<1>1. AxilInit => AxilInv /\ PortInit
  BY AxilInvInit DEF AxilInit
<1>2. AxilInv /\ [AxilNext]_axilVars => AxilInv'
  BY AxilInvStep
<1>3. AxilInv /\ [AxilNext]_axilVars => [PortNext]_portVars
  BY AxilStepsOfPort
<1> QED
  BY <1>1, <1>2, <1>3, PTL DEF AxilSpec, AxilKeepsPauses, PortSpec

----------------------------------------------------------------------------
(* The JTAG transport. *)

\* The bytes after number k, in order.
From(s, k) == s \in Seq(Nat) /\ \A i \in 1 .. Len(s) : s[i] = k + i

\* No bytes, and those of a whole write, follow one another.
LEMMA FromNumbered ==
  ASSUME NEW k \in Nat, NEW n \in Nat
  PROVE  From(Numbered(k, n), k) /\ Len(Numbered(k, n)) = n /\ From(<<>>, k)
BY DEF From, Numbered

\* Byte after byte taken off the front.
LEMMA FromTail ==
  ASSUME NEW k \in Nat, NEW s, From(s, k), s # <<>>
  PROVE  /\ From(<<Head(s)>>, k) /\ From(Tail(s), k + 1)
         /\ Len(Tail(s)) = Len(s) - 1 /\ Tail(s) \in Seq(Nat)
BY DEF From

\* A byte put at the end.
LEMMA FromAppend ==
  ASSUME NEW k \in Nat, NEW s, From(s, k)
  PROVE  /\ From(Append(s, k + Len(s) + 1), k)
         /\ Len(Append(s, k + Len(s) + 1)) = Len(s) + 1
BY DEF From

\* Bytes put behind bytes.
LEMMA FromConcat ==
  ASSUME NEW k \in Nat, NEW s, From(s, k), NEW t, From(t, k + Len(s))
  PROVE  From(s \o t, k) /\ Len(s \o t) = Len(s) + Len(t)
<1>1. s \in Seq(Nat) /\ t \in Seq(Nat)
  BY DEF From
<1>2. s \o t \in Seq(Nat) /\ Len(s \o t) = Len(s) + Len(t)
  BY <1>1
<1>3. \A i \in 1 .. Len(s) + Len(t) : (s \o t)[i] = IF i <= Len(s) THEN s[i] ELSE t[i - Len(s)]
  BY <1>1
<1>4. ASSUME NEW i \in 1 .. Len(s) + Len(t) PROVE (s \o t)[i] = k + i
  <2>1. i <= Len(s) => s[i] = k + i
    BY DEF From
  <2>2. i > Len(s) => t[i - Len(s)] = k + i
    BY DEF From
  <2> QED
    BY <1>1, <1>3, <2>1, <2>2
<1> QED
  BY <1>2, <1>4 DEF From

\* Bytes divided in two.
LEMMA FromSplit ==
  ASSUME NEW k \in Nat, NEW s, From(s, k), NEW m \in 0 .. Len(s)
  PROVE  /\ From(SubSeq(s, 1, m), k) /\ Len(SubSeq(s, 1, m)) = m
         /\ From(SubSeq(s, m + 1, Len(s)), k + m) /\ Len(SubSeq(s, m + 1, Len(s))) = Len(s) - m
<1>1. s \in Seq(Nat) /\ Len(s) \in Nat /\ m \in Nat
  BY DEF From
<1>2. /\ SubSeq(s, 1, m) \in Seq(Nat) /\ Len(SubSeq(s, 1, m)) = m
      /\ \A i \in 1 .. m : SubSeq(s, 1, m)[i] = s[i]
  BY <1>1
<1>3. /\ SubSeq(s, m + 1, Len(s)) \in Seq(Nat) /\ Len(SubSeq(s, m + 1, Len(s))) = Len(s) - m
      /\ \A i \in 1 .. Len(s) - m : SubSeq(s, m + 1, Len(s))[i] = s[m + i]
  BY <1>1
<1> QED
  BY <1>1, <1>2, <1>3 DEF From

\* The first n bytes, all of them or a part.
LEMMA FromFirst ==
  ASSUME NEW s, From(s, 0), NEW n \in Nat, Len(s) <= n
  PROVE  IsPrefix(s, Numbered(0, n)) /\ (Len(s) = n => s = Numbered(0, n))
<1>1. s \in Seq(Nat) /\ Len(s) \in Nat /\ \A i \in 1 .. Len(s) : s[i] = i
  BY DEF From
<1>2. Numbered(0, n) \in Seq(Nat) /\ Len(Numbered(0, n)) = n /\ \A i \in 1 .. n : Numbered(0, n)[i] = i
  BY DEF Numbered
<1>3. Len(s) = n => s = Numbered(0, n)
  BY <1>1, <1>2
<1>4. SubSeq(s, 1, Len(s)) = SubSeq(Numbered(0, n), 1, Len(s))
  BY <1>1, <1>2
<1> QED
  BY <1>1, <1>2, <1>3, <1>4 DEF IsPrefix

\* Three stretches that follow one another.
LEMMA FromThree ==
  ASSUME NEW a, From(a, 0), NEW b, From(b, Len(a)), NEW c, From(c, Len(a) + Len(b)),
         NEW n \in Nat, Len(a) + Len(b) + Len(c) <= n
  PROVE  /\ IsPrefix(a \o b, Numbered(0, n)) /\ IsPrefix((a \o b) \o c, Numbered(0, n))
         /\ Len(a) + Len(b) + Len(c) = n => (a \o b) \o c = Numbered(0, n)
<1>1. Len(a) \in Nat /\ Len(b) \in Nat /\ Len(c) \in Nat
  BY DEF From
<1>2. From(a \o b, 0) /\ Len(a \o b) = Len(a) + Len(b)
  <2>1. From(b, 0 + Len(a))
    BY <1>1
  <2> QED
    BY <2>1, FromConcat
<1>3. From((a \o b) \o c, 0) /\ Len((a \o b) \o c) = Len(a) + Len(b) + Len(c)
  <2>1. From(c, 0 + Len(a \o b))
    BY <1>1, <1>2
  <2>2. /\ From((a \o b) \o c, 0)
        /\ Len((a \o b) \o c) = Len(a \o b) + Len(c)
    BY ONLY <1>2, <2>1, 0 \in Nat, FromConcat
  <2> QED
    BY <1>2, <2>2
<1>4. IsPrefix(a \o b, Numbered(0, n))
  <2>1. Len(a \o b) <= n
    BY <1>1, <1>2
  <2> QED
    BY ONLY <1>2, <2>1, n \in Nat, FromFirst
<1>5. /\ IsPrefix((a \o b) \o c, Numbered(0, n))
      /\ Len(a) + Len(b) + Len(c) = n => (a \o b) \o c = Numbered(0, n)
  BY <1>3, FromFirst
<1> QED
  BY <1>4, <1>5

WithPump == IF job.op = "W" THEN job.bytes ELSE <<>>
Pumped == IF job.op = "R" THEN job.bytes
          ELSE IF reply.line = "D" THEN reply.bytes ELSE <<>>

WriteJobs == [op : {"W"}, bytes : Seq(Nat)]
ReadJobs  == [op : {"R"}, want : Nat, bytes : Seq(Nat), left : Int]
Replies   == {NoReply, [line |-> "OK"], [line |-> "empty"]} \cup [line : {"D"}, bytes : Seq(Nat)]

LinkTypeOK ==
  /\ call \in {Idle} \cup WriteJobs \cup ReadJobs
  /\ job \in {Idle} \cup WriteJobs \cup ReadJobs
  /\ reply \in Replies
  /\ alive \in BOOLEAN /\ polled \in BOOLEAN
  /\ sent \in Nat /\ emitted \in Nat

\* A call is with the pump or has its reply, and the pump dies with its work.
OneAtATime ==
  /\ job # Idle => alive /\ job.op = call.op /\ reply = NoReply
  /\ call = Idle => job = Idle /\ reply = NoReply
  /\ reply.line = "OK" => call.op = "W"
  /\ reply.line = "D" => call.op = "R"
  /\ call.op = "R" => rxbuf = <<>>
  /\ polled => job.op = "W" /\ job.bytes # <<>> /\ txb = <<>>
  /\ alive => reply.line # "empty"

\* What has been written is, in order, taken, buffered and with the pump.
WritesInOrder ==
  /\ From(taken, 0) /\ From(txb, Len(taken)) /\ From(WithPump, Len(taken) + Len(txb))
  /\ Len(txb) <= 1 /\ Len(taken) + Len(txb) + Len(WithPump) <= sent
  /\ alive => Len(taken) + Len(txb) + Len(WithPump) = sent

\* What the device has given away is, in order, returned, kept and in the reply.
ReadsInOrder ==
  /\ From(got, 0) /\ From(rxbuf, Len(got)) /\ From(Pumped, Len(got) + Len(rxbuf))
  /\ Len(got) + Len(rxbuf) + Len(Pumped) <= emitted
  /\ alive => Len(got) + Len(rxbuf) + Len(Pumped) = emitted

LinkInv == LinkTypeOK /\ OneAtATime /\ WritesInOrder /\ ReadsInOrder

\* The invariant says what the runs check.
LEMMA LinkInvCarries == LinkInv => BytesCarried
<1> SUFFICES ASSUME LinkInv PROVE BytesCarried
  OBVIOUS
<1>1. sent \in Nat /\ emitted \in Nat
  BY DEF LinkInv, LinkTypeOK
<1>2. WritesArriveInOrder
  <2>1. /\ IsPrefix(taken \o txb, Numbered(0, sent))
        /\ Len(taken) + Len(txb) + Len(WithPump) = sent
             => (taken \o txb) \o WithPump = Numbered(0, sent)
    BY <1>1, FromThree DEF LinkInv, WritesInOrder
  <2>2. alive => Len(taken) + Len(txb) + Len(WithPump) = sent
    BY DEF LinkInv, WritesInOrder
  <2> QED
    BY <2>1, <2>2 DEF WritesArriveInOrder, WithPump
<1>3. ReadsReturnAll
  <2>1. /\ IsPrefix((got \o rxbuf) \o Pumped, Numbered(0, emitted))
        /\ Len(got) + Len(rxbuf) + Len(Pumped) = emitted
             => (got \o rxbuf) \o Pumped = Numbered(0, emitted)
    BY <1>1, FromThree DEF LinkInv, ReadsInOrder
  <2>2. alive => Len(got) + Len(rxbuf) + Len(Pumped) = emitted
    BY DEF LinkInv, ReadsInOrder
  <2> QED
    BY <2>1, <2>2 DEF ReadsReturnAll, Pumped
<1> QED
  BY <1>2, <1>3 DEF BytesCarried

\* Nothing has been carried at first.
LEMMA LinkInvInit == LinkInit => LinkInv
<1> SUFFICES ASSUME LinkInit PROVE LinkInv
  OBVIOUS
<1>1. /\ call = Idle /\ job = Idle /\ polled = FALSE /\ reply = NoReply /\ alive = TRUE
      /\ txb = <<>> /\ emitted = 0 /\ taken = <<>> /\ rxbuf = <<>> /\ sent = 0 /\ got = <<>>
  BY DEF LinkInit
<1>2. Idle.op = "none" /\ NoReply.line = "none"
  BY DEF Idle, NoReply
<1>3. LinkTypeOK /\ OneAtATime
  BY <1>1, <1>2 DEF LinkTypeOK, OneAtATime, Replies
<1>4. WithPump = <<>> /\ Pumped = <<>>
  BY <1>1, <1>2 DEF WithPump, Pumped
<1>5. From(<<>>, 0) /\ Len(<<>>) = 0
  BY FromNumbered
<1>6. WritesInOrder /\ ReadsInOrder
  BY <1>1, <1>4, <1>5 DEF WritesInOrder, ReadsInOrder
<1> QED
  BY <1>3, <1>6 DEF LinkInv

\* Each step moves bytes on, in order.
LEMMA LinkInvStep == LinkInv /\ [LinkNext]_linkVars => LinkInv'
<1> SUFFICES ASSUME LinkInv, [LinkNext]_linkVars PROVE LinkInv'
  OBVIOUS
<1> USE LinkAssumption
<1>1. /\ LinkTypeOK /\ OneAtATime /\ WritesInOrder /\ ReadsInOrder
  BY DEF LinkInv
<1>2. /\ Idle.op = "none" /\ NoReply.line = "none"
      /\ \A c \in WriteJobs : c.op = "W" /\ c.bytes \in Seq(Nat)
      /\ \A c \in ReadJobs : c.op = "R" /\ c.bytes \in Seq(Nat) /\ c.want \in Nat /\ c.left \in Int
      /\ \A r \in [line : {"D"}, bytes : Seq(Nat)] : r.line = "D" /\ r.bytes \in Seq(Nat)
      /\ \A c \in {Idle} \cup WriteJobs \cup ReadJobs :
           (c.op = "W" => c \in WriteJobs) /\ (c.op = "R" => c \in ReadJobs) /\ (c.op = "none" => c = Idle)
  BY DEF Idle, NoReply, WriteJobs, ReadJobs
<1>3. /\ Len(taken) \in Nat /\ Len(txb) \in Nat /\ Len(WithPump) \in Nat
      /\ Len(got) \in Nat /\ Len(rxbuf) \in Nat /\ Len(Pumped) \in Nat
      /\ sent \in Nat /\ emitted \in Nat /\ alive \in BOOLEAN
      /\ taken \in Seq(Nat) /\ txb \in Seq(Nat) /\ rxbuf \in Seq(Nat)
  BY <1>1 DEF LinkTypeOK, WritesInOrder, ReadsInOrder, From
<1>4. CASE UNCHANGED linkVars
  BY <1>1, <1>4 DEF LinkInv, linkVars, LinkTypeOK, OneAtATime, WritesInOrder, ReadsInOrder,
                    WithPump, Pumped
<1>5. CASE TakeByte
  <2>1. /\ txb # <<>> /\ taken' = taken \o txb /\ txb' = <<>>
        /\ UNCHANGED <<call, job, polled, reply, alive, emitted, rxbuf, sent, got>>
    BY <1>5 DEF TakeByte
  <2>2. LinkTypeOK' /\ ReadsInOrder'
    BY <1>1, <2>1 DEF LinkTypeOK, ReadsInOrder, Pumped
  <2>3. OneAtATime'
    BY <1>1, <2>1 DEF OneAtATime
  <2>4. WritesInOrder'
    <3>1. From(taken', 0) /\ Len(taken') = Len(taken) + Len(txb)
      <4>1. From(txb, 0 + Len(taken))
        BY <1>1, <1>3 DEF WritesInOrder
      <4> QED
        BY <1>1, <2>1, <4>1, FromConcat DEF WritesInOrder
    <3>2. WithPump' = WithPump /\ Len(txb') = 0 /\ From(txb', Len(taken'))
      BY <1>3, <2>1, <3>1, FromNumbered DEF WithPump
    <3>3. Len(taken') + Len(txb') = Len(taken) + Len(txb)
      BY <1>3, <3>1, <3>2
    <3> QED
      BY <1>1, <2>1, <3>1, <3>2, <3>3 DEF WritesInOrder
  <2> QED
    BY <2>2, <2>3, <2>4 DEF LinkInv
<1>6. CASE OfferByte
  BY <1>1, <1>6 DEF OfferByte, LinkInv, LinkTypeOK, OneAtATime, WritesInOrder, ReadsInOrder,
                    WithPump, Pumped
<1>7. CASE PollStatus
  BY <1>1, <1>7 DEF PollStatus, CanWrite, LinkInv, LinkTypeOK, OneAtATime, WritesInOrder,
                    ReadsInOrder, WithPump, Pumped
<1>8. CASE PumpWrite
  <2>1. /\ alive /\ job.op = "W" /\ polled /\ job.bytes # <<>> /\ txb = <<>>
        /\ txb' = <<Head(job.bytes)>> /\ job' = [job EXCEPT !.bytes = Tail(@)] /\ polled' = FALSE
        /\ UNCHANGED <<call, reply, alive, emitted, taken, rxbuf, sent, got>>
    BY <1>1, <1>8 DEF PumpWrite, WriteTxData, OneAtATime
  <2>2. job \in WriteJobs /\ WithPump = job.bytes
    BY <1>1, <1>2, <2>1 DEF LinkTypeOK, WithPump
  <2>3. /\ From(<<Head(job.bytes)>>, Len(taken)) /\ From(Tail(job.bytes), Len(taken) + 1)
        /\ Len(Tail(job.bytes)) = Len(WithPump) - 1 /\ Tail(job.bytes) \in Seq(Nat)
    <3>1. From(job.bytes, Len(taken))
      BY <1>1, <1>3, <2>1, <2>2 DEF WritesInOrder
    <3> QED
      BY <1>3, <2>1, <2>2, <3>1, FromTail
  <2>4. job' \in WriteJobs /\ job'.op = "W" /\ job'.bytes = Tail(job.bytes) /\ job' # Idle
    BY <1>2, <2>1, <2>2, <2>3 DEF WriteJobs, Idle
  <2>5. LinkTypeOK' /\ OneAtATime'
    BY <1>1, <1>2, <2>1, <2>2, <2>4 DEF LinkTypeOK, OneAtATime
  <2>6. ReadsInOrder'
    BY <1>1, <1>2, <2>1, <2>2, <2>4 DEF ReadsInOrder, Pumped
  <2>7. WritesInOrder'
    <3>1. WithPump' = Tail(job.bytes)
      BY <2>4 DEF WithPump
    <3>2. Len(txb) = 0 /\ Len(txb') = 1
      BY <2>1
    <3>3. Len(taken') + Len(txb') = Len(taken) + 1
      BY <2>1, <3>2
    <3>4. /\ From(taken', 0) /\ From(txb', Len(taken')) /\ From(WithPump', Len(taken') + Len(txb'))
      BY <1>1, <2>1, <2>3, <3>1, <3>3 DEF WritesInOrder
    <3>5. Len(WithPump') = Len(WithPump) - 1 /\ Len(taken') = Len(taken)
          /\ Len(taken) + Len(txb) + Len(WithPump) <= sent
          /\ (alive => Len(taken) + Len(txb) + Len(WithPump) = sent)
      BY <1>1, <2>1, <2>3, <3>1 DEF WritesInOrder
    <3>6. Len(txb') <= 1 /\ Len(taken') + Len(txb') + Len(WithPump') <= sent
          /\ (alive => Len(taken') + Len(txb') + Len(WithPump') = sent)
      <4> DEFINE a == Len(taken)
                 p == Len(WithPump)
                 p2 == Len(WithPump')
      <4>1. a \in Nat /\ p \in Nat /\ p2 = p - 1 /\ sent \in Nat /\ alive \in BOOLEAN
            /\ a + 0 + p <= sent /\ (alive => a + 0 + p = sent)
        BY <1>3, <3>2, <3>5
      <4> HIDE DEF a, p, p2
      <4>2. a + 1 + p2 <= sent /\ (alive => a + 1 + p2 = sent)
        BY ONLY <4>1
      <4> QED
        BY <3>2, <3>5, <4>2 DEF a, p2
    <3> QED
      BY <2>1, <3>4, <3>6 DEF WritesInOrder
  <2> QED
    BY <2>5, <2>6, <2>7 DEF LinkInv
<1>9. CASE PumpRead
  <2>1. /\ alive /\ job.op = "R" /\ emitted' = emitted + 1
        /\ job' = [job EXCEPT !.left = @ - 1, !.bytes = Append(@, emitted + 1)]
        /\ UNCHANGED <<call, polled, reply, alive, txb, taken, rxbuf, sent, got>>
    BY <1>9 DEF PumpRead
  <2>2. job \in ReadJobs /\ Pumped = job.bytes /\ job.bytes \in Seq(Nat)
    BY <1>1, <1>2, <2>1 DEF LinkTypeOK, Pumped
  <2>3. /\ job' \in ReadJobs /\ job'.op = "R" /\ job'.bytes = Append(job.bytes, emitted + 1)
        /\ job' # Idle
    <3>1. Append(job.bytes, emitted + 1) \in Seq(Nat)
      BY <1>3, <2>2
    <3>2. job.left - 1 \in Int
      BY <1>2, <2>2
    <3> DEFINE longer == Append(job.bytes, emitted + 1)
               fewer == job.left - 1
    <3>3. job' = [op |-> "R", want |-> job.want, bytes |-> longer, left |-> fewer] /\ job.want \in Nat
      BY <2>1, <2>2 DEF ReadJobs
    <3>4. longer \in Seq(Nat) /\ fewer \in Int
      BY <3>1, <3>2
    <3>5. job'.bytes = longer
      BY <3>3
    <3> HIDE DEF longer, fewer
    <3>6. job' \in ReadJobs /\ job'.op = "R" /\ job' # Idle
      BY <3>3, <3>4 DEF ReadJobs, Idle
    <3> QED
      BY <3>5, <3>6 DEF longer
  <2>4. LinkTypeOK' /\ OneAtATime'
    <3>1. LinkTypeOK'
      BY <1>1, <1>3, <2>1, <2>3 DEF LinkTypeOK
    <3>2. OneAtATime'
      <4>1. OneAtATime /\ job # Idle /\ job.op = "R"
        BY <1>1, <1>2, <2>1
      <4>2. job' # Idle /\ job'.op = "R" /\ UNCHANGED <<call, polled, reply, alive, rxbuf>>
        BY <2>1, <2>3
      <4> QED
        BY <4>1, <4>2 DEF OneAtATime
    <3> QED
      BY <3>1, <3>2
  <2>5. WritesInOrder'
    BY <1>1, <1>2, <2>1, <2>2, <2>3 DEF WritesInOrder, WithPump
  <2>6. ReadsInOrder'
    <3>1. Len(got) + Len(rxbuf) + Len(job.bytes) = emitted /\ From(job.bytes, Len(got) + Len(rxbuf))
      BY <1>1, <2>1, <2>2 DEF ReadsInOrder
    <3>2. /\ From(Append(job.bytes, emitted + 1), Len(got) + Len(rxbuf))
          /\ Len(Append(job.bytes, emitted + 1)) = Len(job.bytes) + 1
      <4> DEFINE k == Len(got) + Len(rxbuf)
                 b == job.bytes
      <4>1. k \in Nat
        BY <1>3
      <4>2. From(b, k) /\ k + Len(b) = emitted
        BY <3>1
      <4> HIDE DEF k, b
      <4>3. From(Append(b, k + Len(b) + 1), k) /\ Len(Append(b, k + Len(b) + 1)) = Len(b) + 1
        BY ONLY <4>1, <4>2, FromAppend
      <4> QED
        BY <4>2, <4>3 DEF k, b
    <3>3. Pumped' = Append(job.bytes, emitted + 1)
      BY <2>3 DEF Pumped
    <3>4. Len(job.bytes) \in Nat
      BY <2>2
    <3>5. Len(got) + Len(rxbuf) + Len(Pumped') = emitted + 1
      <4>1. Len(Pumped') = Len(job.bytes) + 1 /\ Len(got) + Len(rxbuf) + Len(job.bytes) = emitted
        BY <3>1, <3>2, <3>3
      <4> DEFINE a == Len(got)
                 b == Len(rxbuf)
                 c == Len(job.bytes)
                 c2 == Len(Pumped')
      <4>2. a \in Nat /\ b \in Nat /\ c \in Nat /\ c2 = c + 1 /\ a + b + c = emitted
        BY <1>3, <3>4, <4>1
      <4> HIDE DEF a, b, c, c2
      <4>3. a + b + c2 = emitted + 1
        BY ONLY <4>2
      <4> QED
        BY <4>3 DEF a, b, c2
    <3>6. Len(got) + Len(rxbuf) + Len(Pumped') <= emitted'
          /\ Len(got) + Len(rxbuf) + Len(Pumped') = emitted'
      BY <1>3, <2>1, <3>5
    <3> QED
      BY <1>1, <2>1, <3>2, <3>3, <3>6 DEF ReadsInOrder
  <2> QED
    BY <2>4, <2>5, <2>6 DEF LinkInv
<1>10. CASE Reply
  <2>1. /\ alive /\ job' = Idle /\ job # Idle
        /\ UNCHANGED <<call, polled, alive, txb, emitted, taken, rxbuf, sent, got>>
        /\ \/ job.op = "W" /\ job.bytes = <<>> /\ reply' = [line |-> "OK"]
           \/ job.op = "R" /\ reply' = [line |-> "D", bytes |-> job.bytes]
    BY <1>2, <1>10 DEF Reply
  <2>2. call.op = job.op /\ reply = NoReply /\ call # Idle
    BY <1>1, <2>1 DEF OneAtATime
  <2>3. polled = FALSE
    BY <1>1, <1>2, <2>1 DEF OneAtATime, LinkTypeOK
  <2>4. CASE job.op = "W"
    <3>1. reply' = [line |-> "OK"] /\ reply'.line = "OK" /\ reply' \in Replies /\ job.bytes = <<>>
      BY <2>1, <2>4 DEF Replies
    <3>2. LinkTypeOK' /\ OneAtATime'
      BY <1>1, <1>2, <2>1, <2>2, <2>3, <2>4, <3>1 DEF LinkTypeOK, OneAtATime
    <3>3. WithPump' = WithPump /\ Pumped' = Pumped
      BY <1>2, <2>1, <2>2, <2>4, <3>1 DEF WithPump, Pumped
    <3> QED
      BY <1>1, <2>1, <3>2, <3>3 DEF LinkInv, WritesInOrder, ReadsInOrder
  <2>5. CASE job.op = "R"
    <3>1. job.bytes \in Seq(Nat)
      BY <1>1, <1>2, <2>5 DEF LinkTypeOK
    <3>2. /\ reply' = [line |-> "D", bytes |-> job.bytes] /\ reply'.line = "D"
          /\ reply'.bytes = job.bytes /\ reply' \in Replies
      BY <2>1, <2>5, <3>1 DEF Replies
    <3>3. LinkTypeOK' /\ OneAtATime'
      BY <1>1, <1>2, <2>1, <2>2, <2>3, <2>5, <3>2 DEF LinkTypeOK, OneAtATime
    <3>4. WithPump' = WithPump /\ Pumped' = Pumped
      BY <1>2, <2>1, <2>2, <2>5, <3>2 DEF WithPump, Pumped
    <3> QED
      BY <1>1, <2>1, <3>3, <3>4 DEF LinkInv, WritesInOrder, ReadsInOrder
  <2> QED
    BY <2>1, <2>4, <2>5
<1>11. CASE Return
  <2>1. /\ call # Idle /\ reply # NoReply /\ call' = Idle /\ reply' = NoReply
        /\ UNCHANGED <<job, polled, alive, txb, emitted, taken, sent>>
        /\ IF call.op = "R" THEN Serve(IF reply.line = "D" THEN reply.bytes ELSE <<>>, call.want)
           ELSE UNCHANGED <<rxbuf, got>>
    BY <1>11 DEF Return
  <2>2. job = Idle /\ job' = Idle /\ polled = FALSE
    BY <1>1, <1>2, <2>1 DEF OneAtATime, LinkTypeOK
  <2>3. OneAtATime' /\ LinkTypeOK'
    BY <1>1, <1>2, <2>1, <2>2 DEF LinkTypeOK, OneAtATime, Replies
  <2>4. WritesInOrder'
    BY <1>1, <2>1, <2>2 DEF WritesInOrder, WithPump
  <2>5. Pumped' = <<>> /\ Pumped = (IF reply.line = "D" THEN reply.bytes ELSE <<>>)
    BY <1>2, <2>1, <2>2 DEF Pumped
  <2>6. ReadsInOrder'
    <3>1. CASE call.op = "R"
      <4>1. rxbuf = <<>> /\ Len(rxbuf) = 0 /\ Serve(Pumped, call.want) /\ call.want \in Nat
        BY <1>1, <1>2, <2>1, <2>5, <3>1 DEF OneAtATime, LinkTypeOK
      <4>2. From(Pumped, Len(got))
        BY <1>1, <1>3, <4>1 DEF ReadsInOrder
      <4> DEFINE k == IF call.want < Len(Pumped) THEN call.want ELSE Len(Pumped)
      <4>3. /\ k \in 0 .. Len(Pumped) /\ got' = got \o SubSeq(Pumped, 1, k)
            /\ rxbuf' = SubSeq(Pumped, k + 1, Len(Pumped))
        BY <1>3, <4>1 DEF Serve
      <4> HIDE DEF k
      <4>4. /\ From(SubSeq(Pumped, 1, k), Len(got)) /\ Len(SubSeq(Pumped, 1, k)) = k
            /\ From(rxbuf', Len(got) + k) /\ Len(rxbuf') = Len(Pumped) - k
        BY <1>3, <4>2, <4>3, FromSplit
      <4>5. From(got', 0) /\ Len(got') = Len(got) + k
        <5>1. From(SubSeq(Pumped, 1, k), 0 + Len(got)) /\ From(got, 0)
          BY <1>1, <1>3, <4>4 DEF ReadsInOrder
        <5> QED
          BY <4>3, <4>4, <5>1, FromConcat
      <4>6. From(Pumped', Len(got') + Len(rxbuf')) /\ Len(Pumped') = 0
            /\ Len(got') + Len(rxbuf') + Len(Pumped') = Len(got) + Len(rxbuf) + Len(Pumped)
        <5>1. Len(rxbuf') \in Nat /\ Len(got') \in Nat /\ k \in Nat
          BY <1>3, <4>3, <4>4, <4>5
        <5>2. From(Pumped', Len(got') + Len(rxbuf')) /\ Len(Pumped') = 0
          BY <2>5, <5>1, FromNumbered
        <5> QED
          BY ONLY <1>3, <4>1, <4>4, <4>5, <5>1, <5>2
      <4> QED
        BY <1>1, <2>1, <4>4, <4>5, <4>6 DEF ReadsInOrder
    <3>2. CASE call.op # "R"
      <4>1. Pumped = <<>> /\ UNCHANGED <<rxbuf, got>>
        BY <1>1, <2>1, <2>5, <3>2 DEF OneAtATime
      <4> QED
        BY <1>1, <2>1, <2>5, <4>1 DEF ReadsInOrder
    <3> QED
      BY <3>1, <3>2
  <2> QED
    BY <2>3, <2>4, <2>6 DEF LinkInv
<1>12. CASE Die
  <2>1. /\ alive /\ alive' = FALSE /\ job' = Idle /\ polled' = FALSE
        /\ reply' = IF job = Idle THEN reply ELSE [line |-> "empty"]
        /\ UNCHANGED <<call, txb, emitted, taken, rxbuf, sent, got>>
    BY <1>12 DEF Die
  <2>2. LinkTypeOK' /\ OneAtATime'
    BY <1>1, <1>2, <2>1 DEF LinkTypeOK, OneAtATime, Replies
  <2>3. WithPump' = <<>> /\ Len(WithPump') = 0
    BY <1>2, <2>1 DEF WithPump
  <2>4. WritesInOrder'
    BY <1>1, <1>3, <2>1, <2>3, FromNumbered DEF WritesInOrder
  <2>5. Pumped' = Pumped \/ (Pumped' = <<>> /\ Len(Pumped') = 0)
    <3>1. CASE job = Idle
      BY <1>2, <2>1, <3>1 DEF Pumped
    <3>2. CASE job # Idle
      BY <1>2, <2>1, <3>2 DEF Pumped
    <3> QED
      BY <3>1, <3>2
  <2>6. ReadsInOrder'
    <3>1. From(Pumped', Len(got) + Len(rxbuf)) /\ Len(got) + Len(rxbuf) + Len(Pumped') <= emitted
      BY <1>1, <1>3, <2>5, FromNumbered DEF ReadsInOrder
    <3> QED
      BY <1>1, <2>1, <3>1 DEF ReadsInOrder
  <2> QED
    BY <2>2, <2>4, <2>6 DEF LinkInv
<1>13. ASSUME NEW n \in 1 .. Request, Write(n) PROVE LinkInv'
  <2> DEFINE c == [op |-> "W", bytes |-> Numbered(sent, n)]
  <2>1. /\ call = Idle /\ call' = c /\ sent' = sent + n
        /\ IF alive THEN job' = c /\ UNCHANGED reply
           ELSE reply' = [line |-> "empty"] /\ UNCHANGED job
        /\ UNCHANGED <<polled, alive, txb, emitted, taken, rxbuf, got>>
    BY <1>13 DEF Write, Command
  <2>2. /\ From(Numbered(sent, n), sent) /\ Len(Numbered(sent, n)) = n /\ n \in Nat
        /\ Numbered(sent, n) \in Seq(Nat)
    <3>1. /\ From(Numbered(sent, n), sent) /\ Len(Numbered(sent, n)) = n /\ n \in Nat
      BY <1>3, FromNumbered
    <3> QED
      BY <3>1 DEF From
  <2>3. c \in WriteJobs /\ c.op = "W" /\ c.bytes = Numbered(sent, n) /\ c # Idle
    BY <2>2 DEF WriteJobs, Idle
  <2> HIDE DEF c
  <2>4. job = Idle /\ reply = NoReply /\ polled = FALSE /\ WithPump = <<>> /\ Len(WithPump) = 0
        /\ Pumped = <<>>
    BY <1>1, <1>2, <2>1 DEF OneAtATime, LinkTypeOK, WithPump, Pumped
  <2>5. CASE alive
    <3>1. job' = c /\ reply' = NoReply
      BY <2>1, <2>4, <2>5
    <3>2. LinkTypeOK' /\ OneAtATime'
      BY <1>1, <1>2, <1>3, <2>1, <2>2, <2>3, <2>4, <2>5, <3>1 DEF LinkTypeOK, OneAtATime
    <3>3. WithPump' = Numbered(sent, n) /\ Pumped' = Pumped
      BY <1>2, <2>3, <2>4, <3>1 DEF WithPump, Pumped
    <3>4. Len(taken) + Len(txb) = sent
      BY <1>1, <1>3, <2>4, <2>5 DEF WritesInOrder
    <3>5. WritesInOrder'
      <4>1. /\ From(taken', 0) /\ From(txb', Len(taken')) /\ Len(txb') <= 1
            /\ From(WithPump', Len(taken') + Len(txb'))
        BY <1>1, <2>1, <2>2, <3>3, <3>4 DEF WritesInOrder
      <4>2. Len(taken') + Len(txb') + Len(WithPump') = sent'
        BY <1>3, <2>1, <2>2, <3>3, <3>4
      <4>3. Len(taken') + Len(txb') + Len(WithPump') <= sent'
        BY <1>3, <2>1, <2>2, <4>2
      <4> QED
        BY <4>1, <4>2, <4>3 DEF WritesInOrder
    <3> QED
      BY <1>1, <2>1, <3>2, <3>3, <3>5 DEF LinkInv, ReadsInOrder
  <2>6. CASE ~alive
    <3>1. job' = Idle /\ reply' = [line |-> "empty"] /\ reply'.line = "empty"
      BY <2>1, <2>4, <2>6
    <3>2. LinkTypeOK' /\ OneAtATime'
      BY <1>1, <1>2, <1>3, <2>1, <2>2, <2>3, <2>4, <2>6, <3>1 DEF LinkTypeOK, OneAtATime, Replies
    <3>3. WithPump' = WithPump /\ Pumped' = Pumped
      BY <1>2, <2>4, <3>1 DEF WithPump, Pumped
    <3>4. WritesInOrder'
      BY <1>1, <1>3, <2>1, <2>2, <2>6, <3>3 DEF WritesInOrder
    <3> QED
      BY <1>1, <2>1, <3>2, <3>3, <3>4 DEF LinkInv, ReadsInOrder
  <2> QED
    BY <2>5, <2>6
<1>14. ASSUME NEW n \in 1 .. Answer, Read(n) PROVE LinkInv'
  <2>1. call = Idle /\ UNCHANGED <<polled, alive, txb, emitted, taken, sent>>
    BY <1>14 DEF Read
  <2>2. job = Idle /\ reply = NoReply /\ polled = FALSE /\ Pumped = <<>> /\ Len(Pumped) = 0
        /\ WithPump = <<>> /\ n \in Nat
    BY <1>1, <1>2, <2>1 DEF OneAtATime, LinkTypeOK, WithPump, Pumped
  <2>3. CASE rxbuf = <<>>
    <3> DEFINE c == [op |-> "R", want |-> n, bytes |-> <<>>,
                     left |-> IF n > ReadBatch THEN n ELSE ReadBatch]
    <3>1. /\ call' = c /\ UNCHANGED <<rxbuf, got>>
          /\ IF alive THEN job' = c /\ UNCHANGED reply
             ELSE reply' = [line |-> "empty"] /\ UNCHANGED job
      BY <1>14, <2>3 DEF Read, Command
    <3>2. c \in ReadJobs /\ c.op = "R" /\ c.bytes = <<>> /\ c # Idle
      BY <2>2 DEF ReadJobs, Idle
    <3> HIDE DEF c
    <3>3. CASE alive
      <4>1. job' = c /\ reply' = NoReply
        BY <2>2, <3>1, <3>3
      <4>2. LinkTypeOK' /\ OneAtATime'
        BY <1>1, <1>2, <2>1, <2>2, <2>3, <3>1, <3>2, <3>3, <4>1 DEF LinkTypeOK, OneAtATime
      <4>3. WithPump' = WithPump /\ Pumped' = Pumped
        BY <1>2, <2>2, <3>2, <4>1 DEF WithPump, Pumped
      <4> QED
        BY <1>1, <2>1, <3>1, <4>2, <4>3 DEF LinkInv, ReadsInOrder, WritesInOrder
    <3>4. CASE ~alive
      <4>1. job' = Idle /\ reply' = [line |-> "empty"] /\ reply'.line = "empty"
        BY <2>2, <3>1, <3>4
      <4>2. LinkTypeOK' /\ OneAtATime'
        BY <1>1, <1>2, <2>1, <2>2, <2>3, <3>1, <3>2, <3>4, <4>1 DEF LinkTypeOK, OneAtATime, Replies
      <4>3. WithPump' = WithPump /\ Pumped' = Pumped
        BY <1>2, <2>2, <4>1 DEF WithPump, Pumped
      <4> QED
        BY <1>1, <2>1, <3>1, <4>2, <4>3 DEF LinkInv, ReadsInOrder, WritesInOrder
    <3> QED
      BY <3>3, <3>4
  <2>4. CASE rxbuf # <<>>
    <3>1. Serve(rxbuf, n) /\ UNCHANGED <<call, job, reply>>
      BY <1>14, <2>4 DEF Read
    <3>2. LinkTypeOK' /\ OneAtATime' /\ WithPump' = WithPump /\ Pumped' = Pumped
      BY <1>1, <1>2, <2>1, <2>2, <3>1 DEF LinkTypeOK, OneAtATime, WithPump, Pumped
    <3> DEFINE k == IF n < Len(rxbuf) THEN n ELSE Len(rxbuf)
    <3>3. /\ k \in 0 .. Len(rxbuf) /\ got' = got \o SubSeq(rxbuf, 1, k)
          /\ rxbuf' = SubSeq(rxbuf, k + 1, Len(rxbuf))
      BY <1>3, <2>2, <3>1 DEF Serve
    <3> HIDE DEF k
    <3>4. /\ From(SubSeq(rxbuf, 1, k), Len(got)) /\ Len(SubSeq(rxbuf, 1, k)) = k
          /\ From(rxbuf', Len(got) + k) /\ Len(rxbuf') = Len(rxbuf) - k
      BY <1>1, <1>3, <3>3, FromSplit DEF ReadsInOrder
    <3>5. From(got', 0) /\ Len(got') = Len(got) + k
      <4>1. From(SubSeq(rxbuf, 1, k), 0 + Len(got)) /\ From(got, 0)
        BY <1>1, <1>3, <3>4 DEF ReadsInOrder
      <4> QED
        BY <3>3, <3>4, <4>1, FromConcat
    <3>6. From(Pumped', Len(got') + Len(rxbuf')) /\ Len(Pumped') = 0
          /\ Len(got') + Len(rxbuf') + Len(Pumped') = Len(got) + Len(rxbuf) + Len(Pumped)
      <4>1. Len(rxbuf') \in Nat /\ Len(got') \in Nat /\ k \in Nat
        BY <1>3, <3>3, <3>4, <3>5
      <4>2. From(Pumped', Len(got') + Len(rxbuf')) /\ Len(Pumped') = 0
        BY <2>2, <3>2, <4>1, FromNumbered
      <4> QED
        BY ONLY <1>3, <2>2, <3>4, <3>5, <4>1, <4>2
    <3>7. ReadsInOrder'
      BY <1>1, <2>1, <3>4, <3>5, <3>6 DEF ReadsInOrder
    <3> QED
      BY <1>1, <2>1, <3>2, <3>7 DEF LinkInv, WritesInOrder
  <2> QED
    BY <2>3, <2>4
<1> QED
  BY <1>4, <1>5, <1>6, <1>7, <1>8, <1>9, <1>10, <1>11, <1>12, <1>13, <1>14
     DEF LinkNext, Device, Pump

\* Whatever the lengths of requests, answers and reads, and whenever the pump
\* dies: in each direction the bytes arrive in order and once, and none is lost
\* while the pump lives (scope_jtag.sv 16-19, jtag.py 58-67).
THEOREM LinkCarriesBytes == LinkSpec => []BytesCarried
  BY LinkInvInit, LinkInvStep, LinkInvCarries, PTL DEF LinkSpec

----------------------------------------------------------------------------
(* The clock-crossing FIFO.  First the Gray code: neighbours differ in one *)
(* bit, so a pointer sampled in transit reads as the old or the new one,   *)
(* and opposite pointers differ in the top two bits; then the invariant:   *)
(* each side knows where the other was some edges ago.                     *)

\* The laws of powers of two that the pointers need.
LEMMA Powers ==
  /\ TwoTo[0] = 1
  /\ \A i \in Nat : TwoTo[i] \in Nat /\ TwoTo[i] > 0 /\ TwoTo[i + 1] = 2 * TwoTo[i]
<1>1. Doubling(TwoTo)
  BY DoublingExists, Zenon DEF TwoTo, Doubling
<1> HIDE DEF TwoTo
<1> QED
  BY <1>1, DoublingLaws

----------------------------------------------------------------------------
(* Bits.                                                                   *)

\* n without its lowest i bits.
Quot(n, i) == n \div TwoTo[i]

\* Dropping one more bit halves.
LEMMA Halving ==
  ASSUME NEW n \in Nat, NEW i \in Nat
  PROVE  /\ Quot(n, i) \in Nat
         /\ Quot(n, i + 1) = Quot(n, i) \div 2
<1> DEFINE p == TwoTo[i]
           a == n \div p
           r == n % p
           b == a \div 2
           c == a % 2
<1>1. p \in Nat /\ p > 0 /\ TwoTo[i + 1] = 2 * p
  BY Powers
<1> HIDE DEF p
<1>2. a \in Nat /\ r \in 0 .. p - 1 /\ n = p * a + r
  BY <1>1, Z3
<1> HIDE DEF a, r
<1>3. b \in Nat /\ c \in 0 .. 1 /\ a = 2 * b + c
  BY <1>2, Z3
<1> HIDE DEF b, c
<1>4. n = (2 * p) * b + (c * p + r)
  BY <1>1, <1>2, <1>3, Z3
<1>5. c * p + r \in 0 .. 2 * p - 1
  <2>1. c = 0 \/ c = 1
    BY <1>3
  <2> QED BY <1>1, <1>2, <2>1
<1>6. n \div (2 * p) = b
  <2>1. \A x, y, z \in Nat : z < y => (y * x + z) \div y = x
    BY Z3
  <2> QED
    BY <1>1, <1>3, <1>4, <1>5, <2>1
<1>7. Quot(n, i) = a /\ Quot(n, i + 1) = n \div (2 * p)
  BY <1>1 DEF Quot, a, p
<1> QED
  BY <1>2, <1>6, <1>7 DEF b

\* A bit is 0 or 1.
LEMMA BitRange ==
  ASSUME NEW n \in Nat, NEW i \in Nat
  PROVE  Bit(n, i) = Quot(n, i) % 2 /\ Bit(n, i) \in {0, 1} /\ Quot(n, 0) = n
<1>1. Quot(n, i) \in Nat
  BY Halving
<1>2. Quot(n, 0) = n
  BY Powers, Z3 DEF Quot
<1>3. Bit(n, i) = Quot(n, i) % 2
  BY DEF Bit, Quot
<1> QED
  BY <1>1, <1>2, <1>3

\* The carry of n + 1 into bit i.
Carry(n, i) == Quot(n + 1, i) = Quot(n, i) + 1

\* Above the last carry the bits of n + 1 are those of n; below it they are
\* all inverted.
LEMMA CarryStep ==
  ASSUME NEW n \in Nat, NEW i \in Nat,
         Carry(n, i) \/ Quot(n + 1, i) = Quot(n, i)
  PROVE  /\ Carry(n, i + 1) \/ Quot(n + 1, i + 1) = Quot(n, i + 1)
         /\ Carry(n, i + 1) => Carry(n, i)
         /\ ~Carry(n, i) => Bit(n + 1, i) = Bit(n, i)
         /\ Carry(n, i) => Bit(n + 1, i) = 1 - Bit(n, i)
         /\ Carry(n, i) /\ ~Carry(n, i + 1) => Bit(n, i) = 0
         /\ Carry(n, i + 1) => Bit(n, i) = 1
<1> DEFINE a == Quot(n, i)
           b == Quot(n + 1, i)
<1>1. a \in Nat /\ b \in Nat /\ (b = a + 1 \/ b = a)
      /\ Quot(n, i + 1) = a \div 2 /\ Quot(n + 1, i + 1) = b \div 2
      /\ Bit(n, i) = a % 2 /\ Bit(n + 1, i) = b % 2
  BY Halving, BitRange DEF Carry
<1> HIDE DEF a, b
<1>2. Carry(n, i) <=> b = a + 1
  BY DEF Carry, a, b
<1>3. Carry(n, i + 1) <=> b \div 2 = (a \div 2) + 1
  BY <1>1 DEF Carry
<1>4. Quot(n, i) = a /\ Quot(n + 1, i) = b
  BY DEF a, b
<1> QED
  BY <1>1, <1>2, <1>3, <1>4, Z3

\* At every bit there is a carry or there is none.
LEMMA CarryCases ==
  ASSUME NEW n \in Nat
  PROVE  \A i \in Nat : Carry(n, i) \/ Quot(n + 1, i) = Quot(n, i)
<1> DEFINE Bad == {i \in Nat : ~(Carry(n, i) \/ Quot(n + 1, i) = Quot(n, i))}
<1> SUFFICES ASSUME Bad # {} PROVE FALSE
  OBVIOUS
<1>1. PICK i \in Bad : \A y \in Bad : i <= y
  BY LeastNatural, Bad \in SUBSET Nat
<1>2. CASE i = 0
  BY <1>1, <1>2, BitRange DEF Carry
<1>3. CASE i # 0
  <2>1. i - 1 \in Nat /\ i - 1 \notin Bad /\ i - 1 + 1 = i
    BY <1>1, <1>3
  <2> QED
    BY <1>1, <2>1, CarryStep
<1> QED
  BY <1>2, <1>3

\* Neighbouring numbers differ in one bit of their Gray code at most.
LEMMA GrayNeighbours ==
  ASSUME NEW n \in Nat
  PROVE  \E j \in Nat : \A i \in 0 .. DepthLog2 : i # j => Gray(n + 1)[i] = Gray(n)[i]
<1> USE DepthLog2Assumption
<1> DEFINE Dead == {i \in Nat : ~Carry(n, i)}
<1>0. \A i \in Nat : /\ Carry(n, i + 1) => Carry(n, i)
                     /\ ~Carry(n, i) => Bit(n + 1, i) = Bit(n, i)
                     /\ Carry(n, i) => Bit(n + 1, i) = 1 - Bit(n, i)
                     /\ Bit(n, i) \in {0, 1}
  BY CarryCases, CarryStep, BitRange
<1>1. ASSUME NEW i \in 0 .. DepthLog2,
             Carry(n, i + 1) \/ ~Carry(n, i)
      PROVE  Gray(n + 1)[i] = Gray(n)[i]
  <2>1. i \in Nat /\ i + 1 \in Nat
    OBVIOUS
  <2>2. /\ Gray(n + 1)[i] = (Bit(n + 1, i) + Bit(n + 1, i + 1)) % 2
        /\ Gray(n)[i] = (Bit(n, i) + Bit(n, i + 1)) % 2
    BY DEF Gray
  <2>3. CASE Carry(n, i + 1)
    <3>1. /\ Bit(n + 1, i) = 1 - Bit(n, i) /\ Bit(n + 1, i + 1) = 1 - Bit(n, i + 1)
          /\ Bit(n, i) \in {0, 1} /\ Bit(n, i + 1) \in {0, 1}
      BY <1>0, <2>1, <2>3
    <3> QED
      BY <2>2, <3>1
  <2>4. CASE ~Carry(n, i)
    <3>1. Bit(n + 1, i) = Bit(n, i) /\ Bit(n + 1, i + 1) = Bit(n, i + 1)
      BY <1>0, <2>1, <2>4
    <3> QED
      BY <2>2, <3>1
  <2> QED
    BY <1>1, <2>3, <2>4
<1>2. CASE Dead = {}
  BY <1>1, <1>2
<1>3. CASE Dead # {}
  <2>1. PICK d \in Dead : \A y \in Dead : d <= y
    BY <1>3, LeastNatural, Dead \in SUBSET Nat
  <2>2. ASSUME NEW i \in Nat, i >= d, Carry(n, i) PROVE FALSE
    <3> DEFINE Again == {k \in Nat : k >= d /\ Carry(n, k)}
    <3>1. PICK k \in Again : \A y \in Again : k <= y
      BY <2>2, LeastNatural, Again \in SUBSET Nat
    <3>2. k # d
      BY <2>1, <3>1
    <3>3. k - 1 \in Nat /\ k - 1 >= d /\ k - 1 \notin Again /\ k - 1 + 1 = k
      BY <2>1, <3>1, <3>2
    <3>4. Carry(n, k - 1)
      BY <1>0, <3>1, <3>3
    <3> QED
      BY <3>3, <3>4
  <2>3. ASSUME NEW i \in 0 .. DepthLog2, i + 1 # d
        PROVE  Gray(n + 1)[i] = Gray(n)[i]
    <3>1. CASE i + 1 < d
      <4>1. i + 1 \in Nat /\ i + 1 \notin Dead
        BY <2>1, <3>1
      <4> QED
        BY <1>1, <4>1
    <3>2. CASE i + 1 > d
      <4>1. i \in Nat /\ i >= d
        BY <2>1, <3>2
      <4> QED
        BY <1>1, <2>2, <4>1
    <3> QED
      BY <2>1, <2>3, <3>1, <3>2
  <2>4. CASE d = 0
    BY <2>3, <2>4
  <2>5. CASE d # 0
    <3>1. d - 1 \in Nat
      BY <2>1, <2>5
    <3> QED
      BY <2>1, <2>3, <3>1
  <2> QED
    BY <2>4, <2>5
<1> QED
  BY <1>2, <1>3

\* The quotients of the buffer length are the powers of two below it.
LEMMA QuotOfSlots ==
  /\ \A i \in 0 .. DepthLog2 : \E c \in Nat :
       /\ \A r \in Nat : Quot(r + Slots, i) = Quot(r, i) + c
       /\ Quot(Pointers - 1, i) = 2 * c - 1 /\ c > 0
       /\ i < DepthLog2 => c % 2 = 0
       /\ i = DepthLog2 => c = 1
<1> USE DepthLog2Assumption
<1> DEFINE Good(i) == /\ \A r \in Nat : Quot(r + Slots, i) = Quot(r, i) + TwoTo[DepthLog2 - i]
                      /\ Quot(Pointers - 1, i) = 2 * TwoTo[DepthLog2 - i] - 1
           Bad == {i \in 0 .. DepthLog2 : ~Good(i)}
<1>0. Slots \in Nat /\ Slots > 0 /\ Pointers = 2 * Slots
  BY Powers DEF Slots, Pointers
<1>1. Bad = {}
  <2> SUFFICES ASSUME Bad # {} PROVE FALSE
    OBVIOUS
  <2>1. PICK i \in Bad : \A y \in Bad : i <= y
    BY LeastNatural, Bad \in SUBSET Nat
  <2>2. CASE i = 0
    <3>1. \A r \in Nat : Quot(r, 0) = r
      BY BitRange
    <3>2. Pointers - 1 \in Nat /\ DepthLog2 - 0 = DepthLog2
      BY <1>0
    <3>3. Good(0)
      BY <1>0, <3>1, <3>2 DEF Slots
    <3> QED
      BY <2>1, <2>2, <3>3
  <2>3. CASE i # 0
    <3>1. i - 1 \in Nat /\ i - 1 \notin Bad /\ i - 1 + 1 = i /\ i - 1 \in 0 .. DepthLog2
      BY <2>1, <2>3
    <3>2. Good(i - 1)
      BY <3>1
    <3> DEFINE c == TwoTo[DepthLog2 - i]
    <3>3. c \in Nat /\ c > 0 /\ TwoTo[DepthLog2 - (i - 1)] = 2 * c
      <4>1. DepthLog2 - i \in Nat /\ DepthLog2 - (i - 1) = DepthLog2 - i + 1
        BY <2>1
      <4> QED
        BY <4>1, Powers
    <3> HIDE DEF c
    <3>4. ASSUME NEW r \in Nat PROVE Quot(r + Slots, i) = Quot(r, i) + c
      <4>1. r + Slots \in Nat
        BY <1>0
      <4>2. /\ Quot(r + Slots, i) = Quot(r + Slots, i - 1) \div 2
            /\ Quot(r, i) = Quot(r, i - 1) \div 2
            /\ Quot(r, i - 1) \in Nat
        BY <3>1, <4>1, Halving
      <4>3. Quot(r + Slots, i - 1) = Quot(r, i - 1) + 2 * c
        BY <3>2, <3>3
      <4> HIDE DEF Good, Bad
      <4> QED
        BY <3>3, <4>2, <4>3
    <3>5. Quot(Pointers - 1, i) = 2 * c - 1
      <4>1. Pointers - 1 \in Nat
        BY <1>0
      <4>2. Quot(Pointers - 1, i) = Quot(Pointers - 1, i - 1) \div 2
        BY <3>1, <4>1, Halving
      <4>3. Quot(Pointers - 1, i - 1) = 2 * (2 * c) - 1
        BY <3>2, <3>3
      <4> HIDE DEF Good, Bad
      <4> QED
        BY <3>3, <4>2, <4>3
    <3>6. Good(i)
      BY <3>4, <3>5 DEF c
    <3> QED
      BY <2>1, <3>6
  <2> QED
    BY <2>2, <2>3
<1>2. ASSUME NEW i \in 0 .. DepthLog2
      PROVE  \E c \in Nat :
               /\ \A r \in Nat : Quot(r + Slots, i) = Quot(r, i) + c
               /\ Quot(Pointers - 1, i) = 2 * c - 1 /\ c > 0
               /\ i < DepthLog2 => c % 2 = 0
               /\ i = DepthLog2 => c = 1
  <2> DEFINE c == TwoTo[DepthLog2 - i]
  <2>1. Good(i)
    BY <1>1
  <2>2. c \in Nat /\ c > 0
    BY Powers
  <2>3. i = DepthLog2 => c = 1
    BY Powers
  <2>4. i < DepthLog2 => c % 2 = 0
    <3>1. i < DepthLog2 => DepthLog2 - i - 1 \in Nat /\ DepthLog2 - i - 1 + 1 = DepthLog2 - i
      OBVIOUS
    <3>2. i < DepthLog2 => c = 2 * TwoTo[DepthLog2 - i - 1] /\ TwoTo[DepthLog2 - i - 1] \in Nat
      BY <3>1, Powers
    <3> HIDE DEF c, Good
    <3> QED
      BY <3>2
  <2>5. /\ \A r \in Nat : Quot(r + Slots, i) = Quot(r, i) + c
        /\ Quot(Pointers - 1, i) = 2 * c - 1
    BY <2>1
  <2> HIDE DEF c, Good
  <2> QED
    BY <2>2, <2>3, <2>4, <2>5
<1> QED
  BY <1>2

\* Numbers below the pointer range have no bit above DepthLog2, and the top
\* bit tells the two halves apart.
LEMMA TopBits ==
  ASSUME NEW r \in Nat
  PROVE  /\ r < Slots => Bit(r, DepthLog2) = 0
         /\ r >= Slots /\ r < Pointers => Bit(r, DepthLog2) = 1
         /\ r < Pointers => Bit(r, DepthLog2 + 1) = 0
<1> USE DepthLog2Assumption
<1> DEFINE q == Quot(r, DepthLog2)
<1>1. Slots \in Nat /\ Slots > 0 /\ Pointers = 2 * Slots /\ q = r \div Slots
  BY Powers DEF Slots, Pointers, Quot
<1>2. /\ q \in Nat /\ Bit(r, DepthLog2) = q % 2
      /\ Bit(r, DepthLog2 + 1) = (q \div 2) % 2
  BY Halving, BitRange
<1> HIDE DEF q
<1>3. \A x, y \in Nat : /\ x < y => x \div y = 0
                        /\ x >= y /\ x < 2 * y => x \div y = 1
  BY Z3
<1>4. (r < Slots => q = 0) /\ (r >= Slots /\ r < Pointers => q = 1)
  BY <1>1, <1>3
<1> QED
  BY <1>1, <1>2, <1>4

\* The Gray codes of a whole buffer's distance differ in the top two bits and
\* nowhere else: the pattern wfull looks for (prim_fifo_async.sv 56-62).
Opposite(g) == [i \in 0 .. DepthLog2 |-> IF i >= DepthLog2 - 1 THEN 1 - g[i] ELSE g[i]]

\* A pointer a whole buffer ahead in the first half.
LEMMA GrayOppositeUp ==
  ASSUME NEW r \in 0 .. Slots - 1
  PROVE  Gray(r + Slots) = Opposite(Gray(r))
<1> USE DepthLog2Assumption
<1>0. Slots \in Nat /\ Slots > 0 /\ Pointers = 2 * Slots /\ r \in Nat
      /\ r + Slots \in Nat /\ r + Slots >= Slots /\ r + Slots < Pointers /\ r < Slots
      /\ r < Pointers
  <2>1. Slots \in Nat /\ Slots > 0 /\ Pointers = 2 * Slots
    BY Powers DEF Slots, Pointers
  <2> QED BY <2>1
<1>1. ASSUME NEW i \in 0 .. DepthLog2 - 1
      PROVE  Bit(r + Slots, i) = Bit(r, i)
  <2>1. PICK c \in Nat : Quot(r + Slots, i) = Quot(r, i) + c /\ c % 2 = 0
    BY <1>0, QuotOfSlots
  <2>2. Quot(r, i) \in Nat
    BY <1>0, Halving
  <2>3. Bit(r + Slots, i) = Quot(r + Slots, i) % 2 /\ Bit(r, i) = Quot(r, i) % 2
    BY <1>0, BitRange
  <2> QED
    BY <2>1, <2>2, <2>3
<1>2. /\ Bit(r, DepthLog2) = 0 /\ Bit(r + Slots, DepthLog2) = 1
      /\ Bit(r, DepthLog2 + 1) = 0 /\ Bit(r + Slots, DepthLog2 + 1) = 0
  BY <1>0, TopBits
<1>3. ASSUME NEW i \in 0 .. DepthLog2
      PROVE  Gray(r + Slots)[i] = IF i >= DepthLog2 - 1 THEN 1 - Gray(r)[i] ELSE Gray(r)[i]
  <2>1. /\ Gray(r + Slots)[i] = (Bit(r + Slots, i) + Bit(r + Slots, i + 1)) % 2
        /\ Gray(r)[i] = (Bit(r, i) + Bit(r, i + 1)) % 2
    BY DEF Gray
  <2>2. CASE i < DepthLog2 - 1
    <3>1. i \in 0 .. DepthLog2 - 1 /\ i + 1 \in 0 .. DepthLog2 - 1
      BY <2>2
    <3> QED
      BY <1>1, <2>1, <2>2, <3>1
  <2>3. CASE i = DepthLog2 - 1
    <3>1. i \in 0 .. DepthLog2 - 1 /\ i + 1 = DepthLog2
      BY <2>3
    <3>2. Bit(r, i) \in {0, 1} /\ Bit(r + Slots, i) = Bit(r, i)
      BY <1>0, <1>1, <3>1, BitRange
    <3> QED
      BY <1>2, <2>1, <2>3, <3>1, <3>2
  <2>4. CASE i = DepthLog2
    BY <1>2, <2>1, <2>4
  <2> QED
    BY <2>2, <2>3, <2>4
<1> QED
  BY <1>3 DEF Opposite, Gray

\* A pointer a whole buffer ahead, around the wrap too.
LEMMA GrayOpposite ==
  ASSUME NEW r \in 0 .. Pointers - 1, NEW wptr \in 0 .. Pointers - 1,
         wptr = r + Slots \/ r = wptr + Slots
  PROVE  Gray(wptr) = Opposite(Gray(r))
<1> USE DepthLog2Assumption
<1>0. Slots \in Nat /\ Slots > 0 /\ Pointers = 2 * Slots
  BY Powers DEF Slots, Pointers
<1>1. CASE wptr = r + Slots
  <2>1. r \in 0 .. Slots - 1
    BY <1>0, <1>1
  <2> QED
    BY <1>1, <2>1, GrayOppositeUp
<1>2. CASE r = wptr + Slots
  <2>1. wptr \in 0 .. Slots - 1 /\ wptr \in Nat
    BY <1>0, <1>2
  <2>2. Gray(r) = Opposite(Gray(wptr))
    BY <1>2, <2>1, GrayOppositeUp
  <2>3. ASSUME NEW i \in 0 .. DepthLog2
        PROVE  Gray(wptr)[i] \in {0, 1}
    <3>1. Bit(wptr, i) \in {0, 1} /\ Bit(wptr, i + 1) \in {0, 1}
      BY <2>1, BitRange
    <3> QED
      BY <3>1 DEF Gray
  <2>4. Gray(wptr) = Opposite(Opposite(Gray(wptr)))
    <3>1. Gray(wptr) = [i \in 0 .. DepthLog2 |-> Gray(wptr)[i]]
      BY DEF Gray
    <3> QED
      BY <2>3, <3>1 DEF Opposite
  <2> QED
    BY <2>2, <2>4
<1> QED
  BY <1>1, <1>2

----------------------------------------------------------------------------
\* The pointer k places ahead.
Beyond(p, k) == IF p + k < Pointers THEN p + k ELSE p + k - Pointers

\* One place ahead changes one bit of the Gray code, around the wrap too.
LEMMA GrayAdjacent ==
  ASSUME NEW n \in 0 .. Pointers - 1
  PROVE  \E j \in Nat : \A i \in 0 .. DepthLog2 : i # j => Gray(Beyond(n, 1))[i] = Gray(n)[i]
<1> USE DepthLog2Assumption
<1>0. Slots \in Nat /\ Slots > 0 /\ Pointers = 2 * Slots
  BY Powers DEF Slots, Pointers
<1>1. CASE n + 1 < Pointers
  <2>1. Beyond(n, 1) = n + 1 /\ n \in Nat
    BY <1>0, <1>1 DEF Beyond
  <2>2. \E j \in Nat : \A i \in 0 .. DepthLog2 : i # j => Gray(n + 1)[i] = Gray(n)[i]
    BY <2>1, GrayNeighbours
  <2> QED
    BY <2>1, <2>2
<1>2. CASE n = Pointers - 1
  <2>1. Beyond(n, 1) = 0 /\ n \in Nat
    BY <1>0, <1>2 DEF Beyond
  <2>2. ASSUME NEW i \in 0 .. DepthLog2
        PROVE  Bit(n, i) = 1 /\ Bit(0, i) = 0
    <3>1. PICK c \in Nat : Quot(n, i) = 2 * c - 1 /\ c > 0
      BY <1>2, QuotOfSlots
    <3>2. Quot(0, i) = 0
      <4>1. TwoTo[i] \in Nat /\ TwoTo[i] > 0
        BY Powers
      <4> QED
        BY <4>1, Z3 DEF Quot
    <3>3. Bit(n, i) = Quot(n, i) % 2 /\ Bit(0, i) = Quot(0, i) % 2
      BY <2>1, BitRange
    <3> QED
      BY <3>1, <3>2, <3>3
  <2>3. ASSUME NEW i \in 0 .. DepthLog2, i # DepthLog2
        PROVE  Gray(0)[i] = Gray(n)[i]
    <3>1. i + 1 \in 0 .. DepthLog2
      BY <2>3
    <3> QED
      BY <2>2, <3>1 DEF Gray
  <2> QED
    BY <2>1, <2>3
<1> QED
  BY <1>0, <1>1, <1>2

\* A code in flight while its pointer advances by one arrives as the old or as
\* the new one, whichever bits the synchroniser catches.
LEMMA TornIsOneOfTwo ==
  ASSUME NEW n \in 0 .. Pointers - 1, NEW k \in 0 .. 1,
         NEW g \in Torn(Gray(n), Gray(Beyond(n, k)))
  PROVE  g = Gray(n) \/ g = Gray(Beyond(n, k))
<1>0. DepthLog2 \in Nat /\ Pointers \in Nat
  BY DepthLog2Assumption, Powers DEF Pointers, Slots
<1>1. g \in Word /\ \A i \in 0 .. DepthLog2 : g[i] \in {Gray(n)[i], Gray(Beyond(n, k))[i]}
  BY DEF Torn, Word
<1>2. PICK j \in Nat : \A i \in 0 .. DepthLog2 : i # j => Gray(Beyond(n, k))[i] = Gray(n)[i]
  <2>1. CASE k = 0
    <3>1. Beyond(n, k) = n
      BY <1>0, <2>1 DEF Beyond
    <3> QED
      BY <3>1
  <2>2. CASE k = 1
    BY <2>2, GrayAdjacent
  <2> QED
    BY <2>1, <2>2
<1>3. \A m : Gray(m) = [i \in 0 .. DepthLog2 |-> Gray(m)[i]]
  BY DEF Gray
<1>4. g = [i \in 0 .. DepthLog2 |-> g[i]]
  BY <1>1 DEF Word
<1>5. CASE j \notin 0 .. DepthLog2 \/ g[j] = Gray(n)[j]
  <2>1. \A i \in 0 .. DepthLog2 : g[i] = Gray(n)[i]
    BY <1>1, <1>2, <1>5
  <2> QED
    BY <1>3, <1>4, <2>1
<1>6. CASE j \in 0 .. DepthLog2 /\ g[j] = Gray(Beyond(n, k))[j]
  <2>1. \A i \in 0 .. DepthLog2 : g[i] = Gray(Beyond(n, k))[i]
    BY <1>1, <1>2, <1>6
  <2> QED
    BY <1>3, <1>4, <2>1
<1> QED
  BY <1>1, <1>5, <1>6

----------------------------------------------------------------------------
(* The invariant.                                                          *)

AsyncTypeOK ==
  /\ mem \in [0 .. Slots - 1 -> Values] /\ rdData \in Values
  /\ wbin \in 0 .. Pointers - 1 /\ rbin \in 0 .. Pointers - 1
  /\ wfull \in BOOLEAN /\ ramEmpty \in BOOLEAN /\ outVld \in BOOLEAN

\* Words in the ring, and the pointer k places behind.
Distance == (wbin - rbin) % Pointers
Behind(p, k) == IF k <= p THEN p - k ELSE p - k + Pointers

\* Each side knows where the other was some edges ago, at two stages: the
\* write side never sees more room and the read side never more words than
\* there are, and their flags are as careful.
StaleViews ==
  /\ wgray = Gray(wbin) /\ rgray = Gray(rbin)
  /\ \E d1, d2 \in 0 .. Slots :
       /\ wqRgray = <<Gray(Behind(wbin, d1)), Gray(Behind(wbin, d2))>>
       /\ Distance <= d1 /\ d1 <= d2 /\ (~wfull => d2 < Slots)
  /\ \E e1, e2 \in 0 .. Slots :
       /\ rqWgray = <<Gray(Beyond(rbin, e1)), Gray(Beyond(rbin, e2))>>
       /\ e2 <= e1 /\ e1 <= Distance /\ (~ramEmpty => e2 > 0)

AsyncInv == AsyncTypeOK /\ StaleViews

\* The sizes of the buffer and of the pointer range.
LEMMA Sizes == Slots \in Nat /\ Slots > 0 /\ Pointers \in Nat /\ Pointers = 2 * Slots
BY DepthLog2Assumption, Powers DEF Slots, Pointers

\* A number near a ring, reduced to it.
LEMMA RingModulus ==
  ASSUME NEW n \in Nat, n > 0, NEW x \in Int, 0 - n <= x, x < 3 * n
  PROVE  x % n = IF x < 0 THEN x + n ELSE IF x < n THEN x
                 ELSE IF x < 2 * n THEN x - n ELSE x - 2 * n
<1>1. CASE x < 0                     BY <1>1, Z3
<1>2. CASE x >= 0 /\ x < n           BY <1>2, Z3
<1>3. CASE x >= n /\ x < 2 * n       BY <1>3, Z3
<1>4. CASE x >= 2 * n                BY <1>4, Z3
<1> QED
  BY <1>1, <1>2, <1>3, <1>4

\* Pointer differences without a modulus.
LEMMA DistanceLinear ==
  ASSUME NEW a \in 0 .. Pointers - 1, NEW b \in 0 .. Pointers - 1
  PROVE  (a - b) % Pointers = IF b <= a THEN a - b ELSE a - b + Pointers
BY Sizes, RingModulus

\* One edge of either clock or of both, as numbers: pushed words taken in,
\* fetched words moved to the output stage, popped words given away.
CountedEdge(putting, pushed, fetched, popped, held, held2) ==
  /\ wbin' = Beyond(wbin, pushed) /\ wgray' = Gray(wbin')
  /\ rbin' = Beyond(rbin, fetched) /\ rgray' = Gray(rbin')
  /\ mem' = IF pushed = 1 THEN [mem EXCEPT ![wbin % Slots] = putting[1]] ELSE mem
  /\ rdData' = IF fetched = 1 THEN mem[rbin % Slots] ELSE rdData
  /\ held = (IF outVld THEN 1 ELSE 0) /\ held2 = (IF outVld' THEN 1 ELSE 0)
  /\ held2 = held + fetched - popped /\ outVld' \in BOOLEAN
  /\ pushed = 1 => ~wfull /\ putting # <<>>
  /\ fetched = 1 => ~ramEmpty /\ (held = 0 \/ popped = 1)
  /\ popped = 1 => held = 1

\* What an edge does to the view of the write side.
WriteViewEdge(pushed) ==
  \/ pushed = 0 /\ UNCHANGED <<wqRgray, wfull>>
  \/ /\ \E r \in {rbin, rbin'} : wqRgray' = <<Gray(r), wqRgray[1]>>
     /\ wfull' = Full(Gray(wbin'))

\* What an edge does to the view of the read side.
ReadViewEdge(fetched) ==
  \/ fetched = 0 /\ UNCHANGED <<rqWgray, ramEmpty>>
  \/ /\ \E wptr \in {wbin, wbin'} : rqWgray' = <<Gray(wptr), rqWgray[1]>>
     /\ ramEmpty' = Empty(Gray(rbin'))

\* The pointers after an edge.
LEMMA NextPointers ==
  ASSUME AsyncTypeOK, NEW pushed, NEW ready
  PROVE  /\ WNext(pushed) = Beyond(wbin, IF Push(pushed) THEN 1 ELSE 0)
         /\ RNext(ready) = Beyond(rbin, IF Fetches(ready) THEN 1 ELSE 0)
<1>1. \A p \in 0 .. Pointers - 1, k \in 0 .. 1 : (p + k) % Pointers = Beyond(p, k)
  <2> TAKE p \in 0 .. Pointers - 1, k \in 0 .. 1
  <2>1. p + k \in Int /\ 0 - Pointers <= p + k /\ p + k < 3 * Pointers /\ 0 <= p + k
        /\ p + k < 2 * Pointers /\ Pointers > 0
    BY Sizes
  <2> QED
    BY <2>1, Sizes, RingModulus DEF Beyond
<1>2. (IF Push(pushed) THEN 1 ELSE 0) \in 0 .. 1 /\ (IF Fetches(ready) THEN 1 ELSE 0) \in 0 .. 1
  OBVIOUS
<1> QED
  BY <1>1, <1>2 DEF WNext, RNext, AsyncTypeOK

\* Every step is such an edge.
LEMMA EdgeShape ==
  ASSUME AsyncInv, FifoAsyncNext
  PROVE  \E putting \in Offered, pushed, fetched, popped, held, held2 \in 0 .. 1 :
           /\ CountedEdge(putting, pushed, fetched, popped, held, held2)
           /\ WriteViewEdge(pushed) /\ ReadViewEdge(fetched)
<1>0. AsyncTypeOK /\ wgray = Gray(wbin) /\ rgray = Gray(rbin)
      /\ outVld \in BOOLEAN
  BY DEF AsyncInv, StaleViews, AsyncTypeOK
<1> DEFINE Num(b) == IF b THEN 1 ELSE 0
<1>1. \A p \in 0 .. Pointers - 1 : Beyond(p, 0) = p
  BY Sizes DEF Beyond
<1>2. wbin \in 0 .. Pointers - 1 /\ rbin \in 0 .. Pointers - 1
  BY <1>0 DEF AsyncTypeOK
<1>3. ASSUME NEW putting \in Offered, NEW seen, WriteEdge(putting, seen)
      PROVE  /\ wbin' = Beyond(wbin, Num(Push(putting))) /\ wgray' = Gray(wbin')
             /\ mem' = IF Num(Push(putting)) = 1
                       THEN [mem EXCEPT ![wbin % Slots] = putting[1]] ELSE mem
             /\ Num(Push(putting)) = 1 => ~wfull /\ putting # <<>>
             /\ wqRgray' = <<seen, wqRgray[1]>> /\ wfull' = Full(Gray(wbin'))
  <2>1. WNext(putting) = Beyond(wbin, Num(Push(putting)))
    BY <1>0, NextPointers
  <2>2. Push(putting) <=> Num(Push(putting)) = 1
    OBVIOUS
  <2>3. Push(putting) => ~wfull /\ putting # <<>>
    BY DEF Push
  <2> QED
    BY <1>3, <2>1, <2>2, <2>3 DEF WriteEdge
<1>4. ASSUME NEW ready \in BOOLEAN, NEW seen, ReadEdge(ready, seen)
      PROVE  /\ rbin' = Beyond(rbin, Num(Fetches(ready))) /\ rgray' = Gray(rbin')
             /\ rdData' = IF Num(Fetches(ready)) = 1 THEN mem[rbin % Slots] ELSE rdData
             /\ Num(outVld') = Num(outVld) + Num(Fetches(ready)) - Num(outVld /\ ready)
             /\ outVld' \in BOOLEAN
             /\ Num(Fetches(ready)) = 1 =>
                  ~ramEmpty /\ (Num(outVld) = 0 \/ Num(outVld /\ ready) = 1)
             /\ Num(outVld /\ ready) = 1 => Num(outVld) = 1
             /\ rqWgray' = <<seen, rqWgray[1]>> /\ ramEmpty' = Empty(Gray(rbin'))
  <2>1. RNext(ready) = Beyond(rbin, Num(Fetches(ready)))
    BY <1>0, NextPointers
  <2>2. Fetches(ready) <=> Num(Fetches(ready)) = 1
    OBVIOUS
  <2>3. /\ outVld' <=> Fetches(ready) \/ (outVld /\ ~ready)
        /\ Fetches(ready) => ~ramEmpty /\ (~outVld \/ ready)
        /\ outVld' \in BOOLEAN
    BY <1>4, Zenon DEF ReadEdge, Fetches
  <2>4. Num(outVld') = Num(outVld) + Num(Fetches(ready)) - Num(outVld /\ ready)
    BY ONLY <2>3
  <2>5. /\ Num(Fetches(ready)) = 1 =>
             ~ramEmpty /\ (Num(outVld) = 0 \/ Num(outVld /\ ready) = 1)
        /\ Num(outVld /\ ready) = 1 => Num(outVld) = 1
    BY ONLY <2>3
  <2>6. /\ rbin' = RNext(ready) /\ rgray' = Gray(RNext(ready))
        /\ ramEmpty' = Empty(Gray(RNext(ready)))
        /\ rdData' = IF Fetches(ready) THEN mem[rbin % Slots] ELSE rdData
        /\ rqWgray' = <<seen, rqWgray[1]>>
    BY <1>4, Zenon DEF ReadEdge
  <2> HIDE DEF Num
  <2> QED
    BY <2>1, <2>2, <2>3, <2>4, <2>5, <2>6
<1>5. \A b : Num(b) \in 0 .. 1
  OBVIOUS
<1>6. CASE WriteClock
  <2>1. PICK putting \in Offered : WriteEdge(putting, rgray) /\ UNCHANGED rside
    BY <1>6 DEF WriteClock
  <2>2. CountedEdge(putting, Num(Push(putting)), 0, 0, Num(outVld), Num(outVld))
    BY <1>0, <1>1, <1>2, <1>3, <2>1 DEF CountedEdge, rside
  <2>3. WriteViewEdge(Num(Push(putting))) /\ ReadViewEdge(0)
    BY <1>0, <1>3, <2>1 DEF WriteViewEdge, ReadViewEdge, rside
  <2> HIDE DEF Num
  <2> QED
    BY <1>5, <2>1, <2>2, <2>3
<1>7. CASE ReadClock
  <2>1. PICK ready \in BOOLEAN : ReadEdge(ready, wgray) /\ UNCHANGED wside
    BY <1>7 DEF ReadClock
  <2>2. /\ wbin' = Beyond(wbin, 0) /\ wgray' = Gray(wbin') /\ mem' = mem
        /\ wqRgray' = wqRgray /\ wfull' = wfull
    BY <1>0, <1>1, <1>2, <2>1 DEF wside
  <2>3. CountedEdge(<<>>, 0, Num(Fetches(ready)), Num(outVld /\ ready), Num(outVld), Num(outVld'))
    BY <1>4, <2>1, <2>2 DEF CountedEdge
  <2>4. WriteViewEdge(0) /\ ReadViewEdge(Num(Fetches(ready)))
    BY <1>0, <1>4, <2>1, <2>2 DEF WriteViewEdge, ReadViewEdge
  <2>5. <<>> \in Offered
    BY DEF Offered
  <2> HIDE DEF Num
  <2> QED
    BY <1>5, <2>3, <2>4, <2>5
<1>8. CASE BothClocks
  <2>1. PICK putting \in Offered, ready \in BOOLEAN :
          \E ws \in Torn(rgray, Gray(RNext(ready))), rs \in Torn(wgray, Gray(WNext(putting))) :
            WriteEdge(putting, ws) /\ ReadEdge(ready, rs)
    BY <1>8 DEF BothClocks
  <2>2. PICK ws \in Torn(rgray, Gray(RNext(ready))), rs \in Torn(wgray, Gray(WNext(putting))) :
          WriteEdge(putting, ws) /\ ReadEdge(ready, rs)
    BY <2>1
  <2>3. CountedEdge(putting, Num(Push(putting)), Num(Fetches(ready)), Num(outVld /\ ready),
                    Num(outVld), Num(outVld'))
    BY <1>3, <1>4, <2>2 DEF CountedEdge
  <2>4. ws = Gray(rbin) \/ ws = Gray(rbin')
    <3>1. ws \in Torn(Gray(rbin), Gray(Beyond(rbin, Num(Fetches(ready)))))
          /\ rbin' = Beyond(rbin, Num(Fetches(ready)))
      BY <1>0, <1>4, <2>2, NextPointers
    <3> HIDE DEF Num
    <3> QED
      BY <1>2, <1>5, <3>1, TornIsOneOfTwo
  <2>5. rs = Gray(wbin) \/ rs = Gray(wbin')
    <3>1. rs \in Torn(Gray(wbin), Gray(Beyond(wbin, Num(Push(putting)))))
          /\ wbin' = Beyond(wbin, Num(Push(putting)))
      BY <1>0, <1>3, <2>2, NextPointers
    <3> HIDE DEF Num
    <3> QED
      BY <1>2, <1>5, <3>1, TornIsOneOfTwo
  <2>6. WriteViewEdge(Num(Push(putting))) /\ ReadViewEdge(Num(Fetches(ready)))
    BY <1>3, <1>4, <2>2, <2>4, <2>5 DEF WriteViewEdge, ReadViewEdge
  <2> HIDE DEF Num
  <2> QED
    BY <1>5, <2>1, <2>3, <2>6
<1> QED
  BY <1>6, <1>7, <1>8 DEF FifoAsyncNext

\* Pushed and fetched words change the distance.
LEMMA DistanceStep ==
  ASSUME AsyncInv, NEW pushed \in 0 .. 1, NEW fetched \in 0 .. 1,
         wbin' = Beyond(wbin, pushed), rbin' = Beyond(rbin, fetched),
         pushed = 1 => Distance < Slots, fetched = 1 => Distance > 0
  PROVE  /\ Distance \in 0 .. Slots /\ Distance' = Distance + pushed - fetched
         /\ wbin' \in 0 .. Pointers - 1 /\ rbin' \in 0 .. Pointers - 1
<1>1. /\ wbin \in 0 .. Pointers - 1 /\ rbin \in 0 .. Pointers - 1 /\ Distance <= Slots
  <2>1. wbin \in 0 .. Pointers - 1 /\ rbin \in 0 .. Pointers - 1
    BY DEF AsyncInv, AsyncTypeOK
  <2>2. Distance \in Int
    BY <2>1, Sizes, DistanceLinear DEF Distance
  <2>3. PICK d \in 0 .. Slots : Distance <= d
    BY Zenon DEF AsyncInv, StaleViews
  <2> QED
    BY <2>1, <2>2, <2>3, Sizes
<1>2. wbin' \in 0 .. Pointers - 1 /\ rbin' \in 0 .. Pointers - 1
  BY <1>1, Sizes DEF Beyond
<1>3. /\ Distance = (IF rbin <= wbin THEN wbin - rbin ELSE wbin - rbin + Pointers)
      /\ Distance' = (IF rbin' <= wbin' THEN wbin' - rbin' ELSE wbin' - rbin' + Pointers)
  BY <1>1, <1>2, DistanceLinear DEF Distance
<1> QED
  BY <1>1, <1>2, <1>3, Sizes DEF Beyond

\* The write side keeps a careful view of the read pointer.
LEMMA WriteViewStep ==
  ASSUME AsyncInv, NEW pushed \in 0 .. 1, NEW fetched \in 0 .. 1,
         wbin' = Beyond(wbin, pushed), rbin' = Beyond(rbin, fetched),
         pushed = 1 => ~wfull, Distance' = Distance + pushed - fetched,
         wbin' \in 0 .. Pointers - 1, rbin' \in 0 .. Pointers - 1,
         Distance' \in 0 .. Slots,
         WriteViewEdge(pushed)
  PROVE  \E d1, d2 \in 0 .. Slots :
           /\ wqRgray' = <<Gray(Behind(wbin', d1)), Gray(Behind(wbin', d2))>>
           /\ Distance' <= d1 /\ d1 <= d2 /\ (~wfull' => d2 < Slots)
<1>1. PICK d1, d2 \in 0 .. Slots :
        /\ wqRgray = <<Gray(Behind(wbin, d1)), Gray(Behind(wbin, d2))>>
        /\ Distance <= d1 /\ d1 <= d2 /\ (~wfull => d2 < Slots)
  BY DEF AsyncInv, StaleViews
<1>2. /\ wbin \in 0 .. Pointers - 1 /\ rbin \in 0 .. Pointers - 1
  BY DEF AsyncInv, AsyncTypeOK
<1>3. /\ Distance = (IF rbin <= wbin THEN wbin - rbin ELSE wbin - rbin + Pointers)
      /\ Distance' = (IF rbin' <= wbin' THEN wbin' - rbin' ELSE wbin' - rbin' + Pointers)
  BY <1>2, DistanceLinear DEF Distance
<1>4. CASE pushed = 0 /\ UNCHANGED <<wqRgray, wfull>>
  <2>1. wbin' = wbin
    BY <1>2, <1>4, Sizes DEF Beyond
  <2>2. Distance' <= d1
    BY <1>1, <1>3, <1>4, Sizes
  <2> QED
    BY <1>1, <1>4, <2>1, <2>2
<1>5. CASE /\ \E r \in {rbin, rbin'} : wqRgray' = <<Gray(r), wqRgray[1]>>
           /\ wfull' = Full(Gray(wbin'))
  <2>1. PICK r \in {rbin, rbin'} : wqRgray' = <<Gray(r), wqRgray[1]>>
    BY <1>5
  <2> DEFINE n1 == IF r = rbin' THEN Distance' ELSE Distance + pushed
             n2 == d1 + pushed
  <2>2. n2 \in 0 .. Slots /\ d2 + pushed <= Slots
    BY <1>1, Sizes
  <2>3. n1 \in 0 .. Slots /\ Distance' <= n1 /\ n1 <= n2
    BY <1>1, <1>3, <2>2, Sizes
  <2>4. r = Behind(wbin', n1)
    <3>1. CASE r = rbin'
      BY <1>3, <3>1, Sizes DEF Behind
    <3>2. CASE r # rbin' /\ r = rbin
      <4>1. n1 = Distance + pushed
        BY <3>2
      <4>2. wbin' = IF wbin + pushed < Pointers THEN wbin + pushed ELSE wbin + pushed - Pointers
        BY DEF Beyond
      <4> HIDE DEF n1
      <4> QED
        BY ONLY <1>1, <1>2, <1>3, <2>2, <2>3, <3>2, <4>1, <4>2, Sizes, pushed \in 0 .. 1 DEF Behind
    <3> QED
      BY <2>1, <3>1, <3>2
  <2>5. wqRgray[1] = Gray(Behind(wbin', n2))
    <3>1. Behind(wbin', n2) = Behind(wbin, d1)
      BY <1>1, <1>2, <2>2, Sizes DEF Behind, Beyond
    <3> QED
      BY <1>1, <3>1
  <2>6. ~wfull' => n2 < Slots
    <3> SUFFICES ASSUME n2 = Slots PROVE wfull'
      BY <2>2, Sizes
    <3>1. d1 = d2
      BY <1>1, <2>2, Sizes
    <3>2. wqRgray[2] = Gray(Behind(wbin', Slots))
      BY <1>1, <2>5, <3>1
    <3>3. Gray(wbin') = Opposite(Gray(Behind(wbin', Slots)))
      <4>1. Behind(wbin', Slots) \in 0 .. Pointers - 1
            /\ (wbin' = Behind(wbin', Slots) + Slots \/ Behind(wbin', Slots) = wbin' + Slots)
        BY Sizes DEF Behind
      <4> QED
        BY <4>1, GrayOpposite
    <3> QED
      BY <1>5, <3>2, <3>3 DEF Full, Opposite
  <2> HIDE DEF n1, n2
  <2> QED
    BY <2>1, <2>2, <2>3, <2>4, <2>5, <2>6
<1> QED
  BY <1>4, <1>5 DEF WriteViewEdge

\* The read side keeps a careful view of the write pointer.
LEMMA ReadViewStep ==
  ASSUME AsyncInv, NEW pushed \in 0 .. 1, NEW fetched \in 0 .. 1,
         wbin' = Beyond(wbin, pushed), rbin' = Beyond(rbin, fetched),
         fetched = 1 => ~ramEmpty, Distance' = Distance + pushed - fetched,
         wbin' \in 0 .. Pointers - 1, rbin' \in 0 .. Pointers - 1,
         Distance' \in 0 .. Slots,
         ReadViewEdge(fetched)
  PROVE  \E e1, e2 \in 0 .. Slots :
           /\ rqWgray' = <<Gray(Beyond(rbin', e1)), Gray(Beyond(rbin', e2))>>
           /\ e2 <= e1 /\ e1 <= Distance' /\ (~ramEmpty' => e2 > 0)
<1>1. PICK e1, e2 \in 0 .. Slots :
        /\ rqWgray = <<Gray(Beyond(rbin, e1)), Gray(Beyond(rbin, e2))>>
        /\ e2 <= e1 /\ e1 <= Distance /\ (~ramEmpty => e2 > 0)
  BY DEF AsyncInv, StaleViews
<1>2. /\ wbin \in 0 .. Pointers - 1 /\ rbin \in 0 .. Pointers - 1
  BY DEF AsyncInv, AsyncTypeOK
<1>3. /\ Distance = (IF rbin <= wbin THEN wbin - rbin ELSE wbin - rbin + Pointers)
      /\ Distance' = (IF rbin' <= wbin' THEN wbin' - rbin' ELSE wbin' - rbin' + Pointers)
  BY <1>2, DistanceLinear DEF Distance
<1>4. CASE fetched = 0 /\ UNCHANGED <<rqWgray, ramEmpty>>
  <2>1. rbin' = rbin
    BY <1>2, <1>4, Sizes DEF Beyond
  <2>2. e1 <= Distance'
    BY <1>1, <1>3, <1>4, Sizes
  <2> QED
    BY <1>1, <1>4, <2>1, <2>2
<1>5. CASE /\ \E wptr \in {wbin, wbin'} : rqWgray' = <<Gray(wptr), rqWgray[1]>>
           /\ ramEmpty' = Empty(Gray(rbin'))
  <2>1. PICK wptr \in {wbin, wbin'} : rqWgray' = <<Gray(wptr), rqWgray[1]>>
    BY <1>5
  <2> DEFINE n1 == IF wptr = wbin' THEN Distance' ELSE Distance - fetched
             n2 == e1 - fetched
  <2>2. n2 \in 0 .. Slots
    BY <1>1, Sizes
  <2>3. n1 \in 0 .. Slots /\ n1 <= Distance' /\ n2 <= n1
    BY <1>1, <1>3, <2>2, Sizes
  <2>4. wptr = Beyond(rbin', n1)
    <3>1. CASE wptr = wbin'
      BY <1>3, <3>1, Sizes DEF Beyond
    <3>2. CASE wptr # wbin' /\ wptr = wbin
      <4>1. n1 = Distance - fetched
        BY <3>2
      <4>2. rbin' = IF rbin + fetched < Pointers THEN rbin + fetched ELSE rbin + fetched - Pointers
        BY DEF Beyond
      <4> HIDE DEF n1
      <4> QED
        BY ONLY <1>1, <1>2, <1>3, <2>2, <2>3, <3>2, <4>1, <4>2, Sizes, fetched \in 0 .. 1 DEF Beyond
    <3> QED
      BY <2>1, <3>1, <3>2
  <2>5. rqWgray[1] = Gray(Beyond(rbin', n2))
    <3>1. Beyond(rbin', n2) = Beyond(rbin, e1)
      BY <1>1, <1>2, <2>2, Sizes DEF Beyond
    <3> QED
      BY <1>1, <3>1
  <2>6. ~ramEmpty' => n2 > 0
    <3> SUFFICES ASSUME n2 = 0 PROVE ramEmpty'
      BY <2>2, Sizes
    <3>1. e1 = e2
      BY <1>1, Sizes
    <3>2. rqWgray[2] = Gray(rbin')
      <4>1. Beyond(rbin', 0) = rbin'
        BY Sizes DEF Beyond
      <4> QED
        BY <1>1, <2>5, <3>1, <4>1
    <3> QED
      BY <1>5, <3>2 DEF Empty
  <2> HIDE DEF n1, n2
  <2> QED
    BY <2>1, <2>2, <2>3, <2>4, <2>5, <2>6
<1> QED
  BY <1>4, <1>5 DEF ReadViewEdge

\* What an edge may rely on: room for a word pushed, a word to be fetched.
LEMMA EdgeGuards ==
  ASSUME AsyncInv
  PROVE  /\ ~wfull => Distance < Slots
         /\ ~ramEmpty => Distance > 0
<1>1. Distance \in Int
  BY Sizes, DistanceLinear DEF AsyncInv, AsyncTypeOK, Distance
<1> QED
  BY <1>1, Sizes DEF AsyncInv, StaleViews

\* The invariant holds in the first cycle after both resets.
LEMMA AsyncInit == FifoAsyncInit => AsyncInv
<1> SUFFICES ASSUME FifoAsyncInit PROVE AsyncInv
  OBVIOUS
<1>1. AsyncTypeOK
  <2>1. mem \in [0 .. Slots - 1 -> Values] /\ rdData \in Values
    BY Zenon DEF FifoAsyncInit
  <2>2. wbin = 0 /\ rbin = 0
    BY Zenon DEF FifoAsyncInit
  <2>3. wfull \in BOOLEAN /\ ramEmpty \in BOOLEAN /\ outVld \in BOOLEAN
    BY Zenon DEF FifoAsyncInit
  <2>4. wbin \in 0 .. Pointers - 1 /\ rbin \in 0 .. Pointers - 1
    BY <2>2, Sizes
  <2> QED
    BY <2>1, <2>3, <2>4, Zenon DEF AsyncTypeOK
<1>2. wbin = 0 /\ rbin = 0 /\ wfull = TRUE /\ ramEmpty = TRUE
      /\ wgray = Gray(0) /\ rgray = Gray(0)
      /\ wqRgray = <<Gray(0), Gray(0)>> /\ rqWgray = <<Gray(0), Gray(0)>>
  BY Zenon DEF FifoAsyncInit
<1>3. Distance = 0 /\ Behind(wbin, 0) = 0 /\ Beyond(rbin, 0) = 0 /\ 0 \in 0 .. Slots
  BY <1>2, Sizes, DistanceLinear DEF Distance, Behind, Beyond
<1>4. StaleViews
  BY <1>2, <1>3 DEF StaleViews
<1> QED
  BY <1>1, <1>4 DEF AsyncInv

\* Any edge of either clock preserves the invariant.
LEMMA AsyncStep == AsyncInv /\ [FifoAsyncNext]_asyncVars => AsyncInv'
<1> SUFFICES ASSUME AsyncInv, FifoAsyncNext PROVE AsyncInv'
  BY DEF asyncVars, wside, rside, AsyncInv, AsyncTypeOK, StaleViews, Distance, Gray
<1>1. PICK putting \in Offered, pushed, fetched, popped, held, held2 \in 0 .. 1 :
           /\ CountedEdge(putting, pushed, fetched, popped, held, held2)
           /\ WriteViewEdge(pushed) /\ ReadViewEdge(fetched)
  BY EdgeShape
<1>2. /\ wbin' = Beyond(wbin, pushed) /\ wgray' = Gray(wbin')
      /\ rbin' = Beyond(rbin, fetched) /\ rgray' = Gray(rbin')
      /\ pushed = 1 => ~wfull /\ putting # <<>>
      /\ fetched = 1 => ~ramEmpty
      /\ mem' = IF pushed = 1 THEN [mem EXCEPT ![wbin % Slots] = putting[1]] ELSE mem
      /\ rdData' = IF fetched = 1 THEN mem[rbin % Slots] ELSE rdData
      /\ outVld' \in BOOLEAN
  BY <1>1, Zenon DEF CountedEdge
<1>3. /\ Distance \in 0 .. Slots /\ Distance' = Distance + pushed - fetched
      /\ wbin' \in 0 .. Pointers - 1 /\ rbin' \in 0 .. Pointers - 1
  BY <1>2, EdgeGuards, DistanceStep
<1>4. Distance' \in 0 .. Slots
  BY <1>2, <1>3, EdgeGuards, Sizes
<1>5. \E d1, d2 \in 0 .. Slots :
           /\ wqRgray' = <<Gray(Behind(wbin', d1)), Gray(Behind(wbin', d2))>>
           /\ Distance' <= d1 /\ d1 <= d2 /\ (~wfull' => d2 < Slots)
  BY <1>1, <1>2, <1>3, <1>4, WriteViewStep
<1>6. \E e1, e2 \in 0 .. Slots :
           /\ rqWgray' = <<Gray(Beyond(rbin', e1)), Gray(Beyond(rbin', e2))>>
           /\ e2 <= e1 /\ e1 <= Distance' /\ (~ramEmpty' => e2 > 0)
  BY <1>1, <1>2, <1>3, <1>4, ReadViewStep
<1>7. StaleViews'
  BY <1>2, <1>5, <1>6 DEF StaleViews, Behind, Beyond, Gray, Bit
<1>8. AsyncTypeOK'
  <2>1. /\ mem \in [0 .. Slots - 1 -> Values] /\ rdData \in Values
        /\ wbin % Slots \in 0 .. Slots - 1 /\ rbin % Slots \in 0 .. Slots - 1
    BY Sizes DEF AsyncInv, AsyncTypeOK
  <2>2. pushed = 1 => putting[1] \in Values
    BY <1>2 DEF Offered
  <2>3. mem' \in [0 .. Slots - 1 -> Values] /\ rdData' \in Values
    BY <1>2, <2>1, <2>2
  <2>4. wfull' \in BOOLEAN /\ ramEmpty' \in BOOLEAN
    <3>1. wfull \in BOOLEAN /\ ramEmpty \in BOOLEAN
      BY DEF AsyncInv, AsyncTypeOK
    <3>2. wfull' \in BOOLEAN
      <4>1. Full(Gray(wbin')) \in BOOLEAN
        BY DEF Full
      <4> QED
        BY <1>1, <3>1, <4>1, Zenon DEF WriteViewEdge
    <3>3. ramEmpty' \in BOOLEAN
      <4>1. Empty(Gray(rbin')) \in BOOLEAN
        BY DEF Empty
      <4> QED
        BY <1>1, <3>1, <4>1, Zenon DEF ReadViewEdge
    <3> QED
      BY <3>2, <3>3
  <2> QED
    BY <1>2, <1>3, <2>3, <2>4 DEF AsyncTypeOK
<1> QED
  BY <1>7, <1>8 DEF AsyncInv

\* The invariant holds in every state.
LEMMA AsyncInvariant == FifoAsyncSpec => []AsyncInv
BY AsyncInit, AsyncStep, PTL DEF FifoAsyncSpec
----------------------------------------------------------------------------
(* The ring and its output stage are a queue.                              *)

Held == IF outVld THEN 1 ELSE 0
Place(k) == (rbin + k) % Slots

\* A place of the ring without a modulus.
LEMMA PlaceLinear ==
  ASSUME NEW p \in 0 .. Pointers - 1, NEW k \in 0 .. Slots
  PROVE  (p + k) % Slots = IF p + k < Slots THEN p + k
                           ELSE IF p + k < 2 * Slots THEN p + k - Slots ELSE p + k - 2 * Slots
<1>1. p + k \in Int /\ 0 <= p + k /\ p + k < 3 * Slots
  BY Sizes
<1> QED
  BY <1>1, Sizes, RingModulus

\* A place of the ring after a fetch.
LEMMA PlaceAfter ==
  ASSUME NEW r \in 0 .. Pointers - 1, NEW f \in 0 .. 1, NEW k \in 0 .. Slots - 1
  PROVE  (Beyond(r, f) + k) % Slots = (r + (k + f)) % Slots
<1>1. Beyond(r, f) = (IF r + f = Pointers THEN 0 ELSE r + f) /\ Beyond(r, f) \in 0 .. Pointers - 1
      /\ k \in 0 .. Slots /\ k + f \in 0 .. Slots
  BY Sizes DEF Beyond
<1>2. (Beyond(r, f) + k) % Slots
         = IF Beyond(r, f) + k < Slots THEN Beyond(r, f) + k
           ELSE IF Beyond(r, f) + k < 2 * Slots THEN Beyond(r, f) + k - Slots
           ELSE Beyond(r, f) + k - 2 * Slots
  BY <1>1, PlaceLinear
<1>3. (r + (k + f)) % Slots
         = IF r + (k + f) < Slots THEN r + (k + f)
           ELSE IF r + (k + f) < 2 * Slots THEN r + (k + f) - Slots
           ELSE r + (k + f) - 2 * Slots
  BY <1>1, PlaceLinear
<1> QED
  BY <1>1, <1>2, <1>3, Sizes

\* The places of the ring: the written one at the end, and none twice.
LEMMA Places ==
  ASSUME NEW wptr \in 0 .. Pointers - 1, NEW r \in 0 .. Pointers - 1, NEW d \in 0 .. Slots,
         d = (wptr - r) % Pointers
  PROVE  /\ wptr % Slots = (r + d) % Slots
         /\ \A k \in 0 .. Slots : (r + k) % Slots \in 0 .. Slots - 1
         /\ \A k \in 0 .. Slots - 1 :
              d < Slots /\ k # d => (r + k) % Slots # (r + d) % Slots
<1>1. d = IF r <= wptr THEN wptr - r ELSE wptr - r + Pointers
  BY DistanceLinear
<1>2. wptr % Slots = (r + d) % Slots
  <2>1. wptr \in Int /\ 0 - Slots <= wptr /\ wptr < 3 * Slots /\ ~(wptr < 0) /\ wptr < 2 * Slots
    BY Sizes
  <2>2. wptr % Slots = IF wptr < 0 THEN wptr + Slots ELSE IF wptr < Slots THEN wptr
                    ELSE IF wptr < 2 * Slots THEN wptr - Slots ELSE wptr - 2 * Slots
    BY <2>1, Sizes, RingModulus, Zenon
  <2>4. wptr % Slots = IF wptr < Slots THEN wptr ELSE wptr - Slots
    BY <2>1, <2>2, Zenon
  <2>3. (r + d) % Slots = IF r + d < Slots THEN r + d
                           ELSE IF r + d < 2 * Slots THEN r + d - Slots ELSE r + d - 2 * Slots
    BY PlaceLinear
  <2> QED
    BY <1>1, <2>3, <2>4, Sizes
<1>3. ASSUME NEW k \in 0 .. Slots PROVE (r + k) % Slots \in 0 .. Slots - 1
  BY Sizes, PlaceLinear
<1>4. ASSUME NEW k \in 0 .. Slots - 1, d < Slots, k # d
      PROVE  (r + k) % Slots # (r + d) % Slots
  <2>1. (r + k) % Slots = IF r + k < Slots THEN r + k
                           ELSE IF r + k < 2 * Slots THEN r + k - Slots ELSE r + k - 2 * Slots
    BY Sizes, PlaceLinear
  <2>2. (r + d) % Slots = IF r + d < Slots THEN r + d
                           ELSE IF r + d < 2 * Slots THEN r + d - Slots ELSE r + d - 2 * Slots
    BY PlaceLinear
  <2>3. Slots \in Nat /\ k \in 0 .. Slots - 1 /\ d \in 0 .. Slots - 1 /\ k # d /\ r \in Nat
    BY <1>4, Sizes
  <2> DEFINE x == (r + k) % Slots
             y == (r + d) % Slots
  <2>4. /\ x = IF r + k < Slots THEN r + k
               ELSE IF r + k < 2 * Slots THEN r + k - Slots ELSE r + k - 2 * Slots
        /\ y = IF r + d < Slots THEN r + d
               ELSE IF r + d < 2 * Slots THEN r + d - Slots ELSE r + d - 2 * Slots
    BY <2>1, <2>2
  <2> HIDE DEF x, y
  <2>5. x # y
    BY ONLY <2>3, <2>4
  <2> QED
    BY <2>5 DEF x, y
<1> QED
  BY <1>2, <1>3, <1>4

\* The word put behind a sequence.
LEMMA LastWord ==
  ASSUME NEW S, NEW a \in Seq(S), NEW b \in Seq(S), Len(b) = 1
  PROVE  (a \o b)[Len(a) + 1] = b[1]
<1> DEFINE m == Len(a)
           last == m + 1
<1>1. m \in Nat /\ last \in 1 .. m + 1 /\ ~(last <= m) /\ last - m = 1
  OBVIOUS
<1>2. last \in 1 .. Len(a) + Len(b)
  BY <1>1
<1> HIDE DEF last
<1>3. (a \o b)[last] = IF last <= Len(a) THEN a[last] ELSE b[last - Len(a)]
  BY ONLY <1>2, a \in Seq(S), b \in Seq(S), ConcatProperties
<1> QED
  BY <1>1, <1>3 DEF last

\* A sequence put behind another.
LEMMA Joined ==
  ASSUME NEW S, NEW a \in Seq(S), NEW b \in Seq(S), NEW m \in Nat, NEW n \in Nat,
         Len(a) = m, Len(b) = n
  PROVE  /\ a \o b \in Seq(S) /\ Len(a \o b) = m + n
         /\ \A i \in 1 .. m + n : (a \o b)[i] = IF i <= m THEN a[i] ELSE b[i - m]
<1>1. a \o b \in Seq(S) /\ Len(a \o b) = m + n
  OBVIOUS
<1>2. \A i \in 1 .. m + n : (a \o b)[i] = IF i <= m THEN a[i] ELSE b[i - m]
  OBVIOUS
<1> QED
  BY <1>1, <1>2

\* The queue, word by word.
Shape ==
  /\ Contents \in Seq(Values) /\ Len(Contents) = Held + Distance
  /\ \A i \in 1 .. Held + Distance :
       Contents[i] = IF Held = 1 /\ i = 1 THEN rdData ELSE mem[Place(i - 1 - Held)]

\* The contents have that shape in this state.
LEMMA ShapeNow == AsyncInv /\ Distance \in 0 .. Slots => Shape
<1> SUFFICES ASSUME AsyncInv, Distance \in 0 .. Slots PROVE Shape
  OBVIOUS
<1> DEFINE ring  == [i \in 1 .. Distance |-> mem[(rbin + i - 1) % Slots]]
           stage == IF outVld THEN <<rdData>> ELSE <<>>
<1>1. /\ mem \in [0 .. Slots - 1 -> Values] /\ rdData \in Values
      /\ rbin \in 0 .. Pointers - 1 /\ wbin \in 0 .. Pointers - 1
  BY DEF AsyncInv, AsyncTypeOK
<1>2. Held \in 0 .. 1
  BY DEF Held
<1> DEFINE d == Distance
<1>0. d \in 0 .. Slots /\ d = (wbin - rbin) % Pointers
  BY DEF Distance
<1> HIDE DEF d
<1>3. ASSUME NEW i \in 1 .. d
      PROVE  Place(i - 1) \in 0 .. Slots - 1 /\ (rbin + i - 1) % Slots = Place(i - 1)
  <2>1. i - 1 \in 0 .. Slots /\ rbin + i - 1 = rbin + (i - 1)
    BY <1>0, <1>1, Sizes
  <2>2. \A k \in 0 .. Slots : (rbin + k) % Slots \in 0 .. Slots - 1
    BY <1>0, <1>1, Places
  <2> QED
    BY <2>1, <2>2 DEF Place
<1>4. ring \in Seq(Values) /\ Len(ring) = Distance
      /\ \A i \in 1 .. Distance : ring[i] = mem[Place(i - 1)]
  <2>1. ring = [i \in 1 .. d |-> mem[(rbin + i - 1) % Slots]]
    BY DEF d
  <2>2. \A i \in 1 .. d : mem[(rbin + i - 1) % Slots] = mem[Place(i - 1)] /\ mem[Place(i - 1)] \in Values
    BY <1>1, <1>3
  <2>3. ring \in Seq(Values) /\ Len(ring) = d /\ \A i \in 1 .. d : ring[i] = mem[Place(i - 1)]
    <3> HIDE DEF ring
    <3>1. ring \in [1 .. d -> Values]
      BY <2>1, <2>2
    <3>2. d \in Nat
      BY <1>0, Sizes
    <3> QED
      BY <2>1, <2>2, <3>1, <3>2
  <2> QED
    BY <2>3 DEF d
<1>5. stage \in Seq(Values) /\ Len(stage) = Held /\ (Held = 1 => stage[1] = rdData)
  BY <1>1 DEF Held
<1>6. Contents = stage \o ring
  BY Zenon DEF Contents, Distance
<1> HIDE DEF ring, stage
<1>7. /\ Contents \in Seq(Values) /\ Len(Contents) = Held + Distance
      /\ \A i \in 1 .. Held + Distance :
           Contents[i] = IF i <= Held THEN stage[i] ELSE ring[i - Held]
  <2>1. Distance \in Nat /\ Held \in Nat
    BY <1>2, Sizes
  <2>2. ring \in Seq(Values) /\ Len(ring) = Distance /\ stage \in Seq(Values) /\ Len(stage) = Held
    BY <1>4, <1>5
  <2>3. /\ stage \o ring \in Seq(Values) /\ Len(stage \o ring) = Held + Distance
        /\ \A i \in 1 .. Held + Distance :
             (stage \o ring)[i] = IF i <= Held THEN stage[i] ELSE ring[i - Held]
    <3> HIDE DEF Held, Distance
    <3>1. stage \o ring \in Seq(Values) /\ Len(stage \o ring) = Held + Distance
      BY ONLY <2>1, <2>2
    <3>2. \A i \in 1 .. Held + Distance :
             (stage \o ring)[i] = IF i <= Held THEN stage[i] ELSE ring[i - Held]
      BY ONLY <2>1, <2>2
    <3> QED
      BY ONLY <3>1, <3>2
  <2> QED
    BY ONLY <1>6, <2>3
<1>8. ASSUME NEW i \in 1 .. Held + Distance
      PROVE  Contents[i] = IF Held = 1 /\ i = 1 THEN rdData ELSE mem[Place(i - 1 - Held)]
  <2>1. CASE i <= Held
    BY <1>2, <1>5, <1>7, <2>1
  <2>2. CASE i > Held
    <3>1. i - Held \in 1 .. Distance /\ ~(Held = 1 /\ i = 1) /\ ~(i <= Held)
          /\ i - Held - 1 = i - 1 - Held
      BY ONLY <1>2, <2>2, i \in 1 .. Held + Distance, Distance \in 0 .. Slots, Sizes
    <3>2. ring[i - Held] = mem[Place(i - Held - 1)]
      BY <1>4, <3>1
    <3> QED
      BY <1>7, <3>1, <3>2
  <2> QED
    BY ONLY <1>2, <2>1, <2>2, i \in 1 .. Held + Distance, Distance \in 0 .. Slots, Sizes
<1> QED
  BY <1>7, <1>8 DEF Shape

\* And in the next.
LEMMA ShapeNext == AsyncInv' /\ (Distance \in 0 .. Slots)' => Shape'
BY ShapeNow, PTL

\* An edge takes at most the first word of the queue and puts at most the
\* offered one behind the last.
LEMMA QueueStep ==
  ASSUME AsyncInv, AsyncInv', FifoAsyncNext
  PROVE  Abstract!FifoNext
<1>1. PICK putting \in Offered, pushed, fetched, popped, held, held2 \in 0 .. 1 :
           CountedEdge(putting, pushed, fetched, popped, held, held2)
  BY EdgeShape
<1>2. /\ wbin' = Beyond(wbin, pushed) /\ rbin' = Beyond(rbin, fetched)
      /\ mem' = IF pushed = 1 THEN [mem EXCEPT ![wbin % Slots] = putting[1]] ELSE mem
      /\ rdData' = IF fetched = 1 THEN mem[rbin % Slots] ELSE rdData
      /\ held = Held /\ held2 = Held'
      /\ held2 = held + fetched - popped
      /\ pushed = 1 => ~wfull /\ putting # <<>>
      /\ fetched = 1 => ~ramEmpty /\ (held = 0 \/ popped = 1)
      /\ popped = 1 => held = 1
  BY <1>1, Zenon DEF CountedEdge, Held
<1> DEFINE d == Distance
           d2 == Distance'
<1>3. /\ d \in 0 .. Slots /\ d2 = d + pushed - fetched
      /\ pushed = 1 => d < Slots
      /\ fetched = 1 => d > 0
  <2>1. (pushed = 1 => Distance < Slots) /\ (fetched = 1 => Distance > 0)
    BY <1>2, EdgeGuards
  <2> QED
    BY <1>2, <2>1, DistanceStep
<1>4. /\ wbin \in 0 .. Pointers - 1 /\ rbin \in 0 .. Pointers - 1
      /\ mem \in [0 .. Slots - 1 -> Values] /\ d = (wbin - rbin) % Pointers
  BY DEF AsyncInv, AsyncTypeOK, Distance
<1> DEFINE P(k) == (rbin + k) % Slots
<1>5. /\ wbin % Slots = P(d)
      /\ \A k \in 0 .. Slots : P(k) \in 0 .. Slots - 1
      /\ \A f \in 0 .. 1, k \in 0 .. Slots - 1 : (Beyond(rbin, f) + k) % Slots = P(k + f)
      /\ \A k \in 0 .. Slots - 1 : d < Slots /\ k # d => P(k) # P(d)
  <2> HIDE DEF d
  <2>1. wbin % Slots = (rbin + d) % Slots
    BY ONLY <1>3, <1>4, Places
  <2>2. \A k \in 0 .. Slots : (rbin + k) % Slots \in 0 .. Slots - 1
    BY ONLY <1>3, <1>4, Places
  <2>3. \A f \in 0 .. 1, k \in 0 .. Slots - 1 :
          (Beyond(rbin, f) + k) % Slots = (rbin + (k + f)) % Slots
    <3> TAKE f \in 0 .. 1, k \in 0 .. Slots - 1
    <3> QED
      BY ONLY <1>4, PlaceAfter
  <2>4. \A k \in 0 .. Slots - 1 :
          d < Slots /\ k # d => (rbin + k) % Slots # (rbin + d) % Slots
    BY ONLY <1>3, <1>4, Places
  <2> QED
    BY ONLY <2>1, <2>2, <2>3, <2>4
<1>6. /\ Contents \in Seq(Values) /\ Len(Contents) = held + d
      /\ \A i \in 1 .. held + d :
           Contents[i] = IF held = 1 /\ i = 1 THEN rdData ELSE mem[P(i - 1 - held)]
  BY <1>2, <1>3, ShapeNow DEF Shape, Place
<1>7. d2 \in 0 .. Slots
  BY <1>3, Sizes
<1>8. /\ Contents' \in Seq(Values) /\ Len(Contents') = held2 + d2
      /\ \A i \in 1 .. held2 + d2 :
           Contents'[i] = IF held2 = 1 /\ i = 1 THEN rdData' ELSE mem'[(rbin' + (i - 1 - held2)) % Slots]
  BY <1>2, <1>7, ShapeNext DEF Shape, Place
<1>9. rbin % Slots = P(0)
  BY <1>4, Sizes
<1> DEFINE before == Contents
           after  == Contents'
           taking == IF pushed = 1 THEN putting ELSE <<>>
           result == SubSeq(before, popped + 1, Len(before)) \o taking
<1>10. /\ taking \in {<<>>} \cup {<<x>> : x \in Values} /\ taking \in Seq(Values)
       /\ Len(taking) = pushed
       /\ pushed = 1 => taking[1] = putting[1]
  <2>1. CASE pushed = 1
    <3>1. PICK x \in Values : putting = <<x>>
      BY <1>2, <2>1 DEF Offered
    <3> QED
      BY <2>1, <3>1
  <2>2. CASE pushed = 0
    BY <2>2
  <2> QED
    BY <2>1, <2>2
<1>11. /\ \A k \in 0 .. d + pushed - 1 : mem'[P(k)] = IF k = d THEN putting[1] ELSE mem[P(k)]
       /\ rdData' = IF fetched = 1 THEN mem[P(0)] ELSE rdData
  <2>1. ASSUME NEW k \in 0 .. d + pushed - 1
        PROVE  mem'[P(k)] = IF k = d THEN putting[1] ELSE mem[P(k)]
    <3>1. k \in 0 .. Slots - 1 /\ k \in 0 .. Slots /\ d \in 0 .. Slots
          /\ (k = d => pushed = 1) /\ (pushed = 1 => d < Slots)
      BY <1>3, Sizes
    <3>2. P(k) \in 0 .. Slots - 1 /\ P(d) \in 0 .. Slots - 1 /\ (pushed = 1 /\ k # d => P(k) # P(d))
      BY <1>5, <3>1
    <3>3. mem' = IF pushed = 1 THEN [mem EXCEPT ![P(d)] = putting[1]] ELSE mem
      BY <1>2, <1>5
    <3> HIDE DEF P, d
    <3> QED
      BY <1>4, <3>1, <3>2, <3>3
  <2> QED
    BY <1>2, <1>9, <2>1
<1>12. ASSUME NEW k \in Int, k >= fetched, k <= d + pushed - 1
       PROVE  (rbin' + (k - fetched)) % Slots = P(k)
  <2>1. k - fetched \in 0 .. Slots - 1 /\ (k - fetched) + fetched = k
    BY <1>3, <1>12, Sizes
  <2> QED
    BY <1>2, <1>5, <2>1
<1>13. /\ pushed \in 0 .. 1 /\ fetched \in 0 .. 1 /\ popped \in 0 .. 1
       /\ held \in 0 .. 1 /\ held2 \in 0 .. 1 /\ held2 = held + fetched - popped
       /\ popped = 1 => held = 1
       /\ fetched = 1 => held = 0 \/ popped = 1
  BY <1>2
<1> HIDE DEF d, d2, P, before, after, taking, result
<1>14. /\ before \in Seq(Values) /\ Len(before) = held + d
       /\ \A i \in 1 .. held + d : before[i] = IF held = 1 /\ i = 1 THEN rdData ELSE mem[P(i - 1 - held)]
  BY <1>6 DEF before
<1>15. /\ after \in Seq(Values) /\ Len(after) = held2 + d2
       /\ \A i \in 1 .. held2 + d2 :
            after[i] = IF held2 = 1 /\ i = 1 THEN rdData' ELSE mem'[(rbin' + (i - 1 - held2)) % Slots]
  BY <1>8 DEF after
<1>16. result \in Seq(Values) /\ Len(result) = held2 + d2
  <2>1. popped <= held + d
    BY ONLY <1>3, <1>13, Sizes
  <2> QED
    BY ONLY <1>3, <1>10, <1>13, <1>14, <2>1, Sizes DEF result
<1>17. ASSUME NEW i \in 1 .. held2 + d2 PROVE after[i] = result[i]
  <2>0. i \in Nat /\ i >= 1 /\ i <= held2 + d2 /\ d \in Nat /\ d2 \in Nat
    BY ONLY <1>3, <1>7, <1>13, Sizes, i \in 1 .. held2 + d2
  <2>1. result[i] = IF i <= held + d - popped THEN before[i + popped] ELSE taking[1]
    <3>1. i <= held + d - popped => result[i] = before[i + popped]
      BY ONLY <1>10, <1>13, <1>14, <2>0 DEF result
    <3>2. i > held + d - popped => pushed = 1 /\ i = held + d - popped + 1
      BY ONLY <1>3, <1>13, <2>0
    <3>3. i > held + d - popped => result[i] = taking[1]
      <4> DEFINE rest == SubSeq(before, popped + 1, Len(before))
      <4>1. rest \in Seq(Values) /\ Len(rest) = held + d - popped
        BY ONLY <1>3, <1>13, <1>14, <2>0
      <4>2. result = rest \o taking
        BY DEF result
      <4> HIDE DEF rest
      <4> QED
        <5> SUFFICES ASSUME i > held + d - popped PROVE result[i] = taking[1]
          OBVIOUS
        <5>1. pushed = 1 /\ i = Len(rest) + 1 /\ Len(taking) = 1 /\ taking \in Seq(Values)
          BY ONLY <1>10, <3>2, <4>1, i > held + d - popped
        <5>2. result[Len(rest) + 1] = taking[1]
          BY ONLY <4>1, <4>2, <5>1, LastWord
        <5> QED
          BY ONLY <5>1, <5>2
    <3> QED
      BY ONLY <3>1, <3>3, <1>13, <2>0
  <2>2. CASE held2 = 1 /\ i = 1
    <3>1. after[i] = IF fetched = 1 THEN mem[P(0)] ELSE rdData
      BY ONLY <1>11, <1>15, <2>2, i \in 1 .. held2 + d2
    <3>2. CASE fetched = 1
      <4>1. popped = held /\ 1 <= held + d - popped /\ 1 + popped \in 1 .. held + d
        BY ONLY <1>3, <1>13, <2>0, <3>2
      <4>2. before[1 + popped] = mem[P(0)]
        BY ONLY <1>13, <1>14, <4>1
      <4> QED
        BY ONLY <2>1, <2>2, <3>1, <3>2, <4>1, <4>2
    <3>3. CASE fetched = 0
      <4>1. popped = 0 /\ held = 1 /\ 1 <= held + d - popped /\ 1 \in 1 .. held + d
        BY ONLY <1>13, <2>0, <2>2, <3>3
      <4>2. before[1 + popped] = rdData
        BY ONLY <1>14, <4>1
      <4> QED
        BY ONLY <2>1, <2>2, <3>1, <3>3, <4>1, <4>2
    <3> QED
      BY ONLY <1>13, <3>2, <3>3
  <2>3. CASE ~(held2 = 1 /\ i = 1)
    <3> DEFINE n == i - 1 - held + popped
    <3>1. after[i] = mem'[(rbin' + (i - 1 - held2)) % Slots]
      BY <1>15, <2>3
    <3>2. n \in 0 .. d + pushed - 1 /\ i - 1 - held2 = n - fetched /\ n >= fetched /\ n \in Int
          /\ n <= d + pushed - 1
      BY ONLY <1>3, <1>13, <2>0, <2>3
    <3>3. (rbin' + (i - 1 - held2)) % Slots = P(n)
      <4> HIDE DEF n
      <4>1. (rbin' + (n - fetched)) % Slots = P(n)
        BY <1>12, <3>2, Zenon
      <4> QED
        BY ONLY <3>2, <4>1
    <3>4. mem'[P(n)] = IF n = d THEN putting[1] ELSE mem[P(n)]
      BY ONLY <1>11, <3>2
    <3>5. CASE i <= held + d - popped
      <4>1. i + popped \in 1 .. held + d /\ ~(held = 1 /\ i + popped = 1) /\ i + popped - 1 - held = n
            /\ n # d
        BY ONLY <1>13, <2>0, <2>3, <1>3, <3>5
      <4> DEFINE e == i + popped
      <4>3. e \in 1 .. held + d /\ ~(held = 1 /\ e = 1) /\ e - 1 - held = n
        BY <4>1
      <4> HIDE DEF e
      <4>4. before[e] = mem[P(n)]
        BY ONLY <1>14, <4>3
      <4>2. before[i + popped] = mem[P(n)]
        BY <4>4 DEF e
      <4> QED
        BY ONLY <2>1, <3>1, <3>3, <3>4, <3>5, <4>1, <4>2
    <3>6. CASE ~(i <= held + d - popped)
      <4>1. pushed = 1 /\ n = d
        BY ONLY <1>3, <1>13, <2>0, <3>6
      <4> QED
        BY ONLY <1>10, <2>1, <3>1, <3>3, <3>4, <3>6, <4>1
    <3> QED
      BY <3>5, <3>6
  <2> QED
    BY <2>2, <2>3
<1>18. after = result
  BY ONLY <1>15, <1>16, <1>17, SeqEqual
<1>19. /\ popped <= Len(before) /\ Len(before) + Len(taking) <= Slots + 1
  BY ONLY <1>3, <1>10, <1>13, <1>14, Sizes
<1> QED
  BY <1>10, <1>13, <1>18, <1>19 DEF Abstract!FifoNext, before, after, result

\* However the clocks drift and the synchronisers resolve, the crossing is a
\* first-in first-out queue of 2^DEPTH_LOG2 + 1 words for every DEPTH_LOG2:
\* nothing is lost, repeated or overtaken (prim_fifo_async.sv 11-17).
THEOREM AsyncImplementsFifo == FifoAsyncSpec => AsyncIsFifo
<1>1. FifoAsyncInit => Abstract!FifoInit
  <2> SUFFICES ASSUME FifoAsyncInit PROVE Contents = <<>>
    BY DEF Abstract!FifoInit
  <2>1. wbin = 0 /\ rbin = 0 /\ Held = 0
    BY Zenon DEF FifoAsyncInit, Held
  <2>2. Distance = 0
    BY <2>1, Sizes, DistanceLinear DEF Distance
  <2>3. Contents \in Seq(Values) /\ Len(Contents) = 0
    BY <2>1, <2>2, Sizes, AsyncInit, ShapeNow DEF Shape
  <2> QED
    BY <2>3
<1>2. AsyncInv /\ AsyncInv' /\ [FifoAsyncNext]_asyncVars => [Abstract!FifoNext]_Contents
  <2>1. UNCHANGED asyncVars => UNCHANGED Contents
    BY DEF asyncVars, wside, rside, Contents
  <2> QED
    BY <2>1, QueueStep
<1> QED
  BY <1>1, <1>2, AsyncInvariant, PTL DEF FifoAsyncSpec, AsyncIsFifo, Abstract!Fifo
=============================================================================
