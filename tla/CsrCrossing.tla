---------------------------- MODULE CsrCrossing ----------------------------
(***************************************************************************)
(* The command engine of rtl/scope_drain.sv reaches the CSR bus through    *)
(* the servicer of rtl/scope_top.sv and two dual-clock FIFOs: here, the    *)
(* download of the buffer, a write of BUF_CTRL and one read of BUF_DATA    *)
(* after the other.  The FIFOs are the queues FifoAsync implements.  A     *)
(* step of the servicer is an edge of the probe clock, on which the buffer *)
(* port steps too; a step of the engine is an edge of the transport clock. *)
(***************************************************************************)
EXTENDS BufferPort, Sequences

CONSTANT Capacity   \* of a FIFO: 2^DEPTH_LOG2 + 1

ASSUME CapacityAssumption == Capacity \in Nat \ {0}

VARIABLES
  st,            \* scope_drain: between commands, CSR_PUSH or CSR_WAIT
  command,       \* what CSR_PUSH offers
  cmdFifo, rspFifo,
  sv, svCmd, svResult,   \* the servicer
  delivered,     \* history: BUF_DATA answers since BUF_CTRL
  rsp            \* rsp_q: the last answer

crossingVars == <<portVars, st, command, cmdFifo, rspFifo, sv, svCmd, svResult,
                  delivered, rsp>>

Commands == {"BUF_CTRL", "BUF_DATA"}
None == [command |-> "none"]

----------------------------------------------------------------------------
(* The engine: one command is outstanding. *)

Issue(c) ==
  /\ st = "BETWEEN"
  /\ command' = c /\ st' = "CSR_PUSH"
  /\ UNCHANGED <<portVars, cmdFifo, rspFifo, sv, svCmd, svResult, delivered, rsp>>

CsrPush ==
  /\ st = "CSR_PUSH" /\ Len(cmdFifo) < Capacity
  /\ cmdFifo' = Append(cmdFifo, command) /\ st' = "CSR_WAIT"
  /\ UNCHANGED <<portVars, command, rspFifo, sv, svCmd, svResult, delivered, rsp>>

\* A defect the checks must notice: the engine goes on without the answer,
\* which the next command will take for its own.
CsrWaitGivesUp ==
  /\ st = "CSR_WAIT"
  /\ st' = "BETWEEN"
  /\ IF rspFifo = <<>> THEN UNCHANGED <<rsp, rspFifo>>
     ELSE rsp' = Head(rspFifo) /\ rspFifo' = Tail(rspFifo)
  /\ delivered' = IF command = "BUF_CTRL" THEN 0 ELSE NextRead(delivered)
  /\ UNCHANGED <<portVars, command, cmdFifo, sv, svCmd, svResult>>

CsrWait ==
  /\ st = "CSR_WAIT" /\ rspFifo # <<>>
  /\ rsp' = Head(rspFifo) /\ rspFifo' = Tail(rspFifo) /\ st' = "BETWEEN"
  /\ delivered' = IF command = "BUF_CTRL" THEN 0 ELSE NextRead(delivered)
  /\ UNCHANGED <<portVars, command, cmdFifo, sv, svCmd, svResult>>

Engine == (\E c \in Commands : Issue(c)) \/ CsrPush \/ CsrWait

----------------------------------------------------------------------------
(* The servicer, with the bus access of its state. *)

SvIdle ==
  /\ sv = "SV_IDLE"
  /\ IF cmdFifo = <<>> THEN UNCHANGED <<sv, svCmd, cmdFifo>>
     ELSE sv' = "SV_EXEC" /\ svCmd' = Head(cmdFifo) /\ cmdFifo' = Tail(cmdFifo)
  /\ NoAccess
  /\ UNCHANGED <<rspFifo, svResult>>

\* The strobe; readdata is combinational and captured in the same cycle.
SvExec ==
  /\ sv = "SV_EXEC"
  /\ IF svCmd = "BUF_CTRL" THEN BufCtrlAccess ELSE BufDataAccess
  /\ svResult' = IF svCmd = "BUF_CTRL" THEN None
                 ELSE [command |-> "BUF_DATA", addr |-> ramOut, lane |-> drainLane]
  /\ sv' = "SV_PUSH"
  /\ UNCHANGED <<cmdFifo, rspFifo, svCmd>>

\* A defect: writes are not answered.
SvPushReadsOnly ==
  /\ sv = "SV_PUSH"
  /\ sv' = "SV_IDLE"
  /\ rspFifo' = IF svCmd = "BUF_DATA" THEN Append(rspFifo, svResult) ELSE rspFifo
  /\ NoAccess
  /\ UNCHANGED <<cmdFifo, svCmd, svResult>>

SvPush ==
  /\ sv = "SV_PUSH"
  /\ IF Len(rspFifo) < Capacity
     THEN rspFifo' = Append(rspFifo, svResult) /\ sv' = "SV_IDLE"
     ELSE UNCHANGED <<rspFifo, sv>>
  /\ NoAccess
  /\ UNCHANGED <<cmdFifo, svCmd, svResult>>

Servicer == (SvIdle \/ SvExec \/ SvPush) /\ UNCHANGED <<st, command, delivered, rsp>>

----------------------------------------------------------------------------
CrossingInit ==
  /\ PortInit
  /\ st = "BETWEEN" /\ command = "none" /\ cmdFifo = <<>> /\ rspFifo = <<>>
  /\ sv = "SV_IDLE" /\ svCmd = "none" /\ svResult = None
  /\ delivered = 0 /\ rsp = None

CrossingNext == Engine \/ Servicer

\* Both clocks run; the engine need not issue a command.
CrossingSpec ==
  /\ CrossingInit /\ [][CrossingNext]_crossingVars
  /\ WF_crossingVars(CsrPush \/ CsrWait) /\ WF_crossingVars(Servicer)

----------------------------------------------------------------------------
\* Seen from the buffer port the servicer is a master that leaves Spacing
\* cycles between two accesses, however fast the engine is: the RAM has
\* answered before the next lane is asked for (scope_top.sv 360-382).
ServicerKeepsPauses == PortSpec

\* The n-th BUF_DATA answer the engine gets since BUF_CTRL is lane n of the
\* buffer: no command overtakes another and no answer is taken for that of
\* another command (scope_drain.sv 258-259, scope_top.sv 335-382).
DownloadInOrder ==
  st = "BETWEEN" /\ rsp # None =>
    NextRead(rsp.addr * Lanes + rsp.lane) = delivered

\* One servicer, two FIFOs and an engine that waits for each answer never
\* wait for each other: every command is answered.
CommandsAnswered == st # "BETWEEN" ~> st = "BETWEEN"
=============================================================================
