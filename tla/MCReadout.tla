----------------------------- MODULE MCReadout -----------------------------
(* Ways out of the buffer, for TLC: the crossing of commands and answers    *)
(* between the clocks (part csr), the FIFO it is made of (fifo), the        *)
(* AXI4-Lite front-end (axil) and the JTAG transport (jtag).                *)
EXTENDS CsrCrossing, ScopeAxil, FifoAsync, JtagLink

VARIABLE part

axilOwn  == <<axSt, rdata, aw, w, ar, handed>>
crossOwn == <<st, command, cmdFifo, rspFifo, sv, svCmd, svResult, delivered, rsp>>
mcVars   == <<portVars, crossOwn, axilOwn, asyncVars, linkVars, part>>

MCInit ==
  /\ part \in {"csr", "axil", "fifo", "jtag"}
  /\ CrossingInit /\ AxilInit /\ LinkInit
  /\ FifoAsyncInit
  /\ part # "fifo" =>
       rdData = (CHOOSE v \in Values : TRUE) /\ mem = [a \in 0 .. Slots - 1 |-> rdData]

InCsr(A)  == part = "csr" /\ A /\ UNCHANGED <<axilOwn, asyncVars, linkVars, part>>
InAxil(A) == part = "axil" /\ A /\ UNCHANGED <<crossOwn, asyncVars, linkVars, part>>
InFifo(A) == part = "fifo" /\ A /\ UNCHANGED <<portVars, crossOwn, axilOwn, linkVars, part>>
InJtag(A) == part = "jtag" /\ A /\ UNCHANGED <<portVars, crossOwn, axilOwn, asyncVars, part>>

\* The half-duplex discipline of Scope: a whole request, then its answer.
AnswerRead == Len(got \o rxbuf) = Answer * (sent \div Request)
Disciplined ==
  \/ Device \/ Pump \/ Return \/ Die
  \/ AnswerRead /\ Write(Request)
  \/ \E n \in 1 .. Answer : Read(n)

MCNext ==
  \/ InCsr(CrossingNext)
  \/ InAxil(AxilNext)
  \/ InFifo(FifoAsyncNext)
  \/ InJtag(Disciplined)

\* Both clocks run; a bus master takes every response some time; the device,
\* the pump and the Python interpreter run on.
MCSpec ==
  /\ MCInit /\ [][MCNext]_mcVars
  /\ WF_mcVars(InCsr(CsrPush \/ CsrWait)) /\ WF_mcVars(InCsr(Servicer))
  /\ WF_mcVars(InAxil(Cycle(TRUE, TRUE)))
  /\ WF_mcVars(InJtag(Device)) /\ WF_mcVars(InJtag(Pump)) /\ WF_mcVars(InJtag(Return))

----------------------------------------------------------------------------
\* Every access is answered: a command of the drain engine by the servicer, a
\* request of a bus master by the front-end.
AccessesAnswered == CommandsAnswered /\ RequestsAnswered
=============================================================================
