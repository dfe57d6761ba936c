------------------------ MODULE ScopeHostProperties ------------------------
(***************************************************************************)
(* What a user of the host takes for granted about a finished call.        *)
(***************************************************************************)
EXTENDS ScopeHost

Captured == outcome.kind = "capture"

\* The samples of a capture are all of the buffer, each taken right after the
\* one before it (scope.py 19: "time-ordered raw probe values").  A command
\* spans many device accesses, and the core may be anywhere meanwhile.
SamplesTimeOrdered ==
  Captured =>
    /\ outcome.n = Depth
    /\ \A i \in 1 .. Depth - 1 :
         outcome.samples[i] = Ahead(outcome.samples[i - 1], 1, StampLimit)

\* The sample at trig_pos is the one the core accepted the trigger with
\* (scope.py 21), which the header dates.
TrigPosMarksTrigger ==
  Captured => outcome.trigPos < outcome.n /\ outcome.samples[outcome.trigPos] = outcome.stamp

\* On a line that loses nothing, with waits that see their answers, a drain
\* that follows a wait_done, of a run of one window and with its PRETRIG_EFF,
\* returns the buffer in time order and marks the trigger.
CaptureFaithful ==
  Captured /\ outcome.matched /\ lost = 0 /\ late = 0 =>
    SamplesTimeOrdered /\ TrigPosMarksTrigger

\* wait_done returns True only when a window has completed since arm() was
\* called: the DONE it has seen is not one of an earlier run (scope.py
\* 157-168).
DoneMeansThisRun == outcome.kind = "done" /\ ~awaits => completed

\* So it is although one answer of a register access may come after its wait
\* has ended; a drain given up on, or a loss, can make it an older run's.
DoneOfThisRun == lost = 0 /\ late <= 1 /\ ~abandoned => DoneMeansThisRun

\* When config reports cfg_err false, the registers hold the last values
\* asked for, PRETRIG modulo DEPTH and WINDOWS, a byte, at least 1: none of
\* the writes was refused (cli.py 31-38, scope_csr.sv 113-203).
ConfigReportTruthful ==
  outcome.kind = "status" /\ ~outcome.cfgErr /\ ~awaits /\ lost = 0 /\ late = 0 =>
    /\ asked["PRETRIG"] # NoSample => pretrig = asked["PRETRIG"] % Depth
    /\ asked["WINDOWS"] # NoSample /\ asked["WINDOWS"] <= MaxWindows =>
         windows = IF asked["WINDOWS"] = 0 THEN 1 ELSE asked["WINDOWS"]

\* The bytes of a request frame: two of SYNC, opcode, length, payload, CRC.
Bytes(frame) ==
  CASE frame.op = "READ_CSR" -> 8 [] frame.op = "DRAIN" -> 7 [] OTHER -> 12

\* While the engine executes a request it takes no bytes, and what the host
\* sends meanwhile fits the receive FIFO of the UART (scope_top.sv 430-432:
\* "the command/response discipline bounds the backlog well under 16 bytes");
\* what does not fit is dropped.
BacklogFits ==
  LET bytes[i \in 0 .. Len(requests)] ==
        IF i = 0 THEN 0 ELSE bytes[i - 1] + Bytes(requests[i])
  IN engine.pc # "idle" => bytes[Len(requests)] <= 16

\* So it does for a host that runs ahead of one late answer; a drain given up
\* on takes no bytes for as long as it lasts.
BacklogBounded == lost = 0 /\ late <= 1 /\ ~abandoned => BacklogFits

\* Every command comes to an end, with a result or an exception, whatever is
\* lost on the way (the deadlines of scope.py 127-184).
CommandsEnd == todo # <<>> ~> todo = <<>>

----------------------------------------------------------------------------
(* The inductive invariant.  First the shapes of what is on its way.       *)

Statuses == [state : States, cfgErr : BOOLEAN, wrapped : BOOLEAN]
Samples  == Stamps \cup {NoSample}

Requests ==
  [op : {"READ_CSR", "DRAIN", "damaged"}]
    \cup [op : {"WRITE_CSR"}, reg : Registers \cup {"arm", "force"}, val : Nat]

Frames ==
  [op : {"NAK"}] \cup [op : {"READ_CSR"}, status : Statuses]
    \cup [op : {"WRITE_CSR"}, cfgErr : BOOLEAN]
    \cup [op : {"DRAIN"}, wrapped : BOOLEAN, index : Addresses, stamp : Stamps]
    \cup [op : {"DRAIN_DATA"}, chunk : Nat, samples : Seq(Samples)]

Engines ==
  [pc : {"idle", "rdstat"}] \cup [pc : {"READ_CSR", "DRAIN"}, req : Requests]
    \cup [pc : {"WRITE_CSR"}, req : {r \in Requests : r.op = "WRITE_CSR"}]
    \cup [pc : {"index"}, wrapped : BOOLEAN]
    \cup [pc : {"stamp"}, wrapped : BOOLEAN, index : Addresses]
    \cup [pc : {"data"}, samples : Seq(Samples), sent : Nat]

HostTypeOK ==
  /\ cfgErr \in BOOLEAN /\ drainAddr \in Addresses /\ engine \in Engines
  /\ requests \in Seq(Requests) /\ rx \in Seq(Frames) /\ got \in Seq(Frames)
  /\ todo \in Seq(Calls) /\ awaits \in BOOLEAN
  /\ lost \in Nat /\ late \in Nat /\ polls \in Nat /\ started \in Nat
  /\ completed \in BOOLEAN /\ abandoned \in BOOLEAN
  /\ asked \in [Registers -> Nat \cup {NoSample}]
  /\ awaits => todo # <<>>
  /\ abandoned => late # 0

Call     == Head(todo)
Draining == awaits /\ Call.call = "drain"

\* Requests the device has not answered.
Load == Len(requests) + (IF engine.pc = "idle" THEN 0 ELSE 1)

\* While at most one wait has ended too early, at most one answer too many is
\* on its way, and none of an earlier drain.
RegisterTraffic ==
  /\ \A i \in DOMAIN requests : requests[i].op \in {"READ_CSR", "WRITE_CSR"}
  /\ engine.pc \in {"idle", "READ_CSR", "WRITE_CSR", "rdstat"}
  /\ \A i \in DOMAIN rx : rx[i].op \in {"READ_CSR", "WRITE_CSR"}

Orderly == lost = 0 /\ late <= 1 /\ ~abandoned

LoadInv ==
  Orderly =>
    /\ Load <= late + 1
    /\ ~Draining => Load + Len(rx) <= late + 1 /\ RegisterTraffic
    /\ ~awaits => Load + Len(rx) <= late

\* A request to arm that the core has not seen, and one to read before it.
ArmRequest(request) == request.op = "WRITE_CSR" /\ request.reg = "arm"
ArmQueued == \E i \in DOMAIN requests : ArmRequest(requests[i])
ArmNow    == engine.pc = "WRITE_CSR" /\ ArmRequest(engine.req)
ReadAhead ==
  \/ engine.pc = "READ_CSR" /\ ArmQueued
  \/ \E i, j \in DOMAIN requests :
       i < j /\ requests[i].op = "READ_CSR" /\ ArmRequest(requests[j])

SaysDone(frame) == frame.op = "READ_CSR" /\ frame.status.state = "DONE"

\* Until a window completes, DONE is that of an earlier run: the core says so
\* only before it is armed, and the host sees it only as the answer to arm.
OldDoneInv ==
  Orderly /\ ~completed =>
    /\ st = "DONE" => ArmQueued \/ ArmNow
    /\ ReadAhead => awaits /\ Arms(Call)
    /\ \A i \in DOMAIN rx : SaysDone(rx[i]) => i = 1 /\ awaits /\ Arms(Call)

\* The last call's result has not been overtaken by a write.
Standing == awaits => Call.call # "write"

\* What wait_done says, it says of a window of this run.
ToldInv == Orderly /\ outcome.kind = "done" /\ Standing => completed

Prompt == lost = 0 /\ late = 0

\* With every answer waited for, request and answer are those of the call.
CallInv ==
  Prompt =>
    /\ got # <<>> => Draining
    /\ awaits =>
         /\ requests # <<>> => requests[1] = Request(Call)
         /\ engine.pc \in {"READ_CSR", "WRITE_CSR", "DRAIN"} =>
              engine.pc = Request(Call).op /\ engine.req = Request(Call)
         /\ engine.pc = "rdstat" => Call.call = "write"
         /\ engine.pc \in {"index", "stamp", "data"} => Call.call = "drain"
         /\ Call.call = "write" /\ Call.reg \in Registers => asked[Call.reg] = Call.val

\* An answer that was waited for is the last word on the device.
AnswerInv ==
  Prompt /\ awaits /\ ~Draining /\ rx # <<>> =>
    /\ rx[1].op = Request(Call).op
    /\ rx[1].op = "READ_CSR" =>
         /\ rx[1].status.cfgErr = cfgErr
         /\ rx[1].status.state = "DONE" /\ weff = 1 => st = "DONE"

\* A register holds what was last asked for.
Holds(reg) ==
  IF reg = "PRETRIG" THEN pretrig = asked[reg] % Depth
  ELSE asked[reg] <= MaxWindows => windows = IF asked[reg] = 0 THEN 1 ELSE asked[reg]

\* Its write is on its way.
Pending(reg) ==
  /\ awaits /\ Call.call = "write" /\ Call.reg = reg
  /\ requests # <<>> \/ engine.pc = "WRITE_CSR"

ConfigInv ==
  Prompt =>
    /\ ~cfgErr => \A reg \in Registers :
                    asked[reg] # NoSample => Holds(reg) \/ Pending(reg)
    /\ outcome.kind = "status" /\ Standing => outcome.cfgErr = cfgErr

\* A run of one window the host was told to be done is at rest.
DoneInv == Prompt /\ outcome.kind = "done" /\ weff = 1 /\ Standing => st = "DONE"

Received    == got \o rx
HeaderFrame == [op |-> "DRAIN", wrapped |-> wrapped, index |-> trigIndex, stamp |-> tsAtTrig]
Stored(n)   == [i \in 1 .. n |-> buf[i - 1]]

\* How far a drain has come: its request is on its way; the header is being
\* put together; the data follow it; they are all sent.
DrainAsked ==
  /\ Len(requests) = 1 /\ requests[1] = Request(Call)
  /\ engine.pc = "idle" /\ Received = <<>>

DrainBegun ==
  /\ requests = <<>> /\ engine.pc \in {"DRAIN", "index", "stamp"} /\ Received = <<>>
  /\ engine.pc # "DRAIN" => engine.wrapped = wrapped
  /\ engine.pc = "stamp" => engine.index = trigIndex

DataFlow ==
  /\ requests = <<>> /\ engine.pc = "data"
  /\ Received # <<>> /\ Received[1] = HeaderFrame
  /\ engine.sent * Spf + Spf <= Depth /\ Len(engine.samples) < Spf
  /\ drainAddr = engine.sent * Spf + Len(engine.samples)
  /\ Joined(Received) = Stored(engine.sent * Spf)
  /\ Joined(Received) \o engine.samples = Stored(drainAddr)

DataSent ==
  /\ requests = <<>> /\ engine.pc = "idle"
  /\ Received # <<>> /\ Received[1] = HeaderFrame
  /\ Joined(Received) = Stored(Depth)

\* A drain that follows a wait_done, of a run of one window, takes this way.
DrainInv ==
  Prompt /\ outcome.kind = "done" /\ weff = 1 /\ Draining =>
    DrainAsked \/ DrainBegun \/ DataFlow \/ DataSent

HostIInv ==
  /\ HostTypeOK /\ LoadInv /\ OldDoneInv /\ ToldInv
  /\ CallInv /\ AnswerInv /\ ConfigInv /\ DoneInv /\ DrainInv /\ CaptureFaithful
=============================================================================
