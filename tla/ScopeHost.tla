----------------------------- MODULE ScopeHost -----------------------------
(***************************************************************************)
(* A capture session end to end: the calls the command line makes of the   *)
(* class Scope (host/fpgapa_scope/cli.py, scope.py), the frames between    *)
(* host and device, the drain engine and CSR servicer that execute one     *)
(* request at a time (rtl/scope_drain.sv, scope_csr.sv), and the capture   *)
(* core, which runs on meanwhile.  A step is a clock edge of the core, a   *)
(* CSR access of the engine, a frame lost or damaged, or a step of the     *)
(* host.  FrameLine shows what a frame's bytes go through.                 *)
(***************************************************************************)
EXTENDS ScopeCore, ReorderWindow, Sequences

CONSTANTS
  Commands,      \* the sequences of calls the user may start
  MaxCommands,   \* how many are started
  MaxPolls,      \* STATUS polls a wait_done has time for
  Spf,           \* samples in a DRAIN_DATA frame
  MaxLost,       \* frames the link may lose, requests it may damage
  MaxLate        \* waits that end although the answer is still to come

ASSUME SpfAssumption == Spf \in 1 .. Depth /\ Depth % Spf = 0
ASSUME BoundsAssumption == {MaxCommands, MaxPolls, MaxLost, MaxLate} \subseteq Nat

VARIABLES
  cfgErr, drainAddr,   \* sticky cfg_err; the drain pointer
  engine,              \* scope_drain: state, request and fields gathered so far
  requests,            \* frames on their way to the device
  rx,                  \* frames that reached the host and were not read
  todo,                \* calls left of the command; the first is being made
  awaits,              \* the first call has sent its request
  got,                 \* frames drain() has read
  polls, outcome,      \* polls of this wait_done; how the last call ended
  started, lost, late, \* bounded counters
  completed,           \* history: a window completed since arm() was last called
  asked,               \* history: the last value asked for PRETRIG and WINDOWS
  abandoned            \* history: a drain ended with frames still to come

device   == <<cfgErr, drainAddr, engine>>
link     == <<requests, rx, lost>>
host     == <<todo, awaits, got, polls, outcome, started, late>>
history  == <<completed, asked, abandoned>>
hostVars == <<vars, device, link, host, history>>

Quiet == engine.pc = "idle" /\ requests = <<>> /\ rx = <<>>

----------------------------------------------------------------------------
(* Calls.  A command line is a sequence of them: config is up to two       *)
(* register writes and a status call, arm is a strobe of CTRL and, with    *)
(* --wait, a wait and a drain.  Triggers are free here, so a force_trig    *)
(* strobe changes nothing.                                                 *)

\* A CTRL strobe is written as a register of its own, named for the bit.
Registers       == {"PRETRIG", "WINDOWS"}
Write(reg, val) == [call |-> "write", reg |-> reg, val |-> val]
StatusCall      == [call |-> "status"]
WaitDone        == [call |-> "wait"]
Drain(pre)      == [call |-> "drain", pre |-> pre]

\* A value of None leaves a register alone.
Config(p, w) ==
  LET put(reg, val) == IF val = NoSample THEN <<>> ELSE <<Write(reg, val)>>
  IN put("PRETRIG", p) \o put("WINDOWS", w) \o <<StatusCall>>

ArmCommand(force, wait, pre) ==
  <<Write("arm", 1)>>
    \o (IF force THEN <<Write("force", 1)>> ELSE <<>>)
    \o (IF wait THEN <<WaitDone, Drain(pre)>> ELSE <<>>)

\* The calls a program may make.
Calls ==
  [call : {"write"}, reg : Registers \cup {"arm", "force"}, val : Nat]
    \cup [call : {"status", "wait"}]
    \cup [call : {"drain"}, pre : Nat]

ASSUME CommandsAssumption == Commands \subseteq Seq(Calls)

Arms(call) == call.call = "write" /\ call.reg = "arm"

Request(call) ==
  CASE call.call = "write" -> [op |-> "WRITE_CSR", reg |-> call.reg, val |-> call.val]
    [] call.call = "drain" -> [op |-> "DRAIN"]
    [] OTHER -> [op |-> "READ_CSR"]

----------------------------------------------------------------------------
(* The device: clock edges and CSR accesses.                               *)

\* completed notes a window that ends in this edge.
Observe == completed' = (completed \/ (st # "DONE" /\ st' = "DONE"))

CoreEdge(arm) == /\ \E v, t \in BOOLEAN : Edge(v, t, arm, FALSE)
                 /\ Observe

Clock == CoreEdge(FALSE) /\ UNCHANGED <<device, link, host, asked, abandoned>>

\* A frame for the host may be lost.
Emit(frame) ==
  \/ rx' = Append(rx, frame) /\ UNCHANGED lost
  \/ lost < MaxLost /\ lost' = lost + 1 /\ UNCHANGED rx

\* A defect the checks must notice: a refused write that is not reported.
RefuseSilently(reg, val) == FALSE

\* cfg_err after a write: set by a write to a locked register and by more
\* windows than fit, of which the low byte is looked at; sticky, the host
\* never writes soft_rst.
Refuse(reg, val) ==
  \/ reg \in Registers /\ st # "IDLE"
  \/ reg = "WINDOWS" /\ val % (MaxWindows + 1) > Depth \div 2

\* The edge that consumes a write; both registers keep the low bits only.
Commit(reg, val) ==
  IF reg \notin Registers \/ st # "IDLE" THEN CoreEdge(reg = "arm")
  ELSE /\ IF reg = "PRETRIG" THEN WritePretrig(val % Depth)
          ELSE WriteWindows(val % (MaxWindows + 1))
       /\ UNCHANGED completed

Status == [state |-> st, cfgErr |-> cfgErr, wrapped |-> wrapped]

\* A damaged request is answered NAK; otherwise its flow starts.
Accept ==
  /\ engine.pc = "idle" /\ requests # <<>>
  /\ requests' = Tail(requests)
  /\ IF Head(requests).op = "damaged"
     THEN Emit([op |-> "NAK"]) /\ UNCHANGED engine
     ELSE engine' = [pc |-> Head(requests).op, req |-> Head(requests)] /\ UNCHANGED <<rx, lost>>
  /\ UNCHANGED <<vars, cfgErr, drainAddr, host, history>>

\* RD_EXEC, RD_RESP; the host reads no register but STATUS.
ExecRead ==
  /\ engine.pc = "READ_CSR"
  /\ Emit([op |-> "READ_CSR", status |-> Status])
  /\ engine' = [pc |-> "idle"]
  /\ UNCHANGED <<vars, cfgErr, drainAddr, requests, host, history>>

\* WR_EXEC, then WR_RDSTAT and WR_RESP.
ExecWrite ==
  /\ engine.pc = "WRITE_CSR"
  /\ Commit(engine.req.reg, engine.req.val)
  /\ cfgErr' = (cfgErr \/ Refuse(engine.req.reg, engine.req.val))
  /\ engine' = [pc |-> "rdstat"]
  /\ UNCHANGED <<drainAddr, link, host, asked, abandoned>>

AnswerWrite ==
  /\ engine.pc = "rdstat"
  /\ Emit([op |-> "WRITE_CSR", cfgErr |-> cfgErr])
  /\ engine' = [pc |-> "idle"]
  /\ UNCHANGED <<vars, cfgErr, drainAddr, requests, host, history>>

\* D_RD_STATUS: the first of the reads the DRAIN header is put together from.
DrainStatus ==
  /\ engine.pc = "DRAIN"
  /\ engine' = [pc |-> "index", wrapped |-> wrapped]
  /\ UNCHANGED <<vars, cfgErr, drainAddr, link, host, history>>

\* D_RD_TI.
DrainIndex ==
  /\ engine.pc = "index"
  /\ engine' = [pc |-> "stamp", wrapped |-> engine.wrapped, index |-> trigIndex]
  /\ UNCHANGED <<vars, cfgErr, drainAddr, link, host, history>>

\* D_RD_TSL to D_BUFRST: the header goes out and the pointer is reset.  The
\* per-window records, which the host does not read, are left out.
DrainHeader ==
  /\ engine.pc = "stamp"
  /\ Emit([op |-> "DRAIN", wrapped |-> engine.wrapped, index |-> engine.index,
           stamp |-> tsAtTrig])
  /\ drainAddr' = 0
  /\ engine' = [pc |-> "data", samples |-> <<>>, sent |-> 0]
  /\ UNCHANGED <<vars, cfgErr, requests, host, history>>

\* A defect the checks must notice: the first sample of a frame popped twice.
PopTwice == IF Len(engine.samples) = 0 /\ engine.sent > 0 THEN drainAddr
            ELSE (drainAddr + 1) % Depth

\* The address after a pop.
Pop == (drainAddr + 1) % Depth

\* One sample from BUF_DATA; a full frame goes out.
DrainData ==
  /\ engine.pc = "data"
  /\ drainAddr' = Pop
  /\ LET samples == Append(engine.samples, buf[drainAddr])
         sent    == engine.sent + 1
     IN IF Len(samples) < Spf
        THEN /\ engine' = [engine EXCEPT !.samples = samples]
             /\ UNCHANGED <<rx, lost>>
        ELSE /\ Emit([op |-> "DRAIN_DATA", chunk |-> engine.sent, samples |-> samples])
             /\ engine' = IF sent * Spf >= Depth THEN [pc |-> "idle"]
                          ELSE [pc |-> "data", samples |-> <<>>, sent |-> sent]
  /\ UNCHANGED <<vars, cfgErr, requests, host, history>>

Engine == \/ Accept \/ ExecRead \/ ExecWrite \/ AnswerWrite
          \/ DrainStatus \/ DrainIndex \/ DrainHeader \/ DrainData

\* The link loses a request, or damages it so that its CRC tells.
Spoil ==
  /\ lost < MaxLost /\ requests # <<>>
  /\ lost' = lost + 1
  /\ requests' \in {Tail(requests), <<[op |-> "damaged"]>> \o Tail(requests)}
  /\ Head(requests).op # "damaged"
  /\ UNCHANGED <<vars, device, rx, host, history>>

----------------------------------------------------------------------------
(* The host.                                                               *)

\* What read_csr makes of the first bytes of any frame, as a state: data
\* bytes are anything, a NAK code is 1 to 3, a single byte {0, cfg_err}.
ReadAs(frame) ==
  CASE frame.op = "READ_CSR"   -> {frame.status.state}
    [] frame.op = "WRITE_CSR"  -> {IF frame.cfgErr THEN "FILLING" ELSE "IDLE"}
    [] frame.op = "NAK"        -> {"FILLING"}
    [] frame.op = "DRAIN"      -> {IF frame.index % 8 = 4 THEN "DONE" ELSE "other"}
    [] frame.op = "DRAIN_DATA" -> States

\* The samples of every DRAIN_DATA frame, one after the other; the chunk
\* index is not looked at.
Joined(frames) ==
  LET data[i \in 0 .. Len(frames)] ==
        IF i = 0 THEN <<>>
        ELSE IF frames[i].op = "DRAIN_DATA" THEN data[i - 1] \o frames[i].samples
        ELSE data[i - 1]
  IN data[Len(frames)]

\* The run was one of one window, waited for, and pre is its PRETRIG_EFF.
Matches(pre) == outcome.kind = "done" /\ weff = 1 /\ pre = runPre

\* decode_drain without RLE: the first header, the reordered samples
\* (0-based) and where the trigger is; and, as history, what the host was
\* told of the run.
DecodeDrain(frames, pre) ==
  LET header == frames[CHOOSE i \in DOMAIN frames :
                         /\ frames[i].op = "DRAIN"
                         /\ \A j \in 1 .. i - 1 : frames[j].op # "DRAIN"]
      stored == Joined(frames)
      n      == Len(stored)
      inAddressOrder == [a \in 0 .. n - 1 |-> stored[a + 1]]
  IN [kind |-> "capture", n |-> n, stamp |-> header.stamp, matched |-> Matches(pre),
      samples |-> IF n = 0 THEN inAddressOrder
                  ELSE Ordered(inAddressOrder, n, header.index, header.wrapped, pre),
      trigPos |-> IF n = 0 THEN 0 ELSE TrigPos(header.index, header.wrapped, pre)]

None == [kind |-> "none"]

\* Opening a port may flush what is left of an earlier session.
Start(command) ==
  /\ todo = <<>> /\ started < MaxCommands
  /\ started' = started + 1
  /\ todo' = command /\ awaits' = FALSE /\ polls' = 0 /\ got' = <<>> /\ outcome' = None
  /\ rx' \in {rx, <<>>}
  /\ UNCHANGED <<vars, device, requests, lost, late, history>>

\* _send.
Send ==
  /\ todo # <<>> /\ ~awaits
  /\ awaits' = TRUE
  /\ requests' = Append(requests, Request(Head(todo)))
  /\ completed' = (completed /\ ~Arms(Head(todo)))
  /\ asked' = IF Head(todo).call = "write" /\ Head(todo).reg \in Registers
              THEN [asked EXCEPT ![Head(todo).reg] = Head(todo).val] ELSE asked
  /\ UNCHANGED <<vars, device, rx, lost, todo, got, polls, outcome, started, late, abandoned>>

\* The call returns and the next begins, or an exception ends the command.
Return(result) ==
  todo' = Tail(todo) /\ outcome' = result /\ awaits' = FALSE /\ polls' = 0 /\ got' = <<>>
Raise ==
  todo' = <<>> /\ outcome' = [kind |-> "error"] /\ awaits' = FALSE /\ polls' = 0 /\ got' = <<>>

\* A defect the checks must notice: wait_done content with TRIGGERED.
IsDoneEarly(state) == state \in {"TRIGGERED", "DONE"}

IsDone(state) == state = "DONE"

\* wait_done has an answer: DONE, another poll, or the deadline.
Poll(state) ==
  IF IsDone(state) THEN Return([kind |-> "done"])
  ELSE \/ polls < MaxPolls /\ polls' = polls + 1 /\ awaits' = FALSE
          /\ UNCHANGED <<todo, got, outcome>>
       \/ Raise

\* _recv takes the first frame of the bytes it has read and drops the rest
\* of them; whatever the frame, it is the answer.
Recv ==
  /\ todo # <<>> /\ awaits /\ Head(todo).call # "drain" /\ rx # <<>>
  /\ \E n \in 1 .. Len(rx) : rx' = SubSeq(rx, n + 1, Len(rx))
  /\ \E state \in ReadAs(Head(rx)) :
       CASE Head(todo).call = "wait"   -> Poll(state)
         [] Head(todo).call = "status" ->
              Return([kind |-> "status",
                      cfgErr |-> Head(rx).op = "READ_CSR" /\ Head(rx).status.cfgErr])
         [] OTHER -> Return(None)
  /\ UNCHANGED <<vars, device, requests, lost, started, late, history>>

\* A defect the checks must notice: a timeout shorter than the device takes.
PatienceTooShort == UNCHANGED late

\* A wait ends when nothing is to come, or too early.
Patience == \/ Quiet /\ UNCHANGED late
            \/ ~Quiet /\ late < MaxLate /\ late' = late + 1

\* A defect the checks must notice: no deadline.
RecvTimeoutNever == FALSE /\ UNCHANGED hostVars

\* TimeoutError.
RecvTimeout ==
  /\ todo # <<>> /\ awaits /\ Head(todo).call # "drain" /\ rx = <<>>
  /\ Patience /\ Raise
  /\ UNCHANGED <<vars, device, link, started, history>>

DrainRead ==
  /\ todo # <<>> /\ awaits /\ Head(todo).call = "drain" /\ rx # <<>>
  /\ got' = got \o rx /\ rx' = <<>>
  /\ UNCHANGED <<vars, device, requests, lost, todo, awaits, polls, outcome, started, late,
                 history>>

\* The line has been quiet, or the deadline has passed; without a header
\* decode_drain raises ValueError.
DrainEnd ==
  /\ todo # <<>> /\ awaits /\ Head(todo).call = "drain" /\ rx = <<>>
  /\ Patience
  /\ abandoned' = (abandoned \/ ~Quiet)
  /\ IF \E i \in DOMAIN got : got[i].op = "DRAIN"
     THEN Return(DecodeDrain(got, Head(todo).pre)) ELSE Raise
  /\ UNCHANGED <<vars, device, link, started, completed, asked>>

HostStep == Send \/ Recv \/ RecvTimeout \/ DrainRead \/ DrainEnd

----------------------------------------------------------------------------
HostInit ==
  /\ Init
  /\ cfgErr = FALSE /\ drainAddr = 0 /\ engine = [pc |-> "idle"]
  /\ requests = <<>> /\ rx = <<>> /\ lost = 0
  /\ todo = <<>> /\ awaits = FALSE /\ got = <<>> /\ polls = 0 /\ outcome = None
  /\ started = 0 /\ late = 0 /\ completed = FALSE /\ abandoned = FALSE
  /\ asked = [reg \in Registers |-> NoSample]

HostNext == Clock \/ Engine \/ Spoil \/ HostStep \/ \E c \in Commands : Start(c)

HostSpec == HostInit /\ [][HostNext]_hostVars

\* The engine answers and the host's loops have deadlines.
HostFairness == WF_hostVars(Engine) /\ WF_hostVars(HostStep)
=============================================================================
