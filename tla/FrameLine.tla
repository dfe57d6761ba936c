----------------------------- MODULE FrameLine -----------------------------
(***************************************************************************)
(* The two receivers of the frame protocol on the same bytes: parse_frame  *)
(* and parse_all of host/fpgapa_scope/frame.py and the parser of           *)
(* rtl/scope_drain.sv.  The line may carry any bytes at all (LineSpec), or *)
(* any bytes followed by one request sent over and over, the host's only   *)
(* means of recovery (RetrySpec), or frames with noise between them        *)
(* (TrafficSpec).                                                          *)
(***************************************************************************)
EXTENDS FrameParser, SequencesExt

CONSTANTS
  MaxLine,     \* bounds the length of the line
  Frames       \* the frames a sender sends, [cmd, payload]

ASSUME LineAssumption ==
  /\ Base \in Nat \ {0, 1} /\ MaxPayload \in Nat
  /\ DOMAIN Lengths \subseteq Bytes /\ \A cmd \in DOMAIN Lengths : Lengths[cmd] \subseteq 0 .. MaxPayload
  /\ \A f \in Frames : /\ f.cmd \in Bytes /\ f.payload \in Seq(Bytes)
                      /\ Len(f.payload) \in Bytes   \* build_frame raises otherwise

VARIABLES
  line,      \* bytes received so far
  parser,    \* the RTL parser
  log,       \* what it has dispatched
  request,   \* RetrySpec: the bytes of the request; TrafficSpec: frames sent
  sentAt,    \* RetrySpec: where its first byte is on the line, 0 before
  undamaged  \* TrafficSpec: only whole frames arrive, and noise without SYNC0

lineVars == <<line, parser, log, request, sentAt, undamaged>>

Wire(f) == BuildFrame(f.cmd, f.payload)

\* Both receivers take byte b.
Receive(b) ==
  /\ Len(line) < MaxLine
  /\ line' = Append(line, b)
  /\ parser' = ParserStep(parser, b)
  /\ log' = log \o parser'.dispatched

LineInit ==
  /\ line = <<>> /\ parser = Idle /\ log = <<>>
  /\ request \in {Wire(f) : f \in Frames} /\ sentAt = 0 /\ undamaged = FALSE

Noise == \E b \in Bytes : Receive(b) /\ UNCHANGED <<request, sentAt, undamaged>>

LineSpec == LineInit /\ [][Noise]_lineVars

----------------------------------------------------------------------------
\* The request is repeated byte by byte.
Repeat ==
  LET first == IF sentAt = 0 THEN Len(line) + 1 ELSE sentAt
  IN /\ Receive(request[((Len(line) + 1 - first) % Len(request)) + 1])
     /\ sentAt' = first
     /\ UNCHANGED <<request, undamaged>>

RetrySpec == LineInit /\ [][(sentAt = 0 /\ Noise) \/ Repeat]_lineVars

----------------------------------------------------------------------------
\* A frame arrives whole; noise between frames has no SYNC0.  request lists
\* the frames that arrived.
TrafficInit ==
  /\ line = <<>> /\ parser = Idle /\ log = <<>> /\ request = <<>> /\ sentAt = 0
  /\ undamaged = TRUE

ReceiveAll(bytes) ==
  LET steps[i \in 0 .. Len(bytes)] ==
        IF i = 0 THEN parser ELSE ParserStep(steps[i - 1], bytes[i])
  IN /\ Len(line) + Len(bytes) <= MaxLine
     /\ line' = line \o bytes
     /\ parser' = steps[Len(bytes)]
     /\ log' = log \o FlattenSeq([i \in DOMAIN bytes |-> steps[i].dispatched])

Send(f) ==
  ReceiveAll(Wire(f)) /\ request' = Append(request, f) /\ UNCHANGED <<sentAt, undamaged>>

Hiss ==
  \E b \in Bytes \ {SYNC0} : Receive(b) /\ UNCHANGED <<request, sentAt, undamaged>>

TrafficSpec ==
  TrafficInit /\ [][Hiss \/ \E f \in Frames : Send(f)]_lineVars

----------------------------------------------------------------------------
\* frame.py 69-71, "the same hunt the RTL parser does": whatever the bytes,
\* the host finds a frame when and only when the device has dispatched
\* something, and it is the first frame the device has taken, to execute it or
\* to refuse what it asks; a NAK without a frame is the host's CRC error or a
\* length beyond what requests may have.
SameHunt ==
  LET r == ParseFrame(line, 0) IN
  IF log = <<>> THEN r.why \in {"no sync", "truncated"}
  ELSE IF log[1].whole
       THEN r.ok /\ r.frame.cmd = log[1].cmd /\ r.frame.payload = log[1].payload
       ELSE CASE log[1].nak = "BAD_CRC" -> r.why = "crc"
              [] log[1].nak = "BAD_LEN" -> r.ok => Len(r.frame.payload) > MaxPayload

\* What _recv returns does not depend on how the transport cuts the stream
\* into reads: a frame found stays the frame found as bytes follow
\* (scope.py 127-139).
AnswerIsStable ==
  [][LET r == ParseFrame(line, 0)
     IN r.ok \/ r.why = "crc" => ParseFrame(line', 0) = r]_lineVars

\* The least end of the frames of the first i entries of the log, one after
\* the other on the line; beyond the line if they are not all there.
CoveredTo[i \in 0 .. Len(log)] ==
  IF i = 0 THEN 0
  ELSE IF ~log[i].whole THEN CoveredTo[i - 1]
  ELSE LET wire == Wire(log[i])
           ends == {e \in CoveredTo[i - 1] + Len(wire) .. Len(line) :
                      SubSeq(line, e - Len(wire) + 1, e) = wire}
       IN IF ends = {} THEN Len(line) + 1 ELSE Min(ends)

\* The device executes, or refuses for its command or length, only what arrived
\* as a whole frame, and nothing twice: the frames in its log are disjoint
\* stretches of the line in their order (scope_drain.sv 166-254).
WholeFramesOnly == CoveredTo[Len(log)] <= Len(line)

\* The request was sent n times and the device has taken it: it has executed it
\* or, if Refusal says so, answered it with that NAK.
TakenBy(n) ==
  Len(line) + 1 - sentAt >= n * Len(request) =>
    \E i \in DOMAIN log :
      log[i].whole /\ BuildFrame(log[i].cmd, log[i].payload) = request

SyncWords(wire) == {i \in 0 .. Len(wire) - 2 : SyncAt(wire, i)}

\* Wherever noise has left the parser, a request whose bytes hold no second
\* sync word is taken by its third sending: what can be wasted is one
\* frame begun in the noise, which bytes of the first two complete
\* (scope_drain.sv 166-217).
ResyncByThirdRequest ==
  sentAt # 0 /\ SyncWords(request) = {0} => TakenBy(3)

\* frame.py 94: parse_all finds every valid frame of undamaged traffic, and
\* the device takes the same ones in the same order.
TrafficArrives ==
  undamaged =>
    /\ ParseAll(line) = request
    /\ log = [i \in DOMAIN request |-> Take(<<request[i].cmd, 0>> \o request[i].payload)[1]]
=============================================================================
