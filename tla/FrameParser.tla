---------------------------- MODULE FrameParser ----------------------------
(***************************************************************************)
(* The command receiver of rtl/scope_drain.sv: one byte per step, up to    *)
(* the command executed or the NAK sent.  While the device answers no byte *)
(* is taken, so a step that dispatches leaves the parser in HUNT.          *)
(***************************************************************************)
EXTENDS Integers, Sequences, FrameCodec

CONSTANTS
  MaxPayload,   \* longest request payload, 8
  Lengths       \* the payload lengths of each command the device knows

\* st is the receive state, body what crc_rx has seen; dispatched is what the
\* last byte caused: nothing, or one entry.  whole says that a frame has come
\* to its end with a right CRC, nak why the device refused it ("" if it did not).
Idle == [st |-> "HUNT", body |-> <<>>, dispatched |-> <<>>]

Nak(why) == <<[whole |-> FALSE, nak |-> why, cmd |-> 0, payload |-> <<>>]>>

\* DISPATCH of a right CRC: a command the device knows, of a length it has, is
\* executed.
Refusal(cmd, payload) ==
  IF cmd \notin DOMAIN Lengths THEN "BAD_CMD"
  ELSE IF Len(payload) \notin Lengths[cmd] THEN "BAD_LEN" ELSE ""

Take(b) ==
  LET payload == SubSeq(b, 3, Len(b))
  IN <<[whole |-> TRUE, nak |-> Refusal(b[1], payload), cmd |-> b[1], payload |-> payload]>>

At(st, body) == [st |-> st, body |-> body, dispatched |-> <<>>]

\* Defect the checks must notice: a second SYNC0 sends the parser back to HUNT.
SyncStrict(b) == IF b = SYNC1 THEN At("RCMD", <<>>) ELSE Idle

\* SYNC1: SYNC0 SYNC0 SYNC1 still syncs.
Sync(b) ==
  IF b = SYNC1 THEN At("RCMD", <<>>) ELSE IF b = SYNC0 THEN At("SYNC1", <<>>) ELSE Idle

\* RLEN: an oversized request is refused at once and its rest hunted through.
Length(body, b) ==
  IF b > MaxPayload THEN [Idle EXCEPT !.dispatched = Nak("BAD_LEN")]
  ELSE At(IF b = 0 THEN "RCRC" ELSE "RPAY", Append(body, b))

\* RPAY
Data(body, b) ==
  LET next == Append(body, b)
  IN At(IF Len(next) - 2 >= next[2] THEN "RCRC" ELSE "RPAY", next)

\* Defect: the CRC is not compared.
DispatchUnchecked(body, b) == [Idle EXCEPT !.dispatched = Take(body)]

\* RCRC, DISPATCH
Dispatch(body, b) ==
  [Idle EXCEPT !.dispatched = IF b = Crc(body) THEN Take(body) ELSE Nak("BAD_CRC")]

ParserStep(p, b) ==
  CASE p.st = "HUNT"  -> IF b = SYNC0 THEN At("SYNC1", <<>>) ELSE Idle
    [] p.st = "SYNC1" -> Sync(b)
    [] p.st = "RCMD"  -> At("RLEN", <<b>>)
    [] p.st = "RLEN"  -> Length(p.body, b)
    [] p.st = "RPAY"  -> Data(p.body, b)
    [] p.st = "RCRC"  -> Dispatch(p.body, b)
=============================================================================
