----------------------------- MODULE FrameCodec -----------------------------
(***************************************************************************)
(* host/fpgapa_scope/frame.py: SYNC0 SYNC1 cmd len payload crc.            *)
(* Bytes are the numbers below Base, so a sync byte can also occur as a    *)
(* command, a length, data or a CRC, as on the wire.  The length and the   *)
(* CRC take one byte each instead of two.  crc16_ccitt is a function of    *)
(* the body in which every byte counts; no more of it is used here.        *)
(* Buffers are sequences, offsets count from 0 as in the code.             *)
(***************************************************************************)
EXTENDS Integers, SequencesExt

CONSTANT Base   \* number of byte values

Bytes == 0 .. Base - 1
SYNC0 == Base - 1
SYNC1 == Base - 2

Crc(body) == FoldLeft(LAMBDA crc, b : (crc + b) % Base, 1, body)

\* build_frame
BuildFrame(cmd, payload) ==
  LET body == <<cmd, Len(payload)>> \o payload
  IN <<SYNC0, SYNC1>> \o body \o <<Crc(body)>>

----------------------------------------------------------------------------
Parsed(frame, next) == [ok |-> TRUE, frame |-> frame, next |-> next, why |-> ""]
FrameError(why)     == [ok |-> FALSE, frame |-> <<>>, next |-> 0, why |-> why]

SyncAt(buf, i) == buf[i + 1] = SYNC0 /\ buf[i + 2] = SYNC1

\* The frame whose sync is at i.
FrameAt(buf, i) ==
  LET n == Len(buf) IN
  IF i + 4 > n THEN FrameError("truncated")
  ELSE LET plen == buf[i + 4]
           body == SubSeq(buf, i + 3, i + 4 + plen)
       IN IF i + 4 + plen + 1 > n THEN FrameError("truncated")
          ELSE IF Crc(body) # buf[i + 4 + plen + 1] THEN FrameError("crc")
          ELSE Parsed([cmd |-> body[1], payload |-> SubSeq(body, 3, 2 + plen)],
                      i + 4 + plen + 1)

\* Defects the checks must notice: a hunt in steps of a sync word; the last
\* sync decides.
ParseFramePairs(buf, offset) ==
  LET syncs == {i \in offset .. Len(buf) - 2 : SyncAt(buf, i) /\ (i - offset) % 2 = 0}
  IN IF syncs = {} THEN FrameError("no sync") ELSE FrameAt(buf, Min(syncs))

ParseFrameLast(buf, offset) ==
  LET syncs == {i \in offset .. Len(buf) - 2 : SyncAt(buf, i)}
  IN IF syncs = {} THEN FrameError("no sync") ELSE FrameAt(buf, Max(syncs))

\* parse_frame: the first sync at or after offset decides.
ParseFrame(buf, offset) ==
  LET syncs == {i \in offset .. Len(buf) - 2 : SyncAt(buf, i)}
  IN IF syncs = {} THEN FrameError("no sync") ELSE FrameAt(buf, Min(syncs))

\* Defect: the byte before the next frame is skipped.
ParseAllSkips(buf) ==
  LET from[off \in 0 .. Len(buf) + 2] ==
        IF off + 1 >= Len(buf) THEN <<>>
        ELSE LET r == ParseFrame(buf, off)
             IN IF r.ok THEN <<r.frame>> \o from[r.next + 1]
                ELSE IF r.why = "crc" THEN from[off + 2] ELSE <<>>
  IN from[0]

\* parse_all: a bad CRC moves on by two bytes, any other error ends the scan.
ParseAll(buf) ==
  LET from[off \in 0 .. Len(buf)] ==
        IF off + 1 >= Len(buf) THEN <<>>
        ELSE LET r == ParseFrame(buf, off)
             IN IF r.ok THEN <<r.frame>> \o from[r.next]
                ELSE IF r.why = "crc" THEN from[off + 2] ELSE <<>>
  IN from[0]
=============================================================================
