------------------------------ MODULE JtagLink ------------------------------
(***************************************************************************)
(* The JTAG transport: JtagTransport of host/fpgapa_scope/jtag.py sends a  *)
(* command line to the byte pump of scope_jtag_repl.tcl and waits for its   *)
(* reply line; the pump reads and writes the registers of                   *)
(* rtl/if/scope_jtag.sv, a one-byte buffer towards the device and a read    *)
(* that pops the byte the device offers.  A dead pump reads as empty lines. *)
(*                                                                          *)
(* Bytes are numbered in each direction.  The device is the drain engine:   *)
(* it takes bytes only when it owes none of its answer.                     *)
(***************************************************************************)
EXTENDS Integers, Sequences, SequencesExt

CONSTANTS
  Request,     \* bytes of a request, after which the device owes an answer
  Answer,      \* bytes of an answer
  ReadBatch,   \* read_batch
  MaxSent      \* bounds the bytes written

ASSUME LinkAssumption ==
  Request \in Nat \ {0} /\ Answer \in Nat /\ ReadBatch \in Nat \ {0} /\ MaxSent \in Nat

VARIABLES
  call,        \* the transport's call in progress
  job,         \* what the pump has left to do of the command line
  polled,      \* the pump has seen can_write for the next byte
  reply,       \* the reply line
  alive,       \* the pump runs
  txb,         \* scope_jtag: the byte to the device, if any
  owed,        \* bytes the device has left of its answer
  offered,     \* tx_valid
  emitted,     \* number of the last byte offered and popped
  taken,       \* bytes the device has taken
  rxbuf,       \* JtagTransport.rxbuf
  sent,        \* bytes given to write
  got          \* bytes returned by read

linkVars == <<call, job, polled, reply, alive, txb, owed, offered, emitted, taken,
              rxbuf, sent, got>>

Idle == [op |-> "none"]
NoReply == [line |-> "none"]

Numbered(from, n) == [i \in 1 .. n |-> from + i]

----------------------------------------------------------------------------
(* scope_jtag.sv *)

\* A write of TXDATA is accepted only when the buffer is empty.
WriteTxData(byte) == txb' = IF txb = <<>> THEN <<byte>> ELSE txb

\* The engine takes the buffered byte; a whole request makes it owe.
TakeByte ==
  /\ txb # <<>> /\ owed = 0
  /\ taken' = taken \o txb /\ txb' = <<>>
  /\ owed' = IF Len(taken') % Request = 0 THEN Answer ELSE 0
  /\ UNCHANGED <<call, job, polled, reply, alive, offered, emitted, rxbuf, sent, got>>

OfferByte ==
  /\ owed > 0 /\ ~offered
  /\ offered' = TRUE
  /\ UNCHANGED <<call, job, polled, reply, alive, txb, owed, emitted, taken, rxbuf, sent, got>>

----------------------------------------------------------------------------
(* scope_jtag_repl.tcl *)

\* A defect the checks must notice: the byte written without a look at STATUS.
CanWriteUnread == TRUE

CanWrite == txb = <<>>

\* STATUS is polled before every byte.
PollStatus ==
  /\ alive /\ job.op = "W" /\ job.bytes # <<>> /\ ~polled
  /\ CanWrite
  /\ polled' = TRUE
  /\ UNCHANGED <<call, job, reply, alive, txb, owed, offered, emitted, taken, rxbuf, sent, got>>

PumpWrite ==
  /\ alive /\ job.op = "W" /\ polled
  /\ WriteTxData(Head(job.bytes))
  /\ job' = [job EXCEPT !.bytes = Tail(@)] /\ polled' = FALSE
  /\ UNCHANGED <<call, reply, alive, owed, offered, emitted, taken, rxbuf, sent, got>>

\* A defect: the loop waits for all the bytes asked for.
PumpReadEndsWaiting == job.left = 0

\* RXDATA is read until n bytes are there or none is offered.
PumpReadEnds == job.left = 0 \/ ~offered

PumpRead ==
  /\ alive /\ job.op = "R" /\ ~PumpReadEnds /\ offered
  /\ job' = [job EXCEPT !.left = @ - 1, !.bytes = Append(@, emitted + 1)]
  /\ emitted' = emitted + 1 /\ owed' = owed - 1 /\ offered' = FALSE
  /\ UNCHANGED <<call, polled, reply, alive, txb, taken, rxbuf, sent, got>>

Reply ==
  /\ alive
  /\ \/ job.op = "W" /\ job.bytes = <<>> /\ reply' = [line |-> "OK"]
     \/ job.op = "R" /\ PumpReadEnds /\ reply' = [line |-> "D", bytes |-> job.bytes]
  /\ job' = Idle
  /\ UNCHANGED <<call, polled, alive, txb, owed, offered, emitted, taken, rxbuf, sent, got>>

\* The pump exits; readline returns the empty string.
Die ==
  /\ alive
  /\ alive' = FALSE /\ job' = Idle /\ polled' = FALSE
  /\ reply' = IF job = Idle THEN reply ELSE [line |-> "empty"]
  /\ UNCHANGED <<call, txb, owed, offered, emitted, taken, rxbuf, sent, got>>

----------------------------------------------------------------------------
(* jtag.py *)

\* _cmd: the line is sent, the call waits for the reply.
Command(c) ==
  /\ call' = c
  /\ IF alive THEN job' = c /\ UNCHANGED reply
     ELSE reply' = [line |-> "empty"] /\ UNCHANGED job

\* write; of no bytes it does nothing.
Write(n) ==
  /\ call = Idle /\ sent + n <= MaxSent
  /\ Command([op |-> "W", bytes |-> Numbered(sent, n)])
  /\ sent' = sent + n
  /\ UNCHANGED <<polled, alive, txb, owed, offered, emitted, taken, rxbuf, got>>

\* The first n bytes are returned, the rest is kept.
Serve(bytes, n) ==
  LET k == IF n < Len(bytes) THEN n ELSE Len(bytes)
  IN /\ got' = got \o SubSeq(bytes, 1, k)
     /\ rxbuf' = SubSeq(bytes, k + 1, Len(bytes))

\* read: only an empty buffer costs a command, for a whole batch at least.
Read(n) ==
  /\ call = Idle
  /\ IF rxbuf = <<>>
     THEN /\ Command([op |-> "R", want |-> n, bytes |-> <<>>,
                      left |-> IF n > ReadBatch THEN n ELSE ReadBatch])
          /\ UNCHANGED <<rxbuf, got>>
     ELSE Serve(rxbuf, n) /\ UNCHANGED <<call, job, reply>>
  /\ UNCHANGED <<polled, alive, txb, owed, offered, emitted, taken, sent>>

\* The reply line ends the call: write raises IOError unless it is OK, read
\* returns nothing unless it has bytes.
Return ==
  /\ call # Idle /\ reply # NoReply
  /\ call' = Idle /\ reply' = NoReply
  /\ IF call.op = "R" THEN Serve(IF reply.line = "D" THEN reply.bytes ELSE <<>>, call.want)
     ELSE UNCHANGED <<rxbuf, got>>
  /\ UNCHANGED <<job, polled, alive, txb, owed, offered, emitted, taken, sent>>

----------------------------------------------------------------------------
LinkInit ==
  /\ call = Idle /\ job = Idle /\ polled = FALSE /\ reply = NoReply /\ alive = TRUE
  /\ txb = <<>> /\ owed = 0 /\ offered = FALSE /\ emitted = 0 /\ taken = <<>>
  /\ rxbuf = <<>> /\ sent = 0 /\ got = <<>>

Device == TakeByte \/ OfferByte
Pump == PollStatus \/ PumpWrite \/ PumpRead \/ Reply

LinkNext ==
  \/ Device \/ Pump \/ Return \/ Die
  \/ \E n \in 1 .. Request : Write(n)
  \/ \E n \in 1 .. Answer : Read(n)

LinkSpec == LinkInit /\ [][LinkNext]_linkVars

----------------------------------------------------------------------------
\* What has been written reaches the device in order, once, and nothing is
\* lost on the way as long as the pump lives (scope_jtag.sv 16-19).
WritesArriveInOrder ==
  LET waiting == IF job.op = "W" THEN job.bytes ELSE <<>>
  IN /\ IsPrefix(taken \o txb, Numbered(0, sent))
     /\ alive /\ reply.line # "empty" => taken \o txb \o waiting = Numbered(0, sent)

\* Every byte popped from the device is returned by some read, in order, or
\* is still on its way to it, however the reads cut the stream; a dying pump
\* loses at most the bytes of one unanswered R command (jtag.py 58-67).
ReadsReturnAll ==
  LET pumped == IF job.op = "R" THEN job.bytes
                ELSE IF reply.line = "D" THEN reply.bytes ELSE <<>>
  IN /\ IsPrefix(got \o rxbuf \o pumped, Numbered(0, emitted))
     /\ alive => got \o rxbuf \o pumped = Numbered(0, emitted)

\* Over JTAG the bytes of both directions arrive in order and once.
BytesCarried == WritesArriveInOrder /\ ReadsReturnAll

\* A host that reads the whole answer before it writes the next request gets
\* every call back, whenever the pump dies: neither the pump's wait for
\* can_write nor the host's wait for the reply line lasts for ever, though
\* neither has a timeout (scope_jtag.sv 16-19, scope_jtag_repl.tcl 39-41).
CallsReturn == call # Idle ~> call = Idle
=============================================================================
