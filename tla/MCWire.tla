------------------------------- MODULE MCWire -------------------------------
(* Between the host and the parser, for TLC: the serial line (part uart), the *)
(* FIFO behind its receiver (fifo), and the frame protocol on any bytes       *)
(* (any), on a repeated request (retry) and on frames and noise (traffic).    *)
EXTENDS FrameLine, UartLink, FifoSync, TLC

VARIABLE part

F(cmd, payload) == [cmd |-> cmd, payload |-> payload]

\* Four commands as of the device: one with any payload, one without, one with
\* a payload of one length, and one it does not know.
MCLengths == 0 :> 0 .. MaxPayload @@ 1 :> {0} @@ 2 :> {2}

\* A request without payload, and one whose payload ends in a sync byte.
PlainFrames == {F(1, <<>>), F(2, <<0, SYNC0>>)}

\* Requests with sync bytes in any place, some of them as a second sync word;
\* the last three the device refuses.
MCFrames ==
  PlainFrames \cup
  {F(0, <<1>>), F(2, <<SYNC1, SYNC0>>), F(0, <<SYNC0, SYNC0>>),
   F(1, <<SYNC0, SYNC0>>), F(SYNC0, <<SYNC1>>), F(SYNC1, <<SYNC0>>)}

\* Every byte, and bytes with the levels at both ends of it alike or not.
AllBytes == [1 .. 8 -> {0, 1}]
Ends     == {byte \in AllBytes : \A i \in 2 .. 7 : byte[i] = byte[2]}

\* even: clocks of one rate and any phase, with noise of half a bit; fast and
\* slow: a sender 3 percent off, without gaps.
Setting(div, bytes, txPeriod, rxPeriod, gapless, noiseCycles) ==
  [div |-> div, bytes |-> bytes, txPeriod |-> txPeriod, rxPeriod |-> rxPeriod,
   gapless |-> gapless, noiseCycles |-> noiseCycles]
MCSettings == "even" :> Setting(6, AllBytes, 2, 2, FALSE, 3)
           @@ "fast" :> Setting(16, Ends, 31, 32, TRUE, 0)
           @@ "slow" :> Setting(16, Ends, 33, 32, TRUE, 0)

\* The theorem about BytesArrive speaks of these links.
ASSUME ToleranceAssumption == \A name \in DOMAIN MCSettings : Tolerant(MCSettings[name])

----------------------------------------------------------------------------
\* What a part leaves out stays in one initial state.
NoLine == line = <<>> /\ parser = Idle /\ log = <<>> /\ request = <<>> /\ sentAt = 0
          /\ undamaged = FALSE
OneLink == setting = "fast" /\ txIn = 31

MCInit ==
  /\ part \in {"uart", "fifo", "any", "retry", "traffic"}
  /\ CASE part = "any"     -> LineInit /\ request = Wire(F(1, <<>>))
       [] part = "retry"   -> LineInit
       [] part = "traffic" -> TrafficInit
       [] OTHER            -> NoLine
  /\ UartInit /\ (part # "uart" => OneLink)
  /\ FifoSyncInit
  /\ part # "fifo" => mem = [a \in Slots |-> rdData] /\ rdData = CHOOSE v \in Values : TRUE

LinePart ==
  \/ part = "any" /\ Len(line) < 9 /\ Noise
  \/ part = "retry" /\ (Repeat \/ (sentAt = 0 /\ Len(line) < 5 /\ Noise))
  \/ part = "traffic" /\ Len(line) < 12
       /\ (Hiss \/ \E f \in PlainFrames : Len(line) + Len(Wire(f)) <= 12 /\ Send(f))

MCNext ==
  /\ \/ LinePart /\ UNCHANGED <<uartVars, fifoVars>>
     \/ part = "uart" /\ UartNext /\ UNCHANGED <<lineVars, fifoVars>>
     \/ part = "fifo" /\ FifoSyncNext /\ UNCHANGED <<lineVars, uartVars>>
  /\ UNCHANGED part

MCSpec == MCInit /\ [][MCNext]_<<lineVars, uartVars, fifoVars, part>>
=============================================================================
