------------------------------ MODULE UartLink ------------------------------
(***************************************************************************)
(* One direction of the serial line (rtl/xport/scope_uart.sv): a           *)
(* transmitter and a receiver with clocks of their own, both dividing them *)
(* by DIV, and the two-stage synchroniser between.  A step is the next     *)
(* clock edge of either, or of both.  The transmitter is scope_uart's; the *)
(* one of a serial adapter differs in leaving no cycle between two bytes.  *)
(***************************************************************************)
EXTENDS Integers, Sequences

CONSTANT Settings   \* a function; a behaviour has one of its values

ASSUME SettingsAssumption ==
  \A name \in DOMAIN Settings : Settings[name] \in
    [div : Nat \ {0},           \* DIV, clock cycles per bit
     bytes : SUBSET [1 .. 8 -> {0, 1}],
                                \* those sent: levels, least significant first
     txPeriod : Nat \ {0}, rxPeriod : Nat \ {0},
                                \* clock periods, in any unit
     gapless : BOOLEAN,         \* a start bit may follow the stop bit at once
     noiseCycles : Nat]         \* cycles noise may pull the idle line low

VARIABLES
  setting,       \* name of the setting
  txIn, rxIn,    \* time until the next edge of each clock
  level,         \* uart_tx of one side, uart_rx of the other
  tx,            \* tx_shift, levels still to come; tx_bits; tx_cnt
  noise,         \* cycles since noise began
  sync,          \* the two stages of u_rx_sync
  rx,            \* rx_st, rx_cnt and the levels sampled so far
  inFlight,      \* history: bytes begun and not delivered
  delivered      \* rx_valid and rx_data: the byte of this cycle and, as
                 \* history, the byte it should be

uartVars == <<setting, txIn, rxIn, level, tx, noise, sync, rx, inFlight, delivered>>

Link    == Settings[setting]
NoByte  == [valid |-> FALSE]
TxIdle  == [left |-> <<>>, bits |-> 0, cnt |-> 0]
RxIdle  == [st |-> "RX_IDLE", cnt |-> 0, levels |-> <<>>]
Start   == 0
Stop    == 1

----------------------------------------------------------------------------
(* Transmitter.                                                            *)

\* A defect the checks must notice: the first delay a whole bit long.
WholeBit == Link.div

\* From the falling edge to the middle of the start bit.
HalfBit == Link.div \div 2

\* Noise is a pulse by itself: a byte begins when the receiver has looked at it.
Clear == noise = 0 \/ noise > HalfBit + 2

\* A byte is taken: its start bit begins with this edge.
Load ==
  /\ Clear
  /\ noise' = 0
  /\ level' = Start
  /\ \E byte \in Link.bytes : tx' = [left |-> byte \o <<Stop>>, bits |-> 10, cnt |-> Link.div - 1]

\* Nothing to send; the line may pick up a pulse.
Pause ==
  /\ tx' = TxIdle
  /\ \/ Clear /\ noise' = 0 /\ level' = 1
     \/ Clear /\ Link.noiseCycles > 0 /\ noise' = 1 /\ level' = 0
     \/ ~Clear /\ noise' = noise + 1
        /\ level' \in IF level = 0 /\ noise < Link.noiseCycles THEN {0, 1} ELSE {1}

\* A bit lasts Div cycles, the stop bit the cycles after it that are idle.
Shift ==
  /\ IF tx.cnt # 0 THEN tx' = [tx EXCEPT !.cnt = @ - 1] /\ UNCHANGED level
     ELSE IF tx.bits = 1 THEN tx' = TxIdle /\ level' = 1
     ELSE /\ level' = Head(tx.left)
          /\ tx' = [left |-> Tail(tx.left), bits |-> tx.bits - 1, cnt |-> Link.div - 1]
  /\ UNCHANGED noise

TxEdge ==
  \/ tx.bits = 0 /\ (Load \/ Pause)
  \/ tx.bits # 0 /\ Shift
  \/ Link.gapless /\ tx.bits = 1 /\ tx.cnt = 0 /\ Load

----------------------------------------------------------------------------
(* Receiver.  Every state but the first counts rx_cnt down and acts at 0.  *)

\* Still low in the middle of the start bit: no glitch.
Qualified(bit) == bit = Start

\* What a level does to the receiver.
Received(bit) ==
  CASE rx.st = "RX_IDLE" ->
         IF bit = Start THEN [st |-> "RX_START", cnt |-> HalfBit, levels |-> <<>>] ELSE rx
    [] rx.st # "RX_IDLE" /\ rx.cnt # 0 -> [rx EXCEPT !.cnt = @ - 1]
    [] rx.st = "RX_START" /\ rx.cnt = 0 ->
         IF Qualified(bit) THEN [st |-> "RX_BITS", cnt |-> Link.div - 1, levels |-> <<>>]
         ELSE RxIdle
    [] rx.st = "RX_BITS" /\ rx.cnt = 0 ->
         [st |-> IF Len(rx.levels) = 7 THEN "RX_STOP" ELSE "RX_BITS", cnt |-> Link.div - 1,
          levels |-> Append(rx.levels, bit)]
    [] rx.st = "RX_STOP" /\ rx.cnt = 0 -> RxIdle

\* A good stop bit; a byte with a bad one is dropped.
Delivers(bit) == rx.st = "RX_STOP" /\ rx.cnt = 0 /\ bit = Stop

\* An edge of the receiver that coincides with a change of the line may see
\* the old level or the new one.
RxEdge ==
  /\ \E seen \in {level, level'} : sync' = <<seen, sync[1]>>
  /\ rx' = Received(sync[2])
  /\ delivered' = IF ~Delivers(sync[2]) THEN NoByte
                  ELSE [valid |-> TRUE, data |-> rx.levels, due |-> inFlight]

----------------------------------------------------------------------------
UartInit ==
  /\ setting \in DOMAIN Settings
  /\ txIn \in 1 .. Link.txPeriod /\ rxIn = Link.rxPeriod
  /\ level = 1 /\ tx = TxIdle /\ noise = 0
  /\ sync = <<1, 1>> /\ rx = RxIdle
  /\ inFlight = <<>> /\ delivered = NoByte

\* History: the oldest byte is delivered, a new one has begun.
Track(delivers) ==
  inFlight' = (IF delivers /\ inFlight # <<>> THEN Tail(inFlight) ELSE inFlight)
                \o (IF tx'.bits = 10 /\ tx.bits # 10 THEN <<SubSeq(tx'.left, 1, 8)>> ELSE <<>>)

TxAlone ==
  /\ txIn < rxIn
  /\ txIn' = Link.txPeriod /\ rxIn' = rxIn - txIn
  /\ TxEdge /\ Track(FALSE)
  /\ UNCHANGED <<sync, rx, delivered>>

RxAlone ==
  /\ rxIn < txIn
  /\ rxIn' = Link.rxPeriod /\ txIn' = txIn - rxIn
  /\ UNCHANGED <<level, tx, noise>>
  /\ RxEdge /\ Track(Delivers(sync[2]))

Both ==
  /\ txIn = rxIn
  /\ txIn' = Link.txPeriod /\ rxIn' = Link.rxPeriod
  /\ TxEdge /\ RxEdge /\ Track(Delivers(sync[2]))

UartNext == (TxAlone \/ RxAlone \/ Both) /\ UNCHANGED setting

UartSpec == UartInit /\ [][UartNext]_uartVars

----------------------------------------------------------------------------
\* The clocks agree well enough: wherever in its own cycle the receiver first
\* sees the start bit, it looks at each of the ten bits while that bit lasts.
\* It has let go of noise when the noise is over, before a byte may begin.
Tolerant(link) ==
  LET bit(k) == k * (link.div * link.txPeriod)    \* begin of bit k
      look(k) == (link.div \div 2 + k * link.div) * link.rxPeriod
  IN /\ \A k \in 0 .. 9 : /\ bit(k) < look(k) + link.rxPeriod
                           /\ look(k) + 2 * link.rxPeriod < bit(k + 1)
     /\ link.noiseCycles > 0 =>
          /\ link.noiseCycles * link.txPeriod < look(0) + link.rxPeriod
          /\ look(0) + 2 * link.rxPeriod < (link.div \div 2 + 3) * link.txPeriod

\* Every byte the receiver reports is the next one of those sent (scope_uart
\* .sv 3-16): none is lost, made up by noise on the idle line or read with a
\* neighbour's bits, although the clocks drift apart for ten bits and nothing
\* but the falling edge of the start bit lines them up again.  A byte is on its
\* way no longer than its bits and the synchroniser take: at most the next one
\* has begun, and a quiet line has delivered all.
BytesArrive ==
  /\ delivered.valid => delivered.due # <<>> /\ delivered.data = Head(delivered.due)
  /\ Len(inFlight) <= 2
  /\ tx.bits = 0 /\ rx.st = "RX_IDLE" /\ level = 1 /\ sync = <<1, 1>> => inFlight = <<>>
=============================================================================
