------------------------------ MODULE ScopeRle ------------------------------
(***************************************************************************)
(* rtl/scope_rle.sv: the run-length encoder between the trigger and the    *)
(* capture core.  One step is one clock edge, on which the encoder consumes *)
(* at most one sample and emits at most one word; a second word produced   *)
(* in the same cycle waits in a skid of one place.  RLE_CTRL of            *)
(* rtl/scope_csr.sv switches between encoding and bypass while the core is *)
(* idle, without resetting the encoder.                                    *)
(***************************************************************************)
EXTENDS Integers, Sequences

CONSTANTS
  ProbeW,      \* bits of a sample, PROBE_W
  Values,      \* sample values
  MaxRun,      \* longest run of repeats one count word carries, 2^CNT_W - 1
  MaxSamples   \* bounds the history of a behaviour

ASSUME MaxRunAssumption == MaxRun \in Nat \ {0}
\* A count is extended with zeros to the bits of a sample; with CNT_W > PROBE_W
\* count_word does not elaborate, its repetition being negative.
ASSUME WidthAssumption == ProbeW \in Nat /\ MaxRun < 2 ^ ProbeW
ASSUME MaxSamplesAssumption == MaxSamples \in Nat
ASSUME ValuesAssumption == Values # {}

VARIABLES
  enable,             \* RLE_CTRL[0]
  havePrev, prev,     \* a sample was encoded, and the last one's value
  acc,                \* its repeats not yet emitted
  pend,               \* the skid: no word or one
  raw,                \* history: the samples consumed, with their trigger flag
  out,                \* history: the words emitted, with their trigger tag
  mark                \* history: words emitted or pending when enable changed

runState == <<havePrev, prev, acc>>
rleVars  == <<enable, runState, pend, raw, out, mark>>

Samples == [value : Values, trig : BOOLEAN]
Words   ==
  [isCount : {FALSE}, value : Values, trig : BOOLEAN]
    \cup [isCount : {TRUE}, value : 1 .. MaxRun, trig : {FALSE}]

DataWord(s)  == [isCount |-> FALSE, value |-> s.value, trig |-> s.trig]
CountWord(n) == [isCount |-> TRUE, value |-> n, trig |-> FALSE]

----------------------------------------------------------------------------
\* The trigger sample is never taken as a repeat.
Repeats(s) == havePrev /\ s.value = prev /\ ~s.trig

\* Defects the checks must notice: a count word for an empty run; the tag
\* moved to the word emitted first.
ProducedEmptyRuns(s) ==
  IF ~enable \/ ~havePrev THEN <<DataWord(s)>>
  ELSE IF ~Repeats(s) THEN <<CountWord(acc), DataWord(s)>>
  ELSE IF acc = MaxRun - 1 THEN <<CountWord(MaxRun)>> ELSE <<>>
ProducedLateTag(s) ==
  IF ~enable \/ ~havePrev THEN <<DataWord(s)>>
  ELSE IF ~Repeats(s)
       THEN IF acc = 0 THEN <<DataWord(s)>>
            ELSE <<[CountWord(acc) EXCEPT !.trig = s.trig],
                   [DataWord(s) EXCEPT !.trig = FALSE]>>
  ELSE IF acc = MaxRun - 1 THEN <<CountWord(MaxRun)>> ELSE <<>>

\* The words sample s produces.
Produced(s) ==
  IF ~enable \/ ~havePrev THEN <<DataWord(s)>>
  ELSE IF ~Repeats(s)
       THEN IF acc = 0 THEN <<DataWord(s)>> ELSE <<CountWord(acc), DataWord(s)>>
  ELSE IF acc = MaxRun - 1 THEN <<CountWord(MaxRun)>> ELSE <<>>

\* Bypass leaves the run state as it is.
Follow(s) ==
  IF enable
  THEN /\ havePrev' = TRUE
       /\ prev' = IF Repeats(s) THEN prev ELSE s.value
       /\ acc' = IF ~Repeats(s) \/ acc = MaxRun - 1 THEN 0 ELSE acc + 1
  ELSE UNCHANGED runState

\* The oldest word is emitted, the next one waits; there is no third place.
Emit(produced) ==
  LET queue == pend \o produced
  IN /\ out' = IF queue = <<>> THEN out ELSE Append(out, queue[1])
     /\ pend' = IF Len(queue) < 2 THEN <<>> ELSE <<queue[2]>>

----------------------------------------------------------------------------
RleInit ==
  /\ enable = FALSE
  /\ havePrev = FALSE /\ prev \in Values /\ acc = 0
  /\ pend = <<>> /\ raw = <<>> /\ out = <<>> /\ mark = 0

RleReset ==
  /\ enable' = FALSE
  /\ havePrev' = FALSE /\ prev' = prev /\ acc' = 0
  /\ pend' = <<>> /\ raw' = <<>> /\ out' = <<>> /\ mark' = 0

\* in_valid: sample s is consumed.
Sample(s) ==
  /\ Len(raw) < MaxSamples
  /\ Follow(s) /\ Emit(Produced(s))
  /\ raw' = Append(raw, s)
  /\ UNCHANGED <<enable, mark>>

\* flush between two samples ends the current run.
Flush ==
  /\ Emit(IF enable /\ acc # 0 THEN <<CountWord(acc)>> ELSE <<>>)
  /\ acc' = IF enable THEN 0 ELSE acc
  /\ UNCHANGED <<enable, havePrev, prev, raw, mark>>

\* A cycle without a sample drains the skid.
Gap == Emit(<<>>) /\ UNCHANGED <<enable, runState, raw, mark>>

\* A write of RLE_CTRL, between two clock edges of the encoder.
Switch ==
  /\ enable' = ~enable
  /\ mark' = Len(out) + Len(pend)
  /\ UNCHANGED <<runState, pend, raw, out>>

RleNext == RleReset \/ (\E s \in Samples : Sample(s)) \/ Flush \/ Gap \/ Switch

RleSpec == RleInit /\ [][RleNext]_rleVars
=============================================================================
