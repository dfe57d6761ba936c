--------------------------- MODULE ScopeRleBench ---------------------------
(***************************************************************************)
(* sim/tb_rle.sv: rle_encode and rle_decode of sim/model/scope_ref.py are  *)
(* the reference of the RTL encoder and of the host's decoder.  The bench  *)
(* presents samples without triggers, with gaps between them, encoding     *)
(* enabled or bypassed from reset on, and may flush once at the end.       *)
(***************************************************************************)
EXTENDS ScopeRleProperties

VARIABLE stage    \* of the bench: "streaming", "flushed" or, elsewhere, "off"

benchVars == <<rleVars, stage>>

GoldenData(v) == DataWord([value |-> v, trig |-> FALSE])

----------------------------------------------------------------------------
\* How many samples after the i-th repeat it.
RepeatsAfter(samples, i) ==
  CHOOSE r \in 0 .. Len(samples) - i :
    /\ \A j \in i + 1 .. i + r : samples[j] = samples[i]
    /\ i + r < Len(samples) => samples[i + r + 1] # samples[i]

\* A defect the checks must notice: the rest behind the full count words
\* forgotten.
CountsFullOnly(r) == [j \in 1 .. r \div MaxRun |-> CountWord(MaxRun)]

\* The count words for r repeats: full ones and the rest.
Counts(r) ==
  [j \in 1 .. (r + MaxRun - 1) \div MaxRun |->
     CountWord(IF j * MaxRun <= r THEN MaxRun ELSE r % MaxRun)]

\* rle_encode: a data word and its count words for each run.
RleEncode(samples) ==
  LET from[i \in 1 .. Len(samples) + 1] ==
        IF i > Len(samples) THEN <<>>
        ELSE LET r == RepeatsAfter(samples, i)
             IN <<GoldenData(samples[i])>> \o Counts(r) \o from[i + r + 1]
  IN from[1]

\* rle_decode: a count word repeats the current value, which is None before
\* the first data word.
RleDecode(words) ==
  LET value[i \in 0 .. Len(words)] ==
        IF i = 0 THEN "None"
        ELSE IF words[i].isCount THEN value[i - 1] ELSE words[i].value
      samples[i \in 0 .. Len(words)] ==
        IF i = 0 THEN <<>>
        ELSE samples[i - 1] \o
               [j \in 1 .. (IF words[i].isCount THEN words[i].value ELSE 1) |-> value[i]]
  IN samples[Len(words)]

----------------------------------------------------------------------------
BenchInit ==
  /\ enable \in BOOLEAN
  /\ havePrev = FALSE /\ prev \in Values /\ acc = 0
  /\ pend = <<>> /\ raw = <<>> /\ out = <<>> /\ mark = 0
  /\ stage = "streaming"

\* run_stream: samples and gaps, then the flush and the cycles that drain it.
BenchNext ==
  \/ /\ stage = "streaming"
     /\ \E s \in Samples : ~s.trig /\ Sample(s)
     /\ UNCHANGED stage
  \/ stage = "streaming" /\ Flush /\ stage' = "flushed"
  \/ Gap /\ UNCHANGED stage

BenchSpec == BenchInit /\ [][BenchNext]_benchVars

----------------------------------------------------------------------------
\* What the encoder has emitted, holds back and owes are always the words
\* rle_encode gives for the samples so far; in bypass, one data word each
\* (tb_rle.sv 81-106).  So the flush completes exactly the golden stream.
WordsAreGolden ==
  LET owed == IF enable /\ acc # 0 THEN <<CountWord(acc)>> ELSE <<>>
  IN out \o pend \o owed =
       IF enable THEN RleEncode(Plain(raw))
       ELSE [i \in DOMAIN raw |-> GoldenData(raw[i].value)]

\* decode(encode(x)) = x for the reference decoder, and the host's decoder
\* agrees with it on every complete stream (rle_selftest; rle.py 15-19);
\* there are never more words than samples (scope_ref.py 456-457).
DecodersInvertEncode ==
  LET words == RleEncode(Plain(raw))
  IN /\ RleDecode(words) = Plain(raw) /\ Plain(Decode(words)) = Plain(raw)
     /\ Len(words) <= Len(raw)

\* In the bench the RTL's words are the golden model's, and both decoders
\* invert the golden encoder (sim/tb_rle.sv 81-106).
BenchAgrees == stage # "off" => WordsAreGolden /\ DecodersInvertEncode
=============================================================================
