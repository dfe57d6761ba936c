------------------------- MODULE ScopeRleProperties -------------------------
(***************************************************************************)
(* What the host can rely on when it decodes stored words.  A capture      *)
(* starts at an arm, some cycles after the last write of RLE_CTRL: what it *)
(* may store are the words after mark, beginning with any of them.         *)
(***************************************************************************)
EXTENDS ScopeRle, SequencesExt

\* What one word adds: a data word is a sample, a count word repeats the last
\* one, and counts before any data are skipped.  The trigger tags are decoded
\* along.
Expand(samples, w) ==
  IF ~w.isCount THEN Append(samples, [value |-> w.value, trig |-> w.trig])
  ELSE IF samples = <<>> THEN <<>>
  ELSE samples \o [i \in 1 .. w.value |-> [value |-> Last(samples).value, trig |-> w.trig]]

\* rle_decode_words of host/fpgapa_scope/rle.py: word by word.
Decode(words) ==
  LET samples[i \in 0 .. Len(words)] ==
        IF i = 0 THEN <<>> ELSE Expand(samples[i - 1], words[i])
  IN samples[Len(words)]

\* The words a capture that began with word i has stored or will store of
\* the samples consumed so far.
Since(i) ==
  SubSeq(out, i, Len(out)) \o pend \o
  (IF enable /\ acc # 0 THEN <<CountWord(acc)>> ELSE <<>>)

Plain(samples) == [i \in DOMAIN samples |-> samples[i].value]

----------------------------------------------------------------------------
\* Types; acc stays below the saturation value, the skid holds one word.
RleTypeOK ==
  /\ enable \in BOOLEAN /\ havePrev \in BOOLEAN
  /\ prev \in Values
  /\ acc \in 0 .. MaxRun - 1
  /\ pend \in Seq(Words) /\ Len(pend) <= 1
  /\ raw \in Seq(Samples) /\ out \in Seq(Words)
  /\ mark \in Nat

\* Whatever sample comes next, the words in the skid and the words it
\* produces are at most two: one is emitted, one waits, none is lost
\* (scope_rle.sv 118-149).
SkidNeverOverflows == \A s \in Samples : Len(pend) + Len(Produced(s)) <= 2

\* Encoding never costs more words than samples, the word in the skid and the
\* run not yet emitted included (scope_rle.sv formal property (c)).
NeverExpands ==
  Len(out) + Len(pend) + (IF acc # 0 THEN 1 ELSE 0) <= Len(raw)

\* A capture may begin with any word, even in the middle of a run, and stop
\* after any other: what the host decodes of it is a stretch of consecutive
\* raw samples up to the newest one, each with the trigger flag it went in
\* with, so the word the core takes as trigger decodes to the trigger sample.
Lossless ==
  \A i \in mark + 1 .. Len(out) + 1 : IsSuffix(Decode(Since(i)), raw)

----------------------------------------------------------------------------
\* A word waits in the skid only if no repeat is outstanding, because each
\* repeat is a cycle that produces no word and so drains the skid.
SkidExcludesRun == pend # <<>> => acc = 0

\* The inductive invariant of the encoder.
RleIInv == RleTypeOK /\ SkidExcludesRun /\ NeverExpands
=============================================================================
